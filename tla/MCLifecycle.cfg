SPECIFICATION Spec
CONSTANTS
  a1 = a1
  a2 = a2
  safe = safe
  own = own
  nr = nr
  std = std
  Accounts = {a1}
  Wallets = {safe}
  Markets = {nr, std}
  NegRisk = {nr}
  SigType <- MCSigType
  Holder <- MCHolder
  Eoa <- MCHolder
  Owners = {a1}
  Initial <- MCInitial
  Garbled = {}
  Wrapped = FALSE
  resolved_accounts <- MCOne
  WithEngine = {a1}
  MaxStarts = 2
INVARIANTS WholeOrNothing
PROPERTIES Redeems
CHECK_DEADLOCK FALSE
