CONSTANTS
  Tokens = {t1, t2}
  MaxInstruments = 1
  MaxFeeds = 2
  t1 = t1
  t2 = t2
SPECIFICATION FeedSpec
INVARIANTS FeedTypeOK ConnectedMeansDelivering OneLiveFeed
PROPERTIES CancelledEnd SilentReopened HeldKept SeedsOnlyNew
