---------------------------- MODULE MCSmartMoney ----------------------------
(* Instances of SmartMoney: one token, one or two leaders, a few shares.     *)
EXTENDS SmartMoney

CONSTANTS w1, w2, t1

LowAndHigh == {1, 2}
OnePrice == {2}

=============================================================================
