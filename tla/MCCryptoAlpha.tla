---------------------------- MODULE MCCryptoAlpha ----------------------------
(* Instances of CryptoAlpha: two markets, of which one token each is traded.  *)
EXTENDS CryptoAlpha, MCCryptoRules

CONSTANTS m1, m2, yes1, yes2

OneEach == (m1 :> {yes1} @@ m2 :> {yes2})
Singles == {{m} : m \in Markets}
Mixed == [m \in Markets |-> IF m = m1 THEN "range" ELSE "binary"]
Binaries == [m \in Markets |-> "binary"]
Today == [m \in Markets |-> 0]

AllUp == [t \in Tokens |-> "Up"]
UpAndDown == [t \in Tokens |-> IF t = yes2 THEN "Down" ELSE "Up"]

BothBid == [t \in Tokens |-> {2, 3, 4}]
OneBids == [t \in Tokens |-> IF t = yes1 THEN {2, 3, 4} ELSE {}]
=============================================================================
