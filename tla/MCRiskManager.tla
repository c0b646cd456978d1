---------------------------- MODULE MCRiskManager ----------------------------
(* Instances of RiskManager: which strategy trades what, and what is held.   *)
EXTENDS RiskManager

CONSTANTS m1, m2, m3, Weather, Crypto

Nothing == [t \in Tokens |-> 0]
OneYes == [t \in Tokens |-> IF t = <<m1, "Yes">> THEN 1 ELSE 0]

Untagged == [t \in Tokens |-> None]
AllWeather == [t \in Tokens |-> Weather]

\* No market is traded by two strategies; Weather may choose between two.
Disjoint ==
  [s \in Strategies |->
     {t \in Tokens : MarketOf(t) \in (IF s = Weather THEN Markets \ {m3} ELSE {m3})}]

\* Every strategy in every token.
Shared == [s \in Strategies |-> Tokens]

\* Only the YES token is traded, by every strategy.
SharedYes == [s \in Strategies |-> {t \in Tokens : t[2] = "Yes"}]

\* Liquidity rewards quotes NO, the other strategies trade YES.
Apart ==
  [s \in Strategies |-> {t \in Tokens : t[2] = (IF s = LR THEN "No" ELSE "Yes")}]

=============================================================================
