---------------------------- MODULE MCMarketFeed ----------------------------
(* Instances of MarketFeed: two tokens, two subscriptions.                   *)
EXTENDS MarketFeed, TLC, MCSnapshots

CONSTANTS t1, t2

TokenSymmetry == Permutations({t1, t2})

=============================================================================
