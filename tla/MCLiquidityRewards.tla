------------------------- MODULE MCLiquidityRewards -------------------------
(* Instances of LiquidityRewards: few markets, small sizes.                  *)
EXTENDS LiquidityRewards

CONSTANTS m1, m2

BothSides == [m \in Markets |-> <<"Yes", "No">>]
YesOnly == [m \in Markets |-> <<"Yes">>]
\* Both tokens of m1, YES of the others.
Mixed == [m \in Markets |-> IF m = m1 THEN <<"Yes", "No">> ELSE <<"Yes">>]

\* Bid 0.50 of a dollar of two ticks.
OneQuote == {[bid |-> 1, ask |-> 2]}
\* Bid 0.80, ask 0.90, with ten ticks to the dollar.
HighQuote == {[bid |-> 8, ask |-> 9]}

AnyLot == [p \in 1 .. 9 |-> 1]

AllMarkets == {Markets}
AnyMarkets == SUBSET Markets

=============================================================================
