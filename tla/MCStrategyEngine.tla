-------------------------- MODULE MCStrategyEngine --------------------------
(* Instances of StrategyEngine: events, durations in ticks, what is proposed. *)
EXTENDS StrategyEngine, MCPreparation

CONSTANTS m1, m2, m3, e1

\* Two markets of one event, one of none.
SharedEvent == [m \in Markets |-> IF m \in {m1, m2} THEN e1 ELSE None]
NoEvents == [m \in Markets |-> None]

Buy(m, s) == [market |-> m, strategy |-> s, exit |-> FALSE, cost |-> 1]
Sell(m, s) == [market |-> m, strategy |-> s, exit |-> TRUE, cost |-> 0]

WeatherOnly == <<Weather>>
CryptoOnly == <<CryptoAlpha>>
Both == <<CryptoAlpha, Weather>>

NoBatches == {{}}

\* Nothing, or weather buys of every market.
WeatherBatches == {{}, {Buy(m, Weather) : m \in Markets}}

\* Crypto trades both sides of m1: two opportunities of one key.
CryptoBatches ==
  {{}, {Buy(m1, CryptoAlpha), Sell(m1, CryptoAlpha)}, {Buy(m, CryptoAlpha) : m \in Markets}}

BothBatches ==
  {{}, {Buy(m1, CryptoAlpha), Buy(m2, CryptoAlpha)},
   {Buy(m, Weather) : m \in Markets}, {Sell(m1, Weather)}}

\* Durations in order, in few ticks.
Ticks ==
  [r \in Reasons |->
     IF r \in {"reject", "filled", "freshness", "depth", "other", "noFill", "budget"}
       THEN 1
     ELSE IF r = "gone" THEN 3 ELSE 2]

OneTick == [r \in Reasons |-> 1]

Losing ==
  [below |-> TRUE, askHolds |-> FALSE, low |-> FALSE, counterLow |-> FALSE, small |-> FALSE]
AnyQuote ==
  {Losing, [Losing EXCEPT !.below = FALSE], [Losing EXCEPT !.counterLow = TRUE],
   [Losing EXCEPT !.small = TRUE]}
OnlyLosing == {Losing}

NothingHeld == [m \in {} |-> None]
HeldByCrypto == [m \in {m1} |-> CryptoAlpha]
HeldUntagged == [m \in {m1} |-> None]

=============================================================================
