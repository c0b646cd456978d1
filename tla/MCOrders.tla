------------------------------ MODULE MCOrders ------------------------------
(* The orders of ClobOrders over every price of one, two and three decimals *)
(* below a dollar and requests up to about twelve shares.                   *)
EXTENDS ClobOrders, FiniteSetsExt

LOCAL Prices ==
  {[n |-> n, scale |-> 2] : n \in {1, 2, 5, 7, 30, 33, 50, 64, 97, 99}} \union
  {[n |-> n, scale |-> 3] : n \in {1, 8, 125, 333, 984, 995}} \union {[n |-> 5, scale |-> 1]}
LOCAL Requests == {1, 4, 5, 6, 15, 25, 999, 1000, 1005, 1015, 2267, 10000, 12345, 22670}
LOCAL Answers ==
  [success : BOOLEAN, status : {"Matched", "Delayed", "Live", "Unmatched"}, taking : {0, 40, 250}]

\* The size of an order is the largest that was asked for whose cost is whole cents
\* (clob_executor.rs:83), never the next one up.
ASSUME LargestWholeCents ==
  \A p \in Prices, s \in 0 .. 1300 :
    LET a == adjust_size_for_cost_precision(p, s) IN
    /\ a <= s /\ WholeCents(p, a)
    /\ \A t \in (a + 1) .. s : ~WholeCents(p, t)

\* The least size of a dollar is the least whole-cent size that costs one, up to fifty
\* shares.
ASSUME LeastOfADollar ==
  \A p \in Prices :
    LET fit == {s \in 1 .. 5000 : OneDollar(p, s) /\ WholeCents(p, s)} IN
    min_cost_adjusted_size(p) = IF fit = {} THEN 0 ELSE Min(fit)

\* Raising a post-only purchase to a dollar never does anything: a valid size below a
\* dollar is below the least valid one of a dollar.
ASSUME BumpNeverHelps ==
  \A p \in Prices, r \in Requests : buy_limit_post_only(p, r) = buy_fok(p, r)

\* A request is exceeded by less than the half hundredth of its rounding, sales too:
\* of 10.015 shares held 10.02 are offered.
ASSUME WithinTheLot ==
  \A p \in Prices, r \in Requests :
    /\ 10 * buy_fok(p, r).size <= r + 5
    /\ 10 * sell_fok(p, r).size <= r + 5
    /\ \E q \in Requests : 10 * sell_fok([n |-> 5, scale |-> 1], q).size > q

\* No purchase below a dollar is posted, and nothing is told as filled beyond what was
\* posted, unless the exchange took more than the order's cost.
ASSUME FilledWithinPosted ==
  \A p \in Prices, r \in Requests, a \in Answers, side \in {"Buy", "Sell"} :
    LET posted == IF side = "Buy" THEN buy_fok(p, r) ELSE sell_fok(p, r)
        told == execute_directional_buy(side, p, r, a)
    IN /\ posted.status = "Posted" /\ side = "Buy" => OneDollar(p, posted.size)
       /\ told.status = "Success" => told.filled = posted.size
       /\ told.filled > 0 => a.success /\ posted.status = "Posted"
       /\ a.taking * Denom(p) <= p.n * posted.size => told.filled <= posted.size
=============================================================================
