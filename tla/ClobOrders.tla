----------------------------- MODULE ClobOrders -----------------------------
(***************************************************************************)
(* How an order is cut to what the exchange takes, and what its answer is  *)
(* taken for.  A price is n / 10^scale dollars, given as [n, scale]; sizes  *)
(* are in hundredths of a share, requests in thousandths.  The cost of an  *)
(* order must be whole cents and a purchase at least a dollar.             *)
(***************************************************************************)
EXTENDS Integers

Rejected == "Rejected"
NoOrder == [error |-> TRUE, size |-> 0, status |-> Rejected]
Denom(price) == 10 ^ price.scale

\* round_dp(2) of a request: half goes to the even neighbour.
round_dp2(request) ==
  LET s == request \div 10  r == request % 10 IN
  IF r > 5 \/ (r = 5 /\ s % 2 = 1) THEN s + 1 ELSE s

\* Euclid's remainders, as a function on pairs.
gcd(a, b) ==
  LET g[x \in 0 .. (IF a > b THEN a ELSE b), y \in 0 .. (IF a > b THEN a ELSE b)] ==
        IF y = 0 THEN x ELSE g[y, x % y]
  IN g[a, b]

\* Valid sizes are the multiples of a step.
cost_precision_step(price) == IF price.n = 0 THEN 1 ELSE Denom(price) \div gcd(price.n, Denom(price))

\* The cost of s hundredths, in units of 1 / (100 * Denom) dollars; and whether it is
\* whole cents, or at least a dollar.
Cost(price, s) == price.n * s
WholeCents(price, s) == Cost(price, s) % Denom(price) = 0
OneDollar(price, s) == Cost(price, s) >= 100 * Denom(price)

adjust_size_for_cost_precision(price, s) ==
  IF WholeCents(price, s) THEN s
  ELSE LET step == cost_precision_step(price) IN IF s < step THEN 0 ELSE (s \div step) * step

RoundUp(x, step) == ((x + step - 1) \div step) * step
min_cost_adjusted_size(price) ==
  IF price.n = 0 THEN 0
  ELSE LET min_s == (100 * Denom(price) + price.n - 1) \div price.n
           s == RoundUp(min_s, cost_precision_step(price))
       IN IF s > 5000 THEN 0 ELSE s

\* What the answer to a posted order says of it.  A post-only order that rests is a
\* partial fill of what was taken at once.
parse_response(answer, price, s) ==
  LET status ==
        IF ~answer.success THEN Rejected
        ELSE CASE answer.status \in {"Matched", "Delayed"} -> "Filled"
               [] answer.status = "Live" -> "PartialFill"
               [] OTHER -> "NoFill"
  IN [status |-> status,
      posted |-> s,
      filled |-> CASE status = "Filled" -> s
                   [] status = "PartialFill" /\ answer.taking > 0 /\ price.n > 0 ->
                        (answer.taking * Denom(price)) \div price.n  \* taking in cents
                   [] OTHER -> 0]

\* What is posted for a request, or refused before: an error, or a rejection.
Posted(s) == [error |-> FALSE, size |-> s, status |-> "Posted"]
Refused(s) == [error |-> FALSE, size |-> s, status |-> Rejected]
buy_fok(price, request) ==
  LET s == adjust_size_for_cost_precision(price, round_dp2(request)) IN
  IF s = 0 THEN NoOrder ELSE IF OneDollar(price, s) THEN Posted(s) ELSE Refused(s)
sell_fok(price, request) ==
  LET s == adjust_size_for_cost_precision(price, round_dp2(request)) IN
  IF s = 0 THEN NoOrder ELSE Posted(s)
buy_limit_post_only(price, request) ==
  LET s == adjust_size_for_cost_precision(price, round_dp2(request))
      least == min_cost_adjusted_size(price)
      bumped == IF ~OneDollar(price, s) /\ least > 0 /\ least <= s THEN least ELSE s
  IN IF s = 0 THEN NoOrder ELSE IF OneDollar(price, bumped) THEN Posted(bumped) ELSE Refused(bumped)
sell_limit_post_only(price, request) == sell_fok(price, request)

\* What the engine is told; posting may fail, with the order accepted or not.
execute_directional_buy(side, price, request, answer) ==
  LET order == IF side = "Buy" THEN buy_fok(price, request) ELSE sell_fok(price, request)
      result == parse_response(answer, price, order.size)
  IN CASE order.error -> [status |-> "OrderFailed", filled |-> 0]
       [] ~order.error /\ order.status = Rejected -> [status |-> "NoFill", filled |-> 0]
       [] OTHER -> [status |-> CASE result.status = "Filled" -> "Success"
                                 [] result.status = "PartialFill" -> "PartialFill"
                                 [] OTHER -> "NoFill",
                    filled |-> result.filled]

\* A listed order as the rewards task reads it.
get_orders_by_market(pages) ==
  UNION {{[id |-> o.id, is_matched |-> o.status \in {"Matched", "Delayed"},
           is_buy |-> o.side = "Buy", size_matched |-> o.size_matched] : o \in page} :
         page \in pages}
=============================================================================
