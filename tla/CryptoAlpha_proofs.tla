------------------------- MODULE CryptoAlpha_proofs -------------------------
(***************************************************************************)
(* Proofs about CryptoAlpha for every set of markets, every cap, window,   *)
(* cooldown and number of confirmations: the cap on what is held in a      *)
(* direction, and what an edge-decay exit requires of the readings and of  *)
(* the exits before it.                                                    *)
(***************************************************************************)
EXTENDS CryptoAlpha, FiniteSetTheorems, SequenceTheorems, WellFoundedInduction, TLAPS

-----------------------------------------------------------------------------
(* Exposure.  SumFunctionOnSet takes the tokens in the order of CHOOSE,    *)
(* whatever they cost; so two sums over one set are compared token by      *)
(* token, once the function of their partial sums is known to exist.       *)

Taken(s) == CHOOSE x \in s : TRUE

SumStep(f, g, s) == IF s = {} THEN 0 ELSE f[Taken(s)] + g[s \ {Taken(s)}]

ArePartialSums(g, f, S) == g = [s \in SUBSET S |-> SumStep(f, g, s)]

PartialSums(f, S) == CHOOSE g : ArePartialSums(g, f, S)

LEMMA SumUnfolds ==
  ASSUME NEW f, NEW S
  PROVE  SumFunctionOnSet(f, S) = PartialSums(f, S)[S]
  BY Zenon DEF SumFunctionOnSet, FoldFunctionOnSet, MapThenFoldSet, PartialSums,
               ArePartialSums, SumStep, Taken

\* Of some subsets of a finite set one contains no other.
LEMMA LeastSubset ==
  ASSUME NEW S, IsFiniteSet(S), NEW T \in SUBSET SUBSET S, T # {}
  PROVE  \E s \in T : \A u \in T : u \subseteq s => u = s
<1>1. IsWellFoundedOn(StrictSubsetOrdering(S), SUBSET S)
  <2>1. FiniteSubsetsOf(S) = SUBSET S
    BY FS_FiniteSubsetsOfFinite
  <2>2. QED
    BY <2>1, FS_StrictSubsetOrderingWellFounded
<1>2. PICK s \in T : \A u \in T : ~ (<<u, s>> \in StrictSubsetOrdering(S))
  BY <1>1, WFMin
<1>3. QED
  BY <1>2 DEF StrictSubsetOrdering

LEMMA TakenIn ==
  ASSUME NEW s, s # {}
  PROVE  Taken(s) \in s /\ s \ {Taken(s)} \subseteq s /\ s \ {Taken(s)} # s
<1>1. Taken(s) \in s
  BY DEF Taken
<1>2. QED
  BY <1>1

LEMMA PartialSumsAgree ==
  ASSUME NEW f, NEW g, NEW h, NEW U, IsFiniteSet(U), ArePartialSums(g, f, U),
         NEW W, ArePartialSums(h, f, W)
  PROVE  \A s \in (SUBSET U) \cap (SUBSET W) : g[s] = h[s]
<1> DEFINE Bad == {s \in (SUBSET U) \cap (SUBSET W) : g[s] # h[s]}
<1>1. SUFFICES ASSUME Bad # {} PROVE FALSE
  OBVIOUS
<1>2. PICK s \in Bad : \A u \in Bad : u \subseteq s => u = s
  <2>1. Bad \in SUBSET SUBSET U
    OBVIOUS
  <2> HIDE DEF Bad
  <2>2. QED
    BY <1>1, <2>1, LeastSubset
<1>3. s \in SUBSET U /\ s \in SUBSET W /\ g[s] # h[s]
  BY <1>2
<1>4. g[s] = SumStep(f, g, s) /\ h[s] = SumStep(f, h, s)
  BY <1>3 DEF ArePartialSums
<1>5. s # {}
  BY <1>3, <1>4 DEF SumStep
<1>6. g[s \ {Taken(s)}] = h[s \ {Taken(s)}]
  BY <1>2, <1>3, <1>5, TakenIn
<1>7. QED
  BY <1>3, <1>4, <1>5, <1>6 DEF SumStep

LEMMA PartialSumsExist ==
  ASSUME NEW f, NEW S, IsFiniteSet(S)
  PROVE  ArePartialSums(PartialSums(f, S), f, S)
<1> DEFINE Bad == {T \in SUBSET S : ~ ArePartialSums(PartialSums(f, T), f, T)}
<1>1. SUFFICES ASSUME Bad # {} PROVE FALSE
  OBVIOUS
<1>2. PICK T \in Bad : \A u \in Bad : u \subseteq T => u = T
  <2>1. Bad \in SUBSET SUBSET S
    OBVIOUS
  <2> HIDE DEF Bad
  <2>2. QED
    BY <1>1, <2>1, LeastSubset
<1>3. T \in SUBSET S /\ ~ \E g : ArePartialSums(g, f, T)
  BY <1>2 DEF PartialSums
<1>4. \A u \in SUBSET T : u # T => ArePartialSums(PartialSums(f, u), f, u)
  BY <1>2, <1>3
<1> DEFINE value(s) == PartialSums(f, s)[s]
           g == [s \in SUBSET T |->
                   IF s = {} THEN 0 ELSE f[Taken(s)] + value(s \ {Taken(s)})]
<1>5. ASSUME NEW s \in SUBSET T, s # T PROVE g[s] = value(s)
  <2>1. value(s) = SumStep(f, PartialSums(f, s), s)
    <3> DEFINE p == PartialSums(f, s)
    <3>1. ArePartialSums(p, f, s)
      BY <1>4, <1>5
    <3> HIDE DEF p
    <3>2. p[s] = SumStep(f, p, s)
      BY <3>1 DEF ArePartialSums
    <3>3. QED
      BY <3>2 DEF p
  <2>2. CASE s = {}
    BY <2>1, <2>2 DEF SumStep
  <2>3. CASE s # {}
    <3> DEFINE r == s \ {Taken(s)}
               a == PartialSums(f, r)
               b == PartialSums(f, s)
    <3>1. r \in SUBSET T /\ r # T /\ r \in SUBSET s /\ IsFiniteSet(r)
      BY <1>3, <1>5, <2>3, TakenIn, FS_Subset
    <3>2. ArePartialSums(a, f, r) /\ ArePartialSums(b, f, s)
      BY <1>4, <1>5, <3>1
    <3>3. a[r] = b[r]
      <4> HIDE DEF a, b, r
      <4>1. \A z \in (SUBSET r) \cap (SUBSET s) : a[z] = b[z]
        BY <3>1, <3>2, PartialSumsAgree
      <4>2. QED
        BY <3>1, <4>1
    <3>4. g[s] = f[Taken(s)] + a[r]
      BY <2>3
    <3>5. value(s) = f[Taken(s)] + b[r]
      BY <2>1, <2>3 DEF SumStep
    <3>6. QED
      BY <3>3, <3>4, <3>5
  <2>4. QED
    BY <2>2, <2>3
<1>6. ASSUME NEW s \in SUBSET T PROVE g[s] = SumStep(f, g, s)
  <2>1. CASE s = {}
    BY <2>1 DEF SumStep
  <2>2. CASE s # {}
    <3> DEFINE r == s \ {Taken(s)}
    <3>1. g[r] = value(r)
      BY <1>5, <2>2, TakenIn
    <3>2. g[s] = f[Taken(s)] + value(r)
      BY <2>2
    <3> HIDE DEF g, value
    <3>3. QED
      BY <2>2, <3>1, <3>2 DEF SumStep
  <2>3. QED
    BY <2>1, <2>2
<1>7. ArePartialSums(g, f, T)
  <2>1. g = [s \in SUBSET T |-> g[s]]
    OBVIOUS
  <2> HIDE DEF g
  <2>2. QED
    BY <1>6, <2>1 DEF ArePartialSums
<1>8. QED
  BY <1>3, <1>7

\* A sum in which one term grows, and no other, grows by no more.
LEMMA SumGrows ==
  ASSUME NEW f, NEW g, NEW S, IsFiniteSet(S), NEW c, NEW d \in Nat,
         \A x \in S : f[x] \in Nat /\ g[x] \in Nat,
         \A x \in S : x # c => g[x] <= f[x],
         c \in S => g[c] <= f[c] + d
  PROVE  /\ SumFunctionOnSet(f, S) \in Nat /\ SumFunctionOnSet(g, S) \in Nat
         /\ SumFunctionOnSet(g, S) <= SumFunctionOnSet(f, S) + (IF c \in S THEN d ELSE 0)
<1> DEFINE p == PartialSums(f, S)
           q == PartialSums(g, S)
           Good(s) == p[s] \in Nat /\ q[s] \in Nat /\ q[s] <= p[s] + (IF c \in s THEN d ELSE 0)
           Bad == {s \in SUBSET S : ~Good(s)}
<1>1. ArePartialSums(p, f, S) /\ ArePartialSums(q, g, S)
  BY PartialSumsExist
<1>2. SumFunctionOnSet(f, S) = p[S] /\ SumFunctionOnSet(g, S) = q[S]
  BY SumUnfolds
<1> HIDE DEF p, q
<1>3. CASE Bad = {}
  BY <1>2, <1>3
<1>4. CASE Bad # {}
  <2>1. PICK s \in Bad : \A u \in Bad : u \subseteq s => u = s
    <3>1. Bad \in SUBSET SUBSET S
      OBVIOUS
    <3> HIDE DEF Bad
    <3>2. QED
      BY <1>4, <3>1, LeastSubset
  <2>2. s \in SUBSET S /\ ~Good(s)
    BY <2>1
  <2>3. p[s] = SumStep(f, p, s) /\ q[s] = SumStep(g, q, s)
    BY <1>1, <2>2 DEF ArePartialSums
  <2>4. s # {}
    <3>1. SUFFICES ASSUME s = {} PROVE FALSE
      OBVIOUS
    <3>2. p[s] = 0 /\ q[s] = 0
      BY <2>3, <3>1 DEF SumStep
    <3>3. QED
      BY <2>2, <3>2
  <2> DEFINE x == Taken(s)
             r == s \ {x}
  <2>5. x \in s /\ r \subseteq s /\ r # s
    BY <2>4, TakenIn
  <2>6. p[s] = f[x] + p[r] /\ q[s] = g[x] + q[r]
    BY <2>3, <2>4 DEF SumStep
  <2> HIDE DEF x
  <2>7. Good(r)
    BY <2>1, <2>2, <2>5
  <2>8. f[x] \in Nat /\ g[x] \in Nat
    BY <2>2, <2>5
  <2>9. CASE x = c
    <3>1. c \in s /\ c \notin r /\ g[x] <= f[x] + d
      BY <2>2, <2>5, <2>9
    <3> HIDE DEF r
    <3>2. QED
      BY <2>2, <2>6, <2>7, <2>8, <3>1
  <2>10. CASE x # c
    <3>1. (c \in s <=> c \in r) /\ g[x] <= f[x]
      BY <2>2, <2>5, <2>10
    <3> HIDE DEF r
    <3>2. QED
      BY <2>2, <2>6, <2>7, <2>8, <3>1
  <2>11. QED
    BY <2>9, <2>10
<1>5. QED
  BY <1>3, <1>4

LEMMA SumOfZeros ==
  ASSUME NEW f, NEW S, IsFiniteSet(S), \A x \in S : f[x] = 0
  PROVE  SumFunctionOnSet(f, S) = 0
<1> DEFINE p == PartialSums(f, S)
           Bad == {s \in SUBSET S : p[s] # 0}
<1>1. ArePartialSums(p, f, S) /\ SumFunctionOnSet(f, S) = p[S]
  BY PartialSumsExist, SumUnfolds
<1> HIDE DEF p
<1>2. CASE Bad = {}
  BY <1>1, <1>2
<1>3. CASE Bad # {}
  <2>1. PICK s \in Bad : \A u \in Bad : u \subseteq s => u = s
    <3>1. Bad \in SUBSET SUBSET S
      OBVIOUS
    <3> HIDE DEF Bad
    <3>2. QED
      BY <1>3, <3>1, LeastSubset
  <2>2. s \in SUBSET S /\ p[s] # 0
    BY <2>1
  <2>3. p[s] = SumStep(f, p, s)
    BY <1>1, <2>2 DEF ArePartialSums
  <2>4. s # {}
    BY <2>2, <2>3 DEF SumStep
  <2>5. Taken(s) \in S /\ p[s \ {Taken(s)}] = 0
    BY <2>1, <2>2, <2>4, TakenIn
  <2>6. QED
    BY <2>2, <2>3, <2>4, <2>5 DEF SumStep
<1>4. QED
  BY <1>2, <1>3

LEMMA SumIsNat ==
  ASSUME NEW f, NEW S, IsFiniteSet(S), \A x \in S : f[x] \in Nat
  PROVE  SumFunctionOnSet(f, S) \in Nat
<1>1. \A x \in S : f[x] <= f[x] /\ f[x] <= f[x] + 0
  OBVIOUS
<1>2. QED
  BY <1>1, SumGrows

-----------------------------------------------------------------------------
(* What an order does to the exposures *)

Holdings == pos \in [Tokens -> Nat] /\ avg_cost \in [Tokens -> Nat]

LEMMA CostType == Holdings => \A t \in Tokens : Cost[t] = pos[t] * avg_cost[t] /\ Cost[t] \in Nat
<1>1. \A a, b \in Nat : a * b \in Nat
  OBVIOUS
<1>2. QED
  BY <1>1 DEF Holdings, Cost

LEMMA InFinite == \A d : IsFiniteSet(TokensIn(d)) /\ TokensIn(d) \subseteq Tokens
<1>1. \A d : TokensIn(d) \subseteq Tokens
  BY DEF TokensIn
<1>2. QED
  BY <1>1, CryptoAssumption, FS_Subset

LEMMA ExposedType == Holdings => \A d \in Directions : Exposed(d) \in Nat
  BY CostType, InFinite, SumIsNat DEF Exposed

\* If one token costs more by n, only the exposure of its direction grows, by n.
LEMMA ExposureGrows ==
  ASSUME Holdings, Holdings', NEW c \in Tokens, NEW n \in Nat,
         \A t \in Tokens : t # c => Cost'[t] <= Cost[t],
         Cost'[c] <= Cost[c] + n
  PROVE  \A d \in Directions :
           /\ Exposed(d) \in Nat /\ Exposed(d)' \in Nat
           /\ Exposed(d)' <= Exposed(d) + (IF DirectionOf[c] = d THEN n ELSE 0)
<1> SUFFICES ASSUME NEW d \in Directions
             PROVE  /\ Exposed(d) \in Nat /\ Exposed(d)' \in Nat
                    /\ Exposed(d)' <= Exposed(d) + (IF DirectionOf[c] = d THEN n ELSE 0)
  OBVIOUS
<1> DEFINE S == TokensIn(d)
           f == Cost
           g == Cost'
<1>1. IsFiniteSet(S) /\ S \subseteq Tokens
  BY InFinite
<1>2. c \in S <=> DirectionOf[c] = d
  BY DEF TokensIn
<1>3. (Holdings => \A t \in Tokens : Cost[t] = pos[t] * avg_cost[t] /\ Cost[t] \in Nat)'
  BY CostType, PTL
<1>4. \A t \in S : f[t] \in Nat /\ g[t] \in Nat
  BY <1>1, <1>3, CostType
<1>5. (\A t \in S : t # c => g[t] <= f[t]) /\ (c \in S => g[c] <= f[c] + n)
  BY <1>1
<1>6. Exposed(d) = SumFunctionOnSet(f, S) /\ Exposed(d)' = SumFunctionOnSet(g, S)
  BY DEF Exposed, TokensIn
<1> HIDE DEF f, g, S
<1>7. QED
  BY <1>1, <1>2, <1>4, <1>5, <1>6, SumGrows

\* The average is rounded down: shares never cost more than was paid for them.
LEMMA AverageRoundsDown ==
  ASSUME NEW p \in Nat, NEW a \in Nat, NEW f \in Nat, NEW r \in Nat, p + f > 0
  PROVE  /\ (p * a + f * r) \div (p + f) \in Nat
         /\ (p + f) * ((p * a + f * r) \div (p + f)) <= p * a + f * r
<1>1. \A x \in Nat : \A n \in Nat : n > 0 => x \div n \in Nat /\ n * (x \div n) <= x
  OBVIOUS
<1>2. p * a + f * r \in Nat /\ p + f \in Nat
  <2>1. \A x, y \in Nat : x * y \in Nat
    OBVIOUS
  <2>2. QED
    BY <2>1
<1>3. QED
  BY <1>1, <1>2

LEMMA MaxOfTwo ==
  ASSUME NEW a \in Int, NEW b \in Int
  PROVE  Max({a, b}) = IF a >= b THEN a ELSE b
  BY DEF Max

\* A purchase adds at most what it pays, a sale nothing.
LEMMA OrderCosts ==
  ASSUME Holdings, NEW o, NEW filled \in Nat, Execute(o, filled),
         o.token \in Tokens, o.price \in Nat, o.side \in {"Buy", "Sell"}
  PROVE  /\ Holdings'
         /\ \A t \in Tokens : t # o.token => Cost'[t] <= Cost[t]
         /\ Cost'[o.token] <= Cost[o.token] + (IF o.side = "Buy" THEN filled * o.price ELSE 0)
<1> DEFINE t == o.token
           p == pos[t]
           a == avg_cost[t]
           shares == IF o.side = "Buy" THEN p + filled ELSE Max({p - filled, 0})
           paid == IF shares = 0 THEN 0
                   ELSE IF o.side = "Sell" THEN a ELSE (p * a + filled * o.price) \div shares
<1>1. pos' = [pos EXCEPT ![t] = shares] /\ avg_cost' = [avg_cost EXCEPT ![t] = paid]
  BY Zenon DEF Execute
<1>2. p \in Nat /\ a \in Nat
  BY DEF Holdings
<1> HIDE DEF p, a
<1>3. CASE o.side = "Buy"
  <2>1. shares = p + filled /\ shares \in Nat
    BY <1>2, <1>3
  <2>2. paid \in Nat /\ shares * paid <= p * a + filled * o.price
    <3>1. CASE shares = 0
      <4>1. paid = 0 /\ p = 0 /\ filled = 0
        BY <1>2, <2>1, <3>1
      <4>2. QED
        BY <1>2, <2>1, <4>1
    <3>2. CASE shares # 0
      <4>1. paid = (p * a + filled * o.price) \div (p + filled) /\ p + filled > 0
        BY <1>2, <1>3, <2>1, <3>2
      <4>2. QED
        BY <1>2, <2>1, <4>1, AverageRoundsDown
    <3>3. QED
      BY <3>1, <3>2
  <2> HIDE DEF shares, paid
  <2>3. Holdings'
    BY <1>1, <2>1, <2>2 DEF Holdings
  <2>4. pos'[t] = shares /\ avg_cost'[t] = paid
    BY <1>1 DEF Holdings
  <2>5. \A u \in Tokens : u # t => pos'[u] = pos[u] /\ avg_cost'[u] = avg_cost[u]
    BY <1>1 DEF Holdings
  <2>6. Cost'[t] = shares * paid /\ Cost[t] = p * a
    BY <2>4 DEF Cost, p, a
  <2>7. \A u \in Tokens : u # t => Cost'[u] = Cost[u] /\ Cost[u] \in Nat
    BY <2>5, CostType DEF Cost
  <2>8. QED
    BY <1>3, <2>2, <2>3, <2>6, <2>7
<1>4. CASE o.side = "Sell"
  <2>1. shares \in Nat /\ shares <= p
    BY <1>2, <1>4, MaxOfTwo
  <2>2. paid \in {0, a}
    BY <1>4
  <2>3. shares * paid <= p * a /\ paid \in Nat
    <3> HIDE DEF shares, paid
    <3>1. \A x, y, z \in Nat : x <= y => x * z <= y * z /\ x * 0 <= y * z
      OBVIOUS
    <3>2. QED
      BY <1>2, <2>1, <2>2, <3>1
  <2> HIDE DEF shares, paid
  <2>4. Holdings'
    BY <1>1, <2>1, <2>3 DEF Holdings
  <2>5. pos'[t] = shares /\ avg_cost'[t] = paid
    BY <1>1 DEF Holdings
  <2>6. \A u \in Tokens : u # t => pos'[u] = pos[u] /\ avg_cost'[u] = avg_cost[u]
    BY <1>1 DEF Holdings
  <2>7. Cost'[t] = shares * paid /\ Cost[t] = p * a /\ Cost[t] \in Nat
    BY <2>5, CostType DEF Cost, p, a
  <2>8. \A u \in Tokens : u # t => Cost'[u] = Cost[u] /\ Cost[u] \in Nat
    BY <2>6, CostType DEF Cost
  <2>9. QED
    BY <1>4, <2>3, <2>4, <2>7, <2>8
<1>5. QED
  BY <1>3, <1>4

-----------------------------------------------------------------------------
(* The cap of a direction *)

Buys == {o \in orders : o.side = "Buy"}

OnePerDirection(set) == \A b, c \in set : DirectionOf[b.token] = DirectionOf[c.token] => b = c

IsOrder(o) ==
  /\ o.token \in Tokens /\ o.price \in 0 .. Unit
  /\ o.side = "Sell" \/ (o.side = "Buy" /\ o.size \in Nat)

\* The dollars an entry may cost: a dollar a share (size_entry).
Dollars(c) == c.size * Unit

\* While entries are chosen nothing grows beyond the exposures read at the start.
ExposureKept ==
  /\ Holdings
  /\ exposure \in [Directions -> Nat]
  /\ DirectionCapped
  /\ pc = "entries" => \A d \in Directions : Exposed(d) <= exposure[d]

\* Each entry chosen fits with what was read, and is the only one of its direction.
EntriesFit ==
  /\ pc # "entries" => best = {}
  /\ \A c \in best : /\ c.token \in Tokens /\ c.price \in Asks /\ c.size \in Nat
                     /\ exposure[DirectionOf[c.token]] + Dollars(c) <= direction_cap
  /\ OnePerDirection(best)

\* So each purchase that leaves the scan fits with what is held when it is executed.
OrdersFit ==
  /\ pc \in {"idle", "entries"} => orders = {}
  /\ \A o \in orders : IsOrder(o)
  /\ \A o \in Buys : Exposed(DirectionOf[o.token]) + Dollars(o) <= direction_cap
  /\ OnePerDirection(Buys)

CapInv == ExposureKept /\ EntriesFit /\ OrdersFit

LEMMA ConstantTypes ==
  /\ Unit \in Nat \ {0} /\ direction_cap \in Nat /\ asset_cap \in Nat /\ market_cap \in Nat
  /\ MaxOrder \in Nat /\ Asks \subseteq 1 .. Unit /\ DirectionOf \in [Tokens -> Directions]
  BY CryptoAssumption

LEMMA MinOfThree ==
  ASSUME NEW a \in Int, NEW b \in Int, NEW c \in Int
  PROVE  Min({a, b, c}) \in Int /\ Min({a, b, c}) <= c
<1>1. \E x \in {a, b, c} : \A y \in {a, b, c} : x <= y
  OBVIOUS
<1>2. Min({a, b, c}) \in {a, b, c} /\ \A y \in {a, b, c} : Min({a, b, c}) <= y
  BY <1>1 DEF Min
<1>3. QED
  BY <1>2

\* What size_entry returns fits into what the direction leaves.
LEMMA SizesFit ==
  ASSUME CapInv, NEW t \in Tokens, NEW ask \in Asks, NEW size \in Sizes(t, ask)
  PROVE  size \in Nat /\ exposure[DirectionOf[t]] + size * Unit <= direction_cap
<1> DEFINE x == market_cap - (pos[t] * ask)
           y == asset_cap - AssetExposed
           z == direction_cap - exposure[DirectionOf[t]]
<1>1. x \in Int
  <2>1. \A a, b \in Nat : a * b \in Nat
    OBVIOUS
  <2>2. pos[t] \in Nat /\ ask \in Nat
    BY ConstantTypes DEF CapInv, ExposureKept, Holdings
  <2>3. pos[t] * ask \in Nat
    BY <2>1, <2>2
  <2>4. QED
    BY <2>3, ConstantTypes
<1>2. y \in Int
  <2>1. AssetExposed \in Nat
    BY CryptoAssumption, SumIsNat DEF AssetExposed, CapInv, ExposureKept
  <2>2. QED
    BY <2>1, ConstantTypes
<1>3. z \in Int /\ exposure[DirectionOf[t]] \in Nat
  BY ConstantTypes DEF CapInv, ExposureKept
<1>4. size \in 1 .. MaxOrder /\ size * Unit <= Min({x, y, z})
  BY DEF Sizes
<1> HIDE DEF x, y
<1>5. Min({x, y, z}) \in Int /\ Min({x, y, z}) <= z
  BY <1>1, <1>2, <1>3, MinOfThree
<1>6. size * Unit \in Nat
  <2>1. \A a, b \in Nat : a * b \in Nat
    OBVIOUS
  <2>2. QED
    BY <1>4, <2>1, ConstantTypes
<1>7. QED
  BY <1>3, <1>4, <1>5, <1>6, ConstantTypes

\* keep_better_entry leaves one entry per direction.
LEMMA KeptOne ==
  ASSUME NEW kept, OnePerDirection(kept), NEW c, NEW better
  PROVE  /\ OnePerDirection(KeptBetter(kept, c, better))
         /\ KeptBetter(kept, c, better) \subseteq kept \union {c}
<1> DEFINE rivals == {b \in kept : DirectionOf[b.token] = DirectionOf[c.token]}
<1>1. CASE rivals = {} \/ better
  <2>1. KeptBetter(kept, c, better) = (kept \ rivals) \union {c}
    BY <1>1 DEF KeptBetter
  <2>2. \A b \in kept \ rivals : DirectionOf[b.token] # DirectionOf[c.token]
    OBVIOUS
  <2> HIDE DEF rivals
  <2>3. QED
    BY <2>1, <2>2 DEF OnePerDirection
<1>2. CASE ~(rivals = {} \/ better)
  <2>1. KeptBetter(kept, c, better) = kept
    BY <1>2 DEF KeptBetter
  <2>2. QED
    BY <2>1
<1>3. QED
  BY <1>1, <1>2

\* An event proposes what one of its markets' tokens may be sized to.
LEMMA ProposalsFit ==
  ASSUME CapInv, NEW e \in Events, NEW c \in detect_crypto_group(e) \union detect_crypto_neg_risk(e)
  PROVE  /\ c.token \in Tokens /\ c.price \in Asks /\ c.size \in Nat
         /\ exposure[DirectionOf[c.token]] + Dollars(c) <= direction_cap
<1>1. PICK m \in e : c \in detect_crypto_opportunity(m)
  BY DEF detect_crypto_group, detect_crypto_neg_risk
<1>2. m \in Markets
  BY CryptoAssumption
<1>3. c.token \in TokensOf[m] /\ c.price \in Asks /\ c.size \in Sizes(c.token, c.price)
  BY <1>1 DEF detect_crypto_opportunity
<1>4. c.token \in Tokens
  BY <1>2, <1>3, CryptoAssumption DEF Tokens, Range
<1>5. QED
  BY <1>3, <1>4, SizesFit DEF Dollars

LEMMA SameExposed ==
  ASSUME UNCHANGED <<pos, avg_cost>>
  PROVE  (Holdings' <=> Holdings) /\ \A d \in Directions : Exposed(d)' = Exposed(d)
  BY DEF Holdings, Exposed, Cost, TokensIn

LEMMA ExposureStill ==
  ASSUME ExposureKept, UNCHANGED <<pc, pos, avg_cost, exposure>>
  PROVE  ExposureKept'
<1>1. Holdings' /\ \A d \in Directions : Exposed(d)' = Exposed(d)
  BY SameExposed DEF ExposureKept
<1>2. QED
  BY <1>1 DEF ExposureKept, DirectionCapped

LEMMA EntriesStill ==
  ASSUME EntriesFit, UNCHANGED <<pc, exposure, best>>
  PROVE  EntriesFit'
  BY DEF EntriesFit

\* Orders fit as long as no exposure grows and no purchase is added.
LEMMA OrdersStill ==
  ASSUME OrdersFit, Holdings, Holdings', \A o \in orders' : IsOrder(o), Buys' \subseteq Buys,
         \A d \in Directions : Exposed(d)' <= Exposed(d),
         pc' \in {"idle", "entries"} => orders' = {}
  PROVE  OrdersFit'
<1>1. \A d \in Directions : Exposed(d) \in Nat /\ Exposed(d)' \in Nat
  <2>1. (Holdings => \A d \in Directions : Exposed(d) \in Nat)'
    BY ExposedType, PTL
  <2>2. QED
    BY <2>1, ExposedType
<1>2. \A o \in Buys' : Exposed(DirectionOf[o.token])' + Dollars(o) <= direction_cap
  <2> SUFFICES ASSUME NEW o \in Buys'
               PROVE  Exposed(DirectionOf[o.token])' + Dollars(o) <= direction_cap
    OBVIOUS
  <2>1. o \in Buys /\ IsOrder(o)
    BY DEF Buys
  <2> DEFINE d == DirectionOf[o.token]
  <2>2. d \in Directions /\ Exposed(d) + Dollars(o) <= direction_cap
    BY <2>1, ConstantTypes DEF OrdersFit, IsOrder
  <2>3. Dollars(o) \in Nat
    <3>1. \A a, b \in Nat : a * b \in Nat
      OBVIOUS
    <3>2. QED
      BY <2>1, <3>1, ConstantTypes DEF IsOrder, Dollars, Buys
  <2> HIDE DEF d
  <2>4. Exposed(d)' <= Exposed(d) /\ Exposed(d) \in Nat /\ Exposed(d)' \in Nat
    BY <1>1, <2>2
  <2>5. Exposed(d)' + Dollars(o) <= direction_cap
    BY <2>2, <2>3, <2>4, ConstantTypes
  <2>6. QED
    BY <2>5 DEF d
<1>3. OnePerDirection(Buys')
  BY DEF OrdersFit, OnePerDirection
<1>4. QED
  BY <1>2, <1>3 DEF OrdersFit

LEMMA StillCap ==
  ASSUME CapInv, UNCHANGED <<pc, pos, avg_cost, exposure, best, orders>>
  PROVE  CapInv'
<1>1. /\ Holdings' /\ \A d \in Directions : Exposed(d)' <= Exposed(d)
  <2>1. \A n \in Nat : n <= n
    OBVIOUS
  <2>2. QED
    BY <2>1, SameExposed, ExposedType DEF CapInv, ExposureKept
<1>2. OrdersFit'
  <2>1. Buys' = Buys
    BY DEF Buys
  <2>2. (\A o \in orders' : IsOrder(o)) /\ (pc' \in {"idle", "entries"} => orders' = {})
    BY DEF CapInv, OrdersFit
  <2>3. QED
    BY <1>1, <2>1, <2>2, OrdersStill DEF CapInv, ExposureKept
<1>3. QED
  BY <1>2, ExposureStill, EntriesStill DEF CapInv

LEMMA StartCap ==
  ASSUME CapInv, StartScan
  PROVE  CapInv'
<1>1. /\ pc = "idle" /\ pc' = "entries" /\ best' = {}
      /\ exposure' = [d \in Directions |-> Exposed(d)]
      /\ UNCHANGED <<pos, avg_cost, orders>>
  BY Zenon DEF StartScan
<1>2. orders' = {} /\ Buys' = {}
  BY <1>1 DEF CapInv, OrdersFit, Buys
<1>3. Holdings' /\ \A d \in Directions : Exposed(d)' = Exposed(d) /\ Exposed(d) \in Nat
  BY <1>1, SameExposed, ExposedType DEF CapInv, ExposureKept
<1>4. exposure' \in [Directions -> Nat] /\ \A d \in Directions : Exposed(d)' <= exposure'[d]
  <2>1. \A n \in Nat : n <= n
    OBVIOUS
  <2>2. QED
    BY <1>1, <1>3, <2>1
<1>5. ExposureKept'
  BY <1>3, <1>4 DEF CapInv, ExposureKept, DirectionCapped
<1>6. EntriesFit' /\ OrdersFit'
  BY <1>1, <1>2 DEF EntriesFit, OrdersFit, OnePerDirection
<1>7. QED
  BY <1>5, <1>6 DEF CapInv

LEMMA DetectCap ==
  ASSUME CapInv, NEW e \in Events, Detect(e)
  PROVE  CapInv'
<1>1. pc = "entries" /\ UNCHANGED <<pc, pos, avg_cost, exposure, orders>>
  BY Zenon DEF Detect
<1>2. ASSUME best' # best PROVE EntriesFit'
  <2>1. PICK c \in detect_crypto_group(e) \union detect_crypto_neg_risk(e), better \in BOOLEAN :
               best' = KeptBetter(best, c, better)
    BY <1>2, Zenon DEF Detect
  <2>2. OnePerDirection(best') /\ best' \subseteq best \union {c}
    BY <2>1, KeptOne DEF CapInv, EntriesFit
  <2>3. \A b \in best' :
          /\ b.token \in Tokens /\ b.price \in Asks /\ b.size \in Nat
          /\ exposure[DirectionOf[b.token]] + Dollars(b) <= direction_cap
    BY <2>2, ProposalsFit DEF CapInv, EntriesFit
  <2>4. QED
    BY <1>1, <2>2, <2>3 DEF EntriesFit
<1>3. EntriesFit'
  BY <1>1, <1>2, EntriesStill DEF CapInv
<1>4. OrdersFit'
  BY <1>1 DEF CapInv, OrdersFit, Buys, OnePerDirection
<1>5. QED
  BY <1>1, <1>3, <1>4, ExposureStill DEF CapInv

LEMMA EntriesDoneCap ==
  ASSUME CapInv, EntriesDone
  PROVE  CapInv'
<1>1. /\ pc = "entries" /\ pc' = "exits" /\ best' = {}
      /\ orders' = {Buy(c) : c \in best}
      /\ exposure' = [d \in Directions |-> 0]
      /\ UNCHANGED <<pos, avg_cost>>
  BY Zenon DEF EntriesDone
<1>2. Holdings' /\ \A d \in Directions : Exposed(d)' = Exposed(d) /\ Exposed(d) \in Nat
  BY <1>1, SameExposed, ExposedType DEF CapInv, ExposureKept
<1>3. ExposureKept'
  BY <1>1, <1>2 DEF CapInv, ExposureKept, DirectionCapped
<1>4. EntriesFit'
  BY <1>1 DEF EntriesFit, OnePerDirection
<1>5. \A c \in best : IsOrder(Buy(c)) /\ Buy(c).token = c.token /\ Buy(c).size = c.size
  <2> SUFFICES ASSUME NEW c \in best
               PROVE  IsOrder(Buy(c)) /\ Buy(c).token = c.token /\ Buy(c).size = c.size
    OBVIOUS
  <2>1. c.token \in Tokens /\ c.price \in 0 .. Unit /\ c.size \in Nat
    <3>1. c.token \in Tokens /\ c.price \in Asks /\ c.size \in Nat
      BY DEF CapInv, EntriesFit
    <3>2. \A x \in 1 .. Unit : x \in 0 .. Unit
      BY ConstantTypes
    <3>3. QED
      BY <3>1, <3>2, ConstantTypes
  <2>2. /\ Buy(c).token = c.token /\ Buy(c).price = c.price /\ Buy(c).size = c.size
        /\ Buy(c).side = "Buy"
    BY DEF Buy
  <2>3. QED
    BY <2>1, <2>2 DEF IsOrder
<1>6. \A o \in orders' : IsOrder(o)
  BY <1>1, <1>5
<1>7. \A o \in Buys' : \E c \in best : o = Buy(c)
  BY <1>1 DEF Buys
<1>8. \A c \in best : Exposed(DirectionOf[c.token])' + Dollars(Buy(c)) <= direction_cap
  <2> SUFFICES ASSUME NEW c \in best
               PROVE  Exposed(DirectionOf[c.token])' + Dollars(Buy(c)) <= direction_cap
    OBVIOUS
  <2> DEFINE d == DirectionOf[c.token]
  <2>1. d \in Directions /\ c.size \in Nat
    BY ConstantTypes DEF CapInv, EntriesFit
  <2>2. exposure[d] + Dollars(c) <= direction_cap /\ exposure[d] \in Nat
    BY <2>1 DEF CapInv, EntriesFit, ExposureKept
  <2>3. Exposed(d)' \in Nat /\ Exposed(d)' <= exposure[d]
    BY <1>1, <1>2, <2>1 DEF CapInv, ExposureKept
  <2>4. Dollars(Buy(c)) = Dollars(c) /\ Dollars(c) \in Nat
    <3>1. \A a, b \in Nat : a * b \in Nat
      OBVIOUS
    <3>2. QED
      BY <1>5, <2>1, <3>1, ConstantTypes DEF Dollars
  <2> HIDE DEF d
  <2>5. Exposed(d)' + Dollars(Buy(c)) <= direction_cap
    BY <2>2, <2>3, <2>4, ConstantTypes
  <2>6. QED
    BY <2>5 DEF d
<1>9. \A o \in Buys' : Exposed(DirectionOf[o.token])' + Dollars(o) <= direction_cap
  BY <1>5, <1>7, <1>8
<1>10. OnePerDirection(Buys')
  BY <1>5, <1>7 DEF OnePerDirection, CapInv, EntriesFit
<1>11. OrdersFit'
  BY <1>1, <1>6, <1>9, <1>10 DEF OrdersFit
<1>12. QED
  BY <1>3, <1>4, <1>11 DEF CapInv

\* An exit adds no purchase.
LEMMA ExitCap ==
  ASSUME CapInv, NEW t \in Tokens, Exit(t)
  PROVE  CapInv'
<1>1. pc = "exits" /\ UNCHANGED <<pc, pos, avg_cost, exposure, best>>
  BY Zenon DEF Exit, Skip, SellAll, EdgeDecay, Keep, Looked
<1>2. \A size, reason : \A bid \in Bids[t] :
        IsOrder(Sale(t, size, bid, reason)) /\ Sale(t, size, bid, reason).side = "Sell"
  BY CryptoAssumption DEF IsOrder, Sale
<1> DEFINE Adds == \/ orders' = orders
                   \/ \E size, reason : \E bid \in Bids[t] :
                        orders' = orders \union {Sale(t, size, bid, reason)}
<1>3. Adds
  <2>1. ASSUME NEW bid \in Bids[t], NEW reason, SellAll(t, bid, reason) PROVE Adds
    BY <2>1, Zenon DEF SellAll
  <2>2. ASSUME NEW bid \in Bids[t], NEW prob, EdgeDecay(t, bid, prob) PROVE Adds
    BY <2>2, Zenon DEF EdgeDecay
  <2>3. ASSUME Skip(t) \/ Keep(t) PROVE Adds
    BY <2>3, Zenon DEF Skip, Keep
  <2> HIDE DEF Adds
  <2>4. QED
    BY <2>1, <2>2, <2>3, Zenon DEF Exit
<1>4. (\A o \in orders' : IsOrder(o)) /\ Buys' = Buys
  BY <1>2, <1>3 DEF CapInv, OrdersFit, Buys
<1>5. Holdings' /\ \A d \in Directions : Exposed(d)' <= Exposed(d)
  <2>1. \A n \in Nat : n <= n
    OBVIOUS
  <2>2. QED
    BY <1>1, <2>1, SameExposed, ExposedType DEF CapInv, ExposureKept
<1>6. OrdersFit'
  BY <1>1, <1>4, <1>5, OrdersStill DEF CapInv, ExposureKept
<1>7. QED
  BY <1>1, <1>6, ExposureStill, EntriesStill DEF CapInv

\* Of the purchases that are left, none is in the direction of the one executed.
LEMMA ExecuteCap ==
  ASSUME CapInv, NEW o \in orders, NEW filled \in 0 .. o.size, Execute(o, filled)
  PROVE  CapInv'
<1>1. /\ pc = "execute" /\ orders' = orders \ {o}
      /\ UNCHANGED <<pc, exposure, best>>
  BY Zenon DEF Execute, scanVars
<1>2. IsOrder(o) /\ filled \in Nat /\ o.side \in {"Buy", "Sell"} /\ o.price \in Nat
  BY ConstantTypes DEF CapInv, OrdersFit, IsOrder
<1> DEFINE t == o.token
           n == IF o.side = "Buy" THEN filled * o.price ELSE 0
           d == DirectionOf[t]
<1>3. t \in Tokens /\ d \in Directions
  BY <1>2, ConstantTypes DEF IsOrder
<1>4. n \in Nat
  <2>1. \A a, b \in Nat : a * b \in Nat
    OBVIOUS
  <2>2. QED
    BY <1>2, <2>1
<1>5. /\ Holdings /\ Holdings'
      /\ \A u \in Tokens : u # t => Cost'[u] <= Cost[u]
      /\ Cost'[t] <= Cost[t] + n
  BY <1>2, <1>3, OrderCosts DEF CapInv, ExposureKept
<1> HIDE DEF t, n, d
<1>6. \A e \in Directions :
        /\ Exposed(e) \in Nat /\ Exposed(e)' \in Nat
        /\ Exposed(e)' <= Exposed(e) + (IF d = e THEN n ELSE 0)
  BY <1>3, <1>4, <1>5, ExposureGrows DEF d
<1>7. EntriesFit'
  BY <1>1, EntriesStill DEF CapInv
<1>8. CASE o.side = "Sell"
  <2>1. n = 0
    BY <1>8 DEF n
  <2>2. \A e \in Directions : Exposed(e)' <= Exposed(e)
    BY <1>6, <2>1
  <2>3. ExposureKept'
    BY <1>1, <1>5, <1>6, <2>2, ConstantTypes DEF CapInv, ExposureKept, DirectionCapped
  <2>4. OrdersFit'
    <3>1. (\A x \in orders' : IsOrder(x)) /\ Buys' \subseteq Buys
      BY <1>1 DEF CapInv, OrdersFit, Buys
    <3>2. QED
      BY <1>1, <1>5, <2>2, <3>1, OrdersStill DEF CapInv
  <2>5. QED
    BY <1>7, <2>3, <2>4 DEF CapInv
<1>9. CASE o.side = "Buy"
  <2>1. o \in Buys /\ Exposed(d) + Dollars(o) <= direction_cap /\ o.size \in Nat
    BY <1>2, <1>9 DEF CapInv, OrdersFit, Buys, IsOrder, d, t
  <2>2. n <= Dollars(o) /\ Dollars(o) \in Nat
    <3>1. \A a, b, x, y \in Nat : a <= x /\ b <= y => a * b <= x * y /\ x * y \in Nat
      OBVIOUS
    <3>2. o.price <= Unit /\ filled <= o.size
      BY <1>2 DEF IsOrder
    <3>3. QED
      BY <1>2, <1>9, <2>1, <3>1, <3>2, ConstantTypes DEF n, Dollars
  <2>3. Exposed(d)' <= direction_cap
    BY <1>3, <1>4, <1>6, <2>1, <2>2, ConstantTypes
  <2>4. \A e \in Directions : e # d => Exposed(e)' <= Exposed(e)
    BY <1>6
  <2>5. \A e \in Directions : Exposed(e)' <= direction_cap
    BY <1>6, <2>3, <2>4, ConstantTypes DEF CapInv, ExposureKept, DirectionCapped
  <2>6. ExposureKept'
    BY <1>1, <1>5, <2>5 DEF CapInv, ExposureKept, DirectionCapped
  <2>7. \A x \in Buys' : x \in Buys /\ DirectionOf[x.token] \in Directions \ {d}
    <3>1. \A x \in Buys' : x \in Buys /\ x # o /\ x.token \in Tokens
      BY <1>1 DEF CapInv, OrdersFit, Buys, IsOrder
    <3>2. QED
      BY <2>1, <3>1, ConstantTypes DEF CapInv, OrdersFit, OnePerDirection, d, t
  <2>8. \A x \in Buys' : Exposed(DirectionOf[x.token])' + Dollars(x) <= direction_cap
    <3> SUFFICES ASSUME NEW x \in Buys'
                 PROVE  Exposed(DirectionOf[x.token])' + Dollars(x) <= direction_cap
      OBVIOUS
    <3> DEFINE e == DirectionOf[x.token]
    <3>1. x \in Buys /\ e \in Directions /\ e # d
      BY <2>7
    <3>2. Exposed(e) + Dollars(x) <= direction_cap
      BY <3>1 DEF CapInv, OrdersFit
    <3>3. Dollars(x) \in Nat
      <4>1. \A a, b \in Nat : a * b \in Nat
        OBVIOUS
      <4>2. QED
        BY <3>1, <4>1, ConstantTypes DEF CapInv, OrdersFit, Buys, IsOrder, Dollars
    <3> HIDE DEF e
    <3>4. Exposed(e)' <= Exposed(e) /\ Exposed(e) \in Nat /\ Exposed(e)' \in Nat
      BY <1>6, <2>4, <3>1
    <3>5. Exposed(e)' + Dollars(x) <= direction_cap
      BY <3>2, <3>3, <3>4, ConstantTypes
    <3>6. QED
      BY <3>5 DEF e
  <2>9. OrdersFit'
    <3>1. \A x \in orders' : IsOrder(x)
      BY <1>1 DEF CapInv, OrdersFit
    <3>2. OnePerDirection(Buys')
      BY <2>7 DEF CapInv, OrdersFit, OnePerDirection
    <3>3. QED
      BY <1>1, <2>8, <3>1, <3>2 DEF OrdersFit
  <2>10. QED
    BY <1>7, <2>6, <2>9 DEF CapInv
<1>10. QED
  BY <1>2, <1>8, <1>9

LEMMA TakenCap ==
  ASSUME CapInv, NEW t \in Tokens, TakenElsewhere(t)
  PROVE  CapInv'
<1>1. /\ pos' = [pos EXCEPT ![t] = 0] /\ avg_cost' = [avg_cost EXCEPT ![t] = 0]
      /\ UNCHANGED <<pc, exposure, best, orders>>
  BY Zenon DEF TakenElsewhere, scanVars
<1>2. Holdings /\ Holdings'
  BY <1>1 DEF CapInv, ExposureKept, Holdings
<1>3. \A u \in Tokens : Cost'[u] <= Cost[u] /\ Cost'[u] <= Cost[u] + 0
  <2>1. \A u \in Tokens : u # t => pos'[u] = pos[u] /\ avg_cost'[u] = avg_cost[u]
    BY <1>1, <1>2 DEF Holdings
  <2>2. pos'[t] = 0 /\ avg_cost'[t] = 0
    BY <1>1, <1>2 DEF Holdings
  <2>3. Cost'[t] = 0
    BY <2>2 DEF Cost
  <2>4. \A u \in Tokens : u # t => Cost'[u] = Cost[u]
    BY <2>1 DEF Cost
  <2>5. \A u \in Tokens : Cost[u] \in Nat
    BY <1>2, CostType
  <2>6. QED
    BY <2>3, <2>4, <2>5
<1>4. \A d \in Directions : Exposed(d) \in Nat /\ Exposed(d)' \in Nat /\ Exposed(d)' <= Exposed(d)
  <2>1. \A d \in Directions :
          /\ Exposed(d) \in Nat /\ Exposed(d)' \in Nat
          /\ Exposed(d)' <= Exposed(d) + (IF DirectionOf[t] = d THEN 0 ELSE 0)
    BY <1>2, <1>3, ExposureGrows
  <2>2. QED
    BY <2>1
<1>5. ExposureKept'
  <2>1. \A d \in Directions : Exposed(d)' <= direction_cap
    BY <1>4, ConstantTypes DEF CapInv, ExposureKept, DirectionCapped
  <2>2. pc = "entries" => \A d \in Directions : Exposed(d)' <= exposure[d]
    <3>1. pc = "entries" => \A d \in Directions : Exposed(d) <= exposure[d] /\ exposure[d] \in Nat
      BY DEF CapInv, ExposureKept
    <3>2. QED
      BY <1>4, <3>1
  <2>3. QED
    BY <1>1, <1>2, <2>1, <2>2 DEF CapInv, ExposureKept, DirectionCapped
<1>6. OrdersFit'
  <2>1. Buys' = Buys /\ \A o \in orders' : IsOrder(o)
    BY <1>1 DEF CapInv, OrdersFit, Buys
  <2>2. pc' \in {"idle", "entries"} => orders' = {}
    BY <1>1 DEF CapInv, OrdersFit
  <2>3. QED
    BY <1>2, <1>4, <2>1, <2>2, OrdersStill DEF CapInv
<1>7. QED
  BY <1>1, <1>5, <1>6, EntriesStill DEF CapInv

\* A phase that ends leaves what is held and what is ordered alone.
LEMMA PhaseCap ==
  ASSUME CapInv, ExitsDone \/ Executed
  PROVE  CapInv'
<1>1. /\ pc \in {"exits", "execute"} /\ pc' \in {"execute", "idle"}
      /\ pc' = "idle" => orders = {}
      /\ UNCHANGED <<pos, avg_cost, exposure, best, orders>>
  BY Zenon DEF ExitsDone, Executed, scanVars
<1>2. Holdings' /\ \A d \in Directions : Exposed(d)' = Exposed(d) /\ Exposed(d)' <= Exposed(d)
  <2>1. \A n \in Nat : n <= n
    OBVIOUS
  <2>2. QED
    BY <1>1, <2>1, SameExposed, ExposedType DEF CapInv, ExposureKept
<1>3. ExposureKept'
  BY <1>1, <1>2 DEF CapInv, ExposureKept, DirectionCapped
<1>4. EntriesFit'
  BY <1>1 DEF CapInv, EntriesFit, OnePerDirection
<1>5. OrdersFit'
  <2>1. Buys' = Buys /\ (\A o \in orders' : IsOrder(o)) /\ (pc' \in {"idle", "entries"} => orders' = {})
    BY <1>1 DEF CapInv, OrdersFit, Buys
  <2>2. QED
    BY <1>2, <2>1, OrdersStill DEF CapInv, ExposureKept
<1>6. QED
  BY <1>3, <1>4, <1>5 DEF CapInv

LEMMA InitCap == Init => CapInv
<1> SUFFICES ASSUME Init PROVE CapInv
  OBVIOUS
<1>1. /\ pc = "idle" /\ best = {} /\ orders = {} /\ exposure = [d \in Directions |-> 0]
      /\ pos = [t \in Tokens |-> 0] /\ avg_cost = [t \in Tokens |-> 0]
  BY Zenon DEF Init
<1>2. Holdings /\ \A t \in Tokens : Cost[t] = 0
  BY <1>1 DEF Holdings, Cost
<1>3. \A d \in Directions : Exposed(d) = 0
  BY <1>2, InFinite, SumOfZeros DEF Exposed
<1>4. ExposureKept
  BY <1>1, <1>2, <1>3, ConstantTypes DEF ExposureKept, DirectionCapped
<1>5. EntriesFit /\ OrdersFit
  BY <1>1 DEF EntriesFit, OrdersFit, Buys, OnePerDirection
<1>6. QED
  BY <1>4, <1>5 DEF CapInv

LEMMA NextCap == CapInv /\ [Next]_vars => CapInv'
<1> SUFFICES ASSUME CapInv, [Next]_vars PROVE CapInv'
  OBVIOUS
<1>1. CASE Tick
  <2>1. UNCHANGED <<pc, pos, avg_cost, exposure, best, orders>>
    BY <1>1, Zenon DEF Tick, scanVars
  <2>2. QED
    BY <2>1, StillCap
<1>2. CASE UNCHANGED vars
  <2>1. UNCHANGED <<pc, pos, avg_cost, exposure, best, orders>>
    BY <1>2, Zenon DEF vars, scanVars
  <2>2. QED
    BY <2>1, StillCap
<1>3. QED
  BY <1>1, <1>2, StartCap, DetectCap, EntriesDoneCap, ExitCap, TakenCap, ExecuteCap, PhaseCap, Zenon
  DEF Next

\* What is held in a direction never cost more than the direction's cap, although every
\* entry of a scan is sized against the exposures read at its start, positions go at any
\* time and orders fill in part: one purchase per direction leaves the scan, the next
\* scan starts when it is filled or refused, and averages are rounded down.
THEOREM DirectionCapHolds == Spec => []DirectionCapped
<1>1. CapInv => DirectionCapped
  BY DEF CapInv, ExposureKept
<1>2. QED
  BY <1>1, InitCap, NextCap, PTL DEF Spec

-----------------------------------------------------------------------------
(* Edge-decay exits *)

Counted(t, short) == note_edge_decay_confirmation(t, short)[t].count

Shortfall(bid, prob) == bid + hold_edge - prob

\* A new edge-decay sale comes from a thin reading outside a cooldown, with as many
\* confirmations as its shortfall requires.
Decays(t, bid, prob) ==
  /\ EdgeDecay(t, bid, prob)
  /\ ~(cooldowns[t] > 0)
  /\ ~(Counted(t, Shortfall(bid, prob)) < Required(Shortfall(bid, prob)))

LEMMA DecaySells ==
  ASSUME NEW t, NEW bid, NEW prob, EdgeDecay(t, bid, prob),
         NEW o \in DecaySales', o \notin DecaySales
  PROVE  o.token = t /\ Decays(t, bid, prob)
<1> DEFINE sale(size) == Sale(t, size, bid, "edge_decay")
<1>1. o \in orders' /\ o \notin orders
  BY DEF DecaySales
<1>2. /\ ~(cooldowns[t] > 0 \/ Counted(t, Shortfall(bid, prob)) < Required(Shortfall(bid, prob)))
      /\ \E size : orders' = orders \union {sale(size)}
  BY <1>1, Zenon DEF EdgeDecay, Counted, Shortfall
<1>3. \E size : o = sale(size)
  BY <1>1, <1>2
<1>4. o.token = t
  BY <1>3 DEF Sale
<1>5. QED
  BY <1>2, <1>4, Zenon DEF Decays

LEMMA OthersSellNone ==
  ASSUME NEW t, NEW bid, NEW reason \in Reasons \ {"edge_decay"}, SellAll(t, bid, reason)
  PROVE  DecaySales' \subseteq DecaySales
<1>1. orders' = orders \union {Sale(t, held[t].size, bid, reason)}
  BY Zenon DEF SellAll
<1>2. Sale(t, held[t].size, bid, reason).reason # "edge_decay"
  BY DEF Sale
<1>3. QED
  BY <1>1, <1>2 DEF DecaySales

LEMMA ExitDecays ==
  ASSUME NEW t \in Tokens, Exit(t), NEW o \in DecaySales', o \notin DecaySales
  PROVE  o.token = t /\ \E bid \in Bids[t], prob \in Probs : Decays(t, bid, prob)
<1>1. ASSUME Skip(t) \/ Keep(t) PROVE FALSE
  <2>1. orders' = orders
    BY <1>1, Zenon DEF Skip, Keep
  <2>2. QED
    BY <2>1 DEF DecaySales
<1>2. ASSUME NEW bid, NEW reason \in Reasons \ {"edge_decay"}, SellAll(t, bid, reason) PROVE FALSE
  BY <1>2, OthersSellNone
<1>3. {"capital_efficiency", "relative_stop_loss", "model_reversal"} \subseteq Reasons \ {"edge_decay"}
  BY DEF Reasons, BadReasons
<1>4. PICK bid \in Bids[t], prob \in Probs : EdgeDecay(t, bid, prob)
  <2>1. "capital_efficiency" \in Reasons \ {"edge_decay"}
    BY <1>3
  <2>2. "relative_stop_loss" \in Reasons \ {"edge_decay"} /\ "model_reversal" \in Reasons \ {"edge_decay"}
    BY <1>3
  <2>3. QED
    BY <1>1, <1>2, <2>1, <2>2, Zenon DEF Exit
<1>5. QED
  BY <1>4, DecaySells

LEMMA NextDecays ==
  ASSUME [Next]_vars, NEW o \in DecaySales', o \notin DecaySales
  PROVE  /\ o.token \in Tokens
         /\ Exit(o.token)
         /\ \E bid \in Bids[o.token], prob \in Probs : Decays(o.token, bid, prob)
<1>1. ASSUME orders' \subseteq orders PROVE FALSE
  BY <1>1 DEF DecaySales
<1>2. ASSUME EntriesDone PROVE FALSE
  <2>1. orders' = {Buy(c) : c \in best}
    BY <1>2, Zenon DEF EntriesDone
  <2>2. \A c : Buy(c).reason = "entry"
    BY DEF Buy
  <2>3. QED
    BY <2>1, <2>2 DEF DecaySales
<1>3. ASSUME NEW t \in Tokens, Exit(t)
      PROVE  /\ o.token \in Tokens /\ Exit(o.token)
             /\ \E bid \in Bids[o.token], prob \in Probs : Decays(o.token, bid, prob)
  BY <1>3, ExitDecays
<1>4. ASSUME NEW x, NEW filled, Execute(x, filled) PROVE orders' \subseteq orders
  BY <1>4 DEF Execute
<1>5. CASE StartScan \/ (\E e \in Events : Detect(e)) \/ (\E t \in Tokens : TakenElsewhere(t))
           \/ ExitsDone \/ Executed \/ Tick \/ UNCHANGED vars
  <2>1. orders' = orders
    BY <1>5, Zenon DEF StartScan, Detect, TakenElsewhere, ExitsDone, Executed, Tick, vars
  <2>2. QED
    BY <1>1, <2>1
<1>6. QED
  BY <1>1, <1>2, <1>3, <1>4, <1>5, Zenon DEF Next

\* What a step that is not an exit leaves of the memory of exits and its history.
LEMMA MemoryStays ==
  ASSUME [Next]_vars, ~ \E t \in Tokens : Exit(t), ~Tick
  PROVE  UNCHANGED <<memory, history>>
<1>1. ASSUME NEW x, NEW filled, Execute(x, filled) PROVE UNCHANGED <<memory, history>>
  BY <1>1, Zenon DEF Execute
<1>2. QED
  BY <1>1, Zenon DEF Next, StartScan, Detect, EntriesDone, TakenElsewhere, ExitsDone, Executed, vars

-----------------------------------------------------------------------------
(* Their cooldown *)

Shortest == Min({cooldown, severe_cooldown})

LEMMA MinOfTwo ==
  ASSUME NEW a \in Int, NEW b \in Int
  PROVE  Min({a, b}) = IF a <= b THEN a ELSE b
  BY DEF Min

\* What is left of a cooldown and what has passed since the last exit are together at
\* least the shorter cooldown.
CoolInv ==
  /\ cooldowns \in [Tokens -> Nat] /\ lastDecay \in [Tokens -> Nat]
  /\ \A t \in Tokens : cooldowns[t] + lastDecay[t] >= Shortest

LEMMA CooldownTypes ==
  /\ cooldown \in Nat /\ severe_cooldown \in Nat
  /\ Shortest \in Nat /\ Shortest <= cooldown /\ Shortest <= severe_cooldown
  /\ MaxCooldown \in Nat /\ Shortest <= MaxCooldown
  BY CryptoAssumption, MinOfTwo, MaxOfTwo DEF Shortest, MaxCooldown

LEMMA InitCools == Init => CoolInv
<1> SUFFICES ASSUME Init PROVE CoolInv
  OBVIOUS
<1>1. cooldowns = [t \in Tokens |-> 0] /\ lastDecay = [t \in Tokens |-> MaxCooldown + 1]
  BY Zenon DEF Init
<1>2. QED
  BY <1>1, CooldownTypes DEF CoolInv

LEMMA ExitCools ==
  ASSUME CoolInv, NEW t \in Tokens, Exit(t)
  PROVE  CoolInv'
<1>1. ASSUME UNCHANGED <<cooldowns, lastDecay>> PROVE CoolInv'
  BY <1>1 DEF CoolInv
<1>2. ASSUME NEW bid, NEW prob, EdgeDecay(t, bid, prob) PROVE CoolInv'
  <2>1. CASE UNCHANGED <<cooldowns, lastDecay>>
    BY <1>1, <2>1
  <2>2. CASE /\ cooldowns' = set_edge_decay_cooldown(t, Shortfall(bid, prob))
             /\ lastDecay' = [lastDecay EXCEPT ![t] = 0]
    BY <2>2, CooldownTypes DEF CoolInv, set_edge_decay_cooldown, CooldownFor
  <2>3. QED
    BY <1>2, <2>1, <2>2, Zenon DEF EdgeDecay, Shortfall
<1>3. ASSUME NEW bid, NEW reason, SellAll(t, bid, reason) PROVE CoolInv'
  BY <1>1, <1>3, Zenon DEF SellAll
<1>4. ASSUME Skip(t) \/ Keep(t) PROVE CoolInv'
  BY <1>1, <1>4, Zenon DEF Skip, Keep, memory, history
<1>5. QED
  BY <1>2, <1>3, <1>4, Zenon DEF Exit

LEMMA TickCools ==
  ASSUME CoolInv, Tick
  PROVE  CoolInv'
<1>1. /\ cooldowns' = [t \in Tokens |-> Max({cooldowns[t] - 1, 0})]
      /\ lastDecay' = [t \in Tokens |-> Older(lastDecay[t], MaxCooldown + 1)]
  BY Zenon DEF Tick
<1>2. \A c, l \in Nat :
        /\ Max({c - 1, 0}) = IF c >= 1 THEN c - 1 ELSE 0
        /\ Older(l, MaxCooldown + 1) = IF l <= MaxCooldown THEN l + 1 ELSE MaxCooldown + 1
  BY CooldownTypes, MinOfTwo, MaxOfTwo DEF Older
<1>3. ASSUME NEW t \in Tokens
      PROVE  /\ cooldowns'[t] \in Nat /\ lastDecay'[t] \in Nat
             /\ cooldowns'[t] + lastDecay'[t] >= Shortest
  <2> DEFINE c == cooldowns[t]
             l == lastDecay[t]
  <2>1. c \in Nat /\ l \in Nat /\ c + l >= Shortest
    BY DEF CoolInv
  <2>2. cooldowns'[t] = Max({c - 1, 0}) /\ lastDecay'[t] = Older(l, MaxCooldown + 1)
    BY <1>1
  <2> HIDE DEF c, l
  <2>3. /\ cooldowns'[t] = IF c >= 1 THEN c - 1 ELSE 0
        /\ lastDecay'[t] = IF l <= MaxCooldown THEN l + 1 ELSE MaxCooldown + 1
    BY <1>2, <2>1, <2>2
  <2>4. QED
    BY <2>1, <2>3, CooldownTypes
<1>4. cooldowns' \in [Tokens -> Nat] /\ lastDecay' \in [Tokens -> Nat]
  <2>1. DOMAIN cooldowns' = Tokens /\ DOMAIN lastDecay' = Tokens
    BY <1>1
  <2>2. cooldowns' = [t \in Tokens |-> cooldowns'[t]] /\ lastDecay' = [t \in Tokens |-> lastDecay'[t]]
    BY <1>1
  <2>3. QED
    BY <1>3, <2>2
<1>5. QED
  BY <1>3, <1>4 DEF CoolInv

LEMMA NextCools == CoolInv /\ [Next]_vars => CoolInv'
<1> SUFFICES ASSUME CoolInv, [Next]_vars PROVE CoolInv'
  OBVIOUS
<1>1. CASE ~Tick /\ ~ \E t \in Tokens : Exit(t)
  <2>1. UNCHANGED <<cooldowns, lastDecay>>
    BY <1>1, MemoryStays, Zenon DEF memory, history
  <2>2. QED
    BY <2>1 DEF CoolInv
<1>2. QED
  BY <1>1, ExitCools, TickCools

\* Between two edge-decay exits of a token lies at least the shorter cooldown, for every
\* number of readings, sales and purchases in between.
THEOREM DecaysAreSpaced == Spec => DecaysSpaced
<1> DEFINE Spaced == \A o \in DecaySales' \ DecaySales :
                       lastDecay[o.token] >= Min({cooldown, severe_cooldown})
<1>1. ASSUME CoolInv, [Next]_vars PROVE Spaced
  <2> SUFFICES ASSUME NEW o \in DecaySales', o \notin DecaySales
               PROVE  lastDecay[o.token] >= Shortest
    BY DEF Shortest
  <2>1. o.token \in Tokens /\ ~(cooldowns[o.token] > 0)
    BY <1>1, NextDecays DEF Decays
  <2>2. QED
    BY <1>1, <2>1, CooldownTypes DEF CoolInv
<1>2. CoolInv /\ [Next]_vars => [Spaced]_vars
  BY <1>1
<1>3. QED
  BY <1>2, InitCools, NextCools, PTL DEF Spec, DecaysSpaced

-----------------------------------------------------------------------------
(* Their confirmations *)

\* How many readings are remembered: as many as an exit may require.
Kept == Max({scans, severe_scans})

Lesser(a, b) == IF a <= b THEN a ELSE b

\* The last n of some readings are thin, each soon after the one before.
Thins(seen, n) ==
  /\ n <= Len(seen)
  /\ \A i \in DOMAIN seen : i > Len(seen) - n => seen[i].need > 0
  /\ \A i \in DOMAIN seen : i > Len(seen) - n + 1 => seen[i].soon

Reading == [need : Nat, soon : BOOLEAN]

\* A count of confirmations is a run of thin readings, as far as they are remembered; it
\* was last seen when the last of them came.
ConfirmedInv ==
  /\ readings \in [Tokens -> Seq(Reading)] /\ lastRead \in [Tokens -> Nat]
  /\ confirmations \in [Tokens -> [count : 0 .. MaxCount, age : Nat]]
  /\ \A t \in Tokens : confirmations[t].count > 0 => confirmations[t].age = lastRead[t]
  /\ \A t \in Tokens : Thins(readings[t], Lesser(confirmations[t].count, Kept))

LEMMA ConfirmationTypes ==
  /\ scans \in Nat \ {0} /\ severe_scans \in Nat \ {0}
  /\ Kept \in Nat \ {0} /\ scans <= Kept /\ severe_scans <= Kept
  /\ MaxCount \in Nat \ {0} /\ Kept <= MaxCount
  /\ window \in Nat /\ severe_window \in Nat
  /\ MaxWindow \in Nat /\ window <= MaxWindow /\ severe_window <= MaxWindow
<1>1. /\ scans \in Nat \ {0} /\ severe_scans \in Nat \ {0}
      /\ window \in Nat /\ severe_window \in Nat
      /\ MaxCount >= scans /\ MaxCount >= severe_scans /\ MaxCount \in Nat
  BY CryptoAssumption
<1>2. /\ Kept = IF scans >= severe_scans THEN scans ELSE severe_scans
      /\ MaxWindow = IF window >= severe_window THEN window ELSE severe_window
  BY <1>1, MaxOfTwo DEF Kept, MaxWindow
<1>3. QED
  BY <1>1, <1>2

\* The readings after one more, the last of them being it.
After(seen, reading) ==
  SubSeq(Append(seen, reading), Max({1, Len(Append(seen, reading)) + 1 - Kept}),
         Len(Append(seen, reading)))

LEMMA AfterOneMore ==
  ASSUME NEW seen \in Seq(Reading), NEW reading \in Reading
  PROVE  /\ After(seen, reading) \in Seq(Reading)
         /\ Len(After(seen, reading)) = Lesser(Len(seen) + 1, Kept)
         /\ \A i \in 1 .. Len(After(seen, reading)) :
              After(seen, reading)[i] =
                IF i = Len(After(seen, reading)) THEN reading
                ELSE seen[Len(seen) + 1 - Len(After(seen, reading)) + i]
<1> DEFINE n == Len(seen) + 1
           from == IF n + 1 - Kept <= 1 THEN 1 ELSE n + 1 - Kept
           all == Append(seen, reading)
<1>1. n \in Nat \ {0} /\ Len(all) = n /\ all \in Seq(Reading)
  OBVIOUS
<1>2. \A i \in 1 .. n : all[i] = IF i = n THEN reading ELSE seen[i]
  OBVIOUS
<1>3. After(seen, reading) = SubSeq(all, Max({1, Len(all) + 1 - Kept}), Len(all))
  BY DEF After
<1> HIDE DEF all, n
<1>4. /\ from \in 1 .. n /\ n - from + 1 = Lesser(n, Kept)
      /\ After(seen, reading) = SubSeq(all, from, n)
  <2>1. Max({1, n + 1 - Kept}) = from
    BY <1>1, ConfirmationTypes, MaxOfTwo
  <2>2. After(seen, reading) = SubSeq(all, from, n)
    BY <1>1, <1>3, <2>1
  <2>3. from \in 1 .. n /\ n - from + 1 = Lesser(n, Kept)
    BY <1>1, ConfirmationTypes DEF Lesser
  <2>4. QED
    BY <2>2, <2>3
<1> HIDE DEF from
<1>5. /\ SubSeq(all, from, n) \in Seq(Reading)
      /\ Len(SubSeq(all, from, n)) = n - from + 1
      /\ \A i \in 1 .. n - from + 1 : SubSeq(all, from, n)[i] = all[from + i - 1]
  <2>1. from \in Int /\ n \in Int /\ from <= n /\ \A i \in from .. n : all[i] \in Reading
    BY <1>1, <1>4
  <2>2. QED
    BY <2>1, SubSeqProperties
<1>6. ASSUME NEW i \in 1 .. n - from + 1
      PROVE  SubSeq(all, from, n)[i] = IF i = n - from + 1 THEN reading ELSE seen[from + i - 1]
  BY <1>1, <1>2, <1>4, <1>5
<1>7. \A i \in Int : n - (n - from + 1) + i = from + i - 1
  BY <1>1, <1>4
<1>8. QED
  BY <1>4, <1>5, <1>6, <1>7 DEF n

\* One more reading, thin and soon after the others, makes the run one longer.
LEMMA ThinsMore ==
  ASSUME NEW seen \in Seq(Reading), NEW reading \in Reading,
         NEW k \in Nat, Thins(seen, k), NEW n \in 0 .. Kept, n <= k + 1,
         n > 0 => reading.need > 0, n > 1 => reading.soon
  PROVE  Thins(After(seen, reading), n)
<1> DEFINE new == After(seen, reading)
           m == Len(new)
           l == Len(seen)
<1>1. /\ new \in Seq(Reading) /\ m = Lesser(l + 1, Kept)
      /\ \A i \in 1 .. m : new[i] = IF i = m THEN reading ELSE seen[l + 1 - m + i]
  BY AfterOneMore
<1>2. DOMAIN new = 1 .. m /\ DOMAIN seen = 1 .. l /\ m \in Nat /\ l \in Nat
  BY <1>1
<1> HIDE DEF new, m, l
<1>3. k <= l /\ n <= m /\ m <= l + 1
  BY <1>1, <1>2, ConfirmationTypes DEF Thins, Lesser, l
<1>4. ASSUME NEW i \in 1 .. m - 1
      PROVE  l + 1 - m + i \in 1 .. l /\ new[i] = seen[l + 1 - m + i]
  <2>1. i \in 1 .. m /\ i # m
    BY <1>2
  <2>2. l + 1 - m + i \in 1 .. l
    BY <1>2, <1>3
  <2>3. new[i] = seen[l + 1 - m + i]
    BY <1>1, <2>1
  <2>4. QED
    BY <2>2, <2>3
<1>5. ASSUME NEW i \in 1 .. m, i > m - n PROVE new[i].need > 0
  <2>1. CASE i = m
    BY <1>1, <1>2, <1>3, <1>5, <2>1
  <2>2. CASE i # m
    <3>1. i \in 1 .. m - 1 /\ l + 1 - m + i > l - k
      BY <1>2, <1>3, <1>5, <2>2
    <3>2. QED
      BY <1>2, <1>4, <3>1 DEF Thins, l
  <2>3. QED
    BY <2>1, <2>2
<1>6. ASSUME NEW i \in 1 .. m, i > m - n + 1 PROVE new[i].soon
  <2>1. CASE i = m
    <3>1. n > 1
      BY <1>2, <1>3, <1>6, <2>1
    <3>2. new[i] = reading
      BY <1>1, <2>1
    <3>3. QED
      BY <3>1, <3>2
  <2>2. CASE i # m
    <3>1. i \in 1 .. m - 1 /\ l + 1 - m + i > l - k + 1
      BY <1>2, <1>3, <1>6, <2>2
    <3>2. seen[l + 1 - m + i].soon
      BY <1>2, <1>4, <3>1 DEF Thins, l
    <3>3. QED
      BY <1>4, <3>1, <3>2
  <2>3. QED
    BY <2>1, <2>2
<1>7. QED
  BY <1>2, <1>3, <1>5, <1>6 DEF Thins, m, new

\* What a reading that requires that many confirmations is remembered as.
Seen(t, need) == [need |-> need, soon |-> lastRead[t] <= MaxWindow]

LEMMA ObservedOne ==
  ASSUME NEW t, NEW need, Observed(t, need)
  PROVE  /\ readings' = [readings EXCEPT ![t] = After(readings[t], Seen(t, need))]
         /\ lastRead' = [lastRead EXCEPT ![t] = 0]
  BY Zenon DEF Observed, After, Kept, Seen

LEMMA SeenType ==
  ASSUME ConfirmedInv, NEW t \in Tokens, NEW need \in Nat
  PROVE  /\ Seen(t, need) \in Reading /\ Seen(t, need).need = need
         /\ Seen(t, need).soon <=> lastRead[t] <= MaxWindow
<1>1. (lastRead[t] <= MaxWindow) \in BOOLEAN
  OBVIOUS
<1>2. QED
  BY <1>1 DEF Seen, Reading

\* A reading keeps the invariant if it counts at most one more, and that only when it is
\* thin, and after others only when it came soon.
LEMMA ReadingConfirms ==
  ASSUME ConfirmedInv, NEW t \in Tokens, NEW need \in Nat, Observed(t, need),
         NEW c \in 0 .. MaxCount,
         confirmations' = [confirmations EXCEPT ![t] = [count |-> c, age |-> 0]],
         c <= confirmations[t].count + 1,
         c > 0 => need > 0, c > 1 => lastRead[t] <= MaxWindow
  PROVE  ConfirmedInv'
<1>1. /\ readings' = [readings EXCEPT ![t] = After(readings[t], Seen(t, need))]
      /\ lastRead' = [lastRead EXCEPT ![t] = 0]
  BY ObservedOne
<1>2. readings[t] \in Seq(Reading) /\ confirmations[t].count \in 0 .. MaxCount
  BY DEF ConfirmedInv
<1>3. After(readings[t], Seen(t, need)) \in Seq(Reading)
  BY <1>2, SeenType, AfterOneMore
<1>4. Thins(After(readings[t], Seen(t, need)), Lesser(c, Kept))
  <2> DEFINE k == Lesser(confirmations[t].count, Kept)
             n == Lesser(c, Kept)
  <2>1. k \in Nat /\ Thins(readings[t], k)
    BY <1>2, ConfirmationTypes DEF ConfirmedInv, Lesser
  <2>2. n \in 0 .. Kept /\ n <= k + 1 /\ (n > 0 => c > 0) /\ (n > 1 => c > 1)
    <3>1. \A a, b, w \in Nat :
            b <= a + 1 => /\ Lesser(b, w) \in 0 .. w /\ Lesser(b, w) <= Lesser(a, w) + 1
                          /\ (Lesser(b, w) > 0 => b > 0) /\ (Lesser(b, w) > 1 => b > 1)
      BY DEF Lesser
    <3>2. confirmations[t].count \in Nat /\ c \in Nat /\ Kept \in Nat
      BY <1>2, ConfirmationTypes
    <3>3. QED
      BY <3>1, <3>2
  <2> HIDE DEF k, n
  <2>3. (n > 0 => Seen(t, need).need > 0) /\ (n > 1 => Seen(t, need).soon)
    BY <2>2, SeenType
  <2>4. Thins(After(readings[t], Seen(t, need)), n)
    BY <1>2, <2>1, <2>2, <2>3, SeenType, ThinsMore
  <2>5. QED
    BY <2>4 DEF n
<1> DEFINE new == After(readings[t], Seen(t, need))
<1> HIDE DEF new
<1>5. readings' = [readings EXCEPT ![t] = new] /\ new \in Seq(Reading) /\ Thins(new, Lesser(c, Kept))
  BY <1>1, <1>3, <1>4 DEF new
<1>6. /\ readings' \in [Tokens -> Seq(Reading)] /\ lastRead' \in [Tokens -> Nat]
      /\ confirmations' \in [Tokens -> [count : 0 .. MaxCount, age : Nat]]
  BY <1>1, <1>5 DEF ConfirmedInv
<1>7. ASSUME NEW u \in Tokens
      PROVE  /\ confirmations'[u].count > 0 => confirmations'[u].age = lastRead'[u]
             /\ Thins(readings'[u], Lesser(confirmations'[u].count, Kept))
  <2>1. CASE u = t
    <3>1. confirmations'[u].count = c /\ confirmations'[u].age = 0 /\ lastRead'[u] = 0
      BY <1>1, <2>1 DEF ConfirmedInv
    <3>2. readings'[u] = new
      BY <1>5, <2>1 DEF ConfirmedInv
    <3>3. QED
      BY <1>5, <3>1, <3>2
  <2>2. CASE u # t
    BY <1>1, <1>5, <2>2 DEF ConfirmedInv
  <2>3. QED
    BY <2>1, <2>2
<1>8. QED
  BY <1>6, <1>7 DEF ConfirmedInv

LEMMA InitConfirms == Init => ConfirmedInv
<1> SUFFICES ASSUME Init PROVE ConfirmedInv
  OBVIOUS
<1>1. /\ confirmations = [t \in Tokens |-> [count |-> 0, age |-> 0]]
      /\ readings = [t \in Tokens |-> <<>>]
      /\ lastRead = [t \in Tokens |-> MaxWindow + 1]
  BY Zenon DEF Init
<1>2. Thins(<<>>, 0) /\ Lesser(0, Kept) = 0
  BY ConfirmationTypes DEF Thins, Lesser
<1>3. ASSUME NEW t \in Tokens
      PROVE  confirmations[t].count = 0 /\ Thins(readings[t], Lesser(confirmations[t].count, Kept))
  BY <1>1, <1>2
<1>4. /\ readings \in [Tokens -> Seq(Reading)] /\ lastRead \in [Tokens -> Nat]
      /\ confirmations \in [Tokens -> [count : 0 .. MaxCount, age : Nat]]
  BY <1>1, ConfirmationTypes
<1>5. QED
  BY <1>3, <1>4 DEF ConfirmedInv

\* How a thin reading counts.
LEMMA CountedOne ==
  ASSUME ConfirmedInv, NEW t \in Tokens, NEW short
  PROVE  /\ note_edge_decay_confirmation(t, short) =
              [confirmations EXCEPT ![t] = [count |-> Counted(t, short), age |-> 0]]
         /\ Counted(t, short) \in 1 .. MaxCount
         /\ Counted(t, short) <= confirmations[t].count + 1
         /\ Counted(t, short) > 1 => lastRead[t] <= MaxWindow
<1> DEFINE n == confirmations[t].count
           age == confirmations[t].age
           c == IF age <= WindowFor(short) THEN Min({n + 1, MaxCount}) ELSE 1
<1>1. n \in 0 .. MaxCount /\ age \in Nat /\ (n > 0 => age = lastRead[t])
  BY DEF ConfirmedInv
<1>2. note_edge_decay_confirmation(t, short) = [confirmations EXCEPT ![t] = [count |-> c, age |-> 0]]
  BY Zenon DEF note_edge_decay_confirmation
<1>3. WindowFor(short) \in Nat /\ WindowFor(short) <= MaxWindow
  BY ConfirmationTypes DEF WindowFor
<1> HIDE DEF n, age
<1>4. Min({n + 1, MaxCount}) = IF n + 1 <= MaxCount THEN n + 1 ELSE MaxCount
  BY <1>1, ConfirmationTypes, MinOfTwo
<1>5. c \in 1 .. MaxCount /\ c <= n + 1 /\ (c > 1 => lastRead[t] <= MaxWindow)
  BY <1>1, <1>3, <1>4, ConfirmationTypes
<1> HIDE DEF c
<1>6. Counted(t, short) = c
  BY <1>2 DEF ConfirmedInv, Counted
<1>7. QED
  BY <1>2, <1>5, <1>6 DEF n

LEMMA RequiredType ==
  ASSUME NEW short
  PROVE  Required(short) \in Nat \ {0} /\ Required(short) <= Kept
  BY ConfirmationTypes DEF Required

LEMMA ThinConfirms ==
  ASSUME ConfirmedInv, NEW t \in Tokens, NEW bid, NEW prob, EdgeDecay(t, bid, prob)
  PROVE  ConfirmedInv'
<1> DEFINE short == Shortfall(bid, prob)
<1>1. confirmations' = note_edge_decay_confirmation(t, short) /\ Observed(t, Required(short))
  BY Zenon DEF EdgeDecay, Shortfall
<1> HIDE DEF short
<1>2. Required(short) \in Nat /\ (Counted(t, short) > 0 => Required(short) > 0)
  BY RequiredType
<1>3. /\ confirmations' = [confirmations EXCEPT ![t] = [count |-> Counted(t, short), age |-> 0]]
      /\ Counted(t, short) \in 0 .. MaxCount
      /\ Counted(t, short) <= confirmations[t].count + 1
      /\ Counted(t, short) > 1 => lastRead[t] <= MaxWindow
  BY <1>1, CountedOne
<1>4. QED
  BY <1>1, <1>2, <1>3, ReadingConfirms

\* A reading of another kind starts the count anew.
LEMMA ResetConfirms ==
  ASSUME ConfirmedInv, NEW t \in Tokens, Observed(t, 0),
         confirmations' = reset_edge_decay_confirmation(t)
  PROVE  ConfirmedInv'
<1>1. confirmations' = [confirmations EXCEPT ![t] = [count |-> 0, age |-> 0]]
  BY DEF reset_edge_decay_confirmation
<1>2. PICK c \in 0 .. MaxCount : c = 0
  BY ConfirmationTypes
<1>3. confirmations' = [confirmations EXCEPT ![t] = [count |-> c, age |-> 0]]
  BY <1>1, <1>2
<1>4. c <= confirmations[t].count + 1
  BY <1>2 DEF ConfirmedInv
<1>5. ~(c > 0) /\ ~(c > 1) /\ 0 \in Nat
  BY <1>2
<1>6. QED
  BY <1>3, <1>4, <1>5, ReadingConfirms

LEMMA ExitConfirms ==
  ASSUME ConfirmedInv, NEW t \in Tokens, Exit(t)
  PROVE  ConfirmedInv'
<1>1. ASSUME Skip(t) PROVE ConfirmedInv'
  <2>1. UNCHANGED <<confirmations, readings, lastRead>>
    BY <1>1, Zenon DEF Skip, memory, history
  <2>2. QED
    BY <2>1, Zenon DEF ConfirmedInv
<1>2. ASSUME NEW bid, NEW reason, SellAll(t, bid, reason) PROVE ConfirmedInv'
  <2>1. Observed(t, 0) /\ confirmations' = reset_edge_decay_confirmation(t)
    BY <1>2, Zenon DEF SellAll
  <2>2. QED
    BY <2>1, ResetConfirms
<1>3. ASSUME Keep(t) PROVE ConfirmedInv'
  <2>1. Observed(t, 0) /\ confirmations' = reset_edge_decay_confirmation(t)
    BY <1>3, Zenon DEF Keep
  <2>2. QED
    BY <2>1, ResetConfirms
<1>4. QED
  BY <1>1, <1>2, <1>3, ThinConfirms, Zenon DEF Exit

\* What a count was last seen at ages with the last reading, and saturates with it.
LEMMA TickConfirms ==
  ASSUME ConfirmedInv, Tick
  PROVE  ConfirmedInv'
<1>1. /\ confirmations' = [t \in Tokens |->
           [confirmations[t] EXCEPT !.age = IF confirmations[t].count = 0 THEN 0
                                            ELSE Older(@, MaxWindow + 1)]]
      /\ lastRead' = [t \in Tokens |-> Older(lastRead[t], MaxWindow + 1)]
      /\ readings' = readings
  BY Zenon DEF Tick
<1>2. \A a \in Nat : Older(a, MaxWindow + 1) \in Nat
  BY ConfirmationTypes, MinOfTwo DEF Older
<1>3. ASSUME NEW t \in Tokens
      PROVE  /\ lastRead'[t] \in Nat
             /\ confirmations'[t] \in [count : 0 .. MaxCount, age : Nat]
             /\ confirmations'[t].count = confirmations[t].count
             /\ confirmations'[t].count > 0 => confirmations'[t].age = lastRead'[t]
  <2> DEFINE r == confirmations[t]
             age == IF r.count = 0 THEN 0 ELSE Older(r.age, MaxWindow + 1)
  <2>1. /\ r \in [count : 0 .. MaxCount, age : Nat] /\ lastRead[t] \in Nat
        /\ r.count > 0 => r.age = lastRead[t]
    BY DEF ConfirmedInv
  <2>2. confirmations'[t] = [r EXCEPT !.age = age] /\ lastRead'[t] = Older(lastRead[t], MaxWindow + 1)
    BY <1>1
  <2>3. age \in Nat /\ lastRead'[t] \in Nat
    BY <1>2, <2>1, <2>2
  <2>4. r.count > 0 => age = lastRead'[t]
    BY <2>1, <2>2
  <2> HIDE DEF r, age
  <2>5. /\ confirmations'[t] \in [count : 0 .. MaxCount, age : Nat]
        /\ confirmations'[t].count = r.count /\ confirmations'[t].age = age
    BY <2>1, <2>2, <2>3
  <2>6. QED
    BY <2>3, <2>4, <2>5 DEF r
<1>4. lastRead' \in [Tokens -> Nat] /\ confirmations' \in [Tokens -> [count : 0 .. MaxCount, age : Nat]]
  <2>1. /\ lastRead' = [t \in Tokens |-> lastRead'[t]]
        /\ confirmations' = [t \in Tokens |-> confirmations'[t]]
    BY <1>1, Zenon
  <2>2. QED
    BY <1>3, <2>1
<1>5. \A t \in Tokens : Thins(readings'[t], Lesser(confirmations'[t].count, Kept))
  BY <1>1, <1>3 DEF ConfirmedInv
<1>6. readings' \in [Tokens -> Seq(Reading)]
  BY <1>1 DEF ConfirmedInv
<1>7. QED
  BY <1>3, <1>4, <1>5, <1>6 DEF ConfirmedInv

LEMMA NextConfirms == ConfirmedInv /\ [Next]_vars => ConfirmedInv'
<1> SUFFICES ASSUME ConfirmedInv, [Next]_vars PROVE ConfirmedInv'
  OBVIOUS
<1>1. CASE ~Tick /\ ~ \E t \in Tokens : Exit(t)
  <2>1. UNCHANGED <<confirmations, readings, lastRead>>
    BY <1>1, MemoryStays, Zenon DEF memory, history
  <2>2. QED
    BY <2>1, Zenon DEF ConfirmedInv
<1>2. QED
  BY <1>1, ExitConfirms, TickConfirms

\* What DecayConfirmed says of the readings of a token that is sold.
Confirms(seen) ==
  LET need == Last(seen).need
      from == Len(seen) - need + 1
  IN  /\ from >= 1
      /\ \A i \in from .. Len(seen) : seen[i].need > 0
      /\ \A i \in (from + 1) .. Len(seen) : seen[i].soon

LEMMA RunConfirms ==
  ASSUME NEW seen \in Seq(Reading), NEW n \in Nat, Thins(seen, n), seen # <<>>,
         Last(seen).need <= n
  PROVE  Confirms(seen)
<1> DEFINE l == Len(seen)
           need == Last(seen).need
           from == l - need + 1
<1>1. l \in Nat \ {0} /\ DOMAIN seen = 1 .. l /\ need \in Nat /\ need <= n
  <2>1. l \in Nat \ {0} /\ DOMAIN seen = 1 .. l
    OBVIOUS
  <2>2. Last(seen) \in Reading
    BY <2>1 DEF Last
  <2>3. QED
    BY <2>1, <2>2 DEF Reading
<1>2. /\ n <= l
      /\ \A i \in 1 .. l : i > l - n => seen[i].need > 0
      /\ \A i \in 1 .. l : i > l - n + 1 => seen[i].soon
  BY <1>1 DEF Thins
<1> HIDE DEF l, need
<1>3. from >= 1 /\ from \in Int
  BY <1>1, <1>2
<1>4. ASSUME NEW i \in from .. l PROVE i \in 1 .. l /\ i > l - n
  BY <1>1, <1>2, <1>3
<1>5. ASSUME NEW i \in (from + 1) .. l PROVE i \in 1 .. l /\ i > l - n + 1
  BY <1>1, <1>2, <1>3
<1>6. QED
  BY <1>2, <1>3, <1>4, <1>5, Zenon DEF Confirms, l, need

LEMMA DecayConfirms ==
  ASSUME ConfirmedInv, [Next]_vars, NEW o \in DecaySales', o \notin DecaySales
  PROVE  Confirms(readings'[o.token])
<1> DEFINE t == o.token
           seen == readings'[t]
<1>1. PICK bid \in Bids[t], prob \in Probs : Decays(t, bid, prob)
  BY NextDecays
<1> DEFINE short == Shortfall(bid, prob)
           c == Counted(t, short)
           need == Required(short)
<1>2. t \in Tokens /\ ConfirmedInv'
  BY NextDecays, NextConfirms
<1> HIDE DEF t
<1>3. confirmations' = note_edge_decay_confirmation(t, short) /\ Observed(t, need) /\ ~(c < need)
  BY <1>1, Zenon DEF Decays, EdgeDecay, Shortfall
<1> HIDE DEF short
<1>4. c \in Nat /\ confirmations'[t].count = c
  BY <1>2, <1>3, CountedOne DEF Counted
<1>5. need \in Nat \ {0} /\ need <= Kept
  BY RequiredType
<1> HIDE DEF c, need
<1>6. need <= Lesser(c, Kept) /\ Lesser(c, Kept) \in Nat
  BY <1>3, <1>4, <1>5, ConfirmationTypes DEF Lesser
<1>7. seen \in Seq(Reading) /\ Thins(seen, Lesser(c, Kept))
  BY <1>2, <1>4 DEF ConfirmedInv
<1>8. seen # <<>> /\ Last(seen).need = need
  <2> DEFINE old == readings[t]
             reading == Seen(t, need)
  <2>1. old \in Seq(Reading) /\ seen = After(old, reading)
    BY <1>2, <1>3, ObservedOne DEF ConfirmedInv
  <2>2. reading \in Reading /\ reading.need = need
    BY <1>2, <1>5, SeenType
  <2> HIDE DEF old, reading, seen
  <2>3. Len(seen) = Lesser(Len(old) + 1, Kept)
    BY <2>1, <2>2, AfterOneMore
  <2>4. Len(seen) \in Nat \ {0}
    BY <2>1, <2>3, ConfirmationTypes DEF Lesser
  <2>5. seen[Len(seen)] = reading
    <3>1. \A i \in 1 .. Len(seen) :
            seen[i] = IF i = Len(seen) THEN reading ELSE old[Len(old) + 1 - Len(seen) + i]
      BY <2>1, <2>2, AfterOneMore
    <3>2. Len(seen) \in 1 .. Len(seen)
      BY <2>4
    <3>3. QED
      BY <3>1, <3>2
  <2>6. QED
    BY <2>2, <2>4, <2>5 DEF Last
<1> HIDE DEF seen
<1>9. Confirms(seen)
  BY <1>6, <1>7, <1>8, RunConfirms
<1>10. QED
  BY <1>9 DEF seen, t

\* An edge-decay exit is returned only after as many thin readings as its shortfall
\* requires, each soon after the one before: a count survives passes without a reading,
\* cooldowns, refused sales and the position itself, but no reading of another kind.
THEOREM DecaysAreConfirmed == Spec => DecayConfirmed
<1> DEFINE Confirmed == \A o \in DecaySales' \ DecaySales :
                          LET seen == readings'[o.token]
                              need == Last(seen).need
                              from == Len(seen) - need + 1
                          IN  /\ from >= 1
                              /\ \A i \in from .. Len(seen) : seen[i].need > 0
                              /\ \A i \in (from + 1) .. Len(seen) : seen[i].soon
<1>1. ASSUME ConfirmedInv, [Next]_vars PROVE Confirmed
  BY <1>1, DecayConfirms, Zenon DEF Confirms
<1>2. ConfirmedInv /\ [Next]_vars => [Confirmed]_vars
  BY <1>1
<1>3. QED
  BY <1>2, InitConfirms, NextConfirms, PTL DEF Spec, DecayConfirmed
=============================================================================
