---------------------------- MODULE MCLifecycle -----------------------------
(* A Safe with both outcomes of a neg-risk market and one of another, and an *)
(* account of its own address with one outcome.                              *)
EXTENDS Lifecycle, MCOrders, TLC

CONSTANTS a1, a2, safe, own, nr, std

MCSigType == [a \in Accounts |-> IF a = a1 THEN 2 ELSE 0]
MCHolder == [a \in Accounts |-> IF a = a1 THEN safe ELSE own]
MCEoa == [a \in Accounts |-> own]
MCInitial ==
  [w \in Wallets |-> [o \in Outcomes |->
     CASE w = safe /\ o \in {<<nr, 0>>, <<std, 1>>} -> 2
       [] w = own /\ o = <<nr, 1>> -> 2
       [] OTHER -> 0]]
MCAccounts == <<a1, a2>>
MCOne == <<a1>>
=============================================================================
