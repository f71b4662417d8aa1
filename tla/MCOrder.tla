------------------------------- MODULE MCOrder -------------------------------
(***************************************************************************)
(* Instances of OrderLifecycle for TLC: one order with two requests at a   *)
(* time, and two orders that share a product, a card and a discount code.  *)
(* Of the shared product each takes two, and there are three.              *)
(***************************************************************************)
EXTENDS OrderLifecycle, TLC

CONSTANT p2

\* Every cart: one counted item and one of a product that is not counted.
EachOne   == [o \in Orders |-> [p \in Products |-> 1]]
TotalTwo  == [o \in Orders |-> 2]
TotalOne  == [o \in Orders |-> 1]
OneCard   == [o \in Orders |-> CHOOSE k \in Cards : TRUE]
OneInStock   == [p \in Products |-> 1]
TwoOfScarce  == [o \in Orders |-> [p \in Products |-> IF p = p2 THEN 2 ELSE 1]]
OneIsScarce  == [p \in Products |-> IF p = p2 THEN 3 ELSE Cardinality(Orders)]

SameClients == Permutations(Clients)

\* The orders of a store that differ in nothing.
SameOrders == Permutations(Orders)

=============================================================================
