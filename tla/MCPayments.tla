----------------------------- MODULE MCPayments -----------------------------
(***************************************************************************)
(* Instances of Payments for TLC: one user who was referred, up to two     *)
(* plans bought with one code, a wallet charge bought through Bazaar and a *)
(* store's charge through a gateway.                                       *)
(***************************************************************************)
EXTENDS Payments, TLC

CONSTANTS s1, s2, b1, k1, u1, c1, r1, r2

AllOwned   == [p \in Payments |-> u1]
Dearer     == [p \in Subscriptions |-> IF p = s1 THEN 1 ELSE 2]
WorthOne   == [p \in WalletTopups |-> 1]
SharedCode == [p \in Subscriptions |-> c1]
OneUse     == [c \in Codes |-> 1]

MinusOne   == -1

AnyRequest == Permutations(Requests)
=============================================================================
