---------------------------- MODULE MCStoreCredit ----------------------------
(***************************************************************************)
(* Instances of StoreCredit for TLC: SnapppPay is dearer than the other    *)
(* sources, and a buyer's use of a model is dearer than the seller's.      *)
(***************************************************************************)
EXTENDS StoreCredit, TLC

CONSTANTS c1, c2, t1

OwnMarkups == [k \in Kinds |-> [s \in Sources |->
                  (IF s = "SNAPPPAY" THEN 2 ELSE 1)
                    + (IF k = "BUYER" THEN 1 ELSE 0)]]

GlobalMarkups == [k \in Kinds |-> IF k = "BUYER" THEN 2 ELSE 1]

InSchemaOrder ==
    [s \in Sources |-> CASE s = "ZIBAL" -> 1        [] s = "ZARINPAL" -> 2
                         [] s = "VANDAR" -> 3       [] s = "BAZAAR" -> 4
                         [] s = "SNAPPPAY" -> 5     [] s = "ADMIN_MANUAL" -> 6
                         [] s = "LEGACY" -> 7]

AnyChat == Permutations(Chats)
=============================================================================
