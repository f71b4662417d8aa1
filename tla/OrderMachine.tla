---------------------------- MODULE OrderMachine ----------------------------
(***************************************************************************)
(* The order status machine: the pure transition table that every status   *)
(* change of an order goes through (order-state.machine.ts), and the set   *)
(* of statuses in which the ordered goods are taken out of the stock.      *)
(***************************************************************************)

Statuses == {"PENDING_PAYMENT", "RECEIPT_SUBMITTED", "APPROVED", "SHIPPED",
             "DELIVERED", "REJECTED", "CANCELLED"}

\* ORDER_TRANSITIONS, one pair per permitted move.  REJECTED is left again by
\* a second approval or by a fresh receipt; DELIVERED and CANCELLED are final.
OrderTransitions ==
    ({"PENDING_PAYMENT"}   \X {"RECEIPT_SUBMITTED", "APPROVED",
                               "REJECTED", "CANCELLED"}) \cup
    ({"RECEIPT_SUBMITTED"} \X {"APPROVED", "REJECTED", "CANCELLED"}) \cup
    ({"APPROVED"}          \X {"SHIPPED", "REJECTED", "CANCELLED"}) \cup
    ({"SHIPPED"}           \X {"DELIVERED"}) \cup
    ({"REJECTED"}          \X {"APPROVED", "RECEIPT_SUBMITTED"})

CanTransition(from, to) == <<from, to>> \in OrderTransitions

StockHeld == {"APPROVED", "SHIPPED", "DELIVERED"}

HoldsStock(s) == s \in StockHeld

=============================================================================
