--------------------------- MODULE PaymentPromise ---------------------------
(***************************************************************************)
(* What a payment promises, with everything that can race left out: its    *)
(* fate is settled once and for good, what was bought is given once, and   *)
(* only for money that the gateway or Bazaar vouches for.                  *)
(*                                                                         *)
(* fate[p]:  OPEN, GIVEN (the effect was booked) or REFUSED                *)
(* vouched:  the payments whose money was confirmed                        *)
(* given[p]: how often what was bought was given                           *)
(***************************************************************************)
EXTENDS Naturals

CONSTANT Payments

VARIABLES fate, vouched, given

vars == <<fate, vouched, given>>

Init ==
    /\ fate = [p \in Payments |-> "OPEN"]
    /\ vouched = {}
    /\ given = [p \in Payments |-> 0]

Vouch(p) ==
    /\ vouched' = vouched \cup {p}
    /\ UNCHANGED <<fate, given>>

Give(p) ==
    /\ fate[p] = "OPEN"
    /\ p \in vouched
    /\ fate' = [fate EXCEPT ![p] = "GIVEN"]
    /\ given' = [given EXCEPT ![p] = @ + 1]
    /\ UNCHANGED vouched

\* Of vouched money too: a gateway may refuse what it confirmed to another.
Refuse(p) ==
    /\ fate[p] = "OPEN"
    /\ fate' = [fate EXCEPT ![p] = "REFUSED"]
    /\ UNCHANGED <<vouched, given>>

Next == \E p \in Payments : Vouch(p) \/ Give(p) \/ Refuse(p)

Spec == Init /\ [][Next]_vars

=============================================================================
