---------------------------- MODULE OrderPromise ----------------------------
(***************************************************************************)
(* What an order promises to the two parties, with everything that can     *)
(* race left out: the goods are handed over, or the money of a sale that   *)
(* fell through is paid back, never both.                                  *)
(*                                                                         *)
(* phase[o]: ABSENT  no order yet                                          *)
(*           OPEN    the seller has not accepted it, or took it back       *)
(*           HELD    accepted; the goods are set aside                     *)
(*           GONE    the goods have left the shop                          *)
(*           DEAD    cancelled for good                                    *)
(* returned: the orders whose fallen-through sale has been paid back       *)
(***************************************************************************)
CONSTANT Orders

VARIABLES phase, returned

vars == <<phase, returned>>

Init ==
    /\ phase = [o \in Orders |-> "ABSENT"]
    /\ returned = {}

Move(o, from, to) ==
    /\ phase[o] \in from
    /\ phase' = [phase EXCEPT ![o] = to]
    /\ UNCHANGED returned

Place(o)    == Move(o, {"ABSENT"}, "OPEN")
Accept(o)   == o \notin returned /\ Move(o, {"OPEN"}, "HELD")
TakeBack(o) == Move(o, {"HELD"}, "OPEN")
HandOver(o) == Move(o, {"HELD"}, "GONE")
Kill(o)     == Move(o, {"OPEN", "HELD"}, "DEAD")

PayBack(o) ==
    /\ phase[o] \in {"OPEN", "DEAD"}
    /\ returned' = returned \cup {o}
    /\ UNCHANGED phase

Next == \E o \in Orders :
            \/ Place(o) \/ Accept(o) \/ TakeBack(o)
            \/ HandOver(o) \/ Kill(o) \/ PayBack(o)

Spec == Init /\ [][Next]_vars

=============================================================================
