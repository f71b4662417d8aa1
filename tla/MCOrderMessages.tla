--------------------------- MODULE MCOrderMessages ---------------------------
(***************************************************************************)
(* Instances of OrderMessages for TLC.                                     *)
(***************************************************************************)
EXTENDS OrderMessages

CONSTANTS m1, n1, p1, p2, r1

SomeKeys == {<<m1, "CHAT">>}

\* There is a second job for a reminder, should one be given twice.
SomeCopies ==
    {<<m1, "CHAT", 1>>, <<m1, "CHAT", 2>>, <<m1, "SMS", 1>>, <<n1, "SMS", 1>>}
=============================================================================
