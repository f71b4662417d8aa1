----------------------------- MODULE MCVideoJobs -----------------------------
(***************************************************************************)
(* Instances of VideoJobs for TLC.                                         *)
(***************************************************************************)
EXTENDS VideoJobs, TLC

CONSTANTS j1, j2, h1

\* A dear job and a cheap one, which the check takes to cost alike.
Prices == (j1 :> 2) @@ (j2 :> 1)
=============================================================================
