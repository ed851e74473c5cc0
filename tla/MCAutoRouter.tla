---------------------------- MODULE MCAutoRouter ----------------------------
(* An instance of AutoRouter for TLC. *)
EXTENDS AutoRouter

CONSTANTS r1, r2
TwoRequests == {r1, r2}
=============================================================================
