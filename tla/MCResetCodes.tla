---------------------------- MODULE MCResetCodes ----------------------------
(* Instances of ResetCodes for TLC: a1..a3 ask for codes, r1..r4 present   *)
(* them.                                                                   *)
EXTENDS ResetCodes, TLC

CONSTANTS a1, a2, a3, r1, r2, r3, r4
Askers == {a1, a2, a3}
SomeRequests == Askers \cup {r1, r2, r3}
FewRequests == {a1, a2, r1, r2}
TwoAskers == {a1, a2}
Symmetry == Permutations(Askers) \cup Permutations({r1, r2, r3})
=============================================================================
