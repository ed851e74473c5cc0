----------------------------- MODULE MCSessions -----------------------------
(* Instances of Sessions for TLC: which operations each request may be.    *)
EXTENDS Sessions, TLC

CONSTANTS u1, p1, p2, p3

OneUser == {u1}
TwoRequests == {p1, p2}
ThreeRequests == {p1, p2, p3}
PlainUser == [u \in Users |-> "user"]

(* Any handler against any other *)
Anything == [p \in Requests |-> Ops]

(* A rotation beside a password change *)
RefreshAndChange ==
  [p \in Requests |-> IF p = p1 THEN {"refresh"} ELSE {"change_password"}]

Symmetry == Permutations(Requests)
=============================================================================
