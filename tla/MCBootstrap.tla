----------------------------- MODULE MCBootstrap ----------------------------
(* Instances of Bootstrap for TLC. *)
EXTENDS Bootstrap, TLC

CONSTANTS i1, i2, i3
TwoInstances == {i1, i2}
ThreeInstances == {i1, i2, i3}
MCEmails == {"old", "new", "spare"}
MCConfigured == {"old", "new"}
MCUsers == {f \in [MCEmails -> {"none", "user"}] : f["new"] = "none" /\ f["spare"] = "none"}
Symmetry == Permutations(Instances)
=============================================================================
