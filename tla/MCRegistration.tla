--------------------------- MODULE MCRegistration ---------------------------
(* An instance of Registration for TLC: an account is registered or        *)
(* created by an admin, beside a resend or a second creation and two       *)
(* verifications.                                                          *)
EXTENDS Registration

CONSTANTS g1, s1, v1, v2
Everyone == {g1, s1, v1, v2}
FourRequests ==
  [p \in Requests |-> CASE p = g1 -> {"register", "create"}
                        [] p = s1 -> {"resend", "create"}
                        [] OTHER -> {"verify"}]
=============================================================================
