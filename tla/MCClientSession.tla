-------------------------- MODULE MCClientSession --------------------------
(* One browser, one user, a limit of two requests per window. *)
EXTENDS ClientSession

MCIpMax == [e \in {"refresh", "login", "logout", "reset-password"} |-> 2]
=============================================================================
