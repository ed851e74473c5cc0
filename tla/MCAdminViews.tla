---------------------------- MODULE MCAdminViews ----------------------------
(* Two users on pages of one or two, every click that fits the bounds.     *)
EXTENDS AdminViews

MCActors == {"user", "admin", "system"}
MCFirstUsers == 1..2
MCPerPages == 1..2
=============================================================================
