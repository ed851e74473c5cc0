---------------------------- MODULE MCCacheLock -----------------------------
(* An instance of CacheLock for TLC: two calls, of any kind each.          *)
EXTENDS CacheLock

CONSTANTS c1, c2
TwoCallers == {c1, c2}
=============================================================================
