---------------------------- MODULE MCSnowflake -----------------------------
(* Instances of Snowflake for TLC. *)
EXTENDS Snowflake, TLC

CONSTANTS t1, t2
TwoThreads == {t1, t2}

(* The hypothesis of the theorems about ids, for these widths *)
ASSUME FieldsAddHere == FieldsAdd

Symmetry == Permutations(Threads)
=============================================================================
