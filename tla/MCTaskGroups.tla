----------------------------- MODULE MCTaskGroups -----------------------------
(* Values for the constants of TaskGroups. *)
EXTENDS TaskGroups

CONSTANTS t1, t2, t3, k1, k2, e1, e2

MCInputs == <<t1, t2>>
=============================================================================
