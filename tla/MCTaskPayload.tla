--------------------------- MODULE MCTaskPayload ---------------------------
(* Values for the constants of TaskPayload. *)
EXTENDS TaskPayload

CONSTANTS t1, t2, c1, c2
=============================================================================
