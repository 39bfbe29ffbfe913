----------------------------- MODULE MCTaskChain -----------------------------
(* Works of both error types and a coroutine that awaits either, one token. *)
EXTENDS TaskChain

CONSTANTS w1, w2, c1, k1
=============================================================================
