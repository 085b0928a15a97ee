----------------------------- MODULE MCAsyncClient -----------------------------
(* AsyncClient with two tasks, on one thread or on two. *)
EXTENDS AsyncClient

CONSTANTS a, b
MCPlacements == {[t \in {a, b} |-> 1], [t \in {a, b} |-> IF t = a THEN 1 ELSE 2]}
=============================================================================
