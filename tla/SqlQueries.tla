----------------------------- MODULE SqlQueries -----------------------------
(* The queries of SQL Lab: a client id, a row and a run each. *)
CONSTANT Queries
=============================================================================
