-------------------------- MODULE MCTaskFramework --------------------------
(***************************************************************************)
(* Small instances of TaskFramework and of the claims about it, for TLC.   *)
(***************************************************************************)
EXTENDS TaskClaims, TLC

CONSTANTS t1, t2, u1, u2, r1, r2, k1

Interchangeable == Permutations({t1, t2}) \cup Permutations({r1, r2})
=============================================================================
