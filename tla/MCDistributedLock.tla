-------------------------- MODULE MCDistributedLock --------------------------
(* DistributedLock on a small instance. *)
EXTENDS DistributedLock

CONSTANTS p1, p2, p3

\* A host one tick west of Greenwich.
West == -1
=============================================================================
