-------------------------------- MODULE Mutex --------------------------------
(***************************************************************************)
(* What task_lock (superset/tasks/locks.py) and DistributedLock promise    *)
(* their callers: the bodies of two with-statements on one key never       *)
(* overlap.  A process leaves when its body ends or when it dies.          *)
(***************************************************************************)
CONSTANT Procs
VARIABLE inside

Init == inside = {}

Enter(p) == inside = {} /\ inside' = {p}
Leave(p) == p \in inside /\ inside' = inside \ {p}

Next == \E p \in Procs : Enter(p) \/ Leave(p)

Spec == Init /\ [][Next]_inside
=============================================================================
