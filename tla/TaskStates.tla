----------------------------- MODULE TaskStates -----------------------------
(***************************************************************************)
(* The life of a task of the Global Task Framework (GTF), as named in      *)
(* superset/tasks/constants.py.  A status is the value stored in the       *)
(* status column of the tasks table; Absent and Pruned stand for "no row   *)
(* yet" and "row deleted by the prune job".                                *)
(***************************************************************************)
Absent == "absent"
Pruned == "pruned"

\* Task execution has ended and the deduplication slot is freed.
TERMINAL_STATES == {"success", "failure", "aborted", "timed_out"}

\* The task still reserves its deduplication slot.
ACTIVE_STATES == {"pending", "in_progress", "aborting"}

\* A cancel request may still turn the task towards its end.
ABORTABLE_STATES == {"pending", "in_progress"}

\* The task is being aborted or has been aborted.
ABORT_STATES == {"aborting", "aborted"}

TaskStatus == ACTIVE_STATES \cup TERMINAL_STATES

RowStatus == TaskStatus \cup {Absent, Pruned}
=============================================================================
