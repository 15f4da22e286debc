---------------------------- MODULE TaskRequests ----------------------------
(***************************************************************************)
(* The request side of the Global Task Framework: SubmitTaskCommand with   *)
(* TaskManager.submit_task around it, CancelTaskCommand, and the wait of a *)
(* synchronous call that joined somebody else's task.  A user has one      *)
(* request in flight; the steps of different users interleave.             *)
(*                                                                         *)
(* The lock is taken by task_lock.  With the database backend the lock of  *)
(* a submit is part of the submit's own transaction (the transaction       *)
(* decorator does not commit nested calls), the lock of a cancel is        *)
(* committed before the cancel's transaction starts.  With Redis both are  *)
(* visible at once, and a submit gives the lock back before it commits.    *)
(*                                                                         *)
(* The ten-second expiry of the lock is not part of this module: a         *)
(* critical section is assumed to end before it (see DistributedLock).     *)
(***************************************************************************)
EXTENDS TaskStore

CONSTANT Admins   \* users for which security_manager.is_admin() holds

ASSUME RequestAssumption == Admins \subseteq Users

VARIABLE req   \* the request each user has in flight

Request == [pc: {"idle", "submitting", "unlocked", "scheduling", "waiting",
                 "cancelling", "locked", "deciding", "releasing",
                 "publishing"},
            key: Keys \cup {NoKey},
            task: Tasks \cup {NoTask},
            mode: {"async", "sync"},
            timeout: BOOLEAN,
            force: BOOLEAN,
            seen: Row,           \* the row as this request's session holds it
            plan: {"none", "unsubscribe", "abort", "published"}]

Idle == [pc |-> "idle", key |-> NoKey, task |-> NoTask, mode |-> "async",
         timeout |-> FALSE, force |-> FALSE, seen |-> NoRow, plan |-> "none"]

RequestTypeOK == req \in [Users -> Request]

RequestInit == req = [u \in Users |-> Idle]

\* The rows TaskFilter lets a user see.
Visible(u, t) == Exists(t) /\ (u \in Admins \/ u \in row[t].subs)

\* Bound: the rows not created yet must cover every submit on its way to
\* create one.
Fresh(t) == row[t].status = Absent
Creating == {u \in Users : /\ req[u].pc \in {"submitting", "unlocked"}
                           /\ req[u].task = NoTask}
RoomForOneMore ==
  Cardinality({t \in Tasks : Fresh(t)}) > Cardinality(Creating)
-----------------------------------------------------------------------------
(***************************************************************************)
(* Submit: take the lock, look the slot up, then create or join.           *)
(***************************************************************************)
SubmitLookup(u) ==
  /\ req[u].pc = "idle"
  /\ \E k \in Keys, m \in Modes, w \in TimeoutOptions :
       /\ LockFree(k)
       /\ lock' = [lock EXCEPT ![k] = IF Redis THEN "taken" ELSE "open"]
       /\ \E t \in Tasks \cup {NoTask} :
            /\ IF ActiveRows(k) = {} THEN t = NoTask /\ RoomForOneMore
               ELSE t \in ActiveRows(k)
            /\ req' = [req EXCEPT ![u] = [Idle EXCEPT
                         !.pc = "submitting", !.key = k, !.task = t,
                         !.mode = m, !.timeout = w]]
  /\ UNCHANGED <<row, queue, sent, channel, hist>>

\* Redis only: the with block of task_lock ends before the commit.
SubmitUnlock(u) ==
  /\ Redis
  /\ req[u].pc = "submitting"
  /\ lock' = [lock EXCEPT ![req[u].key] = "free"]
  /\ req' = [req EXCEPT ![u].pc = "unlocked"]
  /\ UNCHANGED <<row, queue, sent, channel, hist>>

\* The submit's transaction reaches its commit.
Committing(u) == req[u].pc = IF Redis THEN "unlocked" ELSE "submitting"

\* In the database backend the lock entry disappears with the commit.
ReleasedByCommit(u) ==
  lock' = IF Redis THEN lock ELSE [lock EXCEPT ![req[u].key] = "free"]

\* A new row, for which a Celery message is still to be sent.
SubmitCreate(u) ==
  /\ Committing(u)
  /\ req[u].task = NoTask
  /\ ActiveRows(req[u].key) = {}
  /\ \E t \in Tasks :
       /\ Fresh(t)
       /\ row' = [row EXCEPT ![t] =
                    NewRow(req[u].key, u, req[u].mode, req[u].timeout)]
       /\ req' = [req EXCEPT ![u].pc = "scheduling", ![u].task = t]
  /\ ReleasedByCommit(u)
  /\ UNCHANGED <<queue, sent, channel, hist>>

\* The unique index on dedup_key refuses the row: TaskCreateFailedError.
SubmitConflict(u) ==
  /\ Committing(u)
  /\ req[u].task = NoTask
  /\ ActiveRows(req[u].key) # {}
  /\ req' = [req EXCEPT ![u] = Idle]
  /\ ReleasedByCommit(u)
  /\ UNCHANGED <<row, queue, sent, channel, hist>>

\* Join the row found under the lock.  It may have finished meanwhile.  A
\* synchronous caller then waits for it.
SubmitJoin(u) ==
  /\ Committing(u)
  /\ req[u].task # NoTask
  /\ row' = [row EXCEPT ![req[u].task].subs =
               IF Exists(req[u].task) THEN @ \cup {u} ELSE @]
  /\ req' = [req EXCEPT ![u] =
               IF req[u].mode = "sync" /\ Exists(req[u].task)
               THEN [@ EXCEPT !.pc = "waiting"] ELSE Idle]
  /\ ReleasedByCommit(u)
  /\ UNCHANGED <<queue, sent, channel, hist>>

\* execute_task.delay for a new task; a synchronous call runs it right here.
Schedule(u) ==
  /\ req[u].pc = "scheduling"
  /\ queue' = [queue EXCEPT ![req[u].task] = 1]
  /\ sent' = [sent EXCEPT ![req[u].task] = 1]
  /\ req' = [req EXCEPT ![u] = Idle]
  /\ UNCHANGED <<row, lock, channel, hist>>

\* wait_for_completion returns a finished task, or raises when it can no
\* longer see the row (a user who unsubscribed).
WaitEnds(u) ==
  /\ req[u].pc = "waiting"
  /\ Visible(u, req[u].task) => Finished(req[u].task)
  /\ req' = [req EXCEPT ![u] = Idle]
  /\ UNCHANGED storeVars

\* The caller's own timeout ends the wait; the task goes on.
WaitTimesOut(u) ==
  /\ req[u].pc = "waiting"
  /\ req[u].timeout
  /\ req' = [req EXCEPT ![u] = Idle]
  /\ UNCHANGED storeVars

\* The web process dies between the commit and execute_task.delay.
SubmitterDies(u) ==
  /\ req[u].pc = "scheduling"
  /\ req' = [req EXCEPT ![u] = Idle]
  /\ UNCHANGED storeVars

Submit(u) ==
  \/ SubmitLookup(u)
  \/ SubmitUnlock(u)
  \/ SubmitCreate(u)
  \/ SubmitConflict(u)
  \/ SubmitJoin(u)
  \/ Schedule(u)
  \/ WaitEnds(u)
  \/ WaitTimesOut(u)
-----------------------------------------------------------------------------
(***************************************************************************)
(* Cancel: fetch the row for its key, take the lock, decide on the row the *)
(* session holds, write, give the lock back, publish.                      *)
(***************************************************************************)
CancelFetch(u) ==
  /\ req[u].pc = "idle"
  /\ \E t \in Tasks, f \in BOOLEAN :
       /\ Visible(u, t)
       /\ req' = [req EXCEPT ![u] = [Idle EXCEPT
                    !.pc = "cancelling", !.key = row[t].key, !.task = t,
                    !.force = f, !.seen = row[t]]]
  /\ UNCHANGED storeVars

\* The acquisition commits the database entry, which expires the row this
\* session has loaded; with Redis there is no commit and the row stays.
CancelLock(u) ==
  /\ req[u].pc = "cancelling"
  /\ LockFree(req[u].key)
  /\ lock' = [lock EXCEPT ![req[u].key] = "taken"]
  /\ req' = [req EXCEPT ![u].pc = "locked"]
  /\ UNCHANGED <<row, queue, sent, channel, hist>>

\* AcquireDistributedLockFailedException: somebody else holds the lock.
CancelRefused(u) ==
  /\ req[u].pc = "cancelling"
  /\ LockRefused(req[u].key)
  /\ req' = [req EXCEPT ![u] = Idle]
  /\ UNCHANGED storeVars

\* _validate_permissions on the row r.
MayCancel(u, r) ==
  /\ r.status \in ACTIVE_STATES
  /\ u \in Admins \/ u \in r.subs

\* _do_cancel: abort for everybody, or only leave?
ShouldAbortWithOneOther(u, r, force) ==              \* mutant
  (u \in Admins /\ force) \/ Cardinality(r.subs) <= 2

ShouldAbort(u, r, force) == (u \in Admins /\ force) \/ Cardinality(r.subs) <= 1

\* abort_task raises TaskNotAbortableError otherwise.
CanAbort(r) == r.status = "in_progress" => r.abortable

CancelPlan(u, r, force) ==
  IF ~MayCancel(u, r) \/ (force /\ u \notin Admins) THEN "none"
  ELSE IF ShouldAbort(u, r, force)
       THEN IF CanAbort(r) THEN "abort" ELSE "none"
       ELSE IF u \in r.subs THEN "unsubscribe" ELSE "none"

\* The one SELECT of the transaction, and the decision taken on it.
CancelDecide(u) ==
  /\ req[u].pc = "locked"
  /\ LET r == IF Redis THEN req[u].seen ELSE row[req[u].task]
         p == IF Visible(u, req[u].task)
              THEN CancelPlan(u, r, req[u].force) ELSE "none"
     IN req' = [req EXCEPT
                  ![u].seen = r, ![u].plan = p,
                  ![u].pc = IF p = "none" THEN "releasing" ELSE "deciding"]
  /\ UNCHANGED storeVars

\* The status abort_task sets, from the status it saw.
AbortTargetUnknown(seen) ==                          \* mutant
  IF seen.status = "pending" THEN "cancelled" ELSE "aborting"

AbortTarget(seen) == IF seen.status = "pending" THEN "aborted" ELSE "aborting"

CancelAbort(u) ==
  LET t == req[u].task IN
  /\ req[u].pc = "deciding"
  /\ req[u].plan = "abort"
  /\ row' = [row EXCEPT ![t] =
               SetStatus(@, req[u].seen, AbortTarget(req[u].seen))]
  /\ hist' = [hist EXCEPT ![t].cancelled = TRUE]
  /\ req' = [req EXCEPT
               ![u].pc = "releasing", ![u].seen = NoRow,
               ![u].plan = IF AbortTarget(req[u].seen) = "aborting"
                           THEN "published" ELSE "none"]
  /\ UNCHANGED <<lock, queue, sent, channel>>

CancelUnsubscribe(u) ==
  /\ req[u].pc = "deciding"
  /\ req[u].plan = "unsubscribe"
  /\ row' = [row EXCEPT ![req[u].task].subs = @ \ {u}]
  /\ req' = [req EXCEPT ![u].pc = "releasing", ![u].seen = NoRow,
                        ![u].plan = "none"]
  /\ UNCHANGED <<lock, queue, sent, channel, hist>>

CancelRelease(u) ==
  /\ req[u].pc = "releasing"
  /\ lock' = [lock EXCEPT ![req[u].key] = "free"]
  /\ req' = [req EXCEPT ![u] =
               IF Redis /\ req[u].plan = "published"
               THEN [@ EXCEPT !.pc = "publishing"] ELSE Idle]
  /\ UNCHANGED <<row, queue, sent, channel, hist>>

\* publish_abort reaches only a listener that has subscribed.
CancelPublish(u) ==
  /\ req[u].pc = "publishing"
  /\ channel' = [channel EXCEPT ![req[u].task] =
                   IF @ = "open" THEN "abort" ELSE @]
  /\ req' = [req EXCEPT ![u] = Idle]
  /\ UNCHANGED <<row, lock, queue, sent, hist>>

Cancel(u) ==
  \/ CancelFetch(u)
  \/ CancelLock(u)
  \/ CancelRefused(u)
  \/ CancelDecide(u)
  \/ CancelAbort(u)
  \/ CancelUnsubscribe(u)
  \/ CancelRelease(u)
  \/ CancelPublish(u)
=============================================================================
