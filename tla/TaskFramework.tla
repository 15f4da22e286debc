--------------------------- MODULE TaskFramework ---------------------------
(***************************************************************************)
(* The Global Task Framework: the requests of users (TaskRequests), the    *)
(* runs of tasks (TaskExecution), the broker and the prune job, composed   *)
(* over the shared state of TaskStore.                                     *)
(***************************************************************************)
EXTENDS TaskRequests, TaskExecution

CONSTANT Crashes   \* processes may die between two steps

ASSUME CrashAssumption == Crashes \in BOOLEAN

vars == <<storeVars, req, execVars>>

Init == StoreInit /\ RequestInit /\ ExecutionInit

\* Nobody has the task in hand.  The prune job deletes rows that ended days
\* ago: no request and no run is assumed to last that long.
Quiet(t) ==
  /\ \A u \in Users : req[u].task # t
  /\ \A r \in Runs : run[r].task = t => run[r].pc = "done"
  /\ \A r \in Runs, h \in Threads :
       run[r].task = t => thread[r][h].pc \in {"off", "done"}

\* TaskPruneCommand.
Prune(t) ==
  /\ Finished(t)
  /\ Quiet(t)
  /\ row' = [row EXCEPT ![t].status = Pruned, ![t].subs = {}]
  /\ UNCHANGED <<lock, queue, sent, channel, hist>>

RequestStep == \E u \in Users : Submit(u) \/ Cancel(u)
RunStep == \E r \in Runs : Execute(r) \/ Background(r)
StoreStep == \E t \in Tasks : Redeliver(t) \/ Prune(t)
CrashStep ==
  /\ Crashes
  /\ \/ \E u \in Users : SubmitterDies(u) /\ UNCHANGED execVars
     \/ \E r \in Runs : WorkerDies(r) /\ UNCHANGED req

Next ==
  \/ RequestStep /\ UNCHANGED execVars
  \/ RunStep /\ UNCHANGED req
  \/ StoreStep /\ UNCHANGED <<req, execVars>>
  \/ CrashStep

Spec == Init /\ [][Next]_vars

(***************************************************************************)
(* Fairness.  A worker thread that can go on does, and task bodies return. *)
(* A request that has begun goes on; no user has to begin one, and nothing *)
(* has to be delivered twice or pruned.                                    *)
(***************************************************************************)
RequestContinues(u) ==
  \/ SubmitUnlock(u) \/ SubmitCreate(u) \/ SubmitConflict(u) \/ SubmitJoin(u)
  \/ Schedule(u) \/ WaitEnds(u)
  \/ CancelLock(u) \/ CancelRefused(u) \/ CancelDecide(u) \/ CancelAbort(u)
  \/ CancelUnsubscribe(u) \/ CancelRelease(u) \/ CancelPublish(u)

Fairness ==
  /\ \A u \in Users : WF_vars(RequestContinues(u) /\ UNCHANGED execVars)
  /\ \A r \in Runs : /\ WF_vars(Execute(r) /\ UNCHANGED req)
                     /\ WF_vars(Background(r) /\ UNCHANGED req)

FairSpec == Spec /\ Fairness
-----------------------------------------------------------------------------
\* Every variable has its type.
TypeOK == StoreTypeOK /\ RequestTypeOK /\ ExecutionTypeOK

\* However often Celery delivers the message of a task, and whatever cancels
\* and timeouts do meanwhile, its function is started at most once: no write
\* of any process ever brings a row back to PENDING.
BodyRunsOnce == \A t \in Tasks : hist[t].starts <= 1

\* A row that has left the active states has given its dedup_key back, also
\* after a stale write has overwritten its status, and no two rows ever hold
\* the slot of one key.
SlotDiscipline ==
  /\ \A t \in Tasks : row[t].keyed => row[t].status \in ACTIVE_STATES
  /\ \A s, t \in Tasks :
       row[s].keyed /\ row[t].keyed /\ row[s].key = row[t].key => s = t

\* Every behaviour of the framework, with everything its processes read and
\* write, is one of TaskSlots: no interleaving of submits, cancels, timeouts,
\* reports, redeliveries and crashes starts a function twice, starts it
\* without the slot, or hands a slot out while it is held.
Slots == INSTANCE TaskSlots WITH
  created <- {t \in Tasks : row[t].status # Absent},
  holders <- [k \in Keys |-> {t \in Tasks : row[t].keyed /\ row[t].key = k}],
  starts <- [t \in Tasks |-> hist[t].starts]

ImplementsTaskSlots == Slots!Spec

\* What has been left behind in each of the active statuses.
LeftBehind == [pending |-> {}, in_progress |-> {"pending"},
               aborting |-> {"pending", "in_progress"}]

\* A task that has not ended never falls back: an abort in progress is not
\* undone by the IN_PROGRESS that execute_task assigns to its own instance
\* and that any later commit of the executor may write, nor does a stale
\* write, a second delivery or a crash put a task back in front of the queue.
StatusMovesOn ==
  [][\A t \in Tasks : row[t].status \in ACTIVE_STATES
       => row'[t].status \notin LeftBehind[row[t].status]]_vars

\* The process that still has to move task t on.
InCharge(t) ==
  \/ \E u \in Users : req[u].pc = "scheduling" /\ req[u].task = t
  \/ queue[t] > 0
  \/ \E r \in Runs : run[r].task = t /\ run[r].pc # "done"

\* A slot is never left behind: while a row holds the slot of its key, some
\* process is still on its way to end it.  Otherwise every later submit of
\* the key would join a task that nobody will ever run or finish.
SlotIsOwned == \A t \in Tasks : row[t].keyed => InCharge(t)

\* A terminal status tells what happened: SUCCESS that the function returned,
\* FAILURE that it was at least run to an end, ABORTED that somebody
\* cancelled, TIMED_OUT that the deadline passed.
ResultIsHonest ==
  \A t \in Tasks :
    /\ row[t].status = "success" => hist[t].body = "returned"
    /\ row[t].status = "failure" => hist[t].body # "no"
    /\ row[t].status = "aborted" => hist[t].cancelled
    /\ row[t].status = "timed_out" => hist[t].timedOut

\* Abort handlers run only for a task that was cancelled or ran too long,
\* whichever of the three threads finds the reason to run them.
HandlersNeedCause ==
  \A t \in Tasks : hist[t].handled => hist[t].cancelled \/ hist[t].timedOut

\* An asynchronous task is reported as timed out only after its abort
\* handlers have run.  (A synchronous call does not wait for them.)
TimeoutRanHandlers ==
  \A t \in Tasks : row[t].mode = "async" /\ row[t].status = "timed_out"
                     => hist[t].handled

\* A cancel that is not forced by an administrator never aborts a task that
\* somebody else is subscribed to at that moment, whatever the canceller had
\* read before: a submit that joins and a cancel exclude each other.
JoinersKeepTheirTask ==
  [][\A u \in Users :
       /\ req[u].pc = "deciding" /\ req[u].plan = "abort"
       /\ req'[u].pc = "releasing"
       /\ ~(u \in Admins /\ req[u].force)
       => Cardinality(row[req[u].task].subs) <= 1]_vars

\* Every task that is submitted reaches a terminal status.
EveryTaskEnds ==
  \A t \in Tasks : row[t].status = "pending" ~> row[t].status \notin ACTIVE_STATES

\* A synchronous call that joined an existing task does not wait for ever.
WaitersReturn ==
  \A u \in Users : req[u].pc = "waiting" ~> req[u].pc = "idle"
=============================================================================
