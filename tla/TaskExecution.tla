--------------------------- MODULE TaskExecution ---------------------------
(***************************************************************************)
(* The execution side of the Global Task Framework.  A run is one attempt  *)
(* to execute a task: execute_task in a Celery worker for an asynchronous  *)
(* task, TaskWrapper._execute_inline in the caller for a synchronous one.  *)
(* A run that has picked its task up owns a TaskContext, which up to three *)
(* threads touch: the executor itself, the timeout timer and the abort     *)
(* listener.  The flags of the context are plain attributes: every read    *)
(* of a flag and every later use of it are two steps.                      *)
(***************************************************************************)
EXTENDS TaskStore

CONSTANTS
  Runs,            \* bound: the execution attempts
  HandlerOptions,  \* whether a task body may register abort handlers
  HandlersFail,    \* abort handlers may raise
  CleanupFails,    \* cleanup handlers may raise
  BodiesFail       \* task bodies may raise

ASSUME ExecutionAssumption ==
  /\ HandlerOptions \subseteq BOOLEAN
  /\ {HandlersFail, CleanupFails, BodiesFail} \subseteq BOOLEAN

VARIABLES
  run,     \* the executor thread of each run with its TaskContext
  thread   \* the timer thread and the listener thread of each run

execVars == <<run, thread>>

Threads == {"timer", "listener"}

RunState == [pc: {"new", "fetched", "body", "listen", "settle", "store",
                  "cleanup", "abortcheck", "cleaners", "report",
                  "reporting", "unlocked", "decide", "final", "done"},
             task: Tasks \cup {NoTask},
             seen: Row,              \* the row as this run has read it
             target: TERMINAL_STATES, \* the status it is about to write
             dirty: BOOLEAN,         \* unflushed task.status = in_progress
             loaded: RowStatus,      \* status held by the ORM instance
             registered: BOOLEAN,    \* an abort handler is registered
             failed: BOOLEAN,        \* the body raised
             abortDetected: BOOLEAN,
             completed: BOOLEAN,     \* mark_execution_completed was called
             timedOut: BOOLEAN,      \* _timeout_triggered
             handlersDone: BOOLEAN,  \* _abort_handlers_completed
             failures: SUBSET {"abort", "cleanup"}]

NewRun == [pc |-> "new", task |-> NoTask, seen |-> NoRow,
           target |-> "success", dirty |-> FALSE, loaded |-> Absent,
           registered |-> FALSE, failed |-> FALSE, abortDetected |-> FALSE,
           completed |-> FALSE, timedOut |-> FALSE, handlersDone |-> FALSE,
           failures |-> {}]

ThreadState == [pc: {"off", "armed", "check", "write", "unlocked", "detect",
                     "claim", "handle", "done"},
                seen: Row]

NoThread == [pc |-> "off", seen |-> NoRow]

ExecutionTypeOK ==
  /\ run \in [Runs -> RunState]
  /\ thread \in [Runs -> [Threads -> ThreadState]]

ExecutionInit ==
  /\ run = [r \in Runs |-> NewRun]
  /\ thread = [r \in Runs |-> [h \in Threads |-> NoThread]]

TaskOf(r) == row[run[r].task]
Async(r) == TaskOf(r).mode = "async"

\* Absent marks an ORM instance that the last commit has expired: reading
\* its status loads it from the table again.
StatusSeen(r) == IF run[r].loaded = Absent THEN TaskOf(r).status
                 ELSE run[r].loaded

\* The row after the session has flushed the assignment that execute_task
\* makes to its own instance after the pickup.
Flushed(r) == IF run[r].dirty /\ Exists(run[r].task)
              THEN [TaskOf(r) EXCEPT !.status = "in_progress"] ELSE TaskOf(r)

\* What a commit of the executor's session does to its instance.
CommittedStaysDirty(x) == [x EXCEPT !.loaded = Absent]   \* mutant
Committed(x) == [x EXCEPT !.dirty = FALSE, !.loaded = Absent]

ThreadPc(r, h) == thread[r][h].pc
MoveThread(r, h, pc) == thread' = [thread EXCEPT ![r][h].pc = pc]

MayFail(flag) == IF flag THEN BOOLEAN ELSE {FALSE}
-----------------------------------------------------------------------------
(***************************************************************************)
(* From the queue to the body.                                             *)
(***************************************************************************)
Fetch(r) ==
  /\ run[r].pc = "new"
  /\ \E t \in Tasks :
       /\ queue[t] > 0
       /\ queue' = [queue EXCEPT ![t] = @ - 1]
       /\ run' = [run EXCEPT ![r] = [NewRun EXCEPT
                    !.task = t, !.seen = IF Exists(t) THEN row[t] ELSE NoRow,
                    !.pc = IF Exists(t) THEN "fetched" ELSE "done"]]
  /\ UNCHANGED <<row, lock, sent, channel, hist, thread>>

\* Aborted while it waited: make sure the row says so, and stop.
SkipAborted(r) ==
  LET t == run[r].task IN
  /\ run[r].pc = "fetched"
  /\ run[r].seen.status \in ABORT_STATES
  /\ row' = IF CanSwap(row[t], {"pending", "aborting"})
            THEN [row EXCEPT ![t] = Swap(@, "aborted", FALSE)] ELSE row
  /\ run' = [run EXCEPT ![r].pc = "done", ![r].seen = NoRow]
  /\ UNCHANGED <<lock, queue, sent, channel, hist, thread>>

\* The statuses from which a run may start the body.
PickupFromAnyActive == {"pending", "in_progress"}   \* mutant
PickupFrom == {"pending"}

\* PENDING -> IN_PROGRESS, then the context and the timer.
Pickup(r) ==
  LET t == run[r].task IN
  /\ run[r].pc = "fetched"
  /\ run[r].seen.status \notin ABORT_STATES
  /\ CanSwap(row[t], PickupFrom)
  /\ row' = [row EXCEPT ![t] = Swap(@, "in_progress", FALSE)]
  /\ hist' = [hist EXCEPT ![t].starts = @ + 1]
  /\ run' = [run EXCEPT ![r].pc = "body", ![r].seen = NoRow,
                        ![r].dirty = TRUE, ![r].loaded = "in_progress"]
  /\ thread' = [thread EXCEPT ![r]["timer"].pc =
                  IF row[t].timeout THEN "armed" ELSE "off"]
  /\ UNCHANGED <<lock, queue, sent, channel>>

PickupFails(r) ==
  /\ run[r].pc = "fetched"
  /\ run[r].seen.status \notin ABORT_STATES
  /\ ~CanSwap(TaskOf(r), PickupFrom)
  /\ run' = [run EXCEPT ![r].pc = "done", ![r].seen = NoRow]
  /\ UNCHANGED <<storeVars, thread>>

\* on_abort, first handler: is_abortable is written and committed ...
RegisterHandler(r) ==
  /\ run[r].pc = "body"
  /\ TRUE \in HandlerOptions
  /\ ~run[r].registered
  /\ row' = [row EXCEPT ![run[r].task] = [Flushed(r) EXCEPT
                          !.abortable = Exists(run[r].task)]]
  /\ run' = [run EXCEPT ![r] =
               [Committed(@) EXCEPT !.registered = TRUE, !.pc = "listen"]]
  /\ UNCHANGED <<lock, queue, sent, channel, hist, thread>>

\* ... and then the listener thread is started.
StartListener(r) ==
  /\ run[r].pc = "listen"
  /\ run' = [run EXCEPT ![r].pc = "body"]
  /\ MoveThread(r, "listener", "check")
  /\ channel' = [channel EXCEPT ![run[r].task] =
                   IF Redis THEN "open" ELSE @]
  /\ UNCHANGED <<row, lock, queue, sent, hist>>

\* update_task writes properties and payload; its commit flushes the
\* executor's instance as well.
UpdateTask(r) ==
  /\ run[r].pc = "body"
  /\ run[r].dirty \/ run[r].loaded # Absent
  /\ row' = [row EXCEPT ![run[r].task] = Flushed(r)]
  /\ run' = [run EXCEPT ![r] = Committed(@)]
  /\ UNCHANGED <<lock, queue, sent, channel, hist, thread>>

\* The body returns or raises.  execute_task then calls
\* mark_execution_completed, _execute_inline does not.
BodyEnds(r) ==
  /\ run[r].pc = "body"
  /\ \E f \in MayFail(BodiesFail) :
       /\ run' = [run EXCEPT ![r].pc = "settle", ![r].failed = f,
                             ![r].completed = Async(r)]
       /\ hist' = [hist EXCEPT ![run[r].task].body =
                     IF f THEN "raised" ELSE "returned"]
  /\ UNCHANGED <<row, lock, queue, sent, channel, thread>>
-----------------------------------------------------------------------------
(***************************************************************************)
(* From the end of the body to the terminal status.                        *)
(***************************************************************************)
Detected(r) == run[r].abortDetected \/ run[r].timedOut

\* The flags are read; the status to write is chosen from them.
Settle(r) ==
  /\ run[r].pc = "settle"
  /\ run' = [run EXCEPT ![r] =
       IF run[r].failed THEN [@ EXCEPT !.pc = "store", !.target = "failure"]
       ELSE IF ~Detected(r)
            THEN [@ EXCEPT !.pc = "store", !.target = "success"]
       ELSE IF Async(r) THEN [@ EXCEPT !.pc = "cleanup"]
       ELSE [@ EXCEPT !.pc = "store",
               !.target = IF run[r].timedOut THEN "timed_out" ELSE "aborted"]]
  /\ UNCHANGED <<storeVars, thread>>

\* The statuses from which the outcome of the body may be stored.
ExpectedNoLateAbort(r) ==                            \* mutant
  CASE run[r].target = "failure" -> {"in_progress", "aborting"}
    [] run[r].target = "success" -> {"in_progress"}
    [] OTHER -> {"aborting"}

ExpectedFailureWhenAborting(r) ==                    \* mutant
  IF run[r].target = "failure" THEN {"aborting"} ELSE {"in_progress", "aborting"}

Expected(r) ==
  CASE run[r].target = "failure" -> {"in_progress", "aborting"}
    [] run[r].target = "success" ->
         IF Async(r) THEN {"in_progress", "aborting"} ELSE {"in_progress"}
    [] OTHER -> {"aborting"}

StoreOutcome(r) ==
  LET x == Flushed(r) IN
  /\ run[r].pc = "store"
  /\ row' = [row EXCEPT ![run[r].task] =
               IF CanSwap(x, Expected(r))
               THEN Swap(x, run[r].target, run[r].target = "failure") ELSE x]
  /\ run' = [run EXCEPT ![r] = [Committed(@) EXCEPT !.pc = "cleanup"]]
  /\ UNCHANGED <<lock, queue, sent, channel, hist, thread>>

\* _run_cleanup first stops the listener and the timer.  A callback that is
\* already on its way is waited for two seconds at most, a timer not at all.
Stoppable(r, h) == ThreadPc(r, h) = IF h = "timer" THEN "armed" ELSE "check"

StopThreads(r) ==
  /\ run[r].pc = "cleanup"
  /\ run' = [run EXCEPT ![r].pc = "abortcheck"]
  /\ thread' = [thread EXCEPT ![r] = [h \in Threads |->
                   IF Stoppable(r, h) THEN NoThread ELSE @[h]]]
  /\ channel' = [channel EXCEPT ![run[r].task] = "closed"]
  /\ UNCHANGED <<row, lock, queue, sent, hist>>

\* One pass over the abort handlers: the failures they leave.
HandlerOutcome(r) == IF run[r].registered THEN MayFail(HandlersFail) ELSE {FALSE}

Handled(r) == [hist EXCEPT ![run[r].task].handled = @ \/ run[r].registered]

AfterHandlers(x, f) ==
  LET fs == IF f THEN x.failures \cup {"abort"} ELSE x.failures IN
  [x EXCEPT !.failures = fs,
            !.handlersDone = @ \/ "abort" \notin fs]

\* An abort that nobody has noticed yet: the handlers run now.  The nested
\* application context closes the session, and with it drops the assignment
\* to the executor's instance if it has not been flushed.
UnnoticedInAnyStatus(r) == ~run[r].abortDetected     \* mutant
Unnoticed(r) == StatusSeen(r) \in ABORT_STATES /\ ~run[r].abortDetected

AbortCheck(r) ==
  /\ run[r].pc = "abortcheck"
  /\ IF Unnoticed(r)
     THEN \E f \in HandlerOutcome(r) :
            /\ run' = [run EXCEPT ![r] =
                         [AfterHandlers(@, f) EXCEPT
                            !.pc = "cleaners", !.dirty = FALSE]]
            /\ hist' = Handled(r)
     ELSE /\ run' = [run EXCEPT ![r].pc = "cleaners", ![r].dirty = FALSE]
          /\ hist' = hist
  /\ UNCHANGED <<row, lock, queue, sent, channel, thread>>

CleanupHandlers(r) ==
  /\ run[r].pc = "cleaners"
  /\ \E f \in MayFail(CleanupFails) :
       LET fs == IF f THEN run[r].failures \cup {"cleanup"}
                 ELSE run[r].failures
       IN run' = [run EXCEPT ![r].failures = fs,
                    ![r].pc = IF fs = {} THEN "decide" ELSE "report"]
  /\ UNCHANGED <<storeVars, thread>>

\* UpdateTaskCommand takes and gives back the lock inside its transaction:
\* with the database both happen at the commit, with Redis both before it.
MayCommit(r) == Redis \/ LockFree(TaskOf(r).key)

\* _write_handler_failures_to_db: UpdateTaskCommand reads the row, then takes
\* the lock and sets FAILURE on what it has read.
Report(r) ==
  /\ run[r].pc = "report"
  /\ run' = [run EXCEPT ![r].seen = TaskOf(r), ![r].pc = "reporting"]
  /\ UNCHANGED <<storeVars, thread>>

ReportUnlocks(r) ==
  /\ Redis
  /\ run[r].pc = "reporting"
  /\ LockFree(TaskOf(r).key)
  /\ run' = [run EXCEPT ![r].pc = "unlocked"]
  /\ UNCHANGED <<storeVars, thread>>

ReportFailure(r) ==
  /\ run[r].pc = IF Redis THEN "unlocked" ELSE "reporting"
  /\ MayCommit(r)
  /\ row' = [row EXCEPT ![run[r].task] =
               SetStatus(@, run[r].seen, "failure")]
  /\ run' = [run EXCEPT ![r] = [Committed(@) EXCEPT
               !.failures = {}, !.seen = NoRow, !.pc = "decide"]]
  /\ UNCHANGED <<lock, queue, sent, channel, hist, thread>>

\* The lock is taken: the exception leaves the finally block of the executor
\* and nothing after _run_cleanup is executed.
ReportRefused(r) ==
  /\ run[r].pc = "reporting"
  /\ LockRefused(TaskOf(r).key)
  /\ run' = [run EXCEPT ![r].pc = "done", ![r].seen = NoRow]
  /\ UNCHANGED <<storeVars, thread>>

\* How an abort ends.
EndOfAbortIgnoringHandlers(r) ==                     \* mutant
  IF run[r].timedOut THEN "timed_out" ELSE "aborted"

EndOfAbortSwapped(r) ==                              \* mutant
  IF ~run[r].handlersDone THEN "failure"
  ELSE IF run[r].timedOut THEN "aborted" ELSE "timed_out"

EndOfAbort(r) ==
  IF ~run[r].handlersDone THEN "failure"
  ELSE IF run[r].timedOut THEN "timed_out" ELSE "aborted"

\* execute_task ends an abort; _execute_inline has nothing left to do.
Decide(r) ==
  /\ run[r].pc = "decide"
  /\ run' = [run EXCEPT ![r] =
       IF Async(r) /\ Detected(r)
       THEN [@ EXCEPT !.pc = "final", !.target = EndOfAbort(r)]
       ELSE [@ EXCEPT !.pc = "done"]]
  /\ UNCHANGED <<storeVars, thread>>

EndAbort(r) ==
  LET x == Flushed(r) IN
  /\ run[r].pc = "final"
  /\ row' = [row EXCEPT ![run[r].task] =
               IF CanSwap(x, {"aborting"})
               THEN Swap(x, run[r].target, run[r].target = "failure") ELSE x]
  /\ run' = [run EXCEPT ![r] = [Committed(@) EXCEPT !.pc = "done"]]
  /\ UNCHANGED <<lock, queue, sent, channel, hist, thread>>

Execute(r) ==
  \/ Fetch(r) \/ SkipAborted(r) \/ Pickup(r) \/ PickupFails(r)
  \/ RegisterHandler(r) \/ StartListener(r) \/ UpdateTask(r) \/ BodyEnds(r)
  \/ Settle(r) \/ StoreOutcome(r) \/ StopThreads(r) \/ AbortCheck(r)
  \/ CleanupHandlers(r) \/ Report(r) \/ ReportUnlocks(r) \/ ReportFailure(r)
  \/ ReportRefused(r) \/ Decide(r) \/ EndAbort(r)
-----------------------------------------------------------------------------
(***************************************************************************)
(* The timer thread (on_timeout) and the listener thread.                  *)
(***************************************************************************)
TimerFires(r) ==
  /\ ThreadPc(r, "timer") = "armed"
  /\ IF run[r].abortDetected
     THEN MoveThread(r, "timer", "done") /\ UNCHANGED <<run, hist>>
     ELSE /\ MoveThread(r, "timer", "check")
          /\ run' = [run EXCEPT ![r].timedOut = TRUE]
          /\ hist' = [hist EXCEPT ![run[r].task].timedOut = TRUE]
  /\ UNCHANGED <<row, lock, queue, sent, channel>>

\* Only an abortable task is aborted.  Reading is_abortable loads the
\* executor's instance; UpdateTaskCommand then loads its own.
TimerReads(r) ==
  /\ ThreadPc(r, "timer") = "check"
  /\ run' = [run EXCEPT ![r].loaded = StatusSeen(r)]
  /\ thread' = [thread EXCEPT ![r]["timer"] =
       IF TaskOf(r).abortable THEN [pc |-> "write", seen |-> TaskOf(r)]
       ELSE [@ EXCEPT !.pc = "done"]]
  /\ UNCHANGED storeVars

\* UpdateTaskCommand sets ABORTING on the row it has read before the lock.
TimerUnlocks(r) ==
  /\ Redis
  /\ ThreadPc(r, "timer") = "write"
  /\ LockFree(TaskOf(r).key)
  /\ MoveThread(r, "timer", "unlocked")
  /\ UNCHANGED <<run, storeVars>>

TimerAborts(r) ==
  /\ ThreadPc(r, "timer") = IF Redis THEN "unlocked" ELSE "write"
  /\ MayCommit(r)
  /\ row' = [row EXCEPT ![run[r].task] =
               SetStatus(@, thread[r]["timer"].seen, "aborting")]
  /\ thread' = [thread EXCEPT ![r]["timer"] =
                  [pc |-> "detect", seen |-> NoRow]]
  /\ UNCHANGED <<run, lock, queue, sent, channel, hist>>

\* The exception ends the timer thread; _timeout_triggered stays set.
TimerRefused(r) ==
  /\ ThreadPc(r, "timer") = "write"
  /\ LockRefused(TaskOf(r).key)
  /\ thread' = [thread EXCEPT ![r]["timer"] = [pc |-> "done", seen |-> NoRow]]
  /\ UNCHANGED <<run, storeVars>>

\* One round of the listener: the table is polled, or with Redis the channel.
ListenerHears(r) ==
  /\ ThreadPc(r, "listener") = "check"
  /\ IF Redis THEN channel[run[r].task] = "abort"
     ELSE TaskOf(r).status \in ABORT_STATES
  /\ MoveThread(r, "listener", "detect")
  /\ UNCHANGED <<run, storeVars>>

\* _on_abort_detected: look at the flags ...
Detect(r, h) ==
  /\ ThreadPc(r, h) = "detect"
  /\ MoveThread(r, h, IF run[r].abortDetected \/ run[r].completed
                      THEN "done" ELSE "claim")
  /\ UNCHANGED <<run, storeVars>>

\* ... set one of them ...
Claim(r, h) ==
  /\ ThreadPc(r, h) = "claim"
  /\ run' = [run EXCEPT ![r].abortDetected = TRUE]
  /\ MoveThread(r, h, "handle")
  /\ UNCHANGED storeVars

\* ... and run the handlers.
Handle(r, h) ==
  /\ ThreadPc(r, h) = "handle"
  /\ \E f \in HandlerOutcome(r) :
       run' = [run EXCEPT ![r] = AfterHandlers(@, f)]
  /\ hist' = Handled(r)
  /\ MoveThread(r, h, "done")
  /\ UNCHANGED <<row, lock, queue, sent, channel>>

Background(r) ==
  \/ TimerFires(r) \/ TimerReads(r) \/ TimerUnlocks(r) \/ TimerAborts(r)
  \/ TimerRefused(r) \/ ListenerHears(r)
  \/ \E h \in Threads : Detect(r, h) \/ Claim(r, h) \/ Handle(r, h)

(***************************************************************************)
(* The worker process dies: its threads with it, its row stays.            *)
(***************************************************************************)
WorkerDies(r) ==
  /\ run[r].pc \notin {"new", "done"}
  /\ run' = [run EXCEPT ![r].pc = "done"]
  /\ thread' = [thread EXCEPT ![r] = [h \in Threads |-> NoThread]]
  /\ channel' = [channel EXCEPT ![run[r].task] = "closed"]
  /\ UNCHANGED <<row, lock, queue, sent, hist>>
=============================================================================
