------------------------ MODULE TaskOutcomes_proofs ------------------------
(***************************************************************************)
(* What becomes of a task, for every number of tasks, users, keys and      *)
(* runs: an abort spares the task of a user who joined it, no handler runs *)
(* without a cause, the terminal status tells what happened, a task never  *)
(* falls back to an earlier status, and no slot is left behind.            *)
(*                                                                         *)
(* The causes are scattered: a cancel leaves its trace in the row, in the  *)
(* abort channel and in the copies of whoever reads the row, a deadline in *)
(* the flags of one TaskContext.  The invariant follows each trace back to *)
(* what happened.  It speaks of "the" run of a task: only one run of a     *)
(* task ever begins (OneBegins), since the pickup is a compare-and-swap.   *)
(***************************************************************************)
EXTENDS TaskSlots_proofs

Caused(t) == hist[t].cancelled \/ hist[t].timedOut

\* The run has picked its task up, or has been left with a trace of it.
Begun(r) ==
  \/ run[r].pc \notin {"new", "fetched", "done"}
  \/ run[r].registered \/ run[r].timedOut
  \/ run[r].abortDetected \/ run[r].handlersDone
  \/ \E h \in Threads : thread[r][h].pc # "off"

HasHandler(t) == \E r \in Runs : run[r].task = t /\ run[r].registered
OutOfTime(t) == \E r \in Runs : run[r].task = t /\ run[r].timedOut

OneBegins ==
  \A r, s \in Runs :
    Begun(r) /\ Begun(s) /\ run[r].task = run[s].task => r = s

\* What the row, the channel and the history of a task tell.
RowTells(t) ==
  /\ row[t].status \in ABORT_STATES => Caused(t)
  /\ row[t].status = "aborting" \/ row[t].abortable => HasHandler(t)
  /\ row[t].status = "success" => hist[t].body = "returned"
  /\ row[t].status = "failure" => hist[t].body # "no"
  /\ row[t].status = "timed_out" =>
       hist[t].timedOut /\ (row[t].mode = "async" => hist[t].handled)
  /\ channel[t] = "abort" => hist[t].cancelled
  /\ hist[t].handled => Caused(t)
  /\ hist[t].timedOut => OutOfTime(t)
  /\ hist[t].body # "no" => hist[t].starts # 0

\* What a cancel has decided on, and what it has done.
RequestTells(q) ==
  /\ q.pc = "publishing" \/ (q.pc = "releasing" /\ q.plan = "published")
       => hist[q.task].cancelled
  /\ q.pc = "deciding" /\ q.plan = "abort"
       => /\ q.seen.status \in ACTIVE_STATES
          /\ q.seen.status = "in_progress" => q.seen.abortable
  /\ q.pc \in {"cancelling", "locked", "deciding"} /\ q.seen.abortable
       => HasHandler(q.task)

\* A run begins only by starting the function.
StartTells(r) ==
  /\ run[r].pc \in {"new", "fetched"} => ~Begun(r) /\ run[r].loaded = Absent
  /\ Begun(r) => hist[run[r].task].starts # 0

\* Each flag of the context, and each place of a thread, has its cause.
CauseTells(r) ==
  LET x == run[r]
      t == run[r].task
      timer == thread[r]["timer"].pc
      listener == thread[r]["listener"].pc
  IN /\ x.pc = "fetched" /\ x.seen.status \in ABORT_STATES => Caused(t)
     /\ x.loaded \in ABORT_STATES => Caused(t)
     /\ x.timedOut => hist[t].timedOut
     /\ x.abortDetected => Caused(t)
     /\ listener \in {"detect", "claim", "handle"} => Caused(t)
     /\ timer \in {"check", "write", "unlocked", "detect", "claim", "handle"}
          => x.timedOut

\* When the abort handlers can have run.
HandlersTell(r) ==
  LET x == run[r]
      timer == thread[r]["timer"].pc
      listener == thread[r]["listener"].pc
  IN /\ x.pc = "listen" \/ x.abortDetected \/ listener # "off"
          => x.registered
     /\ timer \in {"write", "unlocked", "detect", "claim", "handle"}
          => x.registered
     /\ x.handlersDone /\ ~x.registered =>
          x.pc \in {"cleaners", "report", "reporting", "unlocked",
                    "decide", "final", "done"}
     /\ x.handlersDone /\ x.registered => hist[x.task].handled

\* What the status that a run is about to write stands for.
TargetTells(r) ==
  LET x == run[r]
      t == run[r].task
  IN /\ x.pc \in {"body", "listen"} => hist[t].body = "no"
     /\ x.pc = "settle" =>
          hist[t].body = IF x.failed THEN "raised" ELSE "returned"
     /\ x.pc \in {"store", "cleanup", "abortcheck", "cleaners", "report",
                  "reporting", "unlocked", "decide", "final"}
          => hist[t].body # "no"
     /\ x.pc = "store" /\ x.target = "success" => hist[t].body = "returned"
     /\ x.pc = "store" /\ x.target = "timed_out" => x.timedOut /\ ~Async(r)
     /\ x.pc = "final" => x.target # "success"
     /\ x.pc = "final" /\ x.target = "timed_out"
          => x.timedOut /\ x.handlersDone
     /\ x.pc \in {"store", "final"} /\ x.target = "aborted"
          => hist[t].cancelled

RunTells(r) ==
  StartTells(r) /\ CauseTells(r) /\ HandlersTell(r) /\ TargetTells(r)

OutcomeInv ==
  /\ OneBegins
  /\ \A t \in Tasks : RowTells(t)
  /\ \A u \in Users : RequestTells(req[u])
  /\ \A r \in Runs : RunTells(r)
-----------------------------------------------------------------------------
(***************************************************************************)
(* The lock of requests.                                                   *)
(***************************************************************************)
Locking(u) == req[u].pc \in {"submitting", "locked", "deciding", "releasing"}

\* A request knows the key of its task.
KeysKnown ==
  /\ \A t \in Tasks : row[t].status # Absent => row[t].key \in Keys
  /\ \A u \in Users :
       /\ req[u].pc # "idle" => req[u].key \in Keys
       /\ req[u].task \in Tasks => row[req[u].task].key = req[u].key

LockTells ==
  /\ \A u \in Users : Locking(u) => lock[req[u].key] # "free"
  /\ \A u, v \in Users :
       Locking(u) /\ Locking(v) /\ req[u].key = req[v].key => u = v

\* With the database lock, the copy a cancel decides on is the row.
DecisionTells ==
  \A u \in Users : ~Redis /\ req[u].pc = "deciding" =>
    /\ req[u].seen.subs = row[req[u].task].subs
    /\ req[u].plan = "abort" => ShouldAbort(u, req[u].seen, req[u].force)

JoinInv == KeysKnown /\ LockTells /\ DecisionTells
-----------------------------------------------------------------------------
(***************************************************************************)
(* Deliveries and deadlines.                                               *)
(***************************************************************************)
DeliveryInv ==
  /\ \A t \in Tasks : sent[t] = 0 => \A r \in Runs : run[r].task # t
  /\ \A u \in Users : req[u].pc = "scheduling" => sent[req[u].task] = 0
  /\ \A u, v \in Users :
       /\ req[u].pc = "scheduling" /\ req[v].pc = "scheduling"
       /\ req[u].task = req[v].task
       => u = v
  /\ MaxDeliveries = 1 =>
       /\ \A t \in Tasks : queue[t] > 0 => \A r \in Runs : run[r].task # t
       /\ \A r, s \in Runs :
            run[r].task = run[s].task /\ run[r].task \in Tasks => r = s

DeadlineInv ==
  TRUE \notin TimeoutOptions =>
    /\ \A t \in Tasks : ~row[t].timeout
    /\ \A u \in Users : ~req[u].timeout
    /\ \A r \in Runs : thread[r]["timer"].pc = "off" /\ ~run[r].timedOut

\* Nothing can turn the abort of a timeout into ABORTED.
AbortsAreCancels == MaxDeliveries = 1 \/ TRUE \notin TimeoutOptions

AbortedInv ==
  AbortsAreCancels =>
    \A t \in Tasks : row[t].status = "aborted" => hist[t].cancelled
-----------------------------------------------------------------------------
(***************************************************************************)
(* What the writes do to the fields of a row.                              *)
(***************************************************************************)
Fixed(x, y) ==
  y.key = x.key /\ y.subs = x.subs /\ y.mode = x.mode /\ y.timeout = x.timeout

RowsFixed ==
  \A t \in Tasks : /\ Fixed(row[t], row'[t])
                   /\ row[t].status = Absent => row'[t].status = Absent

LEMMA SwapFields ==
  ASSUME NEW x \in Row, NEW s, NEW p \in BOOLEAN
  PROVE  /\ Fixed(x, Swap(x, s, p))
         /\ Swap(x, s, p).status = s
         /\ Swap(x, s, p).abortable => x.abortable
BY DEF Swap, Row, Fixed

LEMMA SetStatusFields ==
  ASSUME NEW x \in Row, NEW seen, NEW s
  PROVE  /\ Fixed(x, SetStatus(x, seen, s))
         /\ SetStatus(x, seen, s).status =
              IF seen.status = s THEN x.status ELSE s
         /\ SetStatus(x, seen, s).abortable = x.abortable
BY DEF SetStatus, Row, Fixed

LEMMA FlushedFields ==
  ASSUME TypeInv, NEW r \in Runs, run[r].task \in Tasks
  PROVE  /\ TaskOf(r) \in Row /\ Flushed(r) \in Row
         /\ Fixed(TaskOf(r), Flushed(r))
         /\ Flushed(r).status = "in_progress"
              \/ Flushed(r).status = TaskOf(r).status
         /\ Flushed(r).abortable = TaskOf(r).abortable
BY TaskOfTyped DEF Flushed, Row, Fixed

LEMMA FixedTransitive ==
  ASSUME NEW x, NEW y, NEW z, Fixed(x, y), Fixed(y, z)
  PROVE  Fixed(x, z)
BY DEF Fixed

LEMMA OneRowFixed ==
  ASSUME TypeInv, NEW t \in Tasks, row[t].status # Absent,
         NEW y, Fixed(row[t], y), row' = [row EXCEPT ![t] = y]
  PROVE  RowsFixed
BY DEF RowsFixed, Fixed, TypeInv, StoreInv, StoreTypeOK

LEMMA SameRowsFixed == row' = row => RowsFixed
BY DEF RowsFixed, Fixed

\* A run past its first step has a task.
LEMMA RunHasTask ==
  ASSUME TypeInv, SlotInv, NEW r \in Runs, run[r].pc # "new"
  PROVE  /\ run[r].task \in Tasks /\ row[run[r].task] \in Row
         /\ row[run[r].task].status # Absent
BY DEF SlotInv, RunsKnow, RunKnows, TypeInv, ExecInv, RunsLocated, StoreInv, StoreTypeOK

LEMMA ThreadHasTask ==
  ASSUME TypeInv, SlotInv, NEW r \in Runs, NEW h \in Threads,
         thread[r][h].pc # "off"
  PROVE  /\ run[r].task \in Tasks /\ row[run[r].task] \in Row
         /\ row[run[r].task].status # Absent
BY DEF SlotInv, RunsKnow, RunKnows, TypeInv, ExecInv, RunsLocated, StoreInv, StoreTypeOK

LEMMA ExecuteFixed ==
  ASSUME TypeInv, SlotInv, NEW r \in Runs, Execute(r)
  PROVE  RowsFixed /\ lock' = lock /\ sent' = sent
<1>. DEFINE t == run[r].task
<1>1. CASE SkipAborted(r)
  <2>1. t \in Tasks /\ row[t] \in Row /\ row[t].status # Absent
    BY <1>1, RunHasTask DEF SkipAborted
  <2>2. Fixed(row[t], Swap(row[t], "aborted", FALSE))
    BY <2>1, SwapFields
  <2>3. row' = row \/ row' = [row EXCEPT ![t] = Swap(row[t], "aborted", FALSE)]
    BY <1>1 DEF SkipAborted
  <2>. QED BY <1>1, <2>1, <2>2, <2>3, OneRowFixed, SameRowsFixed
       DEF SkipAborted
<1>2. CASE Pickup(r)
  <2>1. t \in Tasks /\ row[t] \in Row /\ row[t].status # Absent
    BY <1>2, RunHasTask DEF Pickup
  <2>2. Fixed(row[t], Swap(row[t], "in_progress", FALSE))
    BY <2>1, SwapFields
  <2>3. row' = [row EXCEPT ![t] = Swap(row[t], "in_progress", FALSE)]
    BY <1>2 DEF Pickup
  <2>. QED BY <1>2, <2>1, <2>2, <2>3, OneRowFixed DEF Pickup
<1>3. CASE RegisterHandler(r)
  <2>1. t \in Tasks /\ row[t] \in Row /\ row[t].status # Absent
    BY <1>3, RunHasTask DEF RegisterHandler
  <2>2. Fixed(row[t], [Flushed(r) EXCEPT !.abortable = Exists(t)])
    BY <2>1, FlushedFields DEF Fixed, Row, TaskOf
  <2>3. row' = [row EXCEPT ![t] = [Flushed(r) EXCEPT !.abortable = Exists(t)]]
    BY <1>3 DEF RegisterHandler
  <2>. QED BY <1>3, <2>1, <2>2, <2>3, OneRowFixed DEF RegisterHandler
<1>4. CASE UpdateTask(r)
  <2>1. t \in Tasks /\ row[t] \in Row /\ row[t].status # Absent
    BY <1>4, RunHasTask DEF UpdateTask
  <2>2. Fixed(row[t], Flushed(r))
    BY <2>1, FlushedFields DEF TaskOf
  <2>3. row' = [row EXCEPT ![t] = Flushed(r)]
    BY <1>4 DEF UpdateTask
  <2>. QED BY <1>4, <2>1, <2>2, <2>3, OneRowFixed DEF UpdateTask
<1>5. ASSUME t \in Tasks, NEW s, NEW p \in BOOLEAN
      PROVE  Fixed(row[t], Swap(Flushed(r), s, p)) /\ Fixed(row[t], Flushed(r))
  BY <1>5, FlushedFields, SwapFields, FixedTransitive DEF TaskOf
<1>6. CASE StoreOutcome(r)
  <2>1. t \in Tasks /\ row[t].status # Absent
    BY <1>6, RunHasTask DEF StoreOutcome
  <2>2. PICK y : /\ row' = [row EXCEPT ![t] = y]
                 /\ \/ y = Flushed(r)
                    \/ y = Swap(Flushed(r), run[r].target,
                                run[r].target = "failure")
    BY <1>6 DEF StoreOutcome
  <2>. QED BY <1>5, <1>6, <2>1, <2>2, OneRowFixed DEF StoreOutcome
<1>7. CASE EndAbort(r)
  <2>1. t \in Tasks /\ row[t].status # Absent
    BY <1>7, RunHasTask DEF EndAbort
  <2>2. PICK y : /\ row' = [row EXCEPT ![t] = y]
                 /\ \/ y = Flushed(r)
                    \/ y = Swap(Flushed(r), run[r].target,
                                run[r].target = "failure")
    BY <1>7 DEF EndAbort
  <2>. QED BY <1>5, <1>7, <2>1, <2>2, OneRowFixed DEF EndAbort
<1>8. CASE ReportFailure(r)
  <2>1. t \in Tasks /\ row[t] \in Row /\ row[t].status # Absent
    BY <1>8, RunHasTask DEF ReportFailure
  <2>2. Fixed(row[t], SetStatus(row[t], run[r].seen, "failure"))
    BY <2>1, SetStatusFields
  <2>3. row' = [row EXCEPT ![t] = SetStatus(row[t], run[r].seen, "failure")]
    BY <1>8 DEF ReportFailure
  <2>. QED BY <1>8, <2>1, <2>2, <2>3, OneRowFixed DEF ReportFailure
<1>9. CASE \/ Fetch(r) \/ PickupFails(r) \/ StartListener(r) \/ BodyEnds(r)
           \/ Settle(r) \/ StopThreads(r) \/ AbortCheck(r)
           \/ CleanupHandlers(r) \/ Report(r) \/ ReportUnlocks(r)
           \/ ReportRefused(r) \/ Decide(r)
  BY <1>9, SameRowsFixed
  DEF Fetch, PickupFails, StartListener, BodyEnds, Settle, StopThreads,
      AbortCheck, CleanupHandlers, Report, ReportUnlocks, ReportRefused,
      Decide, storeVars
<1>. QED BY <1>1, <1>2, <1>3, <1>4, <1>6, <1>7, <1>8, <1>9 DEF Execute

LEMMA BackgroundFixed ==
  ASSUME TypeInv, SlotInv, NEW r \in Runs, Background(r)
  PROVE  RowsFixed /\ lock' = lock /\ sent' = sent /\ queue' = queue
<1>. DEFINE t == run[r].task
            seen == thread[r]["timer"].seen
<1>1. CASE TimerAborts(r)
  <2>1. t \in Tasks /\ row[t] \in Row /\ row[t].status # Absent
    BY <1>1, ThreadHasTask DEF TimerAborts, ThreadPc, Threads
  <2>2. Fixed(row[t], SetStatus(row[t], seen, "aborting"))
    BY <2>1, SetStatusFields
  <2>3. row' = [row EXCEPT ![t] = SetStatus(row[t], seen, "aborting")]
    BY <1>1 DEF TimerAborts
  <2>. QED BY <1>1, <2>1, <2>2, <2>3, OneRowFixed DEF TimerAborts
<1>2. CASE ~TimerAborts(r)
  BY <1>2, SameRowsFixed
  DEF Background, TimerFires, TimerReads, TimerUnlocks, TimerRefused,
      ListenerHears, Detect, Claim, Handle, storeVars
<1>. QED BY <1>1, <1>2
-----------------------------------------------------------------------------
(***************************************************************************)
(* A cancel with the database lock decides on the truth.                   *)
(***************************************************************************)
\* The request of u becomes q, the lock and the rows may change with it.
\* A step that leaves requests and the lock alone.
LEMMA FixedKeepsJoinInv ==
  ASSUME TypeInv, SlotInv, JoinInv, RowsFixed, lock' = lock, req' = req
  PROVE  JoinInv'
<1>1. KeysKnown'
  BY DEF JoinInv, KeysKnown, RowsFixed, Fixed
<1>2. LockTells'
  BY DEF JoinInv, LockTells, Locking
<1>3. DecisionTells'
  BY DEF JoinInv, DecisionTells, RowsFixed, Fixed, ShouldAbort, TypeInv,
         RequestInv, RequestLocated
<1>. QED BY <1>1, <1>2, <1>3 DEF JoinInv

\* A request that takes no lock, decides nothing and touches no row.
LEMMA CalmRequestKeepsJoinInv ==
  ASSUME TypeInv, SlotInv, JoinInv, NEW u \in Users, NEW q,
         req' = [req EXCEPT ![u] = q], row' = row, lock' = lock,
         q.pc \notin {"submitting", "locked", "deciding", "releasing"},
         q.pc # "idle" => q.key \in Keys,
         q.task \in Tasks => row[q.task].key = q.key
  PROVE  JoinInv'
<1>0. req'[u] = q /\ \A v \in Users \ {u} : req'[v] = req[v]
  BY RequestUpdated
<1>1. KeysKnown'
  BY <1>0 DEF JoinInv, KeysKnown
<1>2. LockTells'
  BY <1>0 DEF JoinInv, LockTells, Locking
<1>3. DecisionTells'
  BY <1>0 DEF JoinInv, DecisionTells, ShouldAbort
<1>. QED BY <1>1, <1>2, <1>3 DEF JoinInv

\* A request that had the lock to itself gives it back.
LEMMA ReleaseKeepsLockTells ==
  ASSUME TypeInv, JoinInv, NEW u \in Users, Locking(u), NEW q,
         req' = [req EXCEPT ![u] = q],
         q.pc \notin {"submitting", "locked", "deciding", "releasing"},
         lock' = [lock EXCEPT ![req[u].key] = "free"]
  PROVE  LockTells'
<1>0. req'[u] = q /\ \A v \in Users \ {u} : req'[v] = req[v]
  BY RequestUpdated
<1>1. \A v \in Users : v # u /\ Locking(v) =>
        req[v].key # req[u].key /\ req[v].key \in Keys
  BY DEF JoinInv, LockTells, KeysKnown, Locking
<1>2. \A v \in Users : Locking(v)' => v # u /\ Locking(v) /\ req'[v] = req[v]
  BY <1>0 DEF Locking
<1>. QED BY <1>1, <1>2 DEF JoinInv, LockTells, TypeInv, StoreInv, StoreTypeOK

LEMMA SubmitLookupJoin ==
  ASSUME TypeInv, SlotInv, JoinInv, NEW u \in Users, SubmitLookup(u)
  PROVE  JoinInv'
<1>1. PICK k \in Keys, t \in Tasks \cup {NoTask}, q \in Request :
        /\ LockFree(k)
        /\ lock' = [lock EXCEPT ![k] = IF Redis THEN "taken" ELSE "open"]
        /\ t # NoTask => t \in ActiveRows(k)
        /\ req' = [req EXCEPT ![u] = q]
        /\ q.pc = "submitting" /\ q.key = k /\ q.task = t
  BY SubmitLookupPicks, Zenon
<1>2. /\ req'[u].pc = "submitting" /\ req'[u].key = k /\ req'[u].task = t
      /\ \A v \in Users \ {u} : req'[v] = req[v]
  BY <1>1, RequestUpdated
<1>3. row' = row /\ (t \in Tasks => row[t].key = k)
  BY <1>1, StoreAssumption DEF StoreAssumption, SubmitLookup, ActiveRows
<1>4. KeysKnown'
  BY <1>2, <1>3 DEF JoinInv, KeysKnown
<1>5. LockTells'
  <2>1. \A v \in Users : v # u /\ Locking(v)' =>
          Locking(v) /\ req[v].key # k /\ req[v].key \in Keys
    BY <1>1, <1>2 DEF LockFree, JoinInv, LockTells, KeysKnown, Locking
  <2>2. lock'[k] # "free" /\ \A j \in Keys \ {k} : lock'[j] = lock[j]
    BY <1>1 DEF TypeInv, StoreInv, StoreTypeOK
  <2>. QED BY <1>2, <2>1, <2>2 DEF JoinInv, LockTells, Locking
<1>6. DecisionTells'
  BY <1>2, <1>3 DEF JoinInv, DecisionTells, ShouldAbort
<1>. QED BY <1>4, <1>5, <1>6 DEF JoinInv

LEMMA SubmitUnlockJoin ==
  ASSUME TypeInv, SlotInv, JoinInv, NEW u \in Users, SubmitUnlock(u)
  PROVE  JoinInv'
<1>. DEFINE q == [req[u] EXCEPT !.pc = "unlocked"]
<1>1. /\ req' = [req EXCEPT ![u] = q] /\ row' = row
      /\ q.pc = "unlocked" /\ q.key = req[u].key /\ q.task = req[u].task
  BY DEF SubmitUnlock, TypeInv, RequestInv, RequestTypeOK, Request
<1>. HIDE DEF q
<1>2. req'[u] = q /\ \A v \in Users \ {u} : req'[v] = req[v]
  BY <1>1, RequestUpdated
<1>3. LockTells'
  BY <1>1, ReleaseKeepsLockTells DEF SubmitUnlock, Locking
<1>4. KeysKnown'
  BY <1>1, <1>2 DEF SubmitUnlock, JoinInv, KeysKnown
<1>5. DecisionTells'
  BY <1>1, <1>2 DEF JoinInv, DecisionTells, ShouldAbort
<1>. QED BY <1>3, <1>4, <1>5 DEF JoinInv

\* A submit that commits: with the database it had the lock, which it gives
\* back; with Redis it has given the lock back before.
LEMMA CommitKeepsLockTells ==
  ASSUME TypeInv, JoinInv, NEW u \in Users, Committing(u), NEW q,
         req' = [req EXCEPT ![u] = q], ReleasedByCommit(u),
         q.pc \notin {"submitting", "locked", "deciding", "releasing"}
  PROVE  LockTells'
<1>1. CASE Redis
  <2>1. req'[u] = q /\ \A v \in Users \ {u} : req'[v] = req[v]
    BY RequestUpdated
  <2>. QED BY <1>1, <2>1 DEF ReleasedByCommit, JoinInv, LockTells, Locking
<1>2. CASE ~Redis
  BY <1>2, ReleaseKeepsLockTells DEF Committing, ReleasedByCommit, Locking
<1>. QED BY <1>1, <1>2

LEMMA SubmitCreateJoin ==
  ASSUME TypeInv, SlotInv, JoinInv, NEW u \in Users, SubmitCreate(u)
  PROVE  JoinInv'
<1>1. PICK t \in Tasks :
        /\ Fresh(t)
        /\ row' = [row EXCEPT ![t] =
                    NewRow(req[u].key, u, req[u].mode, req[u].timeout)]
        /\ req' = [req EXCEPT ![u].pc = "scheduling", ![u].task = t]
  BY DEF SubmitCreate
<1>. DEFINE q == [req[u] EXCEPT !.pc = "scheduling", !.task = t]
<1>2. /\ req' = [req EXCEPT ![u] = q]
      /\ q.pc = "scheduling" /\ q.key = req[u].key /\ q.task = t
      /\ req[u].key \in Keys
  <2>1. req[u] \in Request /\ RequestTypeOK
    BY DEF TypeInv, RequestInv, RequestTypeOK
  <2>2. req' = [req EXCEPT ![u] = q]
    BY <1>1, <2>1 DEF RequestTypeOK
  <2>3. q.pc = "scheduling" /\ q.key = req[u].key /\ q.task = t
    BY <2>1 DEF Request
  <2>4. req[u].pc # "idle"
    BY DEF SubmitCreate, Committing
  <2>. QED BY <2>2, <2>3, <2>4 DEF JoinInv, KeysKnown
<1>. HIDE DEF q
<1>3. req'[u] = q /\ \A v \in Users \ {u} : req'[v] = req[v]
  BY <1>2, RequestUpdated
<1>4. row'[t].key = req[u].key /\ \A s \in Tasks \ {t} : row'[s] = row[s]
  BY <1>1 DEF NewRow, TypeInv, StoreInv, StoreTypeOK
<1>5. \A v \in Users : req[v].task # t
  BY <1>1 DEF Fresh, SlotInv, RequestsKnow, RequestKnows
<1>6. KeysKnown'
  BY <1>2, <1>3, <1>4, <1>5 DEF JoinInv, KeysKnown
<1>7. LockTells'
  BY <1>2, CommitKeepsLockTells DEF SubmitCreate
<1>8. DecisionTells'
  BY <1>2, <1>3, <1>4, <1>5
  DEF JoinInv, DecisionTells, ShouldAbort, TypeInv, RequestInv,
      RequestLocated
<1>. QED BY <1>6, <1>7, <1>8 DEF JoinInv

LEMMA SubmitConflictJoin ==
  ASSUME TypeInv, SlotInv, JoinInv, NEW u \in Users, SubmitConflict(u)
  PROVE  JoinInv'
<1>1. /\ req' = [req EXCEPT ![u] = Idle] /\ row' = row
      /\ Idle.pc = "idle" /\ Idle.task \notin Tasks
  BY StoreAssumption DEF StoreAssumption, SubmitConflict, Idle
<1>2. req'[u] = Idle /\ \A v \in Users \ {u} : req'[v] = req[v]
  BY <1>1, RequestUpdated
<1>3. LockTells'
  BY <1>1, CommitKeepsLockTells DEF SubmitConflict
<1>4. KeysKnown'
  BY <1>1, <1>2 DEF JoinInv, KeysKnown
<1>5. DecisionTells'
  BY <1>1, <1>2 DEF JoinInv, DecisionTells, ShouldAbort
<1>. QED BY <1>3, <1>4, <1>5 DEF JoinInv

\* Who joins holds the lock of the key, so nobody is deciding on that task.
LEMMA SubmitJoinJoin ==
  ASSUME TypeInv, SlotInv, JoinInv, NEW u \in Users, SubmitJoin(u)
  PROVE  JoinInv'
<1>. DEFINE t == req[u].task
            q == IF req[u].mode = "sync" /\ Exists(t)
                 THEN [req[u] EXCEPT !.pc = "waiting"] ELSE Idle
<1>1. t \in Tasks /\ row[t] \in Row
  BY DEF SubmitJoin, TypeInv, RequestInv, RequestTypeOK, Request, StoreInv,
         StoreTypeOK
<1>2. /\ req' = [req EXCEPT ![u] = q]
      /\ q.pc \in {"idle", "waiting"}
      /\ q.pc # "idle" => q.key = req[u].key
      /\ q.task \in Tasks => q.task = t /\ q.key = req[u].key
  BY StoreAssumption
  DEF StoreAssumption, SubmitJoin, TypeInv, RequestInv, RequestTypeOK,
      Request, Idle
<1>. HIDE DEF q
<1>3. req'[u] = q /\ \A v \in Users \ {u} : req'[v] = req[v]
  BY <1>2, RequestUpdated
<1>4. /\ row'[t].key = row[t].key /\ row'[t].status = row[t].status
      /\ \A s \in Tasks \ {t} : row'[s] = row[s]
  BY <1>1 DEF SubmitJoin, TypeInv, StoreInv, StoreTypeOK, Row
<1>5. KeysKnown'
  BY <1>1, <1>2, <1>3, <1>4
  DEF JoinInv, KeysKnown, SubmitJoin, Committing
<1>6. LockTells'
  BY <1>2, CommitKeepsLockTells DEF SubmitJoin
<1>7. DecisionTells'
  <2>1. \A v \in Users \ {u} : ~Redis /\ req[v].pc = "deciding"
          => req[v].task \in Tasks /\ req[v].task # t
    BY <1>1
    DEF SubmitJoin, Committing, JoinInv, LockTells, Locking, KeysKnown,
        TypeInv, RequestInv, RequestLocated
  <2>2. req'[u].pc # "deciding"
    BY <1>2, <1>3
  <2>3. \A v \in Users \ {u} : ~Redis /\ req'[v].pc = "deciding"
          => req'[v] = req[v] /\ row'[req[v].task] = row[req[v].task]
    BY <1>3, <1>4, <2>1
  <2>. QED BY <2>2, <2>3 DEF JoinInv, DecisionTells, ShouldAbort
<1>. QED BY <1>5, <1>6, <1>7 DEF JoinInv

\* The steps by which a request ends, or goes on without lock and row.
LEMMA CalmRequestsJoin ==
  ASSUME TypeInv, SlotInv, JoinInv, NEW u \in Users,
         \/ Schedule(u) \/ WaitEnds(u) \/ WaitTimesOut(u) \/ SubmitterDies(u)
         \/ CancelRefused(u) \/ CancelPublish(u)
  PROVE  JoinInv'
<1>1. req' = [req EXCEPT ![u] = Idle] /\ row' = row /\ lock' = lock
  BY DEF Schedule, WaitEnds, WaitTimesOut, SubmitterDies, CancelRefused,
         CancelPublish, storeVars
<1>2. Idle.pc = "idle" /\ Idle.task \notin Tasks
  BY StoreAssumption DEF StoreAssumption, Idle
<1>. QED BY <1>1, <1>2, CalmRequestKeepsJoinInv

LEMMA CancelFetchJoin ==
  ASSUME TypeInv, SlotInv, JoinInv, NEW u \in Users, CancelFetch(u)
  PROVE  JoinInv'
<1>1. PICK t \in Tasks, f \in BOOLEAN :
        /\ Visible(u, t)
        /\ req' = [req EXCEPT ![u] = [Idle EXCEPT
                     !.pc = "cancelling", !.key = row[t].key, !.task = t,
                     !.force = f, !.seen = row[t]]]
  BY DEF CancelFetch
<1>. DEFINE q == [Idle EXCEPT !.pc = "cancelling", !.key = row[t].key,
                              !.task = t, !.force = f, !.seen = row[t]]
<1>2. q.pc = "cancelling" /\ q.key = row[t].key /\ q.task = t
  BY DEF Idle
<1>3. row[t].key \in Keys
  BY <1>1, StatusNames DEF Visible, Exists, JoinInv, KeysKnown
<1>4. req' = [req EXCEPT ![u] = q] /\ row' = row /\ lock' = lock
  BY <1>1 DEF CancelFetch, storeVars
<1>. HIDE DEF q
<1>. QED BY <1>2, <1>3, <1>4, CalmRequestKeepsJoinInv

LEMMA CancelLockJoin ==
  ASSUME TypeInv, SlotInv, JoinInv, NEW u \in Users, CancelLock(u)
  PROVE  JoinInv'
<1>. DEFINE q == [req[u] EXCEPT !.pc = "locked"]
            k == req[u].key
<1>1. /\ req' = [req EXCEPT ![u] = q] /\ row' = row
      /\ q.pc = "locked" /\ q.key = k /\ q.task = req[u].task
      /\ k \in Keys
  BY DEF CancelLock, TypeInv, RequestInv, RequestTypeOK, Request, JoinInv,
         KeysKnown
<1>2. req'[u] = q /\ \A v \in Users \ {u} : req'[v] = req[v]
  BY <1>1, RequestUpdated
<1>. HIDE DEF q
<1>3. LockTells'
  <2>1. \A v \in Users : v # u /\ Locking(v)' =>
          Locking(v) /\ req[v].key # k /\ req[v].key \in Keys
    BY <1>2 DEF CancelLock, LockFree, JoinInv, LockTells, KeysKnown, Locking
  <2>2. lock'[k] # "free" /\ \A j \in Keys \ {k} : lock'[j] = lock[j]
    BY <1>1 DEF CancelLock, TypeInv, StoreInv, StoreTypeOK
  <2>. QED BY <1>1, <1>2, <2>1, <2>2 DEF JoinInv, LockTells, Locking
<1>4. KeysKnown'
  BY <1>1, <1>2 DEF JoinInv, KeysKnown
<1>5. DecisionTells'
  BY <1>1, <1>2 DEF JoinInv, DecisionTells, ShouldAbort
<1>. QED BY <1>3, <1>4, <1>5 DEF JoinInv

\* The copy is made, and judged, in one step.
LEMMA CancelDecideJoin ==
  ASSUME TypeInv, SlotInv, JoinInv, NEW u \in Users, CancelDecide(u)
  PROVE  JoinInv'
<1>. DEFINE x == IF Redis THEN req[u].seen ELSE row[req[u].task]
            p == IF Visible(u, req[u].task)
                 THEN CancelPlan(u, x, req[u].force) ELSE "none"
            q == [req[u] EXCEPT
                    !.seen = x, !.plan = p,
                    !.pc = IF p = "none" THEN "releasing" ELSE "deciding"]
<1>1. /\ req' = [req EXCEPT ![u] = q] /\ row' = row /\ lock' = lock
      /\ q.pc \in {"releasing", "deciding"} /\ q.key = req[u].key
      /\ q.task = req[u].task /\ q.seen = x /\ q.plan = p
      /\ q.force = req[u].force
      /\ Locking(u) /\ req[u].pc # "idle"
  BY DEF CancelDecide, TypeInv, RequestInv, RequestTypeOK, Request, Locking,
         storeVars
<1>2. p = "abort" => ShouldAbort(u, x, req[u].force)
  BY DEF CancelPlan
<1>. HIDE DEF q, p
<1>3. req'[u] = q /\ \A v \in Users \ {u} : req'[v] = req[v]
  BY <1>1, RequestUpdated
<1>4. LockTells'
  BY <1>1, <1>3 DEF JoinInv, LockTells, Locking
<1>5. KeysKnown'
  BY <1>1, <1>3 DEF JoinInv, KeysKnown
<1>6. DecisionTells'
  BY <1>1, <1>2, <1>3 DEF JoinInv, DecisionTells, ShouldAbort
<1>. QED BY <1>4, <1>5, <1>6 DEF JoinInv

LEMMA CancelAbortJoin ==
  ASSUME TypeInv, SlotInv, JoinInv, NEW u \in Users, CancelAbort(u)
  PROVE  JoinInv'
<1>. DEFINE t == req[u].task
            y == SetStatus(row[t], req[u].seen, AbortTarget(req[u].seen))
            q == [req[u] EXCEPT
                    !.pc = "releasing", !.seen = NoRow,
                    !.plan = IF AbortTarget(req[u].seen) = "aborting"
                             THEN "published" ELSE "none"]
<1>1. /\ req' = [req EXCEPT ![u] = q] /\ lock' = lock
      /\ q.pc = "releasing" /\ q.key = req[u].key /\ q.task = t
      /\ Locking(u) /\ req[u].pc # "idle"
  BY DEF CancelAbort, TypeInv, RequestInv, RequestTypeOK, Request, Locking
<1>3. t \in Tasks /\ row[t] \in Row /\ row[t].status # Absent
  BY DEF CancelAbort, TypeInv, RequestInv, RequestLocated, StoreInv,
         StoreTypeOK, SlotInv, RequestsKnow, RequestKnows
<1>4. Fixed(row[t], y) /\ row' = [row EXCEPT ![t] = y]
  BY <1>3, SetStatusFields DEF CancelAbort
<1>. HIDE DEF q, y
<1>2. req'[u] = q /\ \A v \in Users \ {u} : req'[v] = req[v]
  BY <1>1, RequestUpdated
<1>5. RowsFixed
  BY <1>3, <1>4, OneRowFixed
<1>6. LockTells'
  BY <1>1, <1>2 DEF JoinInv, LockTells, Locking
<1>7. KeysKnown'
  BY <1>1, <1>2, <1>5 DEF JoinInv, KeysKnown, RowsFixed, Fixed
<1>8. DecisionTells'
  BY <1>1, <1>2, <1>5
  DEF JoinInv, DecisionTells, ShouldAbort, RowsFixed, Fixed, TypeInv,
      RequestInv, RequestLocated
<1>. QED BY <1>6, <1>7, <1>8 DEF JoinInv

\* Who leaves holds the lock as well.
LEMMA CancelUnsubscribeJoin ==
  ASSUME TypeInv, SlotInv, JoinInv, NEW u \in Users, CancelUnsubscribe(u)
  PROVE  JoinInv'
<1>. DEFINE t == req[u].task
            q == [req[u] EXCEPT !.pc = "releasing", !.seen = NoRow,
                                !.plan = "none"]
<1>1. /\ req' = [req EXCEPT ![u] = q] /\ lock' = lock
      /\ q.pc = "releasing" /\ q.key = req[u].key /\ q.task = t
      /\ Locking(u) /\ req[u].pc # "idle"
  BY DEF CancelUnsubscribe, TypeInv, RequestInv, RequestTypeOK, Request,
         Locking
<1>. HIDE DEF q
<1>2. req'[u] = q /\ \A v \in Users \ {u} : req'[v] = req[v]
  BY <1>1, RequestUpdated
<1>3. t \in Tasks /\ row[t] \in Row
  BY DEF CancelUnsubscribe, TypeInv, RequestInv, RequestLocated, StoreInv,
         StoreTypeOK
<1>4. /\ row'[t].key = row[t].key /\ row'[t].status = row[t].status
      /\ \A s \in Tasks \ {t} : row'[s] = row[s]
  BY <1>3 DEF CancelUnsubscribe, TypeInv, StoreInv, StoreTypeOK, Row
<1>5. LockTells'
  BY <1>1, <1>2 DEF JoinInv, LockTells, Locking
<1>6. KeysKnown'
  BY <1>1, <1>2, <1>3, <1>4 DEF JoinInv, KeysKnown
<1>7. DecisionTells'
  <2>1. \A v \in Users \ {u} : ~Redis /\ req[v].pc = "deciding"
          => req[v].task \in Tasks /\ req[v].task # t
    BY <1>1, <1>3
    DEF JoinInv, LockTells, Locking, KeysKnown, TypeInv, RequestInv,
        RequestLocated
  <2>2. \A v \in Users \ {u} : ~Redis /\ req'[v].pc = "deciding"
          => req'[v] = req[v] /\ row'[req[v].task] = row[req[v].task]
    BY <1>2, <1>4, <2>1
  <2>. QED BY <1>1, <1>2, <2>2 DEF JoinInv, DecisionTells, ShouldAbort
<1>. QED BY <1>5, <1>6, <1>7 DEF JoinInv

LEMMA CancelReleaseJoin ==
  ASSUME TypeInv, SlotInv, JoinInv, NEW u \in Users, CancelRelease(u)
  PROVE  JoinInv'
<1>. DEFINE q == IF Redis /\ req[u].plan = "published"
                 THEN [req[u] EXCEPT !.pc = "publishing"] ELSE Idle
<1>1. /\ req' = [req EXCEPT ![u] = q] /\ row' = row
      /\ q.pc \in {"idle", "publishing"}
      /\ q.pc # "idle" => q.key = req[u].key
      /\ q.task \in Tasks => q.task = req[u].task /\ q.key = req[u].key
      /\ Locking(u) /\ req[u].pc # "idle"
  BY StoreAssumption
  DEF StoreAssumption, CancelRelease, TypeInv, RequestInv, RequestTypeOK,
      Request, Idle, Locking
<1>. HIDE DEF q
<1>2. req'[u] = q /\ \A v \in Users \ {u} : req'[v] = req[v]
  BY <1>1, RequestUpdated
<1>3. LockTells'
  BY <1>1, ReleaseKeepsLockTells DEF CancelRelease
<1>4. KeysKnown'
  BY <1>1, <1>2 DEF JoinInv, KeysKnown
<1>5. DecisionTells'
  BY <1>1, <1>2 DEF JoinInv, DecisionTells, ShouldAbort
<1>. QED BY <1>3, <1>4, <1>5 DEF JoinInv

\* A row in hand is not pruned.
LEMMA PruneJoin ==
  ASSUME TypeInv, SlotInv, JoinInv, NEW t \in Tasks, Prune(t), req' = req
  PROVE  JoinInv'
<1>1. row[t] \in Row /\ row[t].status # Absent /\ lock' = lock
  BY StatusNames DEF Prune, Finished, TypeInv, StoreInv, StoreTypeOK
<1>2. row'[t].key = row[t].key /\ \A s \in Tasks \ {t} : row'[s] = row[s]
  BY <1>1 DEF Prune, TypeInv, StoreInv, StoreTypeOK, Row
<1>3. \A u \in Users : req[u].task # t
  BY DEF Prune, Quiet
<1>4. KeysKnown'
  BY <1>1, <1>2, <1>3 DEF JoinInv, KeysKnown
<1>5. LockTells'
  BY <1>1 DEF JoinInv, LockTells, Locking
<1>6. DecisionTells'
  BY <1>2, <1>3
  DEF JoinInv, DecisionTells, ShouldAbort, TypeInv, RequestInv,
      RequestLocated
<1>. QED BY <1>4, <1>5, <1>6 DEF JoinInv

LEMMA InitJoin == Init => JoinInv
BY StoreAssumption
DEF StoreAssumption, Init, StoreInit, RequestInit, Idle, NoRow, JoinInv,
    KeysKnown, LockTells, Locking, DecisionTells

LEMMA NextKeepsJoinInv ==
  ASSUME TypeInv, SlotInv, JoinInv, [Next]_vars
  PROVE  JoinInv'
<1>1. ASSUME NEW u \in Users, Submit(u) \/ Cancel(u)
      PROVE  JoinInv'
  BY <1>1, SubmitLookupJoin, SubmitUnlockJoin, SubmitCreateJoin,
     SubmitConflictJoin, SubmitJoinJoin, CalmRequestsJoin, CancelFetchJoin,
     CancelLockJoin, CancelDecideJoin, CancelAbortJoin,
     CancelUnsubscribeJoin, CancelReleaseJoin
  DEF Submit, Cancel
<1>2. ASSUME NEW r \in Runs, Execute(r) \/ Background(r), UNCHANGED req
      PROVE  JoinInv'
  BY <1>2, ExecuteFixed, BackgroundFixed, FixedKeepsJoinInv
<1>3. ASSUME NEW t \in Tasks, Redeliver(t) \/ Prune(t), UNCHANGED req
      PROVE  JoinInv'
  BY <1>3, PruneJoin, SameRowsFixed, FixedKeepsJoinInv DEF Redeliver
<1>4. ASSUME NEW r \in Runs, WorkerDies(r), UNCHANGED req
      PROVE  JoinInv'
  BY <1>4, SameRowsFixed, FixedKeepsJoinInv DEF WorkerDies
<1>5. CASE UNCHANGED vars
  BY <1>5, SameRowsFixed, FixedKeepsJoinInv DEF vars, storeVars
<1>6. CASE CrashStep
  BY <1>4, <1>6, CalmRequestsJoin DEF CrashStep
<1>7. CASE RequestStep \/ (RunStep /\ UNCHANGED req)
             \/ (StoreStep /\ UNCHANGED <<req, execVars>>)
  BY <1>1, <1>2, <1>3, <1>7 DEF RequestStep, RunStep, StoreStep
<1>. QED BY <1>5, <1>6, <1>7 DEF Next

LEMMA JoinInvCorrect == Spec => []JoinInv
BY InitJoin, NextKeepsJoinInv, SlotInvCorrect, PTL DEF Spec

\* With the lock in the database, a cancel that no administrator forces
\* aborts only a task that nobody but the canceller may be subscribed to when
\* the abort is written: CancelTaskCommand decides under the lock of the key
\* that SubmitTaskCommand holds until its commit.
THEOREM JoinersAreSpared ==
  ASSUME ~Redis
  PROVE  Spec => JoinersKeepTheirTask
<1>1. JoinInv /\ [Next]_vars
        => [\A u \in Users :
                /\ req[u].pc = "deciding" /\ req[u].plan = "abort"
                /\ req'[u].pc = "releasing"
                /\ ~(u \in Admins /\ req[u].force)
                => Cardinality(row[req[u].task].subs) <= 1]_vars
  BY DEF JoinInv, DecisionTells, ShouldAbort
<1>. QED BY <1>1, JoinInvCorrect, PTL DEF Spec, JoinersKeepTheirTask
-----------------------------------------------------------------------------
(***************************************************************************)
(* What has happened stays so, and whoever does nothing keeps telling the  *)
(* truth.                                                                  *)
(***************************************************************************)
Grows ==
  \A t \in Tasks :
    /\ hist[t].cancelled => hist'[t].cancelled
    /\ hist[t].timedOut => hist'[t].timedOut
    /\ hist[t].handled => hist'[t].handled
    /\ hist[t].body # "no" => hist'[t].body # "no"
    /\ hist[t].starts # 0 => hist'[t].starts # 0
    /\ HasHandler(t) => HasHandler(t)'
    /\ OutOfTime(t) => OutOfTime(t)'
    /\ row[t].status # Absent => row'[t].mode = row[t].mode

LEMMA IdleRequestTells ==
  ASSUME TypeInv, NEW u \in Users, RequestTells(req[u]), Grows,
         req'[u] = req[u]
  PROVE  RequestTells(req[u])'
BY DEF RequestTells, Grows, TypeInv, RequestInv, RequestLocated

LEMMA IdleRunTells ==
  ASSUME TypeInv, SlotInv, NEW s \in Runs, RunTells(s), Grows,
         run'[s] = run[s], thread'[s] = thread[s],
         Begun(s) => hist'[run[s].task].body = hist[run[s].task].body
  PROVE  RunTells(s)' /\ Begun(s)' = Begun(s)
<1>. DEFINE t == run[s].task
<1>1. Begun(s)' = Begun(s)
  BY DEF Begun
<1>2. CASE run[s].pc = "new"
  <2>1. ~Begun(s) /\ run[s].loaded \notin ABORT_STATES
    BY <1>2 DEF RunTells, StartTells, Absent, ABORT_STATES
  <2>2. /\ ~run[s].timedOut /\ ~run[s].abortDetected /\ ~run[s].handlersDone
        /\ \A h \in Threads : thread[s][h].pc = "off"
    BY <2>1 DEF Begun
  <2>. QED BY <1>1, <1>2, <2>1, <2>2
       DEF RunTells, StartTells, CauseTells, HandlersTell, TargetTells,
           Threads
<1>3. CASE run[s].pc # "new"
  <2>1. t \in Tasks /\ row[t].status # Absent
    BY <1>3, RunHasTask
  <2>2. StartTells(s)'
    BY <1>1, <2>1 DEF RunTells, StartTells, Grows
  <2>3. CauseTells(s)'
    BY <2>1 DEF RunTells, CauseTells, Grows, Caused
  <2>4. HandlersTell(s)'
    BY <2>1 DEF RunTells, HandlersTell, Grows
  <2>5. Async(s)' = Async(s)
    BY <2>1 DEF Grows, Async, TaskOf
  <2>6. TargetTells(s)'
    BY <2>1, <2>5 DEF RunTells, TargetTells, Grows, Begun
  <2>. QED BY <1>1, <2>2, <2>3, <2>4, <2>6 DEF RunTells
<1>. QED BY <1>2, <1>3

LEMMA IdleRowTells ==
  ASSUME NEW t \in Tasks, RowTells(t), Grows,
         row'[t] = row[t], channel'[t] = channel[t], hist'[t] = hist[t]
  PROVE  RowTells(t)'
BY DEF RowTells, Grows, Caused

\* Only one task, one request or one run is touched by a step.
LEMMA RequestStepTells ==
  ASSUME TypeInv, SlotInv, OutcomeInv, NEW u \in Users, UNCHANGED execVars,
         \A v \in Users \ {u} : req'[v] = req[v],
         RequestTells(req[u])', \A t \in Tasks : RowTells(t)',
         \A t \in Tasks :
           /\ hist[t].cancelled => hist'[t].cancelled
           /\ hist'[t].timedOut = hist[t].timedOut
           /\ hist'[t].handled = hist[t].handled
           /\ hist'[t].body = hist[t].body
           /\ hist'[t].starts = hist[t].starts
           /\ row[t].status # Absent => row'[t].mode = row[t].mode
  PROVE  OutcomeInv'
<1>1. Grows
  BY DEF Grows, HasHandler, OutOfTime, execVars
<1>2. \A v \in Users : RequestTells(req[v])'
  BY <1>1, IdleRequestTells DEF OutcomeInv
<1>3. ASSUME NEW s \in Runs
      PROVE  RunTells(s)' /\ Begun(s)' = Begun(s)
  <2>1. Begun(s) => hist'[run[s].task].body = hist[run[s].task].body
    <3>1. CASE run[s].pc = "new"
      BY <3>1 DEF OutcomeInv, RunTells, StartTells
    <3>2. CASE run[s].pc # "new"
      BY <3>2, RunHasTask
    <3>. QED BY <3>1, <3>2
  <2>. QED BY <1>1, <2>1, IdleRunTells DEF OutcomeInv, execVars
<1>4. OneBegins'
  BY <1>3 DEF OutcomeInv, OneBegins, execVars
<1>. QED BY <1>2, <1>3, <1>4 DEF OutcomeInv

\* What of a run the others rely on, and may not be taken back.
FlagsGrow(x, y) ==
  /\ y.task = x.task
  /\ x.registered => y.registered
  /\ x.timedOut => y.timedOut

\* A step of run r, for whose task it speaks afterwards.
LEMMA RunStepTells ==
  ASSUME TypeInv, SlotInv, OutcomeInv, NEW r \in Runs, req' = req,
         NEW me \in Tasks, run[r].task = me,
         \A s \in Runs \ {r} : run'[s] = run[s] /\ thread'[s] = thread[s],
         FlagsGrow(run[r], run'[r]),
         \A t \in Tasks \ {me} :
           /\ row'[t] = row[t] /\ hist'[t] = hist[t]
           /\ channel'[t] = channel[t],
         RowsFixed,
         \A t \in Tasks :
           /\ hist[t].cancelled => hist'[t].cancelled
           /\ hist[t].timedOut => hist'[t].timedOut
           /\ hist[t].handled => hist'[t].handled
           /\ hist[t].body # "no" => hist'[t].body # "no"
           /\ hist[t].starts # 0 => hist'[t].starts # 0,
         \/ Begun(r)
         \/ /\ hist'[me].body = hist[me].body
            /\ \/ ~Begun(r)'
               \/ \A s \in Runs : run[s].task = me => ~Begun(s),
         RunTells(r)', RowTells(me)'
  PROVE  OutcomeInv'
<1>0. \A t \in Tasks : /\ HasHandler(t) => HasHandler(t)'
                       /\ OutOfTime(t) => OutOfTime(t)'
  BY DEF HasHandler, OutOfTime, FlagsGrow
<1>1. Grows
  BY <1>0 DEF Grows, RowsFixed, Fixed
<1>2. \A v \in Users : RequestTells(req[v])'
  BY <1>1, IdleRequestTells DEF OutcomeInv
<1>3. ASSUME NEW s \in Runs \ {r}
      PROVE  RunTells(s)' /\ Begun(s)' = Begun(s)
  <2>1. Begun(s) => hist'[run[s].task].body = hist[run[s].task].body
    <3>1. CASE run[s].pc = "new"
      BY <3>1 DEF OutcomeInv, RunTells, StartTells
    <3>2. CASE run[s].pc # "new" /\ run[s].task = me
      BY <3>2 DEF OutcomeInv, OneBegins
    <3>3. CASE run[s].pc # "new" /\ run[s].task # me
      BY <3>3, RunHasTask
    <3>. QED BY <3>1, <3>2, <3>3
  <2>. QED BY <1>1, <2>1, IdleRunTells DEF OutcomeInv
<1>4. OneBegins'
  <2>1. OneBegins
    BY DEF OutcomeInv
  <2>2. \A s \in Runs : run'[s].task = run[s].task
    BY DEF FlagsGrow
  <2>3. \A s \in Runs \ {r} : Begun(s)' => Begun(s)
    BY <1>3
  <2>4. ASSUME NEW o \in Runs \ {r}, Begun(o)', Begun(r)'
        PROVE  run[o].task # run[r].task
    <3>1. Begun(o)
      BY <2>3, <2>4
    <3>2. CASE Begun(r)
      BY <2>1, <3>1, <3>2 DEF OneBegins
    <3>3. CASE ~Begun(r)
      BY <2>4, <3>1, <3>3
    <3>. QED BY <3>2, <3>3
  <2>5. ASSUME NEW p \in Runs, NEW s \in Runs, Begun(p)', Begun(s)',
               run[p].task = run[s].task
        PROVE  p = s
    <3>1. CASE p = r \/ s = r
      BY <2>4, <2>5, <3>1
    <3>2. CASE p # r /\ s # r
      BY <2>1, <2>3, <2>5, <3>2 DEF OneBegins
    <3>. QED BY <3>1, <3>2
  <2>. QED BY <2>2, <2>5 DEF OneBegins
<1>5. \A t \in Tasks : RowTells(t)'
  <2>1. \A t \in Tasks \ {me} : RowTells(t)'
    BY <1>1, IdleRowTells DEF OutcomeInv
  <2>. QED BY <2>1
<1>. QED BY <1>2, <1>3, <1>4, <1>5 DEF OutcomeInv
-----------------------------------------------------------------------------
(***************************************************************************)
(* Requests.                                                               *)
(***************************************************************************)
LEMMA IdleTells == RequestTells(Idle)
BY DEF RequestTells, Idle

LEMMA CalmRequestTells ==
  ASSUME TypeInv, SlotInv, OutcomeInv, NEW u \in Users,
         UNCHANGED <<row, hist, channel, execVars>>,
         NEW q, req' = [req EXCEPT ![u] = q], RequestTells(q)
  PROVE  OutcomeInv'
<1>1. req'[u] = q /\ \A v \in Users \ {u} : req'[v] = req[v]
  BY RequestUpdated
<1>2. RequestTells(req[u])'
  BY <1>1 DEF RequestTells, HasHandler, execVars
<1>3. \A t \in Tasks : RowTells(t)'
  BY DEF OutcomeInv, RowTells, Caused, HasHandler, OutOfTime, execVars
<1>. QED BY <1>1, <1>2, <1>3, RequestStepTells

\* A write that leaves status and abortable of the rows alone.
LEMMA SubscriptionTells ==
  ASSUME TypeInv, SlotInv, OutcomeInv, NEW u \in Users,
         UNCHANGED <<hist, channel, execVars>>,
         \A t \in Tasks : /\ row'[t].status = row[t].status
                          /\ row'[t].abortable = row[t].abortable
                          /\ row'[t].mode = row[t].mode,
         NEW q, req' = [req EXCEPT ![u] = q], RequestTells(q)
  PROVE  OutcomeInv'
<1>1. req'[u] = q /\ \A v \in Users \ {u} : req'[v] = req[v]
  BY RequestUpdated
<1>2. RequestTells(req[u])'
  BY <1>1 DEF RequestTells, HasHandler, execVars
<1>3. \A t \in Tasks : RowTells(t)'
  BY DEF OutcomeInv, RowTells, Caused, HasHandler, OutOfTime, execVars
<1>. QED BY <1>1, <1>2, <1>3, RequestStepTells

LEMMA SubmitLookupTells ==
  ASSUME TypeInv, SlotInv, OutcomeInv, NEW u \in Users, SubmitLookup(u),
         UNCHANGED execVars
  PROVE  OutcomeInv'
<1>1. PICK q \in Request : /\ req' = [req EXCEPT ![u] = q]
                           /\ q.pc = "submitting"
  BY SubmitLookupPicks, Zenon
<1>2. RequestTells(q)
  BY <1>1 DEF RequestTells
<1>. QED BY <1>1, <1>2, CalmRequestTells DEF SubmitLookup

LEMMA SubmitUnlockTells ==
  ASSUME TypeInv, SlotInv, OutcomeInv, NEW u \in Users, SubmitUnlock(u),
         UNCHANGED execVars
  PROVE  OutcomeInv'
<1>. DEFINE q == [req[u] EXCEPT !.pc = "unlocked"]
<1>1. q.pc = "unlocked" /\ req' = [req EXCEPT ![u] = q]
  BY DEF SubmitUnlock, TypeInv, RequestInv, RequestTypeOK, Request
<1>2. RequestTells(q)
  BY <1>1 DEF RequestTells
<1>. HIDE DEF q
<1>. QED BY <1>1, <1>2, CalmRequestTells DEF SubmitUnlock

LEMMA SubmitCreateTells ==
  ASSUME TypeInv, SlotInv, OutcomeInv, NEW u \in Users, SubmitCreate(u),
         UNCHANGED execVars
  PROVE  OutcomeInv'
<1>1. PICK t \in Tasks :
        /\ Fresh(t)
        /\ row' = [row EXCEPT ![t] =
                    NewRow(req[u].key, u, req[u].mode, req[u].timeout)]
        /\ req' = [req EXCEPT ![u].pc = "scheduling", ![u].task = t]
  BY DEF SubmitCreate
<1>. DEFINE q == [req[u] EXCEPT !.pc = "scheduling", !.task = t]
<1>2. /\ req' = [req EXCEPT ![u] = q]
      /\ q.pc = "scheduling"
  BY <1>1 DEF TypeInv, RequestInv, RequestTypeOK, Request
<1>. HIDE DEF q
<1>3. req'[u] = q /\ \A v \in Users \ {u} : req'[v] = req[v]
  BY <1>2, RequestUpdated
<1>4. RequestTells(req[u])'
  BY <1>2, <1>3 DEF RequestTells
<1>5. /\ row'[t].status = "pending" /\ ~row'[t].abortable
      /\ row[t].status = Absent
      /\ \A s \in Tasks \ {t} : row'[s] = row[s]
  BY <1>1 DEF NewRow, Fresh, TypeInv, StoreInv, StoreTypeOK
<1>6. \A s \in Tasks : RowTells(s)'
  BY <1>5
  DEF SubmitCreate, OutcomeInv, RowTells, Caused, HasHandler, OutOfTime,
      execVars, ABORT_STATES
<1>. QED BY <1>3, <1>4, <1>5, <1>6, RequestStepTells DEF SubmitCreate

LEMMA SubmitJoinTells ==
  ASSUME TypeInv, SlotInv, OutcomeInv, NEW u \in Users, SubmitJoin(u),
         UNCHANGED execVars
  PROVE  OutcomeInv'
<1>. DEFINE t == req[u].task
            q == IF req[u].mode = "sync" /\ Exists(t)
                 THEN [req[u] EXCEPT !.pc = "waiting"] ELSE Idle
<1>1. t \in Tasks /\ row[t] \in Row
  BY DEF SubmitJoin, TypeInv, RequestInv, RequestTypeOK, Request, StoreInv,
         StoreTypeOK
<1>2. /\ req' = [req EXCEPT ![u] = q]
      /\ q.pc \in {"idle", "waiting"}
  BY DEF SubmitJoin, TypeInv, RequestInv, RequestTypeOK, Request, Idle
<1>3. RequestTells(q)
  BY <1>2 DEF RequestTells
<1>4. \A s \in Tasks : /\ row'[s].status = row[s].status
                       /\ row'[s].abortable = row[s].abortable
                       /\ row'[s].mode = row[s].mode
  BY <1>1 DEF SubmitJoin, TypeInv, StoreInv, StoreTypeOK, Row
<1>. HIDE DEF q
<1>. QED BY <1>2, <1>3, <1>4, SubscriptionTells DEF SubmitJoin

\* The steps by which a request ends and leaves no trace.
LEMMA EndingRequestTells ==
  ASSUME TypeInv, SlotInv, OutcomeInv, NEW u \in Users,
         \/ SubmitConflict(u) \/ Schedule(u) \/ WaitEnds(u)
         \/ WaitTimesOut(u) \/ SubmitterDies(u) \/ CancelRefused(u),
         UNCHANGED execVars
  PROVE  OutcomeInv'
<1>1. /\ req' = [req EXCEPT ![u] = Idle]
      /\ UNCHANGED <<row, hist, channel>>
  BY DEF SubmitConflict, Schedule, WaitEnds, WaitTimesOut, SubmitterDies,
         CancelRefused, storeVars
<1>. QED BY <1>1, IdleTells, CalmRequestTells

LEMMA CancelFetchTells ==
  ASSUME TypeInv, SlotInv, OutcomeInv, NEW u \in Users, CancelFetch(u),
         UNCHANGED execVars
  PROVE  OutcomeInv'
<1>1. PICK t \in Tasks, f \in BOOLEAN :
        req' = [req EXCEPT ![u] = [Idle EXCEPT
                     !.pc = "cancelling", !.key = row[t].key, !.task = t,
                     !.force = f, !.seen = row[t]]]
  BY DEF CancelFetch
<1>. DEFINE q == [Idle EXCEPT !.pc = "cancelling", !.key = row[t].key,
                              !.task = t, !.force = f, !.seen = row[t]]
<1>2. q.pc = "cancelling" /\ q.task = t /\ q.seen = row[t]
  BY DEF Idle
<1>3. RequestTells(q)
  BY <1>2 DEF RequestTells, OutcomeInv, RowTells
<1>4. req' = [req EXCEPT ![u] = q]
  BY <1>1
<1>. HIDE DEF q
<1>. QED BY <1>3, <1>4, CalmRequestTells DEF CancelFetch, storeVars

LEMMA CancelLockTells ==
  ASSUME TypeInv, SlotInv, OutcomeInv, NEW u \in Users, CancelLock(u),
         UNCHANGED execVars
  PROVE  OutcomeInv'
<1>. DEFINE q == [req[u] EXCEPT !.pc = "locked"]
<1>1. /\ req' = [req EXCEPT ![u] = q]
      /\ q.pc = "locked" /\ q.task = req[u].task /\ q.seen = req[u].seen
  BY DEF CancelLock, TypeInv, RequestInv, RequestTypeOK, Request
<1>2. RequestTells(q)
  BY <1>1 DEF CancelLock, RequestTells, OutcomeInv
<1>. HIDE DEF q
<1>. QED BY <1>1, <1>2, CalmRequestTells DEF CancelLock

\* An abort is planned only for an active row, and for a running one only if
\* the copy says that it is abortable.
LEMMA CancelDecideTells ==
  ASSUME TypeInv, SlotInv, OutcomeInv, NEW u \in Users, CancelDecide(u),
         UNCHANGED execVars
  PROVE  OutcomeInv'
<1>. DEFINE t == req[u].task
            x == IF Redis THEN req[u].seen ELSE row[t]
            p == IF Visible(u, t)
                 THEN CancelPlan(u, x, req[u].force) ELSE "none"
            q == [req[u] EXCEPT
                    !.seen = x, !.plan = p,
                    !.pc = IF p = "none" THEN "releasing" ELSE "deciding"]
<1>1. /\ req' = [req EXCEPT ![u] = q]
      /\ q.pc = IF p = "none" THEN "releasing" ELSE "deciding"
      /\ q.task = t /\ q.seen = x /\ q.plan = p
  BY DEF CancelDecide, TypeInv, RequestInv, RequestTypeOK, Request
<1>2. p = "abort" => /\ x.status \in ACTIVE_STATES
                     /\ x.status = "in_progress" => x.abortable
  BY DEF CancelPlan, MayCancel, CanAbort
<1>3. x.abortable => HasHandler(t)
  BY DEF CancelDecide, OutcomeInv, RowTells, RequestTells, TypeInv,
         RequestInv, RequestLocated
<1>. HIDE DEF q, p, x
<1>4. RequestTells(q)
  BY <1>1, <1>2, <1>3 DEF RequestTells
<1>. QED BY <1>1, <1>4, CalmRequestTells DEF CancelDecide, storeVars

\* The abort is written and remembered in one step.
LEMMA CancelAbortTells ==
  ASSUME TypeInv, SlotInv, OutcomeInv, NEW u \in Users, CancelAbort(u),
         UNCHANGED execVars
  PROVE  OutcomeInv'
<1>. DEFINE t == req[u].task
            s == AbortTarget(req[u].seen)
            y == SetStatus(row[t], req[u].seen, s)
            q == [req[u] EXCEPT
                    !.pc = "releasing", !.seen = NoRow,
                    !.plan = IF s = "aborting" THEN "published" ELSE "none"]
<1>1. /\ req' = [req EXCEPT ![u] = q]
      /\ q.pc = "releasing" /\ q.task = t
  BY DEF CancelAbort, TypeInv, RequestInv, RequestTypeOK, Request
<1>2. t \in Tasks /\ row[t] \in Row /\ hist[t] \in History
  BY DEF CancelAbort, TypeInv, RequestInv, RequestLocated, StoreInv,
         StoreTypeOK
<1>3. /\ row'[t] = y /\ \A o \in Tasks \ {t} : row'[o] = row[o]
      /\ y.mode = row[t].mode /\ y.abortable = row[t].abortable
      /\ y.status = IF req[u].seen.status = s THEN row[t].status ELSE s
  BY <1>2, SetStatusFields
  DEF CancelAbort, TypeInv, StoreInv, StoreTypeOK, Fixed
<1>4. /\ hist'[t] = [hist[t] EXCEPT !.cancelled = TRUE]
      /\ \A o \in Tasks \ {t} : hist'[o] = hist[o]
  BY <1>2 DEF CancelAbort, TypeInv, StoreInv, StoreTypeOK
<1>5. /\ hist'[t].cancelled /\ hist'[t].timedOut = hist[t].timedOut
      /\ hist'[t].handled = hist[t].handled /\ hist'[t].body = hist[t].body
      /\ hist'[t].starts = hist[t].starts
  BY <1>2, <1>4 DEF History
<1>. HIDE DEF q, y
<1>6. req'[u] = q /\ \A v \in Users \ {u} : req'[v] = req[v]
  BY <1>1, RequestUpdated
<1>7. RequestTells(req[u])'
  BY <1>1, <1>5, <1>6 DEF RequestTells
<1>8. ASSUME NEW o \in Tasks
      PROVE  RowTells(o)'
  <2>1. CASE o # t
    BY <1>3, <1>4, <2>1
    DEF CancelAbort, OutcomeInv, RowTells, Caused, HasHandler, OutOfTime,
        execVars
  <2>2. CASE o = t
    <3>1. y.status = "aborting" => HasHandler(t)
      BY <1>2, <1>3
      DEF CancelAbort, OutcomeInv, RowTells, RequestTells, AbortTarget,
          ACTIVE_STATES
    <3>2. y.status = row[t].status \/ y.status \in {"aborting", "aborted"}
      BY <1>3 DEF AbortTarget
    <3>3. run' = run /\ channel' = channel
      BY DEF CancelAbort, execVars
    <3>4. HasHandler(o)' = HasHandler(o) /\ OutOfTime(o)' = OutOfTime(o)
      BY <3>3 DEF HasHandler, OutOfTime
    <3>5. RowTells(o) /\ Caused(o)'
      BY <1>5, <2>2 DEF OutcomeInv, Caused
    <3>. QED BY <1>3, <1>5, <2>2, <3>1, <3>2, <3>3, <3>4, <3>5 DEF RowTells
  <2>. QED BY <2>1, <2>2
<1>9. \A o \in Tasks :
        /\ hist[o].cancelled => hist'[o].cancelled
        /\ hist'[o].timedOut = hist[o].timedOut
        /\ hist'[o].handled = hist[o].handled
        /\ hist'[o].body = hist[o].body
        /\ hist'[o].starts = hist[o].starts
        /\ row[o].status # Absent => row'[o].mode = row[o].mode
  BY <1>3, <1>4, <1>5
<1>. QED BY <1>6, <1>7, <1>8, <1>9, RequestStepTells

LEMMA CancelUnsubscribeTells ==
  ASSUME TypeInv, SlotInv, OutcomeInv, NEW u \in Users, CancelUnsubscribe(u),
         UNCHANGED execVars
  PROVE  OutcomeInv'
<1>. DEFINE t == req[u].task
            q == [req[u] EXCEPT !.pc = "releasing", !.seen = NoRow,
                                !.plan = "none"]
<1>1. req' = [req EXCEPT ![u] = q] /\ q.pc = "releasing" /\ q.plan = "none"
  BY DEF CancelUnsubscribe, TypeInv, RequestInv, RequestTypeOK, Request
<1>2. t \in Tasks /\ row[t] \in Row
  BY DEF CancelUnsubscribe, TypeInv, RequestInv, RequestLocated, StoreInv,
         StoreTypeOK
<1>3. \A s \in Tasks : /\ row'[s].status = row[s].status
                       /\ row'[s].abortable = row[s].abortable
                       /\ row'[s].mode = row[s].mode
  BY <1>2 DEF CancelUnsubscribe, TypeInv, StoreInv, StoreTypeOK, Row
<1>4. RequestTells(q)
  BY <1>1 DEF RequestTells
<1>. HIDE DEF q
<1>. QED BY <1>1, <1>3, <1>4, SubscriptionTells DEF CancelUnsubscribe

LEMMA CancelReleaseTells ==
  ASSUME TypeInv, SlotInv, OutcomeInv, NEW u \in Users, CancelRelease(u),
         UNCHANGED execVars
  PROVE  OutcomeInv'
<1>. DEFINE q == IF Redis /\ req[u].plan = "published"
                 THEN [req[u] EXCEPT !.pc = "publishing"] ELSE Idle
<1>1. /\ req' = [req EXCEPT ![u] = q]
      /\ \/ q = Idle
         \/ /\ q.pc = "publishing" /\ q.task = req[u].task
            /\ req[u].plan = "published"
  BY DEF CancelRelease, TypeInv, RequestInv, RequestTypeOK, Request
<1>2. RequestTells(q)
  BY <1>1, IdleTells DEF CancelRelease, RequestTells, OutcomeInv
<1>. HIDE DEF q
<1>. QED BY <1>1, <1>2, CalmRequestTells DEF CancelRelease

\* The message on the channel stands for the cancel that is done.
LEMMA CancelPublishTells ==
  ASSUME TypeInv, SlotInv, OutcomeInv, NEW u \in Users, CancelPublish(u),
         UNCHANGED execVars
  PROVE  OutcomeInv'
<1>. DEFINE t == req[u].task
<1>1. t \in Tasks /\ hist[t].cancelled
  BY DEF CancelPublish, OutcomeInv, RequestTells, TypeInv, RequestInv,
         RequestLocated
<1>2. req'[u] = Idle /\ \A v \in Users \ {u} : req'[v] = req[v]
  BY RequestUpdated DEF CancelPublish
<1>3. RequestTells(req[u])'
  BY <1>2 DEF RequestTells, Idle
<1>4. \A s \in Tasks \ {t} : channel'[s] = channel[s]
  BY DEF CancelPublish, TypeInv, StoreInv, StoreTypeOK
<1>5. \A s \in Tasks : RowTells(s)'
  BY <1>1, <1>4
  DEF CancelPublish, OutcomeInv, RowTells, Caused, HasHandler, OutOfTime,
      execVars
<1>. QED BY <1>2, <1>3, <1>5, RequestStepTells DEF CancelPublish
-----------------------------------------------------------------------------
(***************************************************************************)
(* The executor.                                                           *)
(***************************************************************************)
LEMMA RunTyped ==
  ASSUME TypeInv, NEW r \in Runs
  PROVE  /\ run[r] \in RunState
         /\ thread[r]["timer"] \in ThreadState
         /\ thread[r]["listener"] \in ThreadState
         /\ \A h \in Threads : thread[r][h] \in ThreadState
BY DEF TypeInv, ExecInv, ExecutionTypeOK, Threads

\* The two threads, spelled out.
LEMMA BegunCases ==
  ASSUME NEW r \in Runs
  PROVE  Begun(r) <=> \/ run[r].pc \notin {"new", "fetched", "done"}
                      \/ run[r].registered \/ run[r].timedOut
                      \/ run[r].abortDetected \/ run[r].handlersDone
                      \/ thread[r]["timer"].pc # "off"
                      \/ thread[r]["listener"].pc # "off"
BY DEF Begun, Threads

Flags(x, y) ==
  /\ y.task = x.task /\ y.registered = x.registered
  /\ y.timedOut = x.timedOut /\ y.abortDetected = x.abortDetected
  /\ y.handlersDone = x.handlersDone

Late == {"cleaners", "report", "reporting", "unlocked", "decide", "final",
         "done"}

\* A run that moves on and sets no flag.
LEMMA MovedRunTells ==
  ASSUME TypeInv, SlotInv, OutcomeInv, NEW r \in Runs, run[r].pc # "new",
         NEW x, run' = [run EXCEPT ![r] = x], Flags(run[r], x),
         thread' = thread, hist' = hist,
         x.loaded \in {run[r].loaded, Absent},
         x.pc \notin {"new", "fetched", "listen"},
         x.pc = "done" \/ run[r].pc \notin {"new", "fetched", "done"},
         run[r].pc \in Late => x.pc \in Late
  PROVE  StartTells(r)' /\ CauseTells(r)' /\ HandlersTell(r)'
<1>0. run'[r] = x
  BY RunUpdated
<1>1. Begun(r)' => Begun(r)
  BY <1>0, BegunCases DEF Flags, Begun
<1>2. RunTells(r)
  BY DEF OutcomeInv
<1>3. StartTells(r)'
  BY <1>0, <1>1, <1>2 DEF RunTells, StartTells, Flags
<1>4. CauseTells(r)'
  BY <1>0, <1>2 DEF RunTells, CauseTells, Flags, Caused, Absent, ABORT_STATES
<1>5. HandlersTell(r)'
  BY <1>0, <1>2 DEF RunTells, HandlersTell, Flags, Late
<1>. QED BY <1>3, <1>4, <1>5

\* If, besides, the rows and channels stay as they are.
LEMMA CalmRunTells ==
  ASSUME TypeInv, SlotInv, OutcomeInv, NEW r \in Runs, run[r].pc # "new",
         NEW x, run' = [run EXCEPT ![r] = x], Flags(run[r], x),
         thread' = thread, hist' = hist, row' = row, channel' = channel,
         req' = req,
         x.loaded \in {run[r].loaded, Absent},
         x.pc \notin {"new", "fetched", "listen"},
         x.pc = "done" \/ run[r].pc \notin {"new", "fetched", "done"},
         run[r].pc \in Late => x.pc \in Late,
         TargetTells(r)'
  PROVE  OutcomeInv'
<1>. DEFINE t == run[r].task
<1>1. t \in Tasks
  BY RunHasTask
<1>2. run'[r] = x /\ \A s \in Runs \ {r} : run'[s] = run[s]
  BY RunUpdated
<1>3. RunTells(r)'
  BY MovedRunTells DEF RunTells
<1>4. Begun(r)' => Begun(r)
  BY <1>2, BegunCases DEF Flags, Begun
<1>5. \A o \in Tasks : /\ HasHandler(o)' = HasHandler(o)
                       /\ OutOfTime(o)' = OutOfTime(o)
  BY <1>2 DEF HasHandler, OutOfTime, Flags
<1>6. RowsFixed /\ FlagsGrow(run[r], run'[r])
  BY <1>2, SameRowsFixed DEF Flags, FlagsGrow
<1>7. \A o \in Tasks : RowTells(o)'
  BY <1>5 DEF OutcomeInv, RowTells, Caused
<1>. QED BY <1>1, <1>2, <1>3, <1>4, <1>6, <1>7, RunStepTells

\* If the row of its task is written.
LEMMA WritingRunTells ==
  ASSUME TypeInv, SlotInv, OutcomeInv, NEW r \in Runs, run[r].pc # "new",
         NEW me \in Tasks, run[r].task = me,
         NEW y, row' = [row EXCEPT ![me] = y], Fixed(row[me], y),
         NEW x, run' = [run EXCEPT ![r] = x], Flags(run[r], x),
         thread' = thread, hist' = hist, channel' = channel, req' = req,
         x.loaded \in {run[r].loaded, Absent},
         x.pc \notin {"new", "fetched", "listen"},
         x.pc = "done" \/ run[r].pc \notin {"new", "fetched", "done"},
         run[r].pc \in Late => x.pc \in Late,
         TargetTells(r)',
         y.status \in ABORT_STATES => Caused(me),
         y.status = "aborting" \/ y.abortable => HasHandler(me),
         y.status = "success" => hist[me].body = "returned",
         y.status = "failure" => hist[me].body # "no",
         y.status = "timed_out" => /\ hist[me].timedOut
                                   /\ y.mode = "async" => hist[me].handled
  PROVE  OutcomeInv'
<1>1. run'[r] = x /\ \A s \in Runs \ {r} : run'[s] = run[s]
  BY RunUpdated
<1>2. row'[me] = y /\ \A o \in Tasks \ {me} : row'[o] = row[o]
  BY DEF TypeInv, StoreInv, StoreTypeOK
<1>3. RunTells(r)'
  BY MovedRunTells DEF RunTells
<1>4. Begun(r)' => Begun(r)
  BY <1>1, BegunCases DEF Flags, Begun
<1>5. HasHandler(me)' = HasHandler(me) /\ OutOfTime(me)' = OutOfTime(me)
  BY <1>1 DEF HasHandler, OutOfTime, Flags
<1>6. RowTells(me)'
  BY <1>2, <1>5 DEF OutcomeInv, RowTells, Caused
<1>7. RowsFixed /\ FlagsGrow(run[r], run'[r])
  BY <1>1, RunHasTask, OneRowFixed DEF Flags, FlagsGrow
<1>. QED BY <1>1, <1>2, <1>3, <1>4, <1>6, <1>7, RunStepTells

LEMMA FetchTells ==
  ASSUME TypeInv, SlotInv, OutcomeInv, NEW r \in Runs, Fetch(r), req' = req
  PROVE  OutcomeInv'
<1>1. PICK t \in Tasks :
        run' = [run EXCEPT ![r] = [NewRun EXCEPT
                  !.task = t, !.seen = IF Exists(t) THEN row[t] ELSE NoRow,
                  !.pc = IF Exists(t) THEN "fetched" ELSE "done"]]
  BY DEF Fetch
<1>. DEFINE x == [NewRun EXCEPT
                    !.task = t, !.seen = IF Exists(t) THEN row[t] ELSE NoRow,
                    !.pc = IF Exists(t) THEN "fetched" ELSE "done"]
<1>2. /\ x.pc \in {"fetched", "done"} /\ x.task = t /\ x.loaded = Absent
      /\ x.seen \in {row[t], NoRow}
      /\ ~x.registered /\ ~x.timedOut /\ ~x.abortDetected /\ ~x.handlersDone
  BY DEF NewRun
<1>3. run' = [run EXCEPT ![r] = x]
  BY <1>1
<1>. HIDE DEF x
<1>4. run'[r] = x /\ \A s \in Runs \ {r} : run'[s] = run[s]
  BY <1>3, RunUpdated
<1>5. /\ ~Begun(r) /\ thread' = thread /\ row' = row /\ hist' = hist
      /\ channel' = channel
  BY DEF Fetch, OutcomeInv, RunTells, StartTells
<1>6. /\ thread[r]["timer"].pc = "off" /\ thread[r]["listener"].pc = "off"
      /\ ~run[r].registered /\ ~run[r].timedOut
  BY <1>5, BegunCases
<1>7. ~Begun(r)'
  BY <1>2, <1>4, <1>5, <1>6 DEF Begun, Threads
<1>8. Grows
  <2>1. \A o \in Tasks : /\ HasHandler(o) => HasHandler(o)'
                         /\ OutOfTime(o) => OutOfTime(o)'
    BY <1>4, <1>6 DEF HasHandler, OutOfTime
  <2>. QED BY <1>5, <2>1 DEF Grows
<1>9. \A v \in Users : RequestTells(req[v])'
  BY <1>8, IdleRequestTells DEF OutcomeInv
<1>10. \A o \in Tasks : RowTells(o)'
  BY <1>5, <1>8, IdleRowTells DEF OutcomeInv
<1>11. \A s \in Runs \ {r} : RunTells(s)' /\ Begun(s)' = Begun(s)
  BY <1>4, <1>5, <1>8, IdleRunTells DEF OutcomeInv
<1>12. RunTells(r)'
  <2>1. NoRow.status \notin ABORT_STATES /\ Absent \notin ABORT_STATES
    BY DEF NoRow, Absent, ABORT_STATES
  <2>2. StartTells(r)' /\ HandlersTell(r)' /\ TargetTells(r)'
    BY <1>2, <1>4, <1>5, <1>6, <1>7 DEF StartTells, HandlersTell, TargetTells
  <2>3. x.seen.status \in ABORT_STATES => Caused(t)
    BY <1>2, <2>1 DEF OutcomeInv, RowTells
  <2>4. CauseTells(r)'
    BY <1>2, <1>4, <1>5, <1>6, <2>1, <2>3 DEF CauseTells, Caused
  <2>. QED BY <2>2, <2>4 DEF RunTells
<1>13. OneBegins'
  BY <1>4, <1>7, <1>11 DEF OutcomeInv, OneBegins
<1>. QED BY <1>9, <1>10, <1>11, <1>12, <1>13 DEF OutcomeInv

LEMMA SkipAbortedTells ==
  ASSUME TypeInv, SlotInv, OutcomeInv, NEW r \in Runs, SkipAborted(r),
         req' = req
  PROVE  OutcomeInv'
<1>. DEFINE t == run[r].task
            x == [run[r] EXCEPT !.pc = "done", !.seen = NoRow]
            y == Swap(row[t], "aborted", FALSE)
<1>1. /\ run' = [run EXCEPT ![r] = x] /\ run[r].pc = "fetched"
      /\ x.pc = "done" /\ Flags(run[r], x) /\ x.loaded = run[r].loaded
  <2>1. run[r] \in RunState
    BY RunTyped
  <2>2. x.pc = "done" /\ Flags(run[r], x) /\ x.loaded = run[r].loaded
    BY <2>1 DEF RunState, Flags
  <2>3. /\ run[r].pc = "fetched"
        /\ run' = [run EXCEPT ![r].pc = "done", ![r].seen = NoRow]
    BY DEF SkipAborted
  <2>4. run' = [run EXCEPT ![r] = x]
    BY <2>3 DEF TypeInv, ExecInv, ExecutionTypeOK
  <2>. QED BY <2>2, <2>3, <2>4
<1>2. t \in Tasks /\ row[t] \in Row
  BY <1>1, RunHasTask
<1>3. /\ y.status = "aborted" /\ Fixed(row[t], y)
      /\ y.abortable => row[t].abortable
  BY <1>2, SwapFields
<1>. HIDE DEF x, y
<1>4. TargetTells(r)'
  BY <1>1, RunUpdated DEF TargetTells
<1>5. Caused(t) /\ (row[t].abortable => HasHandler(t))
  BY <1>1, <1>2
  DEF SkipAborted, OutcomeInv, RunTells, CauseTells, RowTells
<1>6. CASE row' = row
  BY <1>1, <1>4, <1>6, CalmRunTells DEF SkipAborted, Late
<1>7. CASE row' = [row EXCEPT ![t] = y]
  BY <1>1, <1>2, <1>3, <1>4, <1>5, <1>7, WritingRunTells
  DEF SkipAborted, Late
<1>. QED BY <1>6, <1>7 DEF SkipAborted, y

LEMMA PickupFailsTells ==
  ASSUME TypeInv, SlotInv, OutcomeInv, NEW r \in Runs, PickupFails(r),
         req' = req
  PROVE  OutcomeInv'
<1>. DEFINE x == [run[r] EXCEPT !.pc = "done", !.seen = NoRow]
<1>1. /\ run' = [run EXCEPT ![r] = x] /\ run[r].pc = "fetched"
      /\ UNCHANGED <<storeVars, thread>>
  BY DEF PickupFails
<1>2. x.pc = "done" /\ Flags(run[r], x) /\ x.loaded = run[r].loaded
  BY RunTyped DEF RunState, Flags
<1>. HIDE DEF x
<1>3. TargetTells(r)'
  BY <1>1, <1>2, RunUpdated DEF TargetTells
<1>. QED BY <1>1, <1>2, <1>3, CalmRunTells DEF Late, storeVars

\* Nobody has begun the task of a pending row, so the run that picks it up
\* is the one that begins.
LEMMA PickupTells ==
  ASSUME TypeInv, SlotInv, OutcomeInv, NEW r \in Runs, Pickup(r), req' = req
  PROVE  OutcomeInv'
<1>0. PICK t \in Tasks : run[r].task = t
  BY RunHasTask DEF Pickup
<1>. DEFINE x == [run[r] EXCEPT !.pc = "body", !.seen = NoRow,
                                !.dirty = TRUE, !.loaded = "in_progress"]
            y == Swap(row[t], "in_progress", FALSE)
            z == IF row[t].timeout THEN "armed" ELSE "off"
<1>1. /\ run' = [run EXCEPT ![r] = x] /\ run[r].pc = "fetched"
      /\ row' = [row EXCEPT ![t] = y] /\ row[t].status = "pending"
      /\ hist' = [hist EXCEPT ![t].starts = @ + 1]
      /\ thread' = [thread EXCEPT ![r]["timer"].pc = z]
      /\ channel' = channel
  BY <1>0 DEF Pickup, CanSwap, PickupFrom
<1>2. t \in Tasks /\ row[t] \in Row /\ row[t].status # Absent
  BY <1>0, <1>1, RunHasTask
<1>3. x.pc = "body" /\ Flags(run[r], x) /\ x.loaded = "in_progress"
  BY <1>0, RunTyped DEF RunState, Flags
<1>4. /\ y.status = "in_progress" /\ Fixed(row[t], y)
      /\ y.abortable => row[t].abortable
  BY <1>0, <1>2, SwapFields
<1>. HIDE DEF x, y
<1>5. run'[r] = x /\ \A s \in Runs \ {r} : run'[s] = run[s]
  BY <1>0, <1>1, RunUpdated
<1>6. row'[t] = y /\ \A o \in Tasks \ {t} : row'[o] = row[o]
  BY <1>0, <1>1, <1>2 DEF TypeInv, StoreInv, StoreTypeOK
<1>7. /\ hist[t].starts = 0 /\ hist'[t].starts = 1
      /\ hist'[t].cancelled = hist[t].cancelled
      /\ hist'[t].timedOut = hist[t].timedOut
      /\ hist'[t].handled = hist[t].handled
      /\ hist'[t].body = hist[t].body
      /\ \A o \in Tasks \ {t} : hist'[o] = hist[o]
  <2>1. hist[t] \in History /\ hist[t].starts = 0
    BY <1>0, <1>1, <1>2, RowsTyped DEF SlotInv, RowsInOrder, RowInOrder
  <2>. QED BY <1>0, <1>1, <1>2, <2>1 DEF History, TypeInv, StoreInv, StoreTypeOK
<1>8. \A s \in Runs : run[s].task = t => ~Begun(s)
  BY <1>0, <1>7 DEF OutcomeInv, RunTells, StartTells
<1>9. /\ thread'[r]["timer"].pc \in {"armed", "off"}
      /\ thread'[r]["listener"].pc = thread[r]["listener"].pc
      /\ \A s \in Runs \ {r} : thread'[s] = thread[s]
  BY <1>0, <1>1, RunTyped
  DEF TypeInv, ExecInv, ExecutionTypeOK, Threads, ThreadState
<1>10. /\ ~run[r].registered /\ ~run[r].timedOut /\ ~run[r].abortDetected
       /\ ~run[r].handlersDone /\ thread[r]["listener"].pc = "off"
  BY <1>0, <1>8, BegunCases
<1>11. /\ ~x.registered /\ ~x.timedOut /\ ~x.abortDetected
       /\ ~x.handlersDone /\ x.task = t
  BY <1>0, <1>3, <1>10 DEF Flags
<1>12. RunTells(r)'
  <2>1. StartTells(r)'
    BY <1>0, <1>3, <1>5, <1>7, <1>11 DEF StartTells
  <2>2. CauseTells(r)'
    BY <1>0, <1>3, <1>5, <1>9, <1>10, <1>11 DEF CauseTells, ABORT_STATES
  <2>3. HandlersTell(r)'
    BY <1>0, <1>3, <1>5, <1>9, <1>10, <1>11 DEF HandlersTell
  <2>4. TargetTells(r)'
    BY <1>0, <1>3, <1>5, <1>7, <1>11 DEF TargetTells, OutcomeInv, RowTells
  <2>. QED BY <2>1, <2>2, <2>3, <2>4 DEF RunTells
<1>13. HasHandler(t)' = HasHandler(t) /\ OutOfTime(t)' = OutOfTime(t)
  BY <1>0, <1>5, <1>10, <1>11 DEF HasHandler, OutOfTime
<1>14. RowTells(t)'
  BY <1>0, <1>1, <1>2, <1>4, <1>6, <1>7, <1>13
  DEF OutcomeInv, RowTells, Caused, ABORT_STATES
<1>15. RowsFixed /\ FlagsGrow(run[r], run'[r])
  BY <1>0, <1>1, <1>2, <1>4, <1>5, <1>10, <1>11, OneRowFixed DEF FlagsGrow
<1>16. \A o \in Tasks :
         /\ hist[o].cancelled => hist'[o].cancelled
         /\ hist[o].timedOut => hist'[o].timedOut
         /\ hist[o].handled => hist'[o].handled
         /\ hist[o].body # "no" => hist'[o].body # "no"
         /\ hist[o].starts # 0 => hist'[o].starts # 0
  BY <1>0, <1>7
<1>. QED BY <1>0, <1>1, <1>2, <1>5, <1>6, <1>7, <1>8, <1>9, <1>12, <1>14, <1>15,
            <1>16, RunStepTells

LEMMA RegisterHandlerTells ==
  ASSUME TypeInv, SlotInv, OutcomeInv, NEW r \in Runs, RegisterHandler(r),
         req' = req
  PROVE  OutcomeInv'
<1>0. PICK t \in Tasks : run[r].task = t
  BY RunHasTask DEF RegisterHandler
<1>. DEFINE x == [Committed(run[r]) EXCEPT !.registered = TRUE,
                                           !.pc = "listen"]
            y == [Flushed(r) EXCEPT !.abortable = Exists(t)]
<1>1. /\ run' = [run EXCEPT ![r] = x] /\ run[r].pc = "body"
      /\ row' = [row EXCEPT ![t] = y] /\ ~run[r].registered
      /\ UNCHANGED <<channel, hist, thread>>
  BY <1>0 DEF RegisterHandler
<1>2. t \in Tasks /\ row[t] \in Row /\ row[t].status # Absent
  BY <1>0, <1>1, RunHasTask
<1>3. /\ x.pc = "listen" /\ x.registered /\ x.loaded = Absent
      /\ x.task = t /\ x.timedOut = run[r].timedOut
      /\ x.abortDetected = run[r].abortDetected
      /\ x.handlersDone = run[r].handlersDone
  BY <1>0, RunTyped DEF RunState, Committed
<1>4. /\ y.status = "in_progress" \/ y.status = row[t].status
      /\ Fixed(row[t], y)
  BY <1>0, <1>2, FlushedFields DEF Fixed, Row, TaskOf
<1>. HIDE DEF x, y
<1>5. run'[r] = x /\ \A s \in Runs \ {r} : run'[s] = run[s]
  BY <1>0, <1>1, RunUpdated
<1>6. row'[t] = y /\ \A o \in Tasks \ {t} : row'[o] = row[o]
  BY <1>0, <1>1, <1>2 DEF TypeInv, StoreInv, StoreTypeOK
<1>7. RunTells(r) /\ Begun(r)
  BY <1>0, <1>1 DEF OutcomeInv, Begun
<1>8. ~run[r].handlersDone
  BY <1>0, <1>1, <1>7 DEF RunTells, HandlersTell
<1>9. RunTells(r)'
  <2>1. StartTells(r)'
    BY <1>0, <1>1, <1>3, <1>5, <1>7 DEF RunTells, StartTells
  <2>2. CauseTells(r)'
    BY <1>0, <1>1, <1>3, <1>5, <1>7
    DEF RunTells, CauseTells, Caused, Absent, ABORT_STATES
  <2>3. HandlersTell(r)'
    BY <1>0, <1>1, <1>3, <1>5, <1>8 DEF HandlersTell
  <2>4. TargetTells(r)'
    BY <1>0, <1>1, <1>3, <1>5, <1>7 DEF RunTells, TargetTells
  <2>. QED BY <2>1, <2>2, <2>3, <2>4 DEF RunTells
<1>10. HasHandler(t)' /\ OutOfTime(t)' = OutOfTime(t)
  BY <1>0, <1>3, <1>5 DEF HasHandler, OutOfTime
<1>11. RowTells(t)'
  BY <1>0, <1>1, <1>2, <1>4, <1>6, <1>10
  DEF OutcomeInv, RowTells, Caused, ABORT_STATES, Fixed
<1>12. RowsFixed /\ FlagsGrow(run[r], run'[r])
  BY <1>0, <1>1, <1>2, <1>3, <1>4, <1>5, OneRowFixed DEF FlagsGrow
<1>. QED BY <1>0, <1>1, <1>2, <1>5, <1>6, <1>7, <1>9, <1>11, <1>12, RunStepTells

LEMMA StartListenerTells ==
  ASSUME TypeInv, SlotInv, OutcomeInv, NEW r \in Runs, StartListener(r),
         req' = req
  PROVE  OutcomeInv'
<1>0. PICK t \in Tasks : run[r].task = t
  BY RunHasTask DEF StartListener
<1>. DEFINE x == [run[r] EXCEPT !.pc = "body"]
<1>1. /\ run' = [run EXCEPT ![r] = x] /\ run[r].pc = "listen"
      /\ thread' = [thread EXCEPT ![r]["listener"].pc = "check"]
      /\ channel' = [channel EXCEPT ![t] = IF Redis THEN "open" ELSE @]
      /\ UNCHANGED <<row, hist>>
  BY <1>0 DEF StartListener, MoveThread
<1>2. t \in Tasks
  BY <1>0, <1>1, RunHasTask
<1>3. x.pc = "body" /\ Flags(run[r], x) /\ x.loaded = run[r].loaded
  BY <1>0, RunTyped DEF RunState, Flags
<1>. HIDE DEF x
<1>4. run'[r] = x /\ \A s \in Runs \ {r} : run'[s] = run[s]
  BY <1>0, <1>1, RunUpdated
<1>5. /\ thread'[r]["listener"].pc = "check"
      /\ thread'[r]["timer"] = thread[r]["timer"]
      /\ \A s \in Runs \ {r} : thread'[s] = thread[s]
  BY <1>0, <1>1, RunTyped
  DEF TypeInv, ExecInv, ExecutionTypeOK, Threads, ThreadState
<1>6. /\ channel'[t] = "abort" => channel[t] = "abort"
      /\ \A o \in Tasks \ {t} : channel'[o] = channel[o]
  BY <1>0, <1>1, <1>2 DEF TypeInv, StoreInv, StoreTypeOK
<1>7. RunTells(r) /\ Begun(r)
  BY <1>0, <1>1 DEF OutcomeInv, Begun
<1>8. RunTells(r)'
  <2>1. StartTells(r)'
    BY <1>0, <1>1, <1>3, <1>4, <1>7 DEF RunTells, StartTells, Flags
  <2>2. CauseTells(r)'
    BY <1>0, <1>1, <1>3, <1>4, <1>5, <1>7 DEF RunTells, CauseTells, Flags, Caused
  <2>3. HandlersTell(r)'
    BY <1>0, <1>1, <1>3, <1>4, <1>5, <1>7 DEF RunTells, HandlersTell, Flags
  <2>4. TargetTells(r)'
    BY <1>0, <1>1, <1>3, <1>4, <1>7 DEF RunTells, TargetTells, Flags
  <2>. QED BY <2>1, <2>2, <2>3, <2>4 DEF RunTells
<1>9. HasHandler(t)' = HasHandler(t) /\ OutOfTime(t)' = OutOfTime(t)
  BY <1>0, <1>3, <1>4 DEF HasHandler, OutOfTime, Flags
<1>10. RowTells(t)'
  BY <1>0, <1>1, <1>2, <1>6, <1>9 DEF OutcomeInv, RowTells, Caused
<1>11. RowsFixed /\ FlagsGrow(run[r], run'[r])
  BY <1>0, <1>1, <1>3, <1>4, SameRowsFixed DEF Flags, FlagsGrow
<1>. QED BY <1>0, <1>1, <1>2, <1>4, <1>5, <1>6, <1>7, <1>8, <1>10, <1>11,
            RunStepTells

LEMMA UpdateTaskTells ==
  ASSUME TypeInv, SlotInv, OutcomeInv, NEW r \in Runs, UpdateTask(r),
         req' = req
  PROVE  OutcomeInv'
<1>. DEFINE t == run[r].task
            x == Committed(run[r])
<1>1. /\ run' = [run EXCEPT ![r] = x] /\ run[r].pc = "body"
      /\ row' = [row EXCEPT ![t] = Flushed(r)]
      /\ UNCHANGED <<channel, hist, thread>>
  BY DEF UpdateTask
<1>2. t \in Tasks /\ row[t] \in Row
  BY <1>1, RunHasTask
<1>3. x.pc = "body" /\ Flags(run[r], x) /\ x.loaded = Absent
  BY <1>1, RunTyped DEF RunState, Flags, Committed
<1>4. /\ Flushed(r).status = "in_progress"
           \/ Flushed(r).status = row[t].status
      /\ Flushed(r).abortable = row[t].abortable
      /\ Fixed(row[t], Flushed(r))
  BY <1>2, FlushedFields DEF TaskOf
<1>. HIDE DEF x
<1>5. TargetTells(r)'
  BY <1>1, <1>3, RunUpdated DEF OutcomeInv, RunTells, TargetTells, Flags
<1>6. RowTells(t)
  BY <1>2 DEF OutcomeInv
<1>7. /\ Flushed(r).status \in ABORT_STATES => Caused(t)
      /\ Flushed(r).status = "aborting" \/ Flushed(r).abortable
           => HasHandler(t)
      /\ Flushed(r).status = "success" => hist[t].body = "returned"
      /\ Flushed(r).status = "failure" => hist[t].body # "no"
      /\ Flushed(r).status = "timed_out" =>
           /\ hist[t].timedOut
           /\ Flushed(r).mode = "async" => hist[t].handled
  BY <1>4, <1>6 DEF RowTells, Fixed, ABORT_STATES
<1>. QED BY <1>1, <1>2, <1>3, <1>4, <1>5, <1>7, WritingRunTells DEF Late

LEMMA BodyEndsTells ==
  ASSUME TypeInv, SlotInv, OutcomeInv, NEW r \in Runs, BodyEnds(r),
         req' = req
  PROVE  OutcomeInv'
<1>0. PICK t \in Tasks : run[r].task = t
  BY RunHasTask DEF BodyEnds
<1>1. PICK f \in BOOLEAN :
        /\ run' = [run EXCEPT ![r].pc = "settle", ![r].failed = f,
                              ![r].completed = Async(r)]
        /\ hist' = [hist EXCEPT ![t].body =
                      IF f THEN "raised" ELSE "returned"]
  BY <1>0 DEF BodyEnds, MayFail
<1>. DEFINE x == [run[r] EXCEPT !.pc = "settle", !.failed = f,
                                !.completed = Async(r)]
<1>2. /\ x.pc = "settle" /\ Flags(run[r], x) /\ x.loaded = run[r].loaded
      /\ x.failed = f
  BY RunTyped DEF RunState, Flags
<1>3. /\ run' = [run EXCEPT ![r] = x] /\ run[r].pc = "body"
      /\ UNCHANGED <<row, channel, thread>>
  BY <1>1, RunTyped
  DEF BodyEnds, TypeInv, ExecInv, ExecutionTypeOK, RunState
<1>. HIDE DEF x
<1>4. run'[r] = x /\ \A s \in Runs \ {r} : run'[s] = run[s]
  BY <1>3, RunUpdated
<1>5. /\ hist'[t].starts = hist[t].starts
      /\ hist'[t].cancelled = hist[t].cancelled
      /\ hist'[t].timedOut = hist[t].timedOut
      /\ hist'[t].handled = hist[t].handled
      /\ hist'[t].body = IF f THEN "raised" ELSE "returned"
      /\ \A o \in Tasks \ {t} : hist'[o] = hist[o]
  BY <1>1, RowsTyped DEF TypeInv, StoreInv, StoreTypeOK, History
<1>6. RunTells(r) /\ Begun(r)
  BY <1>3 DEF OutcomeInv, Begun
<1>7. RunTells(r)'
  <2>1. StartTells(r)'
    BY <1>0, <1>2, <1>3, <1>4, <1>5, <1>6 DEF RunTells, StartTells, Flags
  <2>2. CauseTells(r)'
    BY <1>0, <1>2, <1>3, <1>4, <1>5, <1>6
    DEF RunTells, CauseTells, Flags, Caused
  <2>3. HandlersTell(r)'
    BY <1>0, <1>2, <1>3, <1>4, <1>5, <1>6 DEF RunTells, HandlersTell, Flags
  <2>4. TargetTells(r)'
    BY <1>0, <1>2, <1>4, <1>5 DEF TargetTells, Flags
  <2>. QED BY <2>1, <2>2, <2>3, <2>4 DEF RunTells
<1>8. HasHandler(t)' = HasHandler(t) /\ OutOfTime(t)' = OutOfTime(t)
  BY <1>0, <1>2, <1>4 DEF HasHandler, OutOfTime, Flags
<1>9. row[t].status # "success" /\ hist[t].starts # 0
  BY <1>0, <1>3, <1>6
  DEF OutcomeInv, RowTells, RunTells, StartTells, TargetTells
<1>10. RowTells(t)'
  BY <1>0, <1>3, <1>5, <1>8, <1>9 DEF OutcomeInv, RowTells, Caused
<1>11. RowsFixed /\ FlagsGrow(run[r], run'[r])
  BY <1>2, <1>3, <1>4, SameRowsFixed DEF Flags, FlagsGrow
<1>12. \A o \in Tasks :
         /\ hist[o].cancelled => hist'[o].cancelled
         /\ hist[o].timedOut => hist'[o].timedOut
         /\ hist[o].handled => hist'[o].handled
         /\ hist[o].body # "no" => hist'[o].body # "no"
         /\ hist[o].starts # 0 => hist'[o].starts # 0
  BY <1>5
<1>. QED BY <1>0, <1>3, <1>4, <1>5, <1>6, <1>7, <1>10, <1>11, <1>12,
            RunStepTells

\* An abort that is noticed by a run that is in time comes from a cancel: a
\* deadline of the task would be that of this run.
LEMMA AbortIsCancel ==
  ASSUME TypeInv, SlotInv, OutcomeInv, NEW r \in Runs, run[r].pc # "new",
         run[r].abortDetected, ~run[r].timedOut
  PROVE  hist[run[r].task].cancelled
<1>0. PICK t \in Tasks : run[r].task = t
  BY RunHasTask
<1>1. Caused(t) /\ Begun(r)
  BY <1>0 DEF OutcomeInv, RunTells, CauseTells, Begun
<1>2. ASSUME NEW s \in Runs, run[s].task = t, run[s].timedOut
      PROVE  FALSE
  BY <1>0, <1>1, <1>2 DEF OutcomeInv, OneBegins, Begun
<1>. QED BY <1>0, <1>1, <1>2 DEF Caused, OutcomeInv, RowTells, OutOfTime

LEMMA SettleTells ==
  ASSUME TypeInv, SlotInv, OutcomeInv, NEW r \in Runs, Settle(r), req' = req
  PROVE  OutcomeInv'
<1>. DEFINE t == run[r].task
            x == IF run[r].failed
                 THEN [run[r] EXCEPT !.pc = "store", !.target = "failure"]
                 ELSE IF ~Detected(r)
                 THEN [run[r] EXCEPT !.pc = "store", !.target = "success"]
                 ELSE IF Async(r) THEN [run[r] EXCEPT !.pc = "cleanup"]
                 ELSE [run[r] EXCEPT !.pc = "store",
                         !.target = IF run[r].timedOut THEN "timed_out"
                                    ELSE "aborted"]
<1>1. /\ run' = [run EXCEPT ![r] = x] /\ run[r].pc = "settle"
      /\ UNCHANGED <<storeVars, thread>>
  BY DEF Settle
<1>2. /\ Flags(run[r], x) /\ x.loaded = run[r].loaded
      /\ x.pc \in {"store", "cleanup"}
      /\ x.pc = "store" =>
           \/ x.target = "failure"
           \/ x.target = "success" /\ ~run[r].failed
           \/ x.target = "timed_out" /\ run[r].timedOut /\ ~Async(r)
           \/ x.target = "aborted" /\ run[r].abortDetected /\ ~run[r].timedOut
  BY RunTyped DEF RunState, Flags, Detected
<1>. HIDE DEF x
<1>3. TargetTells(r)'
  <2>1. /\ run'[r] = x /\ x.task = t /\ hist' = hist /\ Async(r)' = Async(r)
        /\ x.timedOut = run[r].timedOut
    BY <1>1, <1>2, RunUpdated DEF Flags, storeVars, Async, TaskOf
  <2>2. hist[t].body = IF run[r].failed THEN "raised" ELSE "returned"
    BY <1>1 DEF OutcomeInv, RunTells, TargetTells
  <2>3. x.pc = "store" /\ x.target = "aborted" => hist[t].cancelled
    BY <1>1, <1>2, AbortIsCancel
  <2>. QED BY <1>2, <2>1, <2>2, <2>3 DEF TargetTells
<1>. QED BY <1>1, <1>2, <1>3, CalmRunTells DEF Late, storeVars

\* The steps between the end of the body and the last decision that only
\* lead on.
LEMMA LaterTargetTells ==
  ASSUME TypeInv, OutcomeInv, NEW r \in Runs,
         NEW x, run' = [run EXCEPT ![r] = x], x.task = run[r].task,
         hist' = hist,
         run[r].pc \in {"store", "cleanup", "abortcheck", "cleaners",
                        "report", "reporting", "unlocked", "decide"},
         x.pc \notin {"body", "listen", "settle", "store", "final"}
  PROVE  TargetTells(r)'
<1>1. run'[r] = x
  BY RunUpdated
<1>. QED BY <1>1 DEF OutcomeInv, RunTells, TargetTells

LEMMA CleanupHandlersTells ==
  ASSUME TypeInv, SlotInv, OutcomeInv, NEW r \in Runs, CleanupHandlers(r),
         req' = req
  PROVE  OutcomeInv'
<1>1. PICK fs :
        run' = [run EXCEPT ![r].failures = fs,
                           ![r].pc = IF fs = {} THEN "decide" ELSE "report"]
  BY DEF CleanupHandlers
<1>. DEFINE x == [run[r] EXCEPT !.failures = fs,
                    !.pc = IF fs = {} THEN "decide" ELSE "report"]
<1>2. /\ run' = [run EXCEPT ![r] = x] /\ run[r].pc = "cleaners"
      /\ UNCHANGED <<storeVars, thread>>
  BY <1>1, RunTyped
  DEF CleanupHandlers, TypeInv, ExecInv, ExecutionTypeOK, RunState
<1>3. /\ x.pc \in {"decide", "report"} /\ Flags(run[r], x)
      /\ x.loaded = run[r].loaded
  BY RunTyped DEF RunState, Flags
<1>. HIDE DEF x
<1>4. TargetTells(r)'
  BY <1>2, <1>3, LaterTargetTells DEF Flags, storeVars
<1>. QED BY <1>2, <1>3, <1>4, CalmRunTells DEF Late, storeVars

LEMMA ReportTells ==
  ASSUME TypeInv, SlotInv, OutcomeInv, NEW r \in Runs, Report(r), req' = req
  PROVE  OutcomeInv'
<1>. DEFINE x == [run[r] EXCEPT !.seen = TaskOf(r), !.pc = "reporting"]
<1>1. /\ run' = [run EXCEPT ![r] = x] /\ run[r].pc = "report"
      /\ UNCHANGED <<storeVars, thread>>
  BY RunTyped DEF Report, TypeInv, ExecInv, ExecutionTypeOK, RunState
<1>2. /\ x.pc = "reporting" /\ Flags(run[r], x) /\ x.loaded = run[r].loaded
  BY RunTyped DEF RunState, Flags
<1>. HIDE DEF x
<1>3. TargetTells(r)'
  BY <1>1, <1>2, LaterTargetTells DEF Flags, storeVars
<1>. QED BY <1>1, <1>2, <1>3, CalmRunTells DEF Late, storeVars

LEMMA ReportUnlocksTells ==
  ASSUME TypeInv, SlotInv, OutcomeInv, NEW r \in Runs, ReportUnlocks(r),
         req' = req
  PROVE  OutcomeInv'
<1>. DEFINE x == [run[r] EXCEPT !.pc = "unlocked"]
<1>1. /\ run' = [run EXCEPT ![r] = x] /\ run[r].pc = "reporting"
      /\ UNCHANGED <<storeVars, thread>>
  BY DEF ReportUnlocks
<1>2. x.pc = "unlocked" /\ Flags(run[r], x) /\ x.loaded = run[r].loaded
  BY RunTyped DEF RunState, Flags
<1>. HIDE DEF x
<1>3. TargetTells(r)'
  BY <1>1, <1>2, LaterTargetTells DEF Flags, storeVars
<1>. QED BY <1>1, <1>2, <1>3, CalmRunTells DEF Late, storeVars

LEMMA ReportRefusedTells ==
  ASSUME TypeInv, SlotInv, OutcomeInv, NEW r \in Runs, ReportRefused(r),
         req' = req
  PROVE  OutcomeInv'
<1>. DEFINE x == [run[r] EXCEPT !.pc = "done", !.seen = NoRow]
<1>1. /\ run' = [run EXCEPT ![r] = x] /\ run[r].pc = "reporting"
      /\ UNCHANGED <<storeVars, thread>>
  BY DEF ReportRefused
<1>2. x.pc = "done" /\ Flags(run[r], x) /\ x.loaded = run[r].loaded
  BY RunTyped DEF RunState, Flags
<1>. HIDE DEF x
<1>3. TargetTells(r)'
  BY <1>1, <1>2, LaterTargetTells DEF Flags, storeVars
<1>. QED BY <1>1, <1>2, <1>3, CalmRunTells DEF Late, storeVars

LEMMA DecideTells ==
  ASSUME TypeInv, SlotInv, OutcomeInv, NEW r \in Runs, Decide(r), req' = req
  PROVE  OutcomeInv'
<1>. DEFINE t == run[r].task
            x == IF Async(r) /\ Detected(r)
                 THEN [run[r] EXCEPT !.pc = "final", !.target = EndOfAbort(r)]
                 ELSE [run[r] EXCEPT !.pc = "done"]
<1>1. /\ run' = [run EXCEPT ![r] = x] /\ run[r].pc = "decide"
      /\ UNCHANGED <<storeVars, thread>>
  BY DEF Decide
<1>2. /\ Flags(run[r], x) /\ x.loaded = run[r].loaded
      /\ x.pc \in {"final", "done"}
      /\ x.pc = "final" => x.target = EndOfAbort(r) /\ Detected(r)
  BY RunTyped DEF RunState, Flags
<1>. HIDE DEF x
<1>3. TargetTells(r)'
  <2>1. /\ run'[r] = x /\ x.task = t /\ hist' = hist
        /\ x.timedOut = run[r].timedOut /\ x.handlersDone = run[r].handlersDone
    BY <1>1, <1>2, RunUpdated DEF Flags, storeVars
  <2>2. hist[t].body # "no"
    BY <1>1 DEF OutcomeInv, RunTells, TargetTells
  <2>3. x.pc = "final" /\ x.target = "aborted" => hist[t].cancelled
    BY <1>1, <1>2, AbortIsCancel DEF EndOfAbort, Detected
  <2>4. x.pc = "final" =>
          /\ x.target # "success"
          /\ x.target = "timed_out" => x.timedOut /\ x.handlersDone
    BY <1>2, <2>1 DEF EndOfAbort
  <2>. QED BY <1>2, <2>1, <2>2, <2>3, <2>4 DEF TargetTells
<1>. QED BY <1>1, <1>2, <1>3, CalmRunTells DEF Late, storeVars

LEMMA ReportFailureTells ==
  ASSUME TypeInv, SlotInv, OutcomeInv, NEW r \in Runs, ReportFailure(r),
         req' = req
  PROVE  OutcomeInv'
<1>. DEFINE t == run[r].task
            x == [Committed(run[r]) EXCEPT !.failures = {}, !.seen = NoRow,
                                           !.pc = "decide"]
            y == SetStatus(row[t], run[r].seen, "failure")
<1>1. /\ run' = [run EXCEPT ![r] = x] /\ run[r].pc \in {"unlocked", "reporting"}
      /\ row' = [row EXCEPT ![t] = y]
      /\ UNCHANGED <<channel, hist, thread>>
  BY DEF ReportFailure
<1>2. t \in Tasks /\ row[t] \in Row
  BY <1>1, RunHasTask
<1>3. x.pc = "decide" /\ Flags(run[r], x) /\ x.loaded = Absent
  BY RunTyped DEF RunState, Flags, Committed
<1>4. /\ y.status = row[t].status \/ y.status = "failure"
      /\ y.abortable = row[t].abortable /\ Fixed(row[t], y)
  BY <1>2, SetStatusFields
<1>. HIDE DEF x, y
<1>5. TargetTells(r)'
  BY <1>1, <1>3, LaterTargetTells DEF Flags
<1>6. RowTells(t) /\ hist[t].body # "no"
  BY <1>1, <1>2 DEF OutcomeInv, RunTells, TargetTells
<1>7. /\ y.status \in ABORT_STATES => Caused(t)
      /\ y.status = "aborting" \/ y.abortable => HasHandler(t)
      /\ y.status = "success" => hist[t].body = "returned"
      /\ y.status = "failure" => hist[t].body # "no"
      /\ y.status = "timed_out" =>
           hist[t].timedOut /\ (y.mode = "async" => hist[t].handled)
  BY <1>4, <1>6 DEF RowTells, Fixed, ABORT_STATES
<1>. QED BY <1>1, <1>2, <1>3, <1>4, <1>5, <1>7, WritingRunTells DEF Late

LEMMA StoreOutcomeTells ==
  ASSUME TypeInv, SlotInv, OutcomeInv, NEW r \in Runs, StoreOutcome(r),
         req' = req
  PROVE  OutcomeInv'
<1>. DEFINE t == run[r].task
            s == run[r].target
            x == [Committed(run[r]) EXCEPT !.pc = "cleanup"]
            z == Flushed(r)
            y == IF CanSwap(z, Expected(r)) THEN Swap(z, s, s = "failure")
                 ELSE z
<1>1. /\ run' = [run EXCEPT ![r] = x] /\ run[r].pc = "store"
      /\ row' = [row EXCEPT ![t] = y]
      /\ UNCHANGED <<channel, hist, thread>>
  BY DEF StoreOutcome
<1>2. t \in Tasks /\ row[t] \in Row
  BY <1>1, RunHasTask
<1>3. x.pc = "cleanup" /\ Flags(run[r], x) /\ x.loaded = Absent
  BY RunTyped DEF RunState, Flags, Committed
<1>4. /\ z \in Row
      /\ z.status = "in_progress" \/ z.status = row[t].status
      /\ z.abortable = row[t].abortable /\ Fixed(row[t], z)
  BY <1>2, FlushedFields DEF TaskOf
<1>5. /\ y.status = z.status \/ y.status = s
      /\ y.abortable => row[t].abortable
      /\ Fixed(row[t], y)
  <2>1. z \in Row /\ (s = "failure") \in BOOLEAN
    BY <1>2, FlushedFields
  <2>. HIDE DEF z, s
  <2>2. /\ Fixed(z, Swap(z, s, s = "failure"))
        /\ Swap(z, s, s = "failure").status = s
        /\ Swap(z, s, s = "failure").abortable => z.abortable
    BY <2>1, SwapFields
  <2>3. Fixed(row[t], Swap(z, s, s = "failure"))
    BY <1>4, <2>2, FixedTransitive
  <2>. QED BY <1>4, <2>2, <2>3
<1>6. TargetTells(r)'
  <2>. HIDE DEF x
  <2>. QED BY <1>1, <1>3, LaterTargetTells DEF Flags
<1>7. /\ RowTells(t) /\ hist[t].body # "no" /\ s \in TERMINAL_STATES
      /\ s = "success" => hist[t].body = "returned"
      /\ s = "aborted" => hist[t].cancelled
      /\ s = "timed_out" => hist[t].timedOut /\ row[t].mode # "async"
  BY <1>1, <1>2, RunTyped
  DEF OutcomeInv, RunTells, TargetTells, CauseTells, RunState, Async, TaskOf
<1>. HIDE DEF x, y, z, s
<1>8. /\ y.status \in ABORT_STATES => Caused(t)
      /\ y.status = "aborting" \/ y.abortable => HasHandler(t)
      /\ y.status = "success" => hist[t].body = "returned"
      /\ y.status = "failure" => hist[t].body # "no"
      /\ y.status = "timed_out" =>
           hist[t].timedOut /\ (y.mode = "async" => hist[t].handled)
  BY <1>4, <1>5, <1>7
  DEF RowTells, Fixed, ABORT_STATES, TERMINAL_STATES, Caused
<1>. QED BY <1>1, <1>2, <1>3, <1>5, <1>6, <1>8, WritingRunTells DEF Late

\* A row that is ABORTING has a run with a handler, and that is this run: if
\* its handlers are done, they were run.
LEMMA EndAbortTells ==
  ASSUME TypeInv, SlotInv, OutcomeInv, NEW r \in Runs, EndAbort(r),
         req' = req
  PROVE  OutcomeInv'
<1>. DEFINE t == run[r].task
            s == run[r].target
            x == [Committed(run[r]) EXCEPT !.pc = "done"]
            z == Flushed(r)
            y == IF CanSwap(z, {"aborting"}) THEN Swap(z, s, s = "failure")
                 ELSE z
<1>1. /\ run' = [run EXCEPT ![r] = x] /\ run[r].pc = "final"
      /\ row' = [row EXCEPT ![t] = y]
      /\ UNCHANGED <<channel, hist, thread>>
  BY DEF EndAbort
<1>2. t \in Tasks /\ row[t] \in Row
  BY <1>1, RunHasTask
<1>3. x.pc = "done" /\ Flags(run[r], x) /\ x.loaded = Absent
  BY RunTyped DEF RunState, Flags, Committed
<1>4. /\ z.status = "in_progress" \/ z.status = row[t].status
      /\ z.abortable = row[t].abortable /\ Fixed(row[t], z)
      /\ z \in Row
  BY <1>2, FlushedFields DEF TaskOf
<1>5. /\ y.status = z.status
           \/ (y.status = s /\ row[t].status = "aborting")
      /\ y.abortable => row[t].abortable
      /\ Fixed(row[t], y)
  <2>1. z \in Row /\ (s = "failure") \in BOOLEAN
    BY <1>2, FlushedFields
  <2>. HIDE DEF z, s
  <2>2. /\ Fixed(z, Swap(z, s, s = "failure"))
        /\ Swap(z, s, s = "failure").status = s
        /\ Swap(z, s, s = "failure").abortable => z.abortable
    BY <2>1, SwapFields
  <2>3. Fixed(row[t], Swap(z, s, s = "failure"))
    BY <1>4, <2>2, FixedTransitive
  <2>4. CanSwap(z, {"aborting"}) => row[t].status = "aborting"
    BY <1>4 DEF CanSwap
  <2>. QED BY <1>4, <2>2, <2>3, <2>4
<1>6. TargetTells(r)'
  <2>. HIDE DEF x
  <2>. QED BY <1>1, <1>3, RunUpdated DEF TargetTells
<1>7. /\ RowTells(t) /\ hist[t].body # "no" /\ s \in TERMINAL_STATES
      /\ s # "success"
      /\ s = "aborted" => hist[t].cancelled
      /\ s = "timed_out" => hist[t].timedOut /\ run[r].handlersDone
  BY <1>1, <1>2, RunTyped
  DEF OutcomeInv, RunTells, TargetTells, CauseTells, RunState
<1>8. row[t].status = "aborting" /\ run[r].handlersDone => hist[t].handled
  <2>. SUFFICES ASSUME row[t].status = "aborting", run[r].handlersDone
                PROVE  hist[t].handled
    OBVIOUS
  <2>1. PICK o \in Runs : run[o].task = t /\ run[o].registered
    BY <1>7 DEF RowTells, HasHandler
  <2>2. o = r
    BY <1>1, <2>1 DEF OutcomeInv, OneBegins, Begun
  <2>. QED BY <2>1, <2>2 DEF OutcomeInv, RunTells, HandlersTell
<1>. HIDE DEF x, y, z, s
<1>9. /\ y.status \in ABORT_STATES => Caused(t)
      /\ y.status = "aborting" \/ y.abortable => HasHandler(t)
      /\ y.status = "success" => hist[t].body = "returned"
      /\ y.status = "failure" => hist[t].body # "no"
      /\ y.status = "timed_out" =>
           hist[t].timedOut /\ (y.mode = "async" => hist[t].handled)
  BY <1>4, <1>5, <1>7, <1>8
  DEF RowTells, Fixed, ABORT_STATES, TERMINAL_STATES, Caused
<1>. QED BY <1>1, <1>2, <1>3, <1>5, <1>6, <1>9, WritingRunTells DEF Late

\* A step that only writes the history of its task, its flags and threads.
LEMMA FlaggingRunTells ==
  ASSUME TypeInv, SlotInv, OutcomeInv, NEW r \in Runs, Begun(r),
         NEW me \in Tasks, run[r].task = me, req' = req, row' = row,
         \A s \in Runs \ {r} : run'[s] = run[s] /\ thread'[s] = thread[s],
         FlagsGrow(run[r], run'[r]),
         \A t \in Tasks \ {me} : hist'[t] = hist[t] /\ channel'[t] = channel[t],
         channel'[me] = "abort" => channel[me] = "abort",
         hist'[me].cancelled = hist[me].cancelled,
         hist'[me].body = hist[me].body, hist'[me].starts = hist[me].starts,
         hist[me].timedOut => hist'[me].timedOut,
         hist[me].handled => hist'[me].handled,
         hist'[me].timedOut => hist[me].timedOut \/ run'[r].timedOut,
         hist'[me].handled => hist[me].handled \/ Caused(me)',
         RunTells(r)'
  PROVE  OutcomeInv'
<1>1. /\ HasHandler(me) => HasHandler(me)'
      /\ OutOfTime(me) => OutOfTime(me)'
      /\ run'[r].timedOut => OutOfTime(me)'
  BY DEF HasHandler, OutOfTime, FlagsGrow
<1>2. RowTells(me)
  BY DEF OutcomeInv
<1>3. RowTells(me)'
  BY <1>1, <1>2 DEF RowTells, Caused
<1>4. RowsFixed
  BY SameRowsFixed
<1>5. \A t \in Tasks :
        /\ hist[t].cancelled => hist'[t].cancelled
        /\ hist[t].timedOut => hist'[t].timedOut
        /\ hist[t].handled => hist'[t].handled
        /\ hist[t].body # "no" => hist'[t].body # "no"
        /\ hist[t].starts # 0 => hist'[t].starts # 0
  OBVIOUS
<1>. QED BY <1>3, <1>4, <1>5, RunStepTells

LEMMA StopThreadsTells ==
  ASSUME TypeInv, SlotInv, OutcomeInv, NEW r \in Runs, StopThreads(r),
         req' = req
  PROVE  OutcomeInv'
<1>0. PICK t \in Tasks : run[r].task = t
  BY RunHasTask DEF StopThreads
<1>. DEFINE x == [run[r] EXCEPT !.pc = "abortcheck"]
<1>1. /\ run' = [run EXCEPT ![r] = x] /\ run[r].pc = "cleanup"
      /\ thread' = [thread EXCEPT ![r] = [h \in Threads |->
                      IF Stoppable(r, h) THEN NoThread ELSE thread[r][h]]]
      /\ channel' = [channel EXCEPT ![t] = "closed"]
      /\ row' = row /\ hist' = hist
  BY <1>0, RunTyped DEF StopThreads, TypeInv, ExecInv, ExecutionTypeOK
<1>2. x.pc = "abortcheck" /\ Flags(run[r], x) /\ x.loaded = run[r].loaded
  BY RunTyped DEF RunState, Flags
<1>. HIDE DEF x
<1>3. run'[r] = x /\ \A s \in Runs \ {r} : run'[s] = run[s]
  BY <1>1, RunUpdated
<1>4. /\ \A h \in Threads :
           thread'[r][h].pc = "off" \/ thread'[r][h].pc = thread[r][h].pc
      /\ \A s \in Runs \ {r} : thread'[s] = thread[s]
  BY <1>1 DEF TypeInv, ExecInv, ExecutionTypeOK, NoThread
<1>5. /\ thread'[r]["timer"].pc \in {"off", thread[r]["timer"].pc}
      /\ thread'[r]["listener"].pc \in {"off", thread[r]["listener"].pc}
  BY <1>4 DEF Threads
<1>6. /\ channel'[t] = "closed"
      /\ \A o \in Tasks \ {t} : channel'[o] = channel[o]
  BY <1>1 DEF TypeInv, StoreInv, StoreTypeOK
<1>7. RunTells(r) /\ Begun(r)
  BY <1>1 DEF OutcomeInv, Begun
<1>8. RunTells(r)'
  <2>1. StartTells(r)'
    BY <1>1, <1>2, <1>3, <1>7 DEF RunTells, StartTells, Flags
  <2>2. CauseTells(r)'
    BY <1>1, <1>2, <1>3, <1>5, <1>7 DEF RunTells, CauseTells, Flags, Caused
  <2>3. HandlersTell(r)'
    BY <1>1, <1>2, <1>3, <1>5, <1>7 DEF RunTells, HandlersTell, Flags
  <2>4. TargetTells(r)'
    BY <1>1, <1>2, LaterTargetTells DEF Flags
  <2>. QED BY <2>1, <2>2, <2>3, <2>4 DEF RunTells
<1>9. FlagsGrow(run[r], run'[r])
  BY <1>2, <1>3 DEF Flags, FlagsGrow
<1>. QED BY <1>0, <1>1, <1>3, <1>4, <1>6, <1>7, <1>8, <1>9, FlaggingRunTells

\* What one pass over the handlers leaves in the context and in the history.
LEMMA HandledTask ==
  ASSUME TypeInv, NEW r \in Runs, NEW t \in Tasks, run[r].task = t,
         hist' = Handled(r)
  PROVE  /\ hist'[t].handled = (hist[t].handled \/ run[r].registered)
         /\ hist'[t].cancelled = hist[t].cancelled
         /\ hist'[t].timedOut = hist[t].timedOut
         /\ hist'[t].body = hist[t].body
         /\ hist'[t].starts = hist[t].starts
         /\ \A o \in Tasks \ {t} : hist'[o] = hist[o]
BY RowsTyped DEF Handled, TypeInv, StoreInv, StoreTypeOK, History

LEMMA AfterHandlersFields ==
  ASSUME NEW x \in RunState, NEW f
  PROVE  LET y == AfterHandlers(x, f) IN
         /\ y.pc = x.pc /\ y.task = x.task /\ y.loaded = x.loaded
         /\ y.registered = x.registered /\ y.timedOut = x.timedOut
         /\ y.abortDetected = x.abortDetected /\ y.target = x.target
         /\ y.failed = x.failed /\ y.seen = x.seen
         /\ x.handlersDone => y.handlersDone
BY DEF AfterHandlers, RunState

\* The unnoticed abort of a finished body: its cause is in the row, or in
\* the copy of the row that the session still holds.
LEMMA AbortCheckTells ==
  ASSUME TypeInv, SlotInv, OutcomeInv, NEW r \in Runs, AbortCheck(r),
         req' = req
  PROVE  OutcomeInv'
<1>0. PICK t \in Tasks : run[r].task = t
  BY RunHasTask DEF AbortCheck
<1>1. /\ run[r].pc = "abortcheck" /\ row' = row /\ channel' = channel
      /\ thread' = thread
  BY DEF AbortCheck
<1>2. RunTells(r) /\ Begun(r) /\ RowTells(t)
  BY <1>0, <1>1 DEF OutcomeInv, Begun
<1>3. CASE ~Unnoticed(r)
  <2>. DEFINE x == [run[r] EXCEPT !.pc = "cleaners", !.dirty = FALSE]
  <2>1. run' = [run EXCEPT ![r] = x] /\ hist' = hist
    BY <1>3, RunTyped
    DEF AbortCheck, TypeInv, ExecInv, ExecutionTypeOK, RunState
  <2>2. x.pc = "cleaners" /\ Flags(run[r], x) /\ x.loaded = run[r].loaded
    BY RunTyped DEF RunState, Flags
  <2>. HIDE DEF x
  <2>3. TargetTells(r)'
    BY <1>1, <2>1, <2>2, LaterTargetTells DEF Flags
  <2>. QED BY <1>1, <2>1, <2>2, <2>3, CalmRunTells DEF Late
<1>4. CASE Unnoticed(r)
  <2>1. PICK f : /\ run' = [run EXCEPT ![r] =
                              [AfterHandlers(run[r], f) EXCEPT
                                 !.pc = "cleaners", !.dirty = FALSE]]
                 /\ hist' = Handled(r)
    BY <1>4 DEF AbortCheck
  <2>. DEFINE y == AfterHandlers(run[r], f)
              x == [y EXCEPT !.pc = "cleaners", !.dirty = FALSE]
  <2>2. /\ x.pc = "cleaners" /\ x.task = t /\ x.loaded = run[r].loaded
        /\ x.registered = run[r].registered /\ x.timedOut = run[r].timedOut
        /\ x.abortDetected = run[r].abortDetected
        /\ run[r].handlersDone => x.handlersDone
    BY <1>0, RunTyped DEF RunState, AfterHandlers
  <2>3. run' = [run EXCEPT ![r] = x]
    BY <2>1
  <2>. HIDE DEF x, y
  <2>4. run'[r] = x /\ \A s \in Runs \ {r} : run'[s] = run[s]
    BY <2>3, RunUpdated
  <2>5. /\ hist'[t].handled = (hist[t].handled \/ run[r].registered)
        /\ hist'[t].cancelled = hist[t].cancelled
        /\ hist'[t].timedOut = hist[t].timedOut
        /\ hist'[t].body = hist[t].body /\ hist'[t].starts = hist[t].starts
        /\ \A o \in Tasks \ {t} : hist'[o] = hist[o]
    BY <1>0, <2>1, HandledTask
  <2>6. Caused(t)' /\ Caused(t)
    BY <1>0, <1>2, <1>4, <2>5
    DEF Unnoticed, StatusSeen, TaskOf, RunTells, CauseTells, RowTells, Caused
  <2>7. RunTells(r)'
    <3>1. StartTells(r)'
      BY <1>0, <1>2, <2>2, <2>4, <2>5 DEF RunTells, StartTells
    <3>2. CauseTells(r)'
      BY <1>0, <1>1, <1>2, <2>2, <2>4, <2>5, <2>6
      DEF RunTells, CauseTells, Caused
    <3>3. HandlersTell(r)'
      BY <1>0, <1>1, <1>2, <2>2, <2>4, <2>5 DEF RunTells, HandlersTell
    <3>4. TargetTells(r)'
      BY <1>0, <1>1, <1>2, <2>2, <2>4, <2>5 DEF RunTells, TargetTells
    <3>. QED BY <3>1, <3>2, <3>3, <3>4 DEF RunTells
  <2>8. FlagsGrow(run[r], run'[r])
    BY <1>0, <2>2, <2>4 DEF FlagsGrow
  <2>. QED BY <1>0, <1>1, <1>2, <2>4, <2>5, <2>6, <2>7, <2>8,
              FlaggingRunTells
<1>. QED BY <1>3, <1>4
-----------------------------------------------------------------------------
(***************************************************************************)
(* Timer and listener.                                                     *)
(***************************************************************************)
LEMMA ThreadUpdated ==
  ASSUME TypeInv, NEW r \in Runs, NEW h \in Threads, NEW y,
         thread' = [thread EXCEPT ![r][h] = y]
  PROVE  /\ thread'[r][h] = y
         /\ \A g \in Threads \ {h} : thread'[r][g] = thread[r][g]
         /\ \A s \in Runs \ {r} : thread'[s] = thread[s]
BY DEF TypeInv, ExecInv, ExecutionTypeOK

LEMMA ThreadMoved ==
  ASSUME TypeInv, NEW r \in Runs, NEW h \in Threads, NEW pc,
         MoveThread(r, h, pc)
  PROVE  /\ thread'[r][h].pc = pc
         /\ \A g \in Threads \ {h} : thread'[r][g] = thread[r][g]
         /\ \A s \in Runs \ {r} : thread'[s] = thread[s]
<1>. DEFINE y == [thread[r][h] EXCEPT !.pc = pc]
<1>1. thread[r][h] \in ThreadState
  BY RunTyped
<1>2. thread' = [thread EXCEPT ![r][h] = y]
  BY <1>1 DEF MoveThread, TypeInv, ExecInv, ExecutionTypeOK
<1>3. y.pc = pc
  BY <1>1 DEF ThreadState
<1>. HIDE DEF y
<1>4. /\ thread'[r][h] = y
      /\ \A g \in Threads \ {h} : thread'[r][g] = thread[r][g]
      /\ \A s \in Runs \ {r} : thread'[s] = thread[s]
  BY <1>2, ThreadUpdated
<1>. QED BY <1>3, <1>4

LEMMA TwoThreads ==
  /\ "timer" \in Threads /\ "listener" \in Threads
  /\ Threads \ {"timer"} = {"listener"} /\ Threads \ {"listener"} = {"timer"}
BY DEF Threads

\* A thread that moves and touches nothing else.
LEMMA MovingThreadTells ==
  ASSUME TypeInv, SlotInv, OutcomeInv, NEW r \in Runs, Begun(r),
         run[r].task \in Tasks,
         run' = run, UNCHANGED storeVars, req' = req,
         \A s \in Runs \ {r} : thread'[s] = thread[s],
         CauseTells(r)', HandlersTell(r)'
  PROVE  OutcomeInv'
<1>1. RunTells(r)
  BY DEF OutcomeInv
<1>2. StartTells(r)' /\ TargetTells(r)'
  BY <1>1
  DEF RunTells, StartTells, TargetTells, Begun, storeVars, Async, TaskOf
<1>3. FlagsGrow(run[r], run'[r]) /\ RunTells(r)'
  BY <1>2 DEF FlagsGrow, RunTells
<1>. QED BY <1>3, FlaggingRunTells DEF storeVars

LEMMA TimerFiresTells ==
  ASSUME TypeInv, SlotInv, OutcomeInv, NEW r \in Runs, TimerFires(r),
         req' = req
  PROVE  OutcomeInv'
<1>0. PICK t \in Tasks : run[r].task = t
  BY ThreadHasTask, TwoThreads DEF TimerFires, ThreadPc
<1>1. /\ Begun(r) /\ RunTells(r) /\ row' = row /\ channel' = channel
      /\ thread[r]["timer"].pc = "armed"
  BY BegunCases DEF TimerFires, ThreadPc, OutcomeInv
<1>2. CASE run[r].abortDetected
  <2>1. /\ thread'[r]["timer"].pc = "done" /\ run' = run
        /\ thread'[r]["listener"] = thread[r]["listener"]
        /\ \A s \in Runs \ {r} : thread'[s] = thread[s]
        /\ UNCHANGED storeVars
    BY <1>2, ThreadMoved, TwoThreads DEF TimerFires, storeVars
  <2>2. CauseTells(r)' /\ HandlersTell(r)'
    BY <1>1, <2>1
    DEF RunTells, CauseTells, HandlersTell, Caused, storeVars
  <2>. QED BY <1>0, <1>1, <2>1, <2>2, MovingThreadTells
<1>3. CASE ~run[r].abortDetected
  <2>. DEFINE x == [run[r] EXCEPT !.timedOut = TRUE]
  <2>1. /\ thread'[r]["timer"].pc = "check"
        /\ thread'[r]["listener"] = thread[r]["listener"]
        /\ \A s \in Runs \ {r} : thread'[s] = thread[s]
        /\ run' = [run EXCEPT ![r] = x]
        /\ hist' = [hist EXCEPT ![t].timedOut = TRUE]
    BY <1>0, <1>3, ThreadMoved, TwoThreads DEF TimerFires
  <2>2. /\ x.pc = run[r].pc /\ x.task = t /\ x.loaded = run[r].loaded
        /\ x.registered = run[r].registered /\ x.timedOut
        /\ x.abortDetected = run[r].abortDetected /\ x.seen = run[r].seen
        /\ x.handlersDone = run[r].handlersDone /\ x.failed = run[r].failed
        /\ x.target = run[r].target
    BY <1>0, RunTyped DEF RunState
  <2>. HIDE DEF x
  <2>3. run'[r] = x /\ \A s \in Runs \ {r} : run'[s] = run[s]
    BY <2>1, RunUpdated
  <2>4. /\ hist'[t].timedOut /\ hist'[t].handled = hist[t].handled
        /\ hist'[t].cancelled = hist[t].cancelled
        /\ hist'[t].body = hist[t].body /\ hist'[t].starts = hist[t].starts
        /\ \A o \in Tasks \ {t} : hist'[o] = hist[o]
    BY <2>1, RowsTyped DEF TypeInv, StoreInv, StoreTypeOK, History
  <2>5. RunTells(r)'
    <3>1. StartTells(r)'
      BY <1>0, <1>1, <2>2, <2>3, <2>4 DEF RunTells, StartTells
    <3>2. CauseTells(r)'
      BY <1>0, <1>1, <2>1, <2>2, <2>3, <2>4 DEF RunTells, CauseTells, Caused
    <3>3. HandlersTell(r)'
      BY <1>0, <1>1, <2>1, <2>2, <2>3, <2>4 DEF RunTells, HandlersTell
    <3>4. Async(r)' = Async(r)
      BY <1>0, <1>1, <2>2, <2>3 DEF Async, TaskOf
    <3>5. TargetTells(r)'
      BY <1>0, <1>1, <2>2, <2>3, <2>4, <3>4 DEF RunTells, TargetTells
    <3>. QED BY <3>1, <3>2, <3>3, <3>5 DEF RunTells
  <2>6. FlagsGrow(run[r], run'[r])
    BY <1>0, <2>2, <2>3 DEF FlagsGrow
  <2>. QED BY <1>0, <1>1, <2>1, <2>2, <2>3, <2>4, <2>5, <2>6,
              FlaggingRunTells
<1>. QED BY <1>2, <1>3

\* An abortable row has a run with a handler, and that is this run.
LEMMA TimerReadsTells ==
  ASSUME TypeInv, SlotInv, OutcomeInv, NEW r \in Runs, TimerReads(r),
         req' = req
  PROVE  OutcomeInv'
<1>0. PICK t \in Tasks : run[r].task = t
  BY ThreadHasTask, TwoThreads DEF TimerReads, ThreadPc
<1>1. /\ Begun(r) /\ RunTells(r) /\ RowTells(t)
      /\ thread[r]["timer"].pc = "check"
  BY BegunCases DEF TimerReads, ThreadPc, OutcomeInv
<1>. DEFINE x == [run[r] EXCEPT !.loaded = StatusSeen(r)]
            y == IF TaskOf(r).abortable
                 THEN [pc |-> "write", seen |-> TaskOf(r)]
                 ELSE [thread[r]["timer"] EXCEPT !.pc = "done"]
<1>2. /\ y.pc = IF row[t].abortable THEN "write" ELSE "done"
      /\ thread' = [thread EXCEPT ![r]["timer"] = y]
  BY <1>0, RunTyped
  DEF TimerReads, TaskOf, ThreadState, TypeInv, ExecInv, ExecutionTypeOK,
      Threads
<1>3. /\ run' = [run EXCEPT ![r] = x]
      /\ UNCHANGED <<row, hist, channel>>
  BY DEF TimerReads, storeVars
<1>4. /\ x.pc = run[r].pc /\ x.task = t /\ x.loaded = StatusSeen(r)
      /\ x.registered = run[r].registered /\ x.timedOut = run[r].timedOut
      /\ x.abortDetected = run[r].abortDetected /\ x.seen = run[r].seen
      /\ x.handlersDone = run[r].handlersDone /\ x.failed = run[r].failed
      /\ x.target = run[r].target
  BY <1>0, RunTyped DEF RunState
<1>. HIDE DEF x, y
<1>5. run'[r] = x /\ \A s \in Runs \ {r} : run'[s] = run[s]
  BY <1>3, RunUpdated
<1>6. /\ thread'[r]["timer"].pc = IF row[t].abortable THEN "write" ELSE "done"
      /\ thread'[r]["listener"] = thread[r]["listener"]
      /\ \A s \in Runs \ {r} : thread'[s] = thread[s]
  <2>1. /\ thread'[r]["timer"] = y
        /\ \A g \in Threads \ {"timer"} : thread'[r][g] = thread[r][g]
        /\ \A s \in Runs \ {r} : thread'[s] = thread[s]
    BY <1>2, ThreadUpdated, TwoThreads
  <2>. QED BY <1>2, <2>1, TwoThreads
<1>7. row[t].abortable => run[r].registered
  BY <1>0, <1>1 DEF RowTells, HasHandler, OutcomeInv, OneBegins, Begun
<1>8. StatusSeen(r) \in ABORT_STATES => Caused(t)
  BY <1>0, <1>1 DEF StatusSeen, TaskOf, RowTells, RunTells, CauseTells
<1>9. RunTells(r)'
  <2>1. StartTells(r)'
    BY <1>0, <1>1, <1>3, <1>4, <1>5 DEF RunTells, StartTells
  <2>2. CauseTells(r)'
    BY <1>0, <1>1, <1>3, <1>4, <1>5, <1>6, <1>8
    DEF RunTells, CauseTells, Caused
  <2>3. HandlersTell(r)'
    BY <1>0, <1>1, <1>3, <1>4, <1>5, <1>6, <1>7 DEF RunTells, HandlersTell
  <2>4. Async(r)' = Async(r)
    BY <1>0, <1>3, <1>4, <1>5 DEF Async, TaskOf
  <2>5. TargetTells(r)'
    BY <1>0, <1>1, <1>3, <1>4, <1>5, <2>4 DEF RunTells, TargetTells
  <2>. QED BY <2>1, <2>2, <2>3, <2>5 DEF RunTells
<1>10. FlagsGrow(run[r], run'[r])
  BY <1>0, <1>4, <1>5 DEF FlagsGrow
<1>. QED BY <1>0, <1>1, <1>3, <1>5, <1>6, <1>9, <1>10, FlaggingRunTells

LEMMA TimerUnlocksTells ==
  ASSUME TypeInv, SlotInv, OutcomeInv, NEW r \in Runs, TimerUnlocks(r),
         req' = req
  PROVE  OutcomeInv'
<1>0. run[r].task \in Tasks
  BY ThreadHasTask, TwoThreads DEF TimerUnlocks, ThreadPc
<1>1. /\ Begun(r) /\ RunTells(r) /\ thread[r]["timer"].pc = "write"
      /\ run' = run /\ UNCHANGED storeVars
  BY BegunCases DEF TimerUnlocks, ThreadPc, OutcomeInv
<1>2. /\ thread'[r]["timer"].pc = "unlocked"
      /\ thread'[r]["listener"] = thread[r]["listener"]
      /\ \A s \in Runs \ {r} : thread'[s] = thread[s]
  BY ThreadMoved, TwoThreads DEF TimerUnlocks
<1>3. CauseTells(r)' /\ HandlersTell(r)'
  BY <1>1, <1>2 DEF RunTells, CauseTells, HandlersTell, Caused, storeVars
<1>. QED BY <1>0, <1>1, <1>2, <1>3, MovingThreadTells

LEMMA TimerRefusedTells ==
  ASSUME TypeInv, SlotInv, OutcomeInv, NEW r \in Runs, TimerRefused(r),
         req' = req
  PROVE  OutcomeInv'
<1>0. run[r].task \in Tasks
  BY ThreadHasTask, TwoThreads DEF TimerRefused, ThreadPc
<1>1. /\ Begun(r) /\ RunTells(r) /\ run' = run /\ UNCHANGED storeVars
  BY BegunCases DEF TimerRefused, ThreadPc, OutcomeInv
<1>2. /\ thread'[r]["timer"].pc = "done"
      /\ thread'[r]["listener"] = thread[r]["listener"]
      /\ \A s \in Runs \ {r} : thread'[s] = thread[s]
  <2>. DEFINE y == [pc |-> "done", seen |-> NoRow]
  <2>1. y.pc = "done" /\ thread' = [thread EXCEPT ![r]["timer"] = y]
    BY DEF TimerRefused
  <2>. HIDE DEF y
  <2>2. /\ thread'[r]["timer"] = y
        /\ \A g \in Threads \ {"timer"} : thread'[r][g] = thread[r][g]
        /\ \A s \in Runs \ {r} : thread'[s] = thread[s]
    BY <2>1, ThreadUpdated, TwoThreads
  <2>. QED BY <2>1, <2>2, TwoThreads
<1>3. CauseTells(r)' /\ HandlersTell(r)'
  BY <1>1, <1>2 DEF RunTells, CauseTells, HandlersTell, Caused, storeVars
<1>. QED BY <1>0, <1>1, <1>2, <1>3, MovingThreadTells

LEMMA ListenerHearsTells ==
  ASSUME TypeInv, SlotInv, OutcomeInv, NEW r \in Runs, ListenerHears(r),
         req' = req
  PROVE  OutcomeInv'
<1>0. PICK t \in Tasks : run[r].task = t
  BY ThreadHasTask, TwoThreads DEF ListenerHears, ThreadPc
<1>1. /\ Begun(r) /\ RunTells(r) /\ thread[r]["listener"].pc = "check"
      /\ run' = run /\ UNCHANGED storeVars
  BY BegunCases DEF ListenerHears, ThreadPc, OutcomeInv
<1>2. /\ thread'[r]["listener"].pc = "detect"
      /\ thread'[r]["timer"] = thread[r]["timer"]
      /\ \A s \in Runs \ {r} : thread'[s] = thread[s]
  BY ThreadMoved, TwoThreads DEF ListenerHears
<1>3. Caused(t)
  BY <1>0 DEF ListenerHears, TaskOf, OutcomeInv, RowTells, Caused
<1>4. CauseTells(r)' /\ HandlersTell(r)'
  BY <1>0, <1>1, <1>2, <1>3
  DEF RunTells, CauseTells, HandlersTell, Caused, storeVars
<1>. QED BY <1>0, <1>1, <1>2, <1>4, MovingThreadTells

\* A thread of a task that is on its way to the handlers has its cause, and
\* a handler to run.
OnItsWay == {"detect", "claim", "handle"}

LEMMA OnItsWayTells ==
  ASSUME OutcomeInv, NEW r \in Runs, NEW h \in Threads,
         thread[r][h].pc \in OnItsWay
  PROVE  run[r].registered /\ Caused(run[r].task) /\ Begun(r)
         /\ (h = "timer" => run[r].timedOut)
BY DEF OutcomeInv, RunTells, CauseTells, HandlersTell, Threads, OnItsWay,
       Caused, Begun

LEMMA DetectTells ==
  ASSUME TypeInv, SlotInv, OutcomeInv, NEW r \in Runs, NEW h \in Threads,
         Detect(r, h), req' = req
  PROVE  OutcomeInv'
<1>0. run[r].task \in Tasks
  BY ThreadHasTask DEF Detect, ThreadPc
<1>1. /\ run[r].registered /\ Caused(run[r].task) /\ Begun(r)
      /\ h = "timer" => run[r].timedOut
      /\ RunTells(r) /\ run' = run /\ UNCHANGED storeVars
  BY OnItsWayTells DEF Detect, ThreadPc, OnItsWay, OutcomeInv
<1>2. /\ thread'[r][h].pc \in {"done", "claim"}
      /\ \A g \in Threads \ {h} : thread'[r][g] = thread[r][g]
      /\ \A s \in Runs \ {r} : thread'[s] = thread[s]
  BY ThreadMoved DEF Detect
<1>3. CauseTells(r)' /\ HandlersTell(r)'
  BY <1>1, <1>2
  DEF RunTells, CauseTells, HandlersTell, Caused, storeVars, Threads
<1>. QED BY <1>0, <1>1, <1>2, <1>3, MovingThreadTells

\* The deadline aborts the task of its own run, which has a handler.
LEMMA TimerAbortsTells ==
  ASSUME TypeInv, SlotInv, OutcomeInv, NEW r \in Runs, TimerAborts(r),
         req' = req
  PROVE  OutcomeInv'
<1>0. PICK t \in Tasks : run[r].task = t
  BY ThreadHasTask, TwoThreads DEF TimerAborts, ThreadPc
<1>1. /\ Begun(r) /\ RunTells(r) /\ RowTells(t)
      /\ thread[r]["timer"].pc \in {"write", "unlocked"}
      /\ run' = run /\ hist' = hist /\ channel' = channel
  BY BegunCases DEF TimerAborts, ThreadPc, OutcomeInv
<1>2. run[r].registered /\ run[r].timedOut /\ hist[t].timedOut
  BY <1>0, <1>1 DEF RunTells, CauseTells, HandlersTell
<1>. DEFINE x == [pc |-> "detect", seen |-> NoRow]
            seen == thread[r]["timer"].seen
            y == SetStatus(row[t], seen, "aborting")
<1>3. /\ x.pc = "detect" /\ thread' = [thread EXCEPT ![r]["timer"] = x]
      /\ row' = [row EXCEPT ![t] = y]
  BY <1>0 DEF TimerAborts
<1>4. row[t] \in Row /\ row[t].status # Absent
  BY <1>0, <1>1, ThreadHasTask, TwoThreads
<1>5. /\ Fixed(row[t], y) /\ y.abortable = row[t].abortable
      /\ y.status \in {row[t].status, "aborting"}
  BY <1>4, SetStatusFields
<1>. HIDE DEF x, y
<1>6. /\ thread'[r]["timer"].pc = "detect"
      /\ thread'[r]["listener"] = thread[r]["listener"]
      /\ \A s \in Runs \ {r} : thread'[s] = thread[s]
  <2>1. /\ thread'[r]["timer"] = x
        /\ \A g \in Threads \ {"timer"} : thread'[r][g] = thread[r][g]
        /\ \A s \in Runs \ {r} : thread'[s] = thread[s]
    BY <1>3, ThreadUpdated, TwoThreads
  <2>. QED BY <1>3, <2>1, TwoThreads
<1>7. row'[t] = y /\ \A o \in Tasks \ {t} : row'[o] = row[o]
  BY <1>3 DEF TypeInv, StoreInv, StoreTypeOK
<1>8. RowTells(t)'
  <2>1. HasHandler(t)' /\ Caused(t)' /\ OutOfTime(t)'
    BY <1>0, <1>1, <1>2 DEF HasHandler, OutOfTime, Caused
  <2>. QED BY <1>1, <1>5, <1>7, <2>1 DEF RowTells, Fixed
<1>9. RunTells(r)'
  <2>1. StartTells(r)'
    BY <1>1 DEF RunTells, StartTells
  <2>2. CauseTells(r)'
    BY <1>1, <1>2, <1>6 DEF RunTells, CauseTells, Caused
  <2>3. HandlersTell(r)'
    BY <1>1, <1>2, <1>6 DEF RunTells, HandlersTell
  <2>4. Async(r)' = Async(r)
    BY <1>0, <1>1, <1>5, <1>7 DEF Async, TaskOf, Fixed
  <2>5. TargetTells(r)'
    BY <1>1, <2>4 DEF RunTells, TargetTells
  <2>. QED BY <2>1, <2>2, <2>3, <2>5 DEF RunTells
<1>10. RowsFixed /\ FlagsGrow(run[r], run'[r])
  BY <1>1, <1>3, <1>4, <1>5, OneRowFixed DEF FlagsGrow
<1>. QED BY <1>0, <1>1, <1>6, <1>7, <1>8, <1>9, <1>10, RunStepTells

LEMMA ClaimTells ==
  ASSUME TypeInv, SlotInv, OutcomeInv, NEW r \in Runs, NEW h \in Threads,
         Claim(r, h), req' = req
  PROVE  OutcomeInv'
<1>0. PICK t \in Tasks : run[r].task = t
  BY ThreadHasTask DEF Claim, ThreadPc
<1>1. /\ run[r].registered /\ Caused(t) /\ Begun(r)
      /\ h = "timer" => run[r].timedOut
      /\ RunTells(r) /\ UNCHANGED <<row, hist, channel>>
  BY <1>0, OnItsWayTells
  DEF Claim, ThreadPc, OnItsWay, OutcomeInv, storeVars
<1>2. /\ thread'[r][h].pc = "handle"
      /\ \A g \in Threads \ {h} : thread'[r][g] = thread[r][g]
      /\ \A s \in Runs \ {r} : thread'[s] = thread[s]
  BY ThreadMoved DEF Claim
<1>. DEFINE x == [run[r] EXCEPT !.abortDetected = TRUE]
<1>3. run' = [run EXCEPT ![r] = x]
  BY DEF Claim
<1>4. /\ x.pc = run[r].pc /\ x.task = t /\ x.loaded = run[r].loaded
      /\ x.registered = run[r].registered /\ x.timedOut = run[r].timedOut
      /\ x.seen = run[r].seen /\ x.failed = run[r].failed
      /\ x.handlersDone = run[r].handlersDone /\ x.target = run[r].target
  BY <1>0, RunTyped DEF RunState
<1>. HIDE DEF x
<1>5. run'[r] = x /\ \A s \in Runs \ {r} : run'[s] = run[s]
  BY <1>3, RunUpdated
<1>6. RunTells(r)'
  <2>1. StartTells(r)'
    BY <1>0, <1>1, <1>4, <1>5 DEF RunTells, StartTells
  <2>2. CauseTells(r)'
    BY <1>0, <1>1, <1>2, <1>4, <1>5
    DEF RunTells, CauseTells, Caused, Threads
  <2>3. HandlersTell(r)'
    BY <1>0, <1>1, <1>2, <1>4, <1>5 DEF RunTells, HandlersTell, Threads
  <2>4. Async(r)' = Async(r)
    BY <1>0, <1>1, <1>4, <1>5 DEF Async, TaskOf
  <2>5. TargetTells(r)'
    BY <1>0, <1>1, <1>4, <1>5, <2>4 DEF RunTells, TargetTells
  <2>. QED BY <2>1, <2>2, <2>3, <2>5 DEF RunTells
<1>7. FlagsGrow(run[r], run'[r])
  BY <1>0, <1>4, <1>5 DEF FlagsGrow
<1>. QED BY <1>0, <1>1, <1>2, <1>5, <1>6, <1>7, FlaggingRunTells

\* The handlers run: the thread that runs them was sent by an abort.
LEMMA HandleTells ==
  ASSUME TypeInv, SlotInv, OutcomeInv, NEW r \in Runs, NEW h \in Threads,
         Handle(r, h), req' = req
  PROVE  OutcomeInv'
<1>0. PICK t \in Tasks : run[r].task = t
  BY ThreadHasTask DEF Handle, ThreadPc
<1>1. /\ run[r].registered /\ Caused(t) /\ Begun(r)
      /\ RunTells(r) /\ row' = row /\ channel' = channel
  BY <1>0, OnItsWayTells DEF Handle, ThreadPc, OnItsWay, OutcomeInv
<1>2. /\ thread'[r][h].pc = "done"
      /\ \A g \in Threads \ {h} : thread'[r][g] = thread[r][g]
      /\ \A s \in Runs \ {r} : thread'[s] = thread[s]
  BY ThreadMoved DEF Handle
<1>3. PICK f : run' = [run EXCEPT ![r] = AfterHandlers(run[r], f)]
  BY DEF Handle
<1>. DEFINE x == AfterHandlers(run[r], f)
<1>4. /\ x.pc = run[r].pc /\ x.task = t /\ x.loaded = run[r].loaded
      /\ x.registered = run[r].registered /\ x.timedOut = run[r].timedOut
      /\ x.abortDetected = run[r].abortDetected /\ x.seen = run[r].seen
      /\ x.failed = run[r].failed /\ x.target = run[r].target
      /\ run[r].handlersDone => x.handlersDone
  BY <1>0, RunTyped, AfterHandlersFields
<1>. HIDE DEF x
<1>5. run'[r] = x /\ \A s \in Runs \ {r} : run'[s] = run[s]
  BY <1>3, RunUpdated DEF x
<1>6. /\ hist'[t].handled
      /\ hist'[t].cancelled = hist[t].cancelled
      /\ hist'[t].timedOut = hist[t].timedOut
      /\ hist'[t].body = hist[t].body /\ hist'[t].starts = hist[t].starts
      /\ \A o \in Tasks \ {t} : hist'[o] = hist[o]
  BY <1>0, <1>1, HandledTask DEF Handle
<1>7. Caused(t)'
  BY <1>1, <1>6 DEF Caused
<1>8. RunTells(r)'
  <2>1. StartTells(r)'
    BY <1>0, <1>1, <1>4, <1>5, <1>6 DEF RunTells, StartTells
  <2>2. CauseTells(r)'
    BY <1>0, <1>1, <1>2, <1>4, <1>5, <1>6, <1>7
    DEF RunTells, CauseTells, Caused, Threads
  <2>3. HandlersTell(r)'
    BY <1>0, <1>1, <1>2, <1>4, <1>5, <1>6
    DEF RunTells, HandlersTell, Threads
  <2>4. Async(r)' = Async(r)
    BY <1>0, <1>1, <1>4, <1>5 DEF Async, TaskOf
  <2>5. TargetTells(r)'
    BY <1>0, <1>1, <1>4, <1>5, <1>6, <2>4 DEF RunTells, TargetTells
  <2>. QED BY <2>1, <2>2, <2>3, <2>5 DEF RunTells
<1>9. FlagsGrow(run[r], run'[r])
  BY <1>0, <1>4, <1>5 DEF FlagsGrow
<1>. QED BY <1>0, <1>1, <1>2, <1>5, <1>6, <1>7, <1>8, <1>9,
            FlaggingRunTells

LEMMA WorkerDiesTells ==
  ASSUME TypeInv, SlotInv, OutcomeInv, NEW r \in Runs, WorkerDies(r),
         req' = req
  PROVE  OutcomeInv'
<1>0. PICK t \in Tasks : run[r].task = t
  BY RunHasTask DEF WorkerDies
<1>. DEFINE x == [run[r] EXCEPT !.pc = "done"]
<1>1. /\ run' = [run EXCEPT ![r] = x] /\ row' = row /\ hist' = hist
      /\ RunTells(r) /\ RowTells(t)
  BY <1>0 DEF WorkerDies, OutcomeInv
<1>2. x.pc = "done" /\ Flags(run[r], x) /\ x.loaded = run[r].loaded
  BY RunTyped DEF RunState, Flags
<1>. HIDE DEF x
<1>3. run'[r] = x /\ \A s \in Runs \ {r} : run'[s] = run[s]
  BY <1>1, RunUpdated
<1>4. /\ \A h \in Threads : thread'[r][h].pc = "off"
      /\ \A s \in Runs \ {r} : thread'[s] = thread[s]
  BY DEF WorkerDies, NoThread, TypeInv, ExecInv, ExecutionTypeOK
<1>5. /\ channel'[t] = "closed"
      /\ \A o \in Tasks \ {t} : channel'[o] = channel[o]
  BY <1>0 DEF WorkerDies, TypeInv, StoreInv, StoreTypeOK
<1>6. Begun(r)' => Begun(r)
  BY <1>2, <1>3, <1>4 DEF Begun, Flags
<1>7. RunTells(r)'
  <2>1. StartTells(r)'
    BY <1>1, <1>2, <1>3, <1>6 DEF RunTells, StartTells, Flags
  <2>2. CauseTells(r)'
    BY <1>1, <1>2, <1>3, <1>4 DEF RunTells, CauseTells, Flags, Caused, Threads
  <2>3. HandlersTell(r)'
    BY <1>1, <1>2, <1>3, <1>4 DEF RunTells, HandlersTell, Flags, Threads
  <2>4. TargetTells(r)'
    BY <1>2, <1>3 DEF TargetTells
  <2>. QED BY <2>1, <2>2, <2>3, <2>4 DEF RunTells
<1>8. /\ HasHandler(t) => HasHandler(t)'
      /\ OutOfTime(t) => OutOfTime(t)'
      /\ FlagsGrow(run[r], run'[r])
  BY <1>2, <1>3 DEF HasHandler, OutOfTime, Flags, FlagsGrow
<1>9. RowTells(t)'
  BY <1>1, <1>5, <1>8 DEF RowTells, Caused
<1>10. RowsFixed
  BY <1>1, SameRowsFixed
<1>. QED BY <1>0, <1>1, <1>3, <1>4, <1>5, <1>6, <1>7, <1>8, <1>9, <1>10,
            RunStepTells
-----------------------------------------------------------------------------
(***************************************************************************)
(* The composition.                                                        *)
(***************************************************************************)
LEMMA InitTells == Init => OutcomeInv
<1>. SUFFICES ASSUME Init PROVE OutcomeInv
  OBVIOUS
<1>1. \A r \in Runs : ~Begun(r)
  BY DEF Init, ExecutionInit, NewRun, NoThread, Begun
<1>2. OneBegins
  BY <1>1 DEF OneBegins
<1>3. \A t \in Tasks : RowTells(t)
  BY DEF Init, StoreInit, NoRow, NoHistory, RowTells, Absent, ABORT_STATES
<1>4. \A u \in Users : RequestTells(req[u])
  BY IdleTells DEF Init, RequestInit
<1>5. ASSUME NEW r \in Runs PROVE RunTells(r)
  <2>1. run[r] = NewRun /\ thread[r]["timer"] = NoThread
        /\ thread[r]["listener"] = NoThread
    BY DEF Init, ExecutionInit, Threads
  <2>2. StartTells(r)
    BY <1>1, <2>1 DEF StartTells, NewRun
  <2>3. CauseTells(r)
    BY <2>1 DEF CauseTells, NewRun, NoThread, Absent, ABORT_STATES
  <2>4. HandlersTell(r) /\ TargetTells(r)
    BY <2>1 DEF HandlersTell, TargetTells, NewRun, NoThread
  <2>. QED BY <2>2, <2>3, <2>4 DEF RunTells
<1>. QED BY <1>2, <1>3, <1>4, <1>5 DEF OutcomeInv

\* The rows of tasks that nobody has in hand may change as they like, as
\* long as they tell the truth.
LEMMA StoreStepTells ==
  ASSUME TypeInv, SlotInv, OutcomeInv, NEW t \in Tasks,
         Redeliver(t) \/ Prune(t), UNCHANGED <<req, execVars>>
  PROVE  OutcomeInv'
<1>1. hist' = hist /\ channel' = channel /\ req' = req
      /\ run' = run /\ thread' = thread
  BY DEF Redeliver, Prune, execVars
<1>2. \/ row' = row
      \/ /\ row'[t] = [row[t] EXCEPT !.status = Pruned, !.subs = {}]
         /\ \A o \in Tasks \ {t} : row'[o] = row[o]
         /\ row[t].status # "aborting"
  BY StatusNames DEF Redeliver, Prune, TypeInv, StoreInv, StoreTypeOK, Finished
<1>3. Grows
  <2>1. \A o \in Tasks : /\ HasHandler(o)' = HasHandler(o)
                         /\ OutOfTime(o)' = OutOfTime(o)
    BY <1>1 DEF HasHandler, OutOfTime
  <2>2. row'[t].mode = row[t].mode
    BY <1>2, RowsTyped DEF Row
  <2>3. \A o \in Tasks : row'[o].mode = row[o].mode
    BY <1>2, <2>2
  <2>. QED BY <1>1, <2>1, <2>3 DEF Grows
<1>4. \A u \in Users : RequestTells(req[u])'
  BY <1>1, <1>3, IdleRequestTells DEF OutcomeInv
<1>5. \A s \in Runs : RunTells(s)' /\ Begun(s)' = Begun(s)
  BY <1>1, <1>3, IdleRunTells DEF OutcomeInv
<1>6. OneBegins'
  BY <1>1, <1>5 DEF OutcomeInv, OneBegins
<1>7. ASSUME NEW o \in Tasks PROVE RowTells(o)'
  <2>1. CASE row'[o] = row[o]
    BY <1>1, <1>3, <2>1, IdleRowTells DEF OutcomeInv
  <2>2. CASE row'[o] = [row[o] EXCEPT !.status = Pruned, !.subs = {}]
    <3>1. /\ row'[o].status = Pruned
          /\ row'[o].abortable = row[o].abortable
      BY <2>2, RowsTyped DEF Row
    <3>2. Pruned \notin ABORT_STATES /\ Pruned \notin
            {"aborting", "success", "failure", "timed_out"}
      BY DEF Pruned, ABORT_STATES
    <3>3. RowTells(o) /\ (HasHandler(o) => HasHandler(o)')
          /\ (OutOfTime(o) => OutOfTime(o)')
      BY <1>3 DEF OutcomeInv, Grows
    <3>. QED BY <1>1, <3>1, <3>2, <3>3 DEF RowTells, Caused
  <2>. QED BY <1>2, <2>1, <2>2
<1>. QED BY <1>4, <1>5, <1>6, <1>7 DEF OutcomeInv

LEMMA StutterTells ==
  ASSUME OutcomeInv, UNCHANGED vars
  PROVE  OutcomeInv'
<1>1. /\ row' = row /\ hist' = hist /\ channel' = channel /\ req' = req
      /\ run' = run /\ thread' = thread
  BY DEF vars, storeVars, execVars
<1>2. OneBegins' /\ (\A t \in Tasks : RowTells(t)')
  BY <1>1
  DEF OutcomeInv, OneBegins, Begun, RowTells, Caused, HasHandler, OutOfTime
<1>3. \A u \in Users : RequestTells(req[u])'
  BY <1>1 DEF OutcomeInv, RequestTells, HasHandler
<1>4. ASSUME NEW r \in Runs PROVE RunTells(r)'
  BY <1>1
  DEF OutcomeInv, RunTells, StartTells, CauseTells, HandlersTell,
      TargetTells, Begun, Caused, Async, TaskOf
<1>. QED BY <1>2, <1>3, <1>4 DEF OutcomeInv

LEMMA RequestsTell ==
  ASSUME TypeInv, SlotInv, OutcomeInv, NEW u \in Users,
         Submit(u) \/ Cancel(u) \/ SubmitterDies(u), UNCHANGED execVars
  PROVE  OutcomeInv'
<1>1. CASE Submit(u) \/ SubmitterDies(u)
  BY <1>1, SubmitLookupTells, SubmitUnlockTells, SubmitCreateTells,
     SubmitJoinTells, EndingRequestTells
  DEF Submit
<1>2. CASE Cancel(u)
  BY <1>2, CancelFetchTells, CancelLockTells, CancelDecideTells,
     CancelAbortTells, CancelUnsubscribeTells, CancelReleaseTells,
     CancelPublishTells, EndingRequestTells
  DEF Cancel
<1>. QED BY <1>1, <1>2

LEMMA RunsTell ==
  ASSUME TypeInv, SlotInv, OutcomeInv, NEW r \in Runs,
         Execute(r) \/ Background(r) \/ WorkerDies(r), req' = req
  PROVE  OutcomeInv'
<1>1. CASE Execute(r)
  BY <1>1, FetchTells, SkipAbortedTells, PickupTells, PickupFailsTells,
     RegisterHandlerTells, StartListenerTells, UpdateTaskTells,
     BodyEndsTells, SettleTells, StoreOutcomeTells, StopThreadsTells,
     AbortCheckTells, CleanupHandlersTells, ReportTells, ReportUnlocksTells,
     ReportFailureTells, ReportRefusedTells, DecideTells, EndAbortTells
  DEF Execute
<1>2. CASE \E h \in Threads : Detect(r, h) \/ Claim(r, h) \/ Handle(r, h)
  BY <1>2, DetectTells, ClaimTells, HandleTells
<1>3. CASE \/ TimerFires(r) \/ TimerReads(r) \/ TimerUnlocks(r)
           \/ TimerAborts(r) \/ TimerRefused(r) \/ ListenerHears(r)
  BY <1>3, TimerFiresTells, TimerReadsTells, TimerUnlocksTells,
     TimerAbortsTells, TimerRefusedTells, ListenerHearsTells
<1>. QED BY <1>1, <1>2, <1>3, WorkerDiesTells DEF Background

LEMMA NextKeepsOutcomeInv ==
  ASSUME TypeInv, SlotInv, OutcomeInv, [Next]_vars
  PROVE  OutcomeInv'
<1>1. CASE RequestStep /\ UNCHANGED execVars
  BY <1>1, RequestsTell DEF RequestStep
<1>2. CASE RunStep /\ UNCHANGED req
  BY <1>2, RunsTell DEF RunStep
<1>3. CASE StoreStep /\ UNCHANGED <<req, execVars>>
  BY <1>3, StoreStepTells DEF StoreStep
<1>4. CASE CrashStep
  BY <1>4, RequestsTell, RunsTell DEF CrashStep
<1>5. CASE UNCHANGED vars
  BY <1>5, StutterTells
<1>. QED BY <1>1, <1>2, <1>3, <1>4, <1>5 DEF Next

LEMMA OutcomeInvCorrect == Spec => []OutcomeInv
<1>1. Init => OutcomeInv
  BY InitTells
<1>2. (TypeInv /\ SlotInv) /\ OutcomeInv /\ [Next]_vars => OutcomeInv'
  BY NextKeepsOutcomeInv
<1>. QED BY <1>1, <1>2, SlotInvCorrect, PTL DEF Spec

\* Whichever of the three threads of a task finds a reason to run its abort
\* handlers (timer, listener, or the executor's own last check), the task was
\* cancelled or its deadline had passed: no flag, message or copy of the row
\* that says so is ever left over from something else.
THEOREM HandlersHaveCause == Spec => []HandlersNeedCause
<1>1. OutcomeInv => HandlersNeedCause
  BY DEF OutcomeInv, RowTells, Caused, HandlersNeedCause
<1>. QED BY <1>1, OutcomeInvCorrect, PTL

\* An asynchronous task ends in TIMED_OUT only after its abort handlers have
\* run: execute_task takes the status from _abort_handlers_completed, and
\* that flag is not set before a pass over the handlers of this task.
THEOREM TimeoutsRanHandlers == Spec => []TimeoutRanHandlers
<1>1. OutcomeInv => TimeoutRanHandlers
  BY DEF OutcomeInv, RowTells, TimeoutRanHandlers
<1>. QED BY <1>1, OutcomeInvCorrect, PTL
-----------------------------------------------------------------------------
(***************************************************************************)
(* How many runs a task has.                                               *)
(***************************************************************************)
\* No step but Fetch gives a run a task, or takes a message.
LEMMA ExecuteKeepsTasks ==
  ASSUME TypeInv, NEW r \in Runs, Execute(r), ~Fetch(r)
  PROVE  /\ \A s \in Runs : run'[s].task = run[s].task
         /\ queue' = queue /\ sent' = sent
<1>. USE DEF TypeInv, ExecInv, ExecutionTypeOK, RunState
<1>0. queue' = queue /\ sent' = sent
  BY DEF Execute, SkipAborted, Pickup, PickupFails, RegisterHandler,
         StartListener, UpdateTask, BodyEnds, Settle, StoreOutcome,
         StopThreads, AbortCheck, CleanupHandlers, Report, ReportUnlocks,
         ReportFailure, ReportRefused, Decide, EndAbort, storeVars
<1>1. CASE SkipAborted(r)
  BY <1>0, <1>1 DEF SkipAborted
<1>2. CASE Pickup(r)
  BY <1>0, <1>2 DEF Pickup
<1>3. CASE PickupFails(r)
  BY <1>0, <1>3 DEF PickupFails
<1>4. CASE RegisterHandler(r)
  BY <1>0, <1>4 DEF RegisterHandler, Committed
<1>5. CASE StartListener(r)
  BY <1>0, <1>5 DEF StartListener
<1>6. CASE UpdateTask(r)
  BY <1>0, <1>6 DEF UpdateTask, Committed
<1>7. CASE BodyEnds(r)
  BY <1>0, <1>7 DEF BodyEnds
<1>8. CASE Settle(r)
  BY <1>0, <1>8 DEF Settle
<1>9. CASE StoreOutcome(r)
  BY <1>0, <1>9 DEF StoreOutcome, Committed
<1>10. CASE StopThreads(r)
  BY <1>0, <1>10 DEF StopThreads
<1>11. CASE CleanupHandlers(r)
  BY <1>0, <1>11 DEF CleanupHandlers
<1>12. CASE Report(r)
  BY <1>0, <1>12 DEF Report
<1>13. CASE ReportUnlocks(r)
  BY <1>0, <1>13 DEF ReportUnlocks
<1>14. CASE ReportFailure(r)
  BY <1>0, <1>14 DEF ReportFailure, Committed
<1>15. CASE ReportRefused(r)
  BY <1>0, <1>15 DEF ReportRefused
<1>16. CASE Decide(r)
  BY <1>0, <1>16 DEF Decide
<1>17. CASE EndAbort(r)
  BY <1>0, <1>17 DEF EndAbort, Committed
<1>18. CASE AbortCheck(r)
  <2>1. CASE Unnoticed(r)
    <3>1. PICK f : run' = [run EXCEPT ![r] = [AfterHandlers(run[r], f) EXCEPT
                                        !.pc = "cleaners", !.dirty = FALSE]]
      BY <1>18, <2>1 DEF AbortCheck
    <3>. DEFINE x == [AfterHandlers(run[r], f) EXCEPT
                        !.pc = "cleaners", !.dirty = FALSE]
    <3>2. x.task = run[r].task
      BY RunTyped DEF AfterHandlers
    <3>3. run' = [run EXCEPT ![r] = x]
      BY <3>1
    <3>. HIDE DEF x
    <3>4. run'[r] = x /\ \A s \in Runs \ {r} : run'[s] = run[s]
      BY <3>3, RunUpdated
    <3>. QED BY <1>0, <3>2, <3>4
  <2>2. CASE ~Unnoticed(r)
    BY <1>0, <1>18, <2>2 DEF AbortCheck
  <2>. QED BY <2>1, <2>2
<1>. QED BY <1>1, <1>2, <1>3, <1>4, <1>5, <1>6, <1>7, <1>8, <1>9, <1>10, <1>11, <1>12, <1>13, <1>14, <1>15, <1>16, <1>17, <1>18 DEF Execute

LEMMA BackgroundKeepsTasks ==
  ASSUME TypeInv, NEW r \in Runs, Background(r)
  PROVE  /\ \A s \in Runs : run'[s].task = run[s].task
         /\ queue' = queue /\ sent' = sent
<1>. USE DEF TypeInv, ExecInv, ExecutionTypeOK, RunState
<1>1. CASE TimerFires(r)
  BY <1>1 DEF TimerFires
<1>2. CASE TimerReads(r)
  BY <1>2 DEF TimerReads, storeVars
<1>3. CASE \/ TimerUnlocks(r) \/ TimerAborts(r) \/ TimerRefused(r)
           \/ ListenerHears(r)
  BY <1>3 DEF TimerUnlocks, TimerAborts, TimerRefused, ListenerHears, storeVars
<1>4. ASSUME NEW h \in Threads, Detect(r, h)
      PROVE  run' = run /\ queue' = queue /\ sent' = sent
  BY <1>4 DEF Detect, storeVars
<1>5. ASSUME NEW h \in Threads, Claim(r, h)
      PROVE  /\ \A s \in Runs : run'[s].task = run[s].task
             /\ queue' = queue /\ sent' = sent
  BY <1>5 DEF Claim, storeVars
<1>6. ASSUME NEW h \in Threads, Handle(r, h)
      PROVE  /\ \A s \in Runs : run'[s].task = run[s].task
             /\ queue' = queue /\ sent' = sent
  BY <1>6 DEF Handle, AfterHandlers
<1>. QED BY <1>1, <1>2, <1>3, <1>4, <1>5, <1>6 DEF Background

LEMMA FetchDelivers ==
  ASSUME TypeInv, SlotInv, DeliveryInv, NEW r \in Runs, Fetch(r), req' = req
  PROVE  DeliveryInv'
<1>1. PICK t \in Tasks :
        /\ queue[t] > 0
        /\ queue' = [queue EXCEPT ![t] = @ - 1]
        /\ run' = [run EXCEPT ![r] = [NewRun EXCEPT
                     !.task = t, !.seen = IF Exists(t) THEN row[t] ELSE NoRow,
                     !.pc = IF Exists(t) THEN "fetched" ELSE "done"]]
        /\ sent' = sent
  BY DEF Fetch
<1>2. /\ run'[r].task = t
      /\ \A s \in Runs \ {r} : run'[s].task = run[s].task
  BY <1>1 DEF TypeInv, ExecInv, ExecutionTypeOK, NewRun
<1>3. queue[t] \in Nat /\ sent[t] \in Nat /\ queue[t] <= sent[t]
  BY StoreAssumption
  DEF TypeInv, StoreInv, StoreTypeOK, QueueBounded, StoreAssumption
<1>4. sent[t] # 0
  BY <1>1, <1>3
<1>5. queue'[t] = queue[t] - 1 /\ \A o \in Tasks \ {t} : queue'[o] = queue[o]
  BY <1>1 DEF TypeInv, StoreInv, StoreTypeOK
<1>6. ASSUME MaxDeliveries = 1
      PROVE  /\ ~(queue'[t] > 0)
             /\ \A s \in Runs : run[s].task # t
  BY <1>1, <1>3, <1>5, <1>6
  DEF DeliveryInv, TypeInv, StoreInv, StoreTypeOK
<1>7. ASSUME MaxDeliveries = 1
      PROVE  /\ \A o \in Tasks : queue'[o] > 0 =>
                                   \A s \in Runs : run'[s].task # o
             /\ \A p, s \in Runs :
                  run'[p].task = run'[s].task /\ run'[p].task \in Tasks
                    => p = s
  BY <1>2, <1>5, <1>6, <1>7 DEF DeliveryInv
<1>8. \A o \in Tasks : sent'[o] = 0 => \A s \in Runs : run'[s].task # o
  BY <1>1, <1>2, <1>4 DEF DeliveryInv
<1>. QED BY <1>1, <1>7, <1>8 DEF DeliveryInv

\* A step that creates, sends and delivers nothing.
LEMMA QuietDelivery ==
  ASSUME DeliveryInv, sent' = sent, queue' = queue,
         \A s \in Runs : run'[s].task = run[s].task,
         \A u \in Users :
           req'[u].pc = "scheduling" =>
             req[u].pc = "scheduling" /\ req'[u].task = req[u].task
  PROVE  DeliveryInv'
BY DEF DeliveryInv

LEMMA SubmitCreateDelivers ==
  ASSUME TypeInv, SlotInv, DeliveryInv, NEW u \in Users, SubmitCreate(u),
         UNCHANGED execVars
  PROVE  DeliveryInv'
<1>1. PICK t \in Tasks :
        /\ Fresh(t)
        /\ req' = [req EXCEPT ![u].pc = "scheduling", ![u].task = t]
  BY DEF SubmitCreate
<1>2. /\ req'[u].task = t
      /\ \A v \in Users \ {u} : req'[v] = req[v]
  BY <1>1 DEF TypeInv, RequestInv, RequestTypeOK, Request
<1>3. sent[t] = 0
  BY <1>1, StoreAssumption
  DEF Fresh, SlotInv, MessagesKnown, TypeInv, StoreInv, StoreTypeOK,
      StoreAssumption
<1>4. \A v \in Users : req[v].task # t
  BY <1>1 DEF Fresh, SlotInv, RequestsKnow, RequestKnows
<1>5. sent' = sent /\ queue' = queue /\ run' = run
  BY DEF SubmitCreate, execVars
<1>6. \A v \in Users : req'[v].pc = "scheduling" => sent'[req'[v].task] = 0
  BY <1>2, <1>3, <1>5 DEF DeliveryInv
<1>7. \A v, w \in Users :
        /\ req'[v].pc = "scheduling" /\ req'[w].pc = "scheduling"
        /\ req'[v].task = req'[w].task
        => v = w
  BY <1>2, <1>4 DEF DeliveryInv
<1>. QED BY <1>5, <1>6, <1>7 DEF DeliveryInv

\* The one message of a task is sent when no run has the task yet.
LEMMA ScheduleDelivers ==
  ASSUME TypeInv, SlotInv, DeliveryInv, NEW u \in Users, Schedule(u),
         UNCHANGED execVars
  PROVE  DeliveryInv'
<1>0. PICK t \in Tasks : req[u].task = t
  BY DEF Schedule, TypeInv, RequestInv, RequestLocated
<1>1. /\ sent'[t] = 1 /\ \A o \in Tasks \ {t} : sent'[o] = sent[o]
      /\ \A o \in Tasks \ {t} : queue'[o] = queue[o]
      /\ req'[u].pc = "idle" /\ \A v \in Users \ {u} : req'[v] = req[v]
      /\ run' = run
  BY <1>0
  DEF Schedule, execVars, TypeInv, StoreInv, StoreTypeOK, RequestInv,
      RequestTypeOK, Idle
<1>2. \A s \in Runs : run[s].task # t
  BY <1>0 DEF Schedule, DeliveryInv
<1>3. \A v \in Users :
        req'[v].pc = "scheduling" => /\ req[v].pc = "scheduling"
                                     /\ req'[v].task = req[v].task
                                     /\ req[v].task # t
  BY <1>0, <1>1 DEF Schedule, DeliveryInv
<1>4. \A v \in Users : req[v].pc = "scheduling" => req[v].task \in Tasks
  BY DEF TypeInv, RequestInv, RequestLocated
<1>5. \A v \in Users : req'[v].pc = "scheduling" => sent'[req'[v].task] = 0
  BY <1>1, <1>3, <1>4 DEF DeliveryInv
<1>6. \A o \in Tasks : sent'[o] = 0 => \A s \in Runs : run'[s].task # o
  BY <1>1 DEF DeliveryInv
<1>7. MaxDeliveries = 1 =>
        /\ \A o \in Tasks : queue'[o] > 0 => \A s \in Runs : run'[s].task # o
        /\ \A p, s \in Runs :
             run'[p].task = run'[s].task /\ run'[p].task \in Tasks => p = s
  BY <1>1, <1>2 DEF DeliveryInv
<1>8. \A v, w \in Users :
        /\ req'[v].pc = "scheduling" /\ req'[w].pc = "scheduling"
        /\ req'[v].task = req'[w].task
        => v = w
  BY <1>3 DEF DeliveryInv
<1>. QED BY <1>5, <1>6, <1>7, <1>8 DEF DeliveryInv

LEMMA CalmRequestDelivers ==
  ASSUME TypeInv, DeliveryInv, NEW u \in Users,
         Submit(u) \/ Cancel(u) \/ SubmitterDies(u),
         ~SubmitCreate(u), ~Schedule(u), UNCHANGED execVars
  PROVE  DeliveryInv'
<1>. DEFINE Unscheduled(q) == /\ \A v \in Users \ {u} : q[v] = req[v]
                        /\ q[u].pc # "scheduling"
<1>. USE DEF TypeInv, RequestInv, RequestTypeOK, Request, Idle
<1>1. sent' = sent /\ queue' = queue /\ run' = run
  BY DEF Submit, SubmitLookup, SubmitUnlock, SubmitConflict, SubmitJoin,
         WaitEnds, WaitTimesOut, SubmitterDies, Cancel, CancelFetch,
         CancelLock, CancelRefused, CancelDecide, CancelAbort,
         CancelUnsubscribe, CancelRelease, CancelPublish, storeVars,
         execVars
<1>2. ASSUME SubmitLookup(u) PROVE Unscheduled(req')
  BY <1>2 DEF SubmitLookup
<1>3. ASSUME SubmitUnlock(u) PROVE Unscheduled(req')
  BY <1>3 DEF SubmitUnlock
<1>4. ASSUME \/ SubmitConflict(u) \/ WaitEnds(u) \/ WaitTimesOut(u)
            \/ SubmitterDies(u) \/ CancelRefused(u) \/ CancelPublish(u)
      PROVE  Unscheduled(req')
  BY <1>4
  DEF SubmitConflict, WaitEnds, WaitTimesOut, SubmitterDies, CancelRefused,
      CancelPublish
<1>5. ASSUME SubmitJoin(u) PROVE Unscheduled(req')
  BY <1>5 DEF SubmitJoin
<1>6. ASSUME CancelFetch(u) PROVE Unscheduled(req')
  BY <1>6 DEF CancelFetch
<1>7. ASSUME CancelLock(u) PROVE Unscheduled(req')
  BY <1>7 DEF CancelLock
<1>8. ASSUME CancelDecide(u) PROVE Unscheduled(req')
  BY <1>8 DEF CancelDecide
<1>9. ASSUME CancelAbort(u) PROVE Unscheduled(req')
  BY <1>9 DEF CancelAbort
<1>10. ASSUME CancelUnsubscribe(u) PROVE Unscheduled(req')
  BY <1>10 DEF CancelUnsubscribe
<1>11. ASSUME CancelRelease(u) PROVE Unscheduled(req')
  BY <1>11 DEF CancelRelease
<1>12. Unscheduled(req')
  <2>. HIDE DEF Unscheduled, TypeInv
  <2>. QED BY <1>2, <1>3, <1>4, <1>5, <1>6, <1>7, <1>8, <1>9, <1>10, <1>11 DEF Submit, Cancel
<1>. QED BY <1>1, <1>12, QuietDelivery

LEMMA NextDelivers ==
  ASSUME TypeInv, SlotInv, DeliveryInv, [Next]_vars
  PROVE  DeliveryInv'
<1>1. ASSUME NEW u \in Users, Submit(u) \/ Cancel(u) \/ SubmitterDies(u),
             UNCHANGED execVars
      PROVE  DeliveryInv'
  BY <1>1, SubmitCreateDelivers, ScheduleDelivers, CalmRequestDelivers
<1>2. ASSUME NEW r \in Runs, Execute(r) \/ Background(r), req' = req
      PROVE  DeliveryInv'
  BY <1>2, FetchDelivers, ExecuteKeepsTasks, BackgroundKeepsTasks,
     QuietDelivery
<1>3. ASSUME NEW r \in Runs, WorkerDies(r), req' = req
      PROVE  DeliveryInv'
  <2>1. \A s \in Runs : run'[s].task = run[s].task
    BY <1>3 DEF WorkerDies, TypeInv, ExecInv, ExecutionTypeOK, RunState
  <2>. QED BY <1>3, <2>1, QuietDelivery DEF WorkerDies
<1>4. ASSUME NEW t \in Tasks, Redeliver(t), UNCHANGED <<req, execVars>>
      PROVE  DeliveryInv'
  <2>1. /\ sent[t] \in 1 .. MaxDeliveries - 1 /\ MaxDeliveries # 1
        /\ \A o \in Tasks : sent'[o] = 0 => sent[o] = 0
        /\ \A o \in Tasks : sent[o] = 0 => sent'[o] = 0
    BY <1>4, StoreAssumption
    DEF Redeliver, TypeInv, StoreInv, StoreTypeOK, StoreAssumption
  <2>2. \A v \in Users : req[v].pc = "scheduling" => req[v].task \in Tasks
    BY DEF TypeInv, RequestInv, RequestLocated
  <2>. QED BY <1>4, <2>1, <2>2 DEF DeliveryInv, execVars
<1>5. ASSUME NEW t \in Tasks, Prune(t), UNCHANGED <<req, execVars>>
      PROVE  DeliveryInv'
  BY <1>5, QuietDelivery DEF Prune, execVars
<1>6. CASE UNCHANGED vars
  BY <1>6, QuietDelivery DEF vars, storeVars, execVars
<1>. QED BY <1>1, <1>2, <1>3, <1>4, <1>5, <1>6
     DEF Next, RequestStep, RunStep, StoreStep, CrashStep

LEMMA DeliveryInvCorrect == Spec => []DeliveryInv
<1>1. Init => DeliveryInv
  BY StoreAssumption
  DEF Init, StoreInit, RequestInit, ExecutionInit, Idle, NewRun,
      DeliveryInv, StoreAssumption
<1>2. (TypeInv /\ SlotInv) /\ DeliveryInv /\ [Next]_vars => DeliveryInv'
  BY NextDelivers
<1>. QED BY <1>1, <1>2, SlotInvCorrect, PTL DEF Spec
-----------------------------------------------------------------------------
(***************************************************************************)
(* Without timeouts no deadline passes.                                    *)
(***************************************************************************)
Untimed == \A r \in Runs : thread[r]["timer"].pc = "off" /\ ~run[r].timedOut

LEMMA ExecuteUntimed ==
  ASSUME TypeInv, SlotInv, Untimed, \A t \in Tasks : ~row[t].timeout,
         NEW r \in Runs, Execute(r)
  PROVE  Untimed'
<1>. USE DEF Untimed, TypeInv, ExecInv, ExecutionTypeOK, RunState,
             ThreadState, Threads
<1>1. CASE SkipAborted(r)
  BY <1>1 DEF SkipAborted
<1>2. CASE PickupFails(r)
  BY <1>2 DEF PickupFails
<1>3. CASE RegisterHandler(r)
  BY <1>3 DEF RegisterHandler, Committed
<1>4. CASE UpdateTask(r)
  BY <1>4 DEF UpdateTask, Committed
<1>5. CASE BodyEnds(r)
  BY <1>5 DEF BodyEnds
<1>6. CASE Settle(r)
  BY <1>6 DEF Settle
<1>7. CASE StoreOutcome(r)
  BY <1>7 DEF StoreOutcome, Committed
<1>8. CASE CleanupHandlers(r)
  BY <1>8 DEF CleanupHandlers
<1>9. CASE Report(r)
  BY <1>9 DEF Report
<1>10. CASE ReportUnlocks(r)
  BY <1>10 DEF ReportUnlocks
<1>11. CASE ReportFailure(r)
  BY <1>11 DEF ReportFailure, Committed
<1>12. CASE ReportRefused(r)
  BY <1>12 DEF ReportRefused
<1>13. CASE Decide(r)
  BY <1>13 DEF Decide
<1>14. CASE EndAbort(r)
  BY <1>14 DEF EndAbort, Committed
<1>15. CASE Fetch(r)
  BY <1>15 DEF Fetch, NewRun
<1>16. CASE Pickup(r)
  <2>1. ~row[run[r].task].timeout
    BY <1>16, RunHasTask DEF Pickup
  <2>. QED BY <1>16, <2>1 DEF Pickup
<1>17. CASE StartListener(r)
  BY <1>17 DEF StartListener, MoveThread
<1>18. CASE StopThreads(r)
  BY <1>18 DEF StopThreads, NoThread
<1>19. CASE AbortCheck(r)
  <2>1. CASE Unnoticed(r)
    <3>1. PICK f : run' = [run EXCEPT ![r] = [AfterHandlers(run[r], f) EXCEPT
                                        !.pc = "cleaners", !.dirty = FALSE]]
      BY <1>19, <2>1 DEF AbortCheck
    <3>. DEFINE x == [AfterHandlers(run[r], f) EXCEPT
                        !.pc = "cleaners", !.dirty = FALSE]
    <3>2. x.timedOut = run[r].timedOut
      BY RunTyped DEF AfterHandlers
    <3>3. run' = [run EXCEPT ![r] = x]
      BY <3>1
    <3>. HIDE DEF x
    <3>4. run'[r] = x /\ \A s \in Runs \ {r} : run'[s] = run[s]
      BY <3>3, RunUpdated
    <3>. QED BY <1>19, <3>2, <3>4 DEF AbortCheck
  <2>2. CASE ~Unnoticed(r)
    <3>1. run' = [run EXCEPT ![r].pc = "cleaners", ![r].dirty = FALSE]
      BY <1>19, <2>2 DEF AbortCheck
    <3>2. \A s \in Runs : run'[s].timedOut = run[s].timedOut
      BY <3>1
    <3>. QED BY <1>19, <3>2 DEF AbortCheck
  <2>. QED BY <2>1, <2>2
<1>. QED BY <1>1, <1>2, <1>3, <1>4, <1>5, <1>6, <1>7, <1>8, <1>9, <1>10, <1>11,
            <1>12, <1>13, <1>14, <1>15, <1>16, <1>17, <1>18, <1>19
     DEF Execute

LEMMA BackgroundUntimed ==
  ASSUME TypeInv, Untimed, NEW r \in Runs, Background(r)
  PROVE  Untimed'
<1>1. thread[r]["timer"].pc = "off"
  BY DEF Untimed
<1>2. PICK h \in {"listener"} :
        ListenerHears(r) \/ Detect(r, h) \/ Claim(r, h) \/ Handle(r, h)
  BY <1>1
  DEF Background, TimerFires, TimerReads, TimerUnlocks, TimerAborts,
      TimerRefused, Detect, Claim, Handle, ThreadPc, Threads
<1>3. thread'[r]["timer"] = thread[r]["timer"]
      /\ \A s \in Runs \ {r} : thread'[s] = thread[s]
  BY <1>2, ThreadMoved, TwoThreads DEF ListenerHears, Detect, Claim, Handle
<1>4. \A s \in Runs : run'[s].timedOut = run[s].timedOut
  <2>. USE DEF TypeInv, ExecInv, ExecutionTypeOK, RunState
  <2>1. CASE ListenerHears(r) \/ Detect(r, h)
    BY <2>1 DEF ListenerHears, Detect
  <2>2. CASE Claim(r, h)
    BY <2>2 DEF Claim
  <2>3. CASE Handle(r, h)
    BY <2>3 DEF Handle, AfterHandlers
  <2>. QED BY <1>2, <2>1, <2>2, <2>3
<1>. QED BY <1>3, <1>4 DEF Untimed

LEMMA RequestUntimed ==
  ASSUME TypeInv, NEW u \in Users,
         Submit(u) \/ Cancel(u) \/ SubmitterDies(u), TRUE \notin TimeoutOptions,
         \A t \in Tasks : ~row[t].timeout, \A v \in Users : ~req[v].timeout
  PROVE  /\ \A t \in Tasks : ~row'[t].timeout
         /\ \A v \in Users : ~req'[v].timeout
<1>. DEFINE Calm(rows, reqs) == /\ \A t \in Tasks : ~rows[t].timeout
                                /\ \A v \in Users : ~reqs[v].timeout
<1>0. Calm(row, req)
  OBVIOUS
<1>. USE DEF TypeInv, RequestInv, RequestTypeOK, Request, Idle, StoreInv,
             StoreTypeOK, Row
<1>1. ASSUME SubmitLookup(u) PROVE Calm(row', req')
  <2>1. \A w \in TimeoutOptions : w = FALSE
    BY StoreAssumption DEF StoreAssumption
  <2>. QED BY <1>1, <2>1 DEF SubmitLookup
<1>2. ASSUME SubmitCreate(u) PROVE Calm(row', req')
  BY <1>2 DEF SubmitCreate, NewRow
<1>3. ASSUME SubmitUnlock(u) PROVE Calm(row', req')
  BY <1>3 DEF SubmitUnlock
<1>4. ASSUME \/ SubmitConflict(u) \/ Schedule(u) \/ WaitEnds(u)
            \/ WaitTimesOut(u) \/ SubmitterDies(u) \/ CancelRefused(u)
            \/ CancelPublish(u)
      PROVE  Calm(row', req')
  BY <1>4
  DEF SubmitConflict, Schedule, WaitEnds, WaitTimesOut, SubmitterDies,
      CancelRefused, CancelPublish, storeVars
<1>5. ASSUME SubmitJoin(u) PROVE Calm(row', req')
  BY <1>5 DEF SubmitJoin
<1>6. ASSUME CancelFetch(u) PROVE Calm(row', req')
  BY <1>6 DEF CancelFetch, storeVars
<1>7. ASSUME CancelLock(u) PROVE Calm(row', req')
  BY <1>7 DEF CancelLock
<1>8. ASSUME CancelDecide(u) PROVE Calm(row', req')
  BY <1>8 DEF CancelDecide, storeVars
<1>9. ASSUME CancelAbort(u) PROVE Calm(row', req')
  BY <1>9 DEF CancelAbort, SetStatus
<1>10. ASSUME CancelUnsubscribe(u) PROVE Calm(row', req')
  BY <1>10 DEF CancelUnsubscribe
<1>11. ASSUME CancelRelease(u) PROVE Calm(row', req')
  BY <1>11 DEF CancelRelease
<1>12. Calm(row', req')
  <2>. HIDE DEF Calm, TypeInv
  <2>. QED BY <1>1, <1>2, <1>3, <1>4, <1>5, <1>6, <1>7, <1>8, <1>9, <1>10, <1>11
       DEF Submit, Cancel
<1>. QED BY <1>12

LEMMA NextKeepsDeadlines ==
  ASSUME TypeInv, SlotInv, DeadlineInv, [Next]_vars
  PROVE  DeadlineInv'
<1>. SUFFICES ASSUME TRUE \notin TimeoutOptions
              PROVE  /\ \A t \in Tasks : ~row'[t].timeout
                     /\ \A u \in Users : ~req'[u].timeout
                     /\ Untimed'
  BY DEF DeadlineInv, Untimed
<1>0. /\ \A t \in Tasks : ~row[t].timeout
      /\ \A u \in Users : ~req[u].timeout
      /\ Untimed
  BY DEF DeadlineInv, Untimed
<1>1. RowsFixed => \A t \in Tasks : ~row'[t].timeout
  BY <1>0 DEF RowsFixed, Fixed
<1>2. ASSUME NEW u \in Users, Submit(u) \/ Cancel(u) \/ SubmitterDies(u),
             UNCHANGED execVars
      PROVE  /\ \A t \in Tasks : ~row'[t].timeout
             /\ \A v \in Users : ~req'[v].timeout
             /\ Untimed'
  BY <1>0, <1>2, RequestUntimed DEF Untimed, execVars
<1>3. ASSUME NEW r \in Runs, Execute(r) \/ Background(r)
      PROVE  (\A t \in Tasks : ~row'[t].timeout) /\ Untimed'
  BY <1>0, <1>1, <1>3, ExecuteFixed, BackgroundFixed, ExecuteUntimed,
     BackgroundUntimed
<1>4. ASSUME NEW r \in Runs, WorkerDies(r)
      PROVE  row' = row /\ Untimed'
  BY <1>0, <1>4
  DEF WorkerDies, Untimed, NoThread, Threads, TypeInv, ExecInv,
      ExecutionTypeOK, RunState
<1>5. ASSUME NEW t \in Tasks, Redeliver(t) \/ Prune(t)
      PROVE  \A o \in Tasks : ~row'[o].timeout
  BY <1>0, <1>5 DEF Redeliver, Prune, TypeInv, StoreInv, StoreTypeOK, Row
<1>6. CASE RequestStep /\ UNCHANGED execVars
  BY <1>2, <1>6 DEF RequestStep
<1>7. CASE RunStep /\ UNCHANGED req
  BY <1>0, <1>3, <1>7 DEF RunStep
<1>8. CASE StoreStep /\ UNCHANGED <<req, execVars>>
  BY <1>0, <1>5, <1>8 DEF StoreStep, Untimed, execVars
<1>9. CASE CrashStep
  BY <1>0, <1>2, <1>4, <1>9 DEF CrashStep
<1>10. CASE UNCHANGED vars
  BY <1>0, <1>10 DEF vars, storeVars, execVars, Untimed
<1>. QED BY <1>6, <1>7, <1>8, <1>9, <1>10 DEF Next

LEMMA DeadlineInvCorrect == Spec => []DeadlineInv
<1>1. Init => DeadlineInv
  BY DEF Init, StoreInit, NoRow, RequestInit, Idle, ExecutionInit, NewRun,
         NoThread, Threads, DeadlineInv
<1>2. (TypeInv /\ SlotInv) /\ DeadlineInv /\ [Next]_vars => DeadlineInv'
  BY NextKeepsDeadlines
<1>. QED BY <1>1, <1>2, SlotInvCorrect, PTL DEF Spec
-----------------------------------------------------------------------------
(***************************************************************************)
(* Who aborts.                                                             *)
(***************************************************************************)
LEMMA CancelledStays ==
  ASSUME TypeInv, SlotInv, [Next]_vars, NEW t \in Tasks, hist[t].cancelled
  PROVE  hist'[t].cancelled
<1>. USE DEF TypeInv, StoreInv, StoreTypeOK, History
<1>1. ASSUME NEW r \in Runs, Execute(r) PROVE hist'[t].cancelled
  <2>1. CASE Pickup(r) \/ BodyEnds(r) \/ AbortCheck(r)
    <3>1. CASE Pickup(r)
      BY <3>1 DEF Pickup
    <3>2. CASE BodyEnds(r)
      BY <3>2 DEF BodyEnds
    <3>3. CASE AbortCheck(r)
      <4>1. hist' = hist \/ hist' = Handled(r)
        BY <3>3 DEF AbortCheck
      <4>. QED BY <4>1 DEF Handled
    <3>. QED BY <2>1, <3>1, <3>2, <3>3
  <2>2. CASE ~(Pickup(r) \/ BodyEnds(r) \/ AbortCheck(r))
    BY <1>1, <2>2
    DEF Execute, Fetch, SkipAborted, PickupFails, RegisterHandler,
        StartListener, UpdateTask, Settle, StoreOutcome, StopThreads,
        CleanupHandlers, Report, ReportUnlocks, ReportFailure,
        ReportRefused, Decide, EndAbort, storeVars
  <2>. QED BY <2>1, <2>2
<1>2. ASSUME NEW r \in Runs, Background(r) PROVE hist'[t].cancelled
  BY <1>2
  DEF Background, TimerFires, TimerReads, TimerUnlocks, TimerAborts,
      TimerRefused, ListenerHears, Detect, Claim, Handle, Handled, storeVars
<1>3. ASSUME NEW u \in Users, Submit(u) \/ Cancel(u) \/ SubmitterDies(u)
      PROVE  hist'[t].cancelled
  <2>1. CASE CancelAbort(u)
    BY <2>1 DEF CancelAbort
  <2>2. CASE ~CancelAbort(u)
    BY <1>3, <2>2
    DEF Submit, SubmitLookup, SubmitUnlock, SubmitCreate, SubmitConflict,
        SubmitJoin, Schedule, WaitEnds, WaitTimesOut, SubmitterDies, Cancel,
        CancelFetch, CancelLock, CancelRefused, CancelDecide,
        CancelUnsubscribe, CancelRelease, CancelPublish, storeVars
  <2>. QED BY <2>1, <2>2
<1>4. CASE StoreStep \/ UNCHANGED vars
  BY <1>4 DEF StoreStep, Redeliver, Prune, vars, storeVars
<1>5. ASSUME NEW r \in Runs, WorkerDies(r) PROVE hist'[t].cancelled
  BY <1>5 DEF WorkerDies
<1>. HIDE DEF TypeInv
<1>. QED BY <1>1, <1>2, <1>3, <1>4, <1>5 DEF Next, RequestStep, RunStep, CrashStep

\* Only the user who cancels, the run that ends a cancelled task, and a run
\* that skips a task found aborting write ABORTED.
LEMMA RequestAborts ==
  ASSUME TypeInv, NEW u \in Users,
         Submit(u) \/ Cancel(u) \/ SubmitterDies(u), NEW t \in Tasks,
         row'[t].status = "aborted", row[t].status # "aborted"
  PROVE  hist'[t].cancelled
<1>. USE DEF TypeInv, StoreInv, StoreTypeOK, Row
<1>1. CASE CancelAbort(u)
  <2>1. req[u].task = t
    BY <1>1 DEF CancelAbort
  <2>. QED BY <1>1, <2>1 DEF CancelAbort, History
<1>2. CASE SubmitCreate(u)
  BY <1>2 DEF SubmitCreate, NewRow
<1>3. CASE SubmitJoin(u)
  BY <1>3 DEF SubmitJoin
<1>4. CASE CancelUnsubscribe(u)
  BY <1>4 DEF CancelUnsubscribe
<1>5. CASE ~(\/ CancelAbort(u) \/ SubmitCreate(u) \/ SubmitJoin(u)
             \/ CancelUnsubscribe(u))
  <2>1. row' = row
    BY <1>5
    DEF Submit, SubmitLookup, SubmitUnlock, SubmitConflict, Schedule,
        WaitEnds, WaitTimesOut, SubmitterDies, Cancel, CancelFetch,
        CancelLock, CancelRefused, CancelDecide, CancelRelease,
        CancelPublish, storeVars
  <2>. QED BY <2>1
<1>. QED BY <1>1, <1>2, <1>3, <1>4, <1>5

LEMMA ExecuteAborts ==
  ASSUME TypeInv, SlotInv, OutcomeInv, NEW r \in Runs, Execute(r),
         NEW t \in Tasks,
         row'[t].status = "aborted", row[t].status # "aborted"
  PROVE  \/ hist[t].cancelled
         \/ SkipAborted(r) /\ run[r].task = t
<1>1. CASE SkipAborted(r)
  BY <1>1 DEF SkipAborted, TypeInv, StoreInv, StoreTypeOK
<1>2. CASE StoreOutcome(r) \/ EndAbort(r)
  <2>1. run[r].pc \in {"store", "final"} /\ run[r].task \in Tasks
    BY <1>2, RunHasTask DEF StoreOutcome, EndAbort
  <2>. DEFINE x == Flushed(r)
              y == Swap(x, run[r].target, run[r].target = "failure")
  <2>2. row' = [row EXCEPT ![run[r].task] = x]
          \/ row' = [row EXCEPT ![run[r].task] = y]
    BY <1>2 DEF StoreOutcome, EndAbort
  <2>3. /\ x.status = "in_progress" \/ x.status = row[run[r].task].status
        /\ y.status = run[r].target
    BY <2>1, FlushedFields, SwapFields DEF TaskOf
  <2>. HIDE DEF x, y
  <2>4. run[r].task = t /\ run[r].target = "aborted"
    BY <2>1, <2>2, <2>3 DEF TypeInv, StoreInv, StoreTypeOK
  <2>. QED BY <2>1, <2>4 DEF OutcomeInv, RunTells, TargetTells
<1>3. CASE RegisterHandler(r) \/ UpdateTask(r)
  <2>1. run[r].task \in Tasks
    BY <1>3, RunHasTask DEF RegisterHandler, UpdateTask
  <2>. DEFINE x == Flushed(r)
              y == [x EXCEPT !.abortable = Exists(run[r].task)]
  <2>2. row' = [row EXCEPT ![run[r].task] = x]
          \/ row' = [row EXCEPT ![run[r].task] = y]
    BY <1>3 DEF RegisterHandler, UpdateTask
  <2>3. /\ x.status = "in_progress" \/ x.status = row[run[r].task].status
        /\ y.status = x.status
    BY <2>1, FlushedFields DEF TaskOf, Row
  <2>. HIDE DEF x, y
  <2>. QED BY <2>1, <2>2, <2>3 DEF TypeInv, StoreInv, StoreTypeOK
<1>4. CASE Pickup(r)
  BY <1>4 DEF Pickup, Swap, TypeInv, StoreInv, StoreTypeOK, Row
<1>5. CASE ReportFailure(r)
  BY <1>5 DEF ReportFailure, SetStatus, TypeInv, StoreInv, StoreTypeOK, Row
<1>6. CASE ~(\/ SkipAborted(r) \/ StoreOutcome(r) \/ EndAbort(r)
             \/ RegisterHandler(r) \/ UpdateTask(r) \/ Pickup(r)
             \/ ReportFailure(r))
  <2>1. row' = row
    BY <1>6
    DEF Execute, Fetch, PickupFails, StartListener, BodyEnds, Settle,
        StopThreads, AbortCheck, CleanupHandlers, Report, ReportUnlocks,
        ReportRefused, Decide, storeVars
  <2>. QED BY <2>1
<1>. QED BY <1>1, <1>2, <1>3, <1>4, <1>5, <1>6

LEMMA BackgroundAborts ==
  ASSUME TypeInv, NEW r \in Runs, Background(r), NEW t \in Tasks,
         row'[t].status = "aborted"
  PROVE  row[t].status = "aborted"
<1>1. CASE TimerAborts(r)
  BY <1>1 DEF TimerAborts, SetStatus, TypeInv, StoreInv, StoreTypeOK, Row
<1>2. CASE ~TimerAborts(r)
  BY <1>2
  DEF Background, TimerFires, TimerReads, TimerUnlocks, TimerRefused,
      ListenerHears, Detect, Claim, Handle, storeVars
<1>. QED BY <1>1, <1>2

\* A run that skips the only delivery of its task cannot have been preceded
\* by one that ran out of time; without timeouts none can run out of time.
LEMMA SkippedIsCancelled ==
  ASSUME TypeInv, SlotInv, OutcomeInv, DeliveryInv, DeadlineInv,
         AbortsAreCancels, NEW r \in Runs, SkipAborted(r)
  PROVE  hist[run[r].task].cancelled
<1>0. PICK t \in Tasks : run[r].task = t
  BY RunHasTask DEF SkipAborted
<1>1. Caused(t) /\ ~Begun(r)
  BY <1>0 DEF SkipAborted, OutcomeInv, RunTells, StartTells, CauseTells
<1>2. ASSUME NEW s \in Runs, run[s].task = t, run[s].timedOut
      PROVE  FALSE
  <2>1. CASE MaxDeliveries = 1
    BY <1>0, <1>1, <1>2, <2>1 DEF DeliveryInv, Begun
  <2>2. CASE TRUE \notin TimeoutOptions
    BY <1>2, <2>2 DEF DeadlineInv
  <2>. QED BY <2>1, <2>2 DEF AbortsAreCancels
<1>. QED BY <1>0, <1>1, <1>2 DEF Caused, OutcomeInv, RowTells, OutOfTime

LEMMA NextKeepsAbortedInv ==
  ASSUME TypeInv, SlotInv, OutcomeInv, DeliveryInv, DeadlineInv, AbortedInv,
         [Next]_vars
  PROVE  AbortedInv'
<1>. SUFFICES ASSUME AbortsAreCancels, NEW t \in Tasks,
                     row'[t].status = "aborted"
              PROVE  hist'[t].cancelled
  BY DEF AbortedInv, AbortsAreCancels
<1>1. CASE row[t].status = "aborted"
  BY <1>1, CancelledStays DEF AbortedInv
<1>2. ASSUME NEW r \in Runs, row[t].status # "aborted",
             Execute(r) \/ Background(r)
      PROVE  hist'[t].cancelled
  BY <1>2, ExecuteAborts, BackgroundAborts, SkippedIsCancelled,
     CancelledStays
<1>3. ASSUME row[t].status # "aborted", StoreStep \/ UNCHANGED vars
      PROVE  FALSE
  <2>1. CASE UNCHANGED vars
    BY <1>3, <2>1 DEF vars, storeVars
  <2>2. ASSUME NEW o \in Tasks, Redeliver(o) PROVE FALSE
    BY <1>3, <2>2 DEF Redeliver
  <2>3. ASSUME NEW o \in Tasks, Prune(o) PROVE FALSE
    <3>1. /\ row'[o].status = Pruned
          /\ \A p \in Tasks \ {o} : row'[p] = row[p]
      BY <2>3 DEF Prune, TypeInv, StoreInv, StoreTypeOK, Row
    <3>. QED BY <1>3, <3>1 DEF Pruned
  <2>. QED BY <1>3, <2>1, <2>2, <2>3 DEF StoreStep
<1>4. ASSUME NEW r \in Runs, row[t].status # "aborted", WorkerDies(r)
      PROVE  FALSE
  BY <1>4 DEF WorkerDies
<1>. QED BY <1>1, <1>2, <1>3, <1>4, RequestAborts
     DEF Next, RequestStep, RunStep, CrashStep

LEMMA AbortedInvCorrect == Spec => []AbortedInv
<1>1. Init => AbortedInv
  BY DEF Init, StoreInit, NoRow, Absent, AbortedInv
<1>2. (TypeInv /\ SlotInv) /\ OutcomeInv /\ DeliveryInv /\ DeadlineInv
        /\ AbortedInv /\ [Next]_vars => AbortedInv'
  BY NextKeepsAbortedInv
<1>. QED BY <1>1, <1>2, SlotInvCorrect, OutcomeInvCorrect,
            DeliveryInvCorrect, DeadlineInvCorrect, PTL DEF Spec

\* The terminal status of a task tells what happened to it: SUCCESS that its
\* function returned, FAILURE that it was at least run to an end, ABORTED
\* that somebody cancelled it, TIMED_OUT that its deadline had passed.  The
\* hypothesis is about ABORTED alone: the message of a task that its timeout
\* is aborting, delivered a second time, finds ABORTING and makes it ABORTED
\* (execute_task cannot tell the two causes apart).
THEOREM ResultsAreHonest ==
  ASSUME AbortsAreCancels
  PROVE  Spec => []ResultIsHonest
<1>1. OutcomeInv /\ AbortedInv => ResultIsHonest
  BY DEF OutcomeInv, RowTells, AbortedInv, ResultIsHonest
<1>. QED BY <1>1, OutcomeInvCorrect, AbortedInvCorrect, PTL
-----------------------------------------------------------------------------
(***************************************************************************)
(* A task never falls back.  execute_task assigns IN_PROGRESS to its own   *)
(* instance after the pickup; the assignment waits for the next commit.    *)
(* Only a registered handler makes a task abortable, and its registration  *)
(* is such a commit: an abort finds nothing left to be flushed.            *)
(***************************************************************************)
RunFlushes(x) == x.dirty => ~x.registered
FlushInv == \A r \in Runs : RunFlushes(run[r])

LEMMA RunStepFlushes ==
  ASSUME TypeInv, FlushInv, NEW r \in Runs, NEW x,
         run' = [run EXCEPT ![r] = x], RunFlushes(x)
  PROVE  FlushInv'
<1>1. run'[r] = x /\ \A s \in Runs \ {r} : run'[s] = run[s]
  BY RunUpdated
<1>. QED BY <1>1 DEF FlushInv

\* A step that registers no handler and assigns nothing.
LEMMA QuietStepFlushes ==
  ASSUME FlushInv,
         \A r \in Runs : /\ run'[r].dirty => run[r].dirty
                         /\ run'[r].registered = run[r].registered
  PROVE  FlushInv'
BY DEF FlushInv, RunFlushes

LEMMA PickupFlushes ==
  ASSUME TypeInv, OutcomeInv, FlushInv, NEW r \in Runs, Pickup(r)
  PROVE  FlushInv'
<1>. DEFINE x == [run[r] EXCEPT !.pc = "body", !.seen = NoRow,
                    !.dirty = TRUE, !.loaded = "in_progress"]
<1>1. run[r].pc = "fetched"
  BY DEF Pickup
<1>2. ~run[r].registered
  BY <1>1, BegunCases DEF OutcomeInv, RunTells, StartTells
<1>3. x.registered = run[r].registered
  BY RunTyped DEF RunState
<1>4. run' = [run EXCEPT ![r] = x]
  BY DEF Pickup, TypeInv, ExecInv, ExecutionTypeOK
<1>. HIDE DEF x
<1>. QED BY <1>2, <1>3, <1>4, RunStepFlushes DEF RunFlushes

LEMMA RegisterHandlerFlushes ==
  ASSUME TypeInv, FlushInv, NEW r \in Runs, RegisterHandler(r)
  PROVE  FlushInv'
<1>. DEFINE x == [Committed(run[r]) EXCEPT !.registered = TRUE,
                                           !.pc = "listen"]
<1>1. ~x.dirty
  BY RunTyped DEF Committed, RunState
<1>2. run' = [run EXCEPT ![r] = x]
  BY DEF RegisterHandler
<1>. HIDE DEF x
<1>. QED BY <1>1, <1>2, RunStepFlushes DEF RunFlushes

LEMMA FetchFlushes ==
  ASSUME TypeInv, FlushInv, NEW r \in Runs, Fetch(r)
  PROVE  FlushInv'
<1>1. PICK t \in Tasks :
        run' = [run EXCEPT ![r] = [NewRun EXCEPT
             !.task = t, !.seen = IF Exists(t) THEN row[t] ELSE NoRow,
             !.pc = IF Exists(t) THEN "fetched" ELSE "done"]]
  BY DEF Fetch
<1>. DEFINE x == [NewRun EXCEPT
             !.task = t, !.seen = IF Exists(t) THEN row[t] ELSE NoRow,
             !.pc = IF Exists(t) THEN "fetched" ELSE "done"]
<1>2. ~x.dirty
  BY DEF NewRun
<1>3. run' = [run EXCEPT ![r] = x]
  BY <1>1
<1>. HIDE DEF x
<1>. QED BY <1>2, <1>3, RunStepFlushes DEF RunFlushes

LEMMA AbortCheckFlushes ==
  ASSUME TypeInv, FlushInv, NEW r \in Runs, AbortCheck(r)
  PROVE  FlushInv'
<1>1. CASE Unnoticed(r)
  <2>1. PICK f : run' = [run EXCEPT ![r] = [AfterHandlers(run[r], f) EXCEPT
                                       !.pc = "cleaners", !.dirty = FALSE]]
    BY <1>1 DEF AbortCheck
  <2>. DEFINE x == [AfterHandlers(run[r], f) EXCEPT
                      !.pc = "cleaners", !.dirty = FALSE]
  <2>2. ~x.dirty
    BY RunTyped DEF AfterHandlers, RunState
  <2>3. run' = [run EXCEPT ![r] = x]
    BY <2>1
  <2>. HIDE DEF x
  <2>. QED BY <2>2, <2>3, RunStepFlushes DEF RunFlushes
<1>2. CASE ~Unnoticed(r)
  <2>. DEFINE x == [run[r] EXCEPT !.pc = "cleaners", !.dirty = FALSE]
  <2>1. ~x.dirty
    BY RunTyped DEF RunState
  <2>2. run' = [run EXCEPT ![r] = x]
    BY <1>2 DEF AbortCheck, TypeInv, ExecInv, ExecutionTypeOK
  <2>. HIDE DEF x
  <2>. QED BY <2>1, <2>2, RunStepFlushes DEF RunFlushes
<1>. QED BY <1>1, <1>2

\* A commit of the executor's session flushes the assignment.
LEMMA CommitsFlush ==
  ASSUME TypeInv, FlushInv, NEW r \in Runs,
         UpdateTask(r) \/ StoreOutcome(r) \/ ReportFailure(r) \/ EndAbort(r)
  PROVE  FlushInv'
<1>. USE DEF TypeInv, ExecInv, ExecutionTypeOK, RunState, Committed
<1>1. CASE UpdateTask(r)
  <2>1. \A s \in Runs : /\ run'[s].dirty => run[s].dirty
                        /\ run'[s].registered = run[s].registered
    BY <1>1 DEF UpdateTask
  <2>. QED BY <2>1, QuietStepFlushes
<1>2. CASE StoreOutcome(r)
  <2>1. \A s \in Runs : /\ run'[s].dirty => run[s].dirty
                        /\ run'[s].registered = run[s].registered
    BY <1>2 DEF StoreOutcome
  <2>. QED BY <2>1, QuietStepFlushes
<1>3. CASE ReportFailure(r)
  <2>1. \A s \in Runs : /\ run'[s].dirty => run[s].dirty
                        /\ run'[s].registered = run[s].registered
    BY <1>3 DEF ReportFailure
  <2>. QED BY <2>1, QuietStepFlushes
<1>4. CASE EndAbort(r)
  <2>1. \A s \in Runs : /\ run'[s].dirty => run[s].dirty
                        /\ run'[s].registered = run[s].registered
    BY <1>4 DEF EndAbort
  <2>. QED BY <2>1, QuietStepFlushes
<1>. QED BY <1>1, <1>2, <1>3, <1>4

\* The other steps of an executor.
LEMMA QuietExecuteFlushes ==
  ASSUME TypeInv, FlushInv, NEW r \in Runs,
         \/ SkipAborted(r) \/ PickupFails(r) \/ StartListener(r)
         \/ BodyEnds(r) \/ Settle(r) \/ StopThreads(r) \/ CleanupHandlers(r)
         \/ Report(r) \/ ReportUnlocks(r) \/ ReportRefused(r) \/ Decide(r)
  PROVE  FlushInv'
<1>. DEFINE Unassigned(x, y) == \A s \in Runs :
              (y[s].dirty => x[s].dirty) /\ y[s].registered = x[s].registered
<1>. SUFFICES Unassigned(run, run')
  BY QuietStepFlushes
<1>. USE DEF TypeInv, ExecInv, ExecutionTypeOK, RunState
<1>1. CASE SkipAborted(r)
  BY <1>1 DEF SkipAborted
<1>2. CASE PickupFails(r)
  BY <1>2 DEF PickupFails
<1>3. CASE StartListener(r)
  BY <1>3 DEF StartListener
<1>4. CASE BodyEnds(r)
  <2>1. PICK f : run' = [run EXCEPT ![r].pc = "settle", ![r].failed = f,
                                    ![r].completed = Async(r)]
    BY <1>4 DEF BodyEnds
  <2>. QED BY <2>1
<1>5. CASE Settle(r)
  BY <1>5 DEF Settle
<1>6. CASE StopThreads(r)
  BY <1>6 DEF StopThreads
<1>7. CASE CleanupHandlers(r)
  <2>1. PICK fs, pc : run' = [run EXCEPT ![r].failures = fs, ![r].pc = pc]
    BY <1>7 DEF CleanupHandlers
  <2>. QED BY <2>1
<1>8. CASE Report(r)
  BY <1>8 DEF Report
<1>9. CASE ReportUnlocks(r)
  BY <1>9 DEF ReportUnlocks
<1>10. CASE ReportRefused(r)
  BY <1>10 DEF ReportRefused
<1>11. CASE Decide(r)
  BY <1>11 DEF Decide
<1>. HIDE DEF Unassigned, TypeInv
<1>. QED BY <1>1, <1>2, <1>3, <1>4, <1>5, <1>6, <1>7, <1>8, <1>9, <1>10, <1>11

LEMMA BackgroundFlushes ==
  ASSUME TypeInv, FlushInv, NEW r \in Runs, Background(r)
  PROVE  FlushInv'
<1>. DEFINE Unassigned(x, y) == \A s \in Runs :
              (y[s].dirty => x[s].dirty) /\ y[s].registered = x[s].registered
<1>. SUFFICES Unassigned(run, run')
  BY QuietStepFlushes
<1>. USE DEF TypeInv, ExecInv, ExecutionTypeOK, RunState
<1>1. CASE TimerFires(r)
  BY <1>1 DEF TimerFires
<1>2. CASE TimerReads(r)
  BY <1>2 DEF TimerReads
<1>3. CASE TimerUnlocks(r) \/ TimerAborts(r) \/ TimerRefused(r)
             \/ ListenerHears(r)
  BY <1>3 DEF TimerUnlocks, TimerAborts, TimerRefused, ListenerHears
<1>4. ASSUME NEW h \in Threads, Detect(r, h)
      PROVE  Unassigned(run, run')
  BY <1>4 DEF Detect
<1>5. ASSUME NEW h \in Threads, Claim(r, h)
      PROVE  Unassigned(run, run')
  BY <1>5 DEF Claim
<1>6. ASSUME NEW h \in Threads, Handle(r, h)
      PROVE  Unassigned(run, run')
  BY <1>6 DEF Handle, AfterHandlers
<1>. HIDE DEF Unassigned, TypeInv
<1>. QED BY <1>1, <1>2, <1>3, <1>4, <1>5, <1>6 DEF Background

LEMMA NextKeepsFlushInv ==
  ASSUME TypeInv, OutcomeInv, FlushInv, [Next]_vars
  PROVE  FlushInv'
<1>1. ASSUME NEW r \in Runs, Execute(r) PROVE FlushInv'
  BY <1>1, FetchFlushes, PickupFlushes, RegisterHandlerFlushes,
     AbortCheckFlushes, CommitsFlush, QuietExecuteFlushes DEF Execute
<1>2. ASSUME NEW r \in Runs, WorkerDies(r) PROVE FlushInv'
  <2>1. \A s \in Runs : /\ run'[s].dirty => run[s].dirty
                        /\ run'[s].registered = run[s].registered
    BY <1>2 DEF WorkerDies, TypeInv, ExecInv, ExecutionTypeOK, RunState
  <2>. QED BY <2>1, QuietStepFlushes
<1>3. ASSUME UNCHANGED execVars PROVE FlushInv'
  BY <1>3 DEF execVars, FlushInv
<1>4. CASE UNCHANGED vars
  BY <1>3, <1>4 DEF vars, execVars
<1>. QED BY <1>1, <1>2, <1>3, <1>4, BackgroundFlushes
     DEF Next, RunStep, CrashStep, execVars

LEMMA FlushInvCorrect == Spec => []FlushInv
<1>1. Init => FlushInv
  BY DEF Init, ExecutionInit, NewRun, FlushInv, RunFlushes
<1>2. (TypeInv /\ SlotInv) /\ OutcomeInv /\ FlushInv /\ [Next]_vars
        => FlushInv'
  BY NextKeepsFlushInv
<1>. QED BY <1>1, <1>2, SlotInvCorrect, OutcomeInvCorrect, PTL DEF Spec

\* The run of a task that is being aborted has nothing to flush.
LEMMA AbortingIsFlushed ==
  ASSUME OutcomeInv, FlushInv, NEW r \in Runs, Begun(r),
         NEW t \in Tasks, run[r].task = t, row[t].status = "aborting"
  PROVE  Flushed(r) = row[t]
<1>1. PICK s \in Runs : run[s].task = t /\ run[s].registered
  BY DEF OutcomeInv, RowTells, HasHandler
<1>2. s = r
  BY <1>1 DEF OutcomeInv, OneBegins, Begun
<1>3. ~run[r].dirty
  BY <1>1, <1>2 DEF FlushInv, RunFlushes
<1>. QED BY <1>3 DEF Flushed, TaskOf

\* A write of the executor's own instance.
LEMMA InstanceWriteStays ==
  ASSUME TypeInv, SlotInv, OutcomeInv, FlushInv, NEW r \in Runs,
         run[r].pc \notin {"new", "fetched", "done"},
         NEW y, row' = [row EXCEPT ![run[r].task] = y],
         y.status \in {Flushed(r).status} \cup TERMINAL_STATES,
         NEW t \in Tasks, row[t].status = "aborting"
  PROVE  row'[t].status # "in_progress"
<1>1. run[r].task \in Tasks /\ Begun(r)
  BY RunHasTask DEF Begun
<1>2. /\ row'[run[r].task] = y
      /\ \A o \in Tasks \ {run[r].task} : row'[o] = row[o]
  BY <1>1 DEF TypeInv, StoreInv, StoreTypeOK
<1>3. CASE run[r].task = t
  <2>1. Flushed(r) = row[t]
    BY <1>1, <1>3, AbortingIsFlushed
  <2>. QED BY <1>2, <1>3, <2>1 DEF TERMINAL_STATES
<1>4. CASE run[r].task # t
  BY <1>2, <1>4
<1>. QED BY <1>3, <1>4

LEMMA ExecuteMovesOn ==
  ASSUME TypeInv, SlotInv, OutcomeInv, FlushInv, NEW r \in Runs, Execute(r),
         NEW t \in Tasks, row[t].status = "aborting"
  PROVE  row'[t].status # "in_progress"
<1>1. CASE SkipAborted(r)
  BY <1>1 DEF SkipAborted, Swap, TypeInv, StoreInv, StoreTypeOK, Row
<1>2. CASE Pickup(r)
  BY <1>2 DEF Pickup, CanSwap, PickupFrom, TypeInv, StoreInv, StoreTypeOK
<1>3. CASE ReportFailure(r)
  BY <1>3 DEF ReportFailure, SetStatus, TypeInv, StoreInv, StoreTypeOK, Row
<1>4. CASE RegisterHandler(r)
  <2>. DEFINE y == [Flushed(r) EXCEPT !.abortable = Exists(run[r].task)]
  <2>1. run[r].pc = "body" /\ row' = [row EXCEPT ![run[r].task] = y]
    BY <1>4 DEF RegisterHandler
  <2>2. y.status = Flushed(r).status
    BY <2>1, RunHasTask, FlushedFields DEF Row
  <2>. HIDE DEF y
  <2>. QED BY <2>1, <2>2, InstanceWriteStays
<1>5. CASE UpdateTask(r)
  BY <1>5, InstanceWriteStays DEF UpdateTask
<1>6. CASE StoreOutcome(r) \/ EndAbort(r)
  <2>. DEFINE x == Flushed(r)
              y == Swap(x, run[r].target, run[r].target = "failure")
  <2>1. run[r].pc \in {"store", "final"}
    BY <1>6 DEF StoreOutcome, EndAbort
  <2>2. row' = [row EXCEPT ![run[r].task] = x]
          \/ row' = [row EXCEPT ![run[r].task] = y]
    BY <1>6 DEF StoreOutcome, EndAbort
  <2>3. y.status = run[r].target /\ run[r].target \in TERMINAL_STATES
    <3>1. x \in Row
      BY <2>1, RunHasTask, FlushedFields
    <3>2. y.status = run[r].target
      BY <3>1, SwapFields
    <3>. QED BY <3>2, RunTyped DEF RunState
  <2>4. CASE row' = [row EXCEPT ![run[r].task] = x]
    BY <2>1, <2>4, InstanceWriteStays
  <2>5. CASE row' = [row EXCEPT ![run[r].task] = y]
    <3>. HIDE DEF y
    <3>. QED BY <2>1, <2>3, <2>5, InstanceWriteStays
  <2>. QED BY <2>2, <2>4, <2>5
<1>7. CASE ~(\/ SkipAborted(r) \/ StoreOutcome(r) \/ EndAbort(r)
             \/ RegisterHandler(r) \/ UpdateTask(r) \/ Pickup(r)
             \/ ReportFailure(r))
  <2>1. row' = row
    BY <1>7
    DEF Execute, Fetch, PickupFails, StartListener, BodyEnds, Settle,
        StopThreads, AbortCheck, CleanupHandlers, Report, ReportUnlocks,
        ReportRefused, Decide, storeVars
  <2>. QED BY <2>1
<1>. QED BY <1>1, <1>2, <1>3, <1>4, <1>5, <1>6, <1>7

LEMMA BackgroundMovesOn ==
  ASSUME TypeInv, NEW r \in Runs, Background(r), NEW t \in Tasks,
         row[t].status = "aborting"
  PROVE  row'[t].status # "in_progress"
<1>1. CASE TimerAborts(r)
  BY <1>1 DEF TimerAborts, SetStatus, TypeInv, StoreInv, StoreTypeOK, Row
<1>2. CASE ~TimerAborts(r)
  <2>1. row' = row
    BY <1>2
    DEF Background, TimerFires, TimerReads, TimerUnlocks, TimerRefused,
        ListenerHears, Detect, Claim, Handle, storeVars
  <2>. QED BY <2>1
<1>. QED BY <1>1, <1>2

LEMMA RequestMovesOn ==
  ASSUME TypeInv, NEW u \in Users,
         Submit(u) \/ Cancel(u) \/ SubmitterDies(u), NEW t \in Tasks,
         row[t].status = "aborting"
  PROVE  row'[t].status # "in_progress"
<1>. USE DEF TypeInv, StoreInv, StoreTypeOK, Row
<1>1. CASE CancelAbort(u)
  BY <1>1 DEF CancelAbort, SetStatus, AbortTarget
<1>2. CASE SubmitCreate(u)
  BY <1>2 DEF SubmitCreate, NewRow
<1>3. CASE SubmitJoin(u)
  BY <1>3 DEF SubmitJoin
<1>4. CASE CancelUnsubscribe(u)
  BY <1>4 DEF CancelUnsubscribe
<1>5. CASE ~(\/ CancelAbort(u) \/ SubmitCreate(u) \/ SubmitJoin(u)
             \/ CancelUnsubscribe(u))
  <2>1. row' = row
    BY <1>5
    DEF Submit, SubmitLookup, SubmitUnlock, SubmitConflict, Schedule,
        WaitEnds, WaitTimesOut, SubmitterDies, Cancel, CancelFetch,
        CancelLock, CancelRefused, CancelDecide, CancelRelease,
        CancelPublish, storeVars
  <2>. QED BY <2>1
<1>. QED BY <1>1, <1>2, <1>3, <1>4, <1>5

\* No step ends an abort by declaring the task running again.
LEMMA AbortsMoveOn ==
  ASSUME TypeInv, SlotInv, OutcomeInv, FlushInv, [Next]_vars,
         NEW t \in Tasks, row[t].status = "aborting"
  PROVE  row'[t].status # "in_progress"
<1>1. ASSUME NEW o \in Tasks, Redeliver(o) \/ Prune(o)
      PROVE  row'[t].status # "in_progress"
  <2>1. CASE Redeliver(o)
    BY <2>1 DEF Redeliver
  <2>2. CASE Prune(o)
    BY <2>2 DEF Prune, Pruned, TypeInv, StoreInv, StoreTypeOK, Row
  <2>. QED BY <1>1, <2>1, <2>2
<1>2. ASSUME NEW r \in Runs, WorkerDies(r)
      PROVE  row'[t].status # "in_progress"
  BY <1>2 DEF WorkerDies
<1>3. CASE UNCHANGED vars
  BY <1>3 DEF vars, storeVars
<1>. QED BY <1>1, <1>2, <1>3, ExecuteMovesOn, BackgroundMovesOn,
            RequestMovesOn
     DEF Next, RequestStep, RunStep, StoreStep, CrashStep

\* PENDING is only ever the status of a new row.
LEMMA NeverPendingAgain ==
  ASSUME TypeInv, SlotMove, NEW t \in Tasks,
         row[t].status \in ACTIVE_STATES, row[t].status # "pending"
  PROVE  row'[t].status # "pending"
<1>1. CASE row' = row
  BY <1>1
<1>2. ASSUME NEW o \in Tasks, OnlyRow(o), o # t
      PROVE  row'[t] = row[t]
  BY <1>2 DEF OnlyRow, TypeInv, StoreInv, StoreTypeOK
<1>3. ASSUME NEW o \in Tasks, RowWritten(o)
      PROVE  row'[t].status # "pending"
  BY <1>2, <1>3 DEF RowWritten, RowKept
<1>4. ASSUME NEW o \in Tasks, RowCreated(o)
      PROVE  row'[t].status # "pending"
  BY <1>2, <1>4, StatusNames DEF RowCreated
<1>5. ASSUME NEW o \in Tasks, RowStarted(o)
      PROVE  row'[t].status # "pending"
  BY <1>2, <1>5 DEF RowStarted
<1>. QED BY <1>1, <1>3, <1>4, <1>5 DEF SlotMove

\* A task that has not ended never falls back, whatever stale copies the
\* requests and the three threads of a run write and whoever dies: PENDING
\* is left by a compare-and-swap only, and the IN_PROGRESS that execute_task
\* leaves for a later commit of its session to write has been written before
\* the task can be aborted, since on_abort commits what makes it abortable.
THEOREM StatusesMoveOn == Spec => StatusMovesOn
<1>1. (TypeInv /\ SlotInv) /\ OutcomeInv /\ FlushInv /\ [Next]_vars
        => [\A t \in Tasks : row[t].status \in ACTIVE_STATES
              => row'[t].status \notin LeftBehind[row[t].status]]_vars
  <2>. SUFFICES ASSUME TypeInv, SlotInv, OutcomeInv, FlushInv, [Next]_vars,
                       NEW t \in Tasks, row[t].status \in ACTIVE_STATES
                PROVE  row'[t].status \notin LeftBehind[row[t].status]
    OBVIOUS
  <2>1. SlotMove
    BY NextTyped, NextKeepsSlotInv
  <2>2. row[t].status # "pending" => row'[t].status # "pending"
    BY <2>1, NeverPendingAgain
  <2>3. row[t].status = "aborting" => row'[t].status # "in_progress"
    BY AbortsMoveOn
  <2>. QED BY <2>2, <2>3 DEF LeftBehind, ACTIVE_STATES
<1>. QED BY <1>1, SlotInvCorrect, OutcomeInvCorrect, FlushInvCorrect, PTL
     DEF Spec, StatusMovesOn
-----------------------------------------------------------------------------
(***************************************************************************)
(* Who is in charge of a task that holds its slot.                         *)
(***************************************************************************)
\* Only asynchronous tasks without timeouts, no crashes, and no handler that
\* raises: drop any of these conditions, and a slot may be left behind.
Orderly ==
  /\ Modes \subseteq {"async"} /\ TRUE \notin TimeoutOptions
  /\ ~Crashes /\ ~HandlersFail /\ ~CleanupFails

AllAsync ==
  /\ \A t \in Tasks : row[t].mode = "async"
  /\ \A u \in Users : req[u].mode = "async"

\* The places of a run that has started the function, and those behind the
\* store of its outcome.
LivePlaces == {"body", "listen", "settle", "store", "cleanup", "abortcheck",
               "cleaners", "decide", "final"}
EndPlaces == {"cleanup", "abortcheck", "cleaners", "decide", "final"}

Awaited(t) ==
  \/ \E u \in Users : req[u].pc = "scheduling" /\ req[u].task = t
  \/ queue[t] > 0
  \/ \E r \in Runs : run[r].task = t /\ run[r].pc = "fetched"

Executed(t) == \E r \in Runs : run[r].task = t /\ run[r].pc \in LivePlaces

\* A pending row waits for its message, any other one is executed.
Owned(t) ==
  row[t].keyed =>
    IF row[t].status = "pending" THEN Awaited(t) ELSE Executed(t)

\* Whoever has been told of an abort finds it in the row, or finds the slot
\* given back.
Aborting(t) == row[t].keyed => row[t].status = "aborting"

ChannelHeeds ==
  \A t \in Tasks : channel[t] = "abort" =>
    row[t].status # Absent /\ Aborting(t)

RequestHeeds(q) ==
  /\ q.pc = "publishing" \/ (q.pc = "releasing" /\ q.plan = "published")
       => Aborting(q.task)
  /\ q.pc \in {"cancelling", "locked", "deciding"}
     /\ q.seen.status = "aborting" => Aborting(q.task)

RunHeeds(r) ==
  /\ run[r].pc \notin {"report", "reporting", "unlocked"}
  /\ run[r].failures = {}
  /\ run[r].dirty => ~run[r].registered
  /\ run[r].pc = "store" => run[r].target \in {"success", "failure"}
  /\ run[r].abortDetected \/ thread[r]["listener"].pc \in OnItsWay
       => Aborting(run[r].task)
  /\ run[r].pc \in EndPlaces /\ row[run[r].task].keyed
       => run[r].abortDetected

OwnerInv ==
  /\ ChannelHeeds
  /\ \A u \in Users : RequestHeeds(req[u])
  /\ \A r \in Runs : RunHeeds(r)
  /\ \A t \in Tasks : Owned(t)

\* An abort stays until the slot is given back.
AbortsStay ==
  \A t \in Tasks : row[t].status # Absent /\ Aborting(t) => Aborting(t)'

LEMMA RequestStillHeeds ==
  ASSUME TypeInv, SlotInv, AbortsStay, NEW u \in Users, RequestHeeds(req[u]),
         req'[u] = req[u]
  PROVE  RequestHeeds(req[u])'
<1>1. RequestLocated(req[u]) /\ RequestKnows(req[u])
  BY DEF TypeInv, RequestInv, SlotInv, RequestsKnow
<1>2. CASE req[u].pc \in {"publishing", "releasing", "cancelling", "locked",
                          "deciding"}
  <2>1. req[u].task \in Tasks /\ row[req[u].task].status # Absent
    BY <1>1, <1>2 DEF RequestLocated, RequestKnows
  <2>2. Aborting(req[u].task) => Aborting(req[u].task)'
    BY <2>1 DEF AbortsStay
  <2>. QED BY <2>2 DEF RequestHeeds, Aborting
<1>3. CASE req[u].pc \notin {"publishing", "releasing", "cancelling",
                             "locked", "deciding"}
  BY <1>3 DEF RequestHeeds
<1>. QED BY <1>2, <1>3

LEMMA RunStillHeeds ==
  ASSUME TypeInv, SlotInv, OutcomeInv, RowsMonotone, AbortsStay,
         NEW r \in Runs, RunHeeds(r), run'[r] = run[r], thread'[r] = thread[r]
  PROVE  RunHeeds(r)'
<1>1. CASE run[r].pc = "new"
  <2>1. ~run[r].abortDetected /\ thread[r]["listener"].pc = "off"
    BY <1>1, BegunCases DEF OutcomeInv, RunTells, StartTells
  <2>. QED BY <1>1, <2>1 DEF RunHeeds, EndPlaces, OnItsWay
<1>2. CASE run[r].pc # "new"
  <2>1. run[r].task \in Tasks /\ row[run[r].task].status # Absent
    BY <1>2, RunHasTask
  <2>2. Aborting(run[r].task) => Aborting(run[r].task)'
    BY <2>1 DEF AbortsStay
  <2>3. row'[run[r].task].keyed => row[run[r].task].keyed
    BY <2>1 DEF RowsMonotone
  <2>. QED BY <2>2, <2>3 DEF RunHeeds, Aborting
<1>. QED BY <1>1, <1>2

LEMMA ChannelStillHeeds ==
  ASSUME ChannelHeeds, RowsMonotone, AbortsStay,
         \A t \in Tasks : channel'[t] = "abort" => channel[t] = "abort"
  PROVE  ChannelHeeds'
BY DEF ChannelHeeds, RowsMonotone, AbortsStay, Aborting
-----------------------------------------------------------------------------
(***************************************************************************)
(* Requests.                                                               *)
(***************************************************************************)
\* Rows that keep status and slot.
Standing ==
  \A t \in Tasks : row'[t].status = row[t].status
                   /\ row'[t].keyed = row[t].keyed

LEMMA StandingRows == Standing => RowsMonotone /\ AbortsStay
BY DEF Standing, RowsMonotone, AbortsStay, Aborting

LEMMA CalmRequestOwns ==
  ASSUME TypeInv, TypeInv', SlotInv, OutcomeInv, OwnerInv, NEW u \in Users,
         UNCHANGED execVars, Standing, channel' = channel, queue' = queue,
         NEW q, req' = [req EXCEPT ![u] = q], req[u].pc # "scheduling",
         RequestHeeds(q)
  PROVE  OwnerInv'
<1>1. req'[u] = q /\ \A v \in Users \ {u} : req'[v] = req[v]
  BY RequestUpdated
<1>2. RowsMonotone /\ AbortsStay
  BY StandingRows
<1>3. RequestHeeds(req[u])'
  <2>1. RequestLocated(q)
    BY <1>1 DEF TypeInv, RequestInv
  <2>2. q.task \in Tasks => Aborting(q.task)' = Aborting(q.task)
    BY DEF Aborting, Standing
  <2>3. CASE q.pc \in {"idle", "submitting", "unlocked"}
    BY <1>1, <2>3 DEF RequestHeeds
  <2>4. CASE q.pc \notin {"idle", "submitting", "unlocked"}
    BY <1>1, <2>1, <2>2, <2>4 DEF RequestHeeds, RequestLocated, Aborting
  <2>. QED BY <2>3, <2>4
<1>4. \A v \in Users : RequestHeeds(req[v])'
  BY <1>1, <1>2, <1>3, RequestStillHeeds DEF OwnerInv
<1>5. \A r \in Runs : RunHeeds(r)'
  BY <1>2, RunStillHeeds DEF OwnerInv, execVars
<1>6. ChannelHeeds'
  BY <1>2, ChannelStillHeeds DEF OwnerInv
<1>7. \A t \in Tasks : Awaited(t) => Awaited(t)'
  BY <1>1 DEF Awaited, execVars
<1>8. \A t \in Tasks : Owned(t)'
  BY <1>7 DEF OwnerInv, Owned, Executed, Standing, execVars
<1>. QED BY <1>4, <1>5, <1>6, <1>8 DEF OwnerInv

LEMMA IdleHeeds == RequestHeeds(Idle)
BY DEF RequestHeeds, Idle

LEMMA SameRowsStanding == row' = row => Standing
BY DEF Standing

\* The requests that touch neither status nor slot of a row.
LEMMA SubmitCalmOwns ==
  ASSUME TypeInv, TypeInv', SlotInv, OutcomeInv, OwnerInv, NEW u \in Users,
         UNCHANGED execVars,
         \/ SubmitLookup(u) \/ SubmitUnlock(u) \/ SubmitConflict(u)
         \/ SubmitJoin(u) \/ WaitEnds(u) \/ WaitTimesOut(u)
  PROVE  OwnerInv'
<1>0. req[u] \in Request
  BY DEF TypeInv, RequestInv, RequestTypeOK
<1>1. CASE SubmitLookup(u)
  <2>1. PICK q \in Request : /\ req' = [req EXCEPT ![u] = q]
                             /\ q.pc = "submitting"
    BY <1>1, SubmitLookupPicks, Zenon
  <2>2. RequestHeeds(q)
    BY <2>1 DEF RequestHeeds
  <2>. QED BY <1>1, <2>1, <2>2, CalmRequestOwns, SameRowsStanding DEF SubmitLookup
<1>2. CASE SubmitUnlock(u)
  <2>. DEFINE q == [req[u] EXCEPT !.pc = "unlocked"]
  <2>1. q.pc = "unlocked"
    BY <1>0 DEF Request
  <2>2. RequestHeeds(q) /\ req' = [req EXCEPT ![u] = q]
    BY <1>2, <2>1 DEF RequestHeeds, SubmitUnlock
  <2>. HIDE DEF q
  <2>. QED BY <1>2, <2>2, CalmRequestOwns, SameRowsStanding DEF SubmitUnlock
<1>3. CASE SubmitConflict(u)
  BY <1>3, IdleHeeds, CalmRequestOwns, SameRowsStanding
  DEF SubmitConflict, Committing
<1>4. CASE SubmitJoin(u)
  <2>1. PICK q : /\ req' = [req EXCEPT ![u] = q]
                 /\ q \in {[req[u] EXCEPT !.pc = "waiting"], Idle}
    BY <1>4 DEF SubmitJoin
  <2>2. RequestHeeds(q)
    <3>1. CASE q = [req[u] EXCEPT !.pc = "waiting"]
      <4>1. q.pc = "waiting"
        BY <1>0, <3>1 DEF Request
      <4>. QED BY <4>1 DEF RequestHeeds
    <3>. QED BY <2>1, <3>1, IdleHeeds
  <2>3. Standing
    BY <1>4 DEF SubmitJoin, Standing, TypeInv, StoreInv, StoreTypeOK, Row
  <2>. QED BY <1>4, <2>1, <2>2, <2>3, CalmRequestOwns
       DEF SubmitJoin, Committing
<1>5. CASE WaitEnds(u) \/ WaitTimesOut(u)
  BY <1>5, IdleHeeds, CalmRequestOwns, SameRowsStanding
  DEF WaitEnds, WaitTimesOut, storeVars
<1>. QED BY <1>1, <1>2, <1>3, <1>4, <1>5

\* What a cancel reads of an abort is in the row when it reads it.
LEMMA CancelCalmOwns ==
  ASSUME TypeInv, TypeInv', SlotInv, OutcomeInv, OwnerInv, NEW u \in Users,
         UNCHANGED execVars,
         \/ CancelFetch(u) \/ CancelLock(u) \/ CancelRefused(u)
         \/ CancelDecide(u) \/ CancelUnsubscribe(u) \/ CancelRelease(u)
  PROVE  OwnerInv'
<1>0. req[u] \in Request /\ RequestHeeds(req[u])
  BY DEF TypeInv, RequestInv, RequestTypeOK, OwnerInv
<1>1. CASE CancelFetch(u)
  <2>1. PICK t \in Tasks, f \in BOOLEAN :
          req' = [req EXCEPT ![u] = [Idle EXCEPT
                    !.pc = "cancelling", !.key = row[t].key, !.task = t,
                    !.force = f, !.seen = row[t]]]
    BY <1>1 DEF CancelFetch
  <2>. DEFINE q == [Idle EXCEPT !.pc = "cancelling", !.key = row[t].key,
                      !.task = t, !.force = f, !.seen = row[t]]
  <2>2. q.pc = "cancelling" /\ q.task = t /\ q.seen = row[t]
    BY DEF Idle
  <2>3. req' = [req EXCEPT ![u] = q]
    BY <2>1
  <2>. HIDE DEF q
  <2>4. RequestHeeds(q)
    BY <2>2 DEF RequestHeeds, Aborting
  <2>. QED BY <1>1, <2>3, <2>4, CalmRequestOwns, SameRowsStanding
       DEF CancelFetch, storeVars
<1>2. CASE CancelLock(u)
  <2>. DEFINE q == [req[u] EXCEPT !.pc = "locked"]
  <2>1. /\ q.pc = "locked" /\ q.task = req[u].task /\ q.seen = req[u].seen
    BY <1>0 DEF Request
  <2>2. req' = [req EXCEPT ![u] = q] /\ req[u].pc = "cancelling"
    BY <1>2 DEF CancelLock
  <2>. HIDE DEF q
  <2>3. RequestHeeds(q)
    BY <1>0, <2>1, <2>2 DEF RequestHeeds
  <2>. QED BY <1>2, <2>2, <2>3, CalmRequestOwns, SameRowsStanding
       DEF CancelLock
<1>3. CASE CancelRefused(u)
  BY <1>3, IdleHeeds, CalmRequestOwns, SameRowsStanding
  DEF CancelRefused, storeVars
<1>4. CASE CancelDecide(u)
  <2>. DEFINE s == IF Redis THEN req[u].seen ELSE row[req[u].task]
              p == IF Visible(u, req[u].task)
                   THEN CancelPlan(u, s, req[u].force) ELSE "none"
              q == [req[u] EXCEPT !.seen = s, !.plan = p,
                      !.pc = IF p = "none" THEN "releasing" ELSE "deciding"]
  <2>1. req' = [req EXCEPT ![u] = q] /\ req[u].pc = "locked"
    BY <1>4 DEF CancelDecide
  <2>2. p # "published"
    BY DEF CancelPlan
  <2>3. /\ q.pc \in {"releasing", "deciding"} /\ q.task = req[u].task
        /\ q.seen = s /\ q.plan = p
    BY <1>0 DEF Request
  <2>. HIDE DEF p, q
  <2>4. RequestHeeds(q)
    BY <1>0, <2>1, <2>2, <2>3 DEF RequestHeeds, Aborting
  <2>. QED BY <1>4, <2>1, <2>4, CalmRequestOwns, SameRowsStanding
       DEF CancelDecide, storeVars
<1>5. CASE CancelUnsubscribe(u)
  <2>. DEFINE q == [req[u] EXCEPT !.pc = "releasing", !.seen = NoRow,
                                  !.plan = "none"]
  <2>1. req' = [req EXCEPT ![u] = q] /\ req[u].pc = "deciding"
    BY <1>5 DEF CancelUnsubscribe
  <2>2. q.pc = "releasing" /\ q.plan = "none"
    BY <1>0 DEF Request
  <2>. HIDE DEF q
  <2>3. RequestHeeds(q)
    BY <2>2 DEF RequestHeeds
  <2>4. Standing
    BY <1>5
    DEF CancelUnsubscribe, Standing, TypeInv, StoreInv, StoreTypeOK, Row
  <2>. QED BY <1>5, <2>1, <2>3, <2>4, CalmRequestOwns DEF CancelUnsubscribe
<1>6. CASE CancelRelease(u)
  <2>. DEFINE q == IF Redis /\ req[u].plan = "published"
                   THEN [req[u] EXCEPT !.pc = "publishing"] ELSE Idle
  <2>1. req' = [req EXCEPT ![u] = q] /\ req[u].pc = "releasing"
    BY <1>6 DEF CancelRelease
  <2>2. RequestHeeds(q)
    <3>1. CASE Redis /\ req[u].plan = "published"
      <4>1. q.pc = "publishing" /\ q.task = req[u].task
        BY <1>0, <3>1 DEF Request
      <4>. HIDE DEF q
      <4>. QED BY <1>0, <2>1, <3>1, <4>1 DEF RequestHeeds
    <3>. QED BY <3>1, IdleHeeds
  <2>. HIDE DEF q
  <2>. QED BY <1>6, <2>1, <2>2, CalmRequestOwns, SameRowsStanding
       DEF CancelRelease
<1>. QED BY <1>1, <1>2, <1>3, <1>4, <1>5, <1>6

\* A created row waits for execute_task.delay.
LEMMA SubmitCreateOwns ==
  ASSUME TypeInv, TypeInv', SlotInv, OutcomeInv, OwnerInv, NEW u \in Users,
         UNCHANGED execVars, SubmitCreate(u)
  PROVE  OwnerInv'
<1>1. PICK t \in Tasks :
        /\ row[t].status = Absent
        /\ row' = [row EXCEPT ![t] = NewRow(req[u].key, u, req[u].mode,
                                            req[u].timeout)]
        /\ req' = [req EXCEPT ![u].pc = "scheduling", ![u].task = t]
  BY DEF SubmitCreate, Fresh
<1>. DEFINE q == [req[u] EXCEPT !.pc = "scheduling", !.task = t]
<1>2. q.pc = "scheduling" /\ q.task = t /\ req[u].pc # "scheduling"
  BY DEF TypeInv, RequestInv, RequestTypeOK, Request, SubmitCreate, Committing
<1>3. req' = [req EXCEPT ![u] = q]
  BY <1>1, <1>2 DEF TypeInv, RequestInv, RequestTypeOK, Request
<1>. HIDE DEF q
<1>4. req'[u] = q /\ \A v \in Users \ {u} : req'[v] = req[v]
  BY <1>3, RequestUpdated
<1>5. /\ row'[t].status = "pending"
      /\ \A o \in Tasks \ {t} : row'[o] = row[o]
  BY <1>1 DEF TypeInv, StoreInv, StoreTypeOK, NewRow
<1>6. RowsMonotone /\ AbortsStay
  BY <1>1, <1>5 DEF RowsMonotone, AbortsStay, Aborting
<1>7. queue' = queue /\ channel' = channel
  BY DEF SubmitCreate
<1>8. RequestHeeds(req[u])'
  BY <1>2, <1>4 DEF RequestHeeds
<1>9. \A v \in Users : RequestHeeds(req[v])'
  BY <1>4, <1>6, <1>8, RequestStillHeeds DEF OwnerInv
<1>10. \A r \in Runs : RunHeeds(r)'
  BY <1>6, RunStillHeeds DEF OwnerInv, execVars
<1>11. ChannelHeeds'
  BY <1>6, <1>7, ChannelStillHeeds DEF OwnerInv
<1>12. ASSUME NEW o \in Tasks PROVE Owned(o)'
  <2>1. Awaited(o) => Awaited(o)'
    BY <1>2, <1>4, <1>7 DEF Awaited, execVars
  <2>2. Awaited(t)'
    BY <1>2, <1>4 DEF Awaited
  <2>. QED BY <1>5, <2>1, <2>2 DEF OwnerInv, Owned, Executed, execVars
<1>. QED BY <1>9, <1>10, <1>11, <1>12 DEF OwnerInv

LEMMA ScheduleOwns ==
  ASSUME TypeInv, TypeInv', SlotInv, OutcomeInv, OwnerInv, NEW u \in Users,
         UNCHANGED execVars, Schedule(u)
  PROVE  OwnerInv'
<1>1. /\ req' = [req EXCEPT ![u] = Idle] /\ row' = row /\ channel' = channel
      /\ queue' = [queue EXCEPT ![req[u].task] = 1]
  BY DEF Schedule
<1>2. req'[u] = Idle /\ \A v \in Users \ {u} : req'[v] = req[v]
  BY <1>1, RequestUpdated
<1>3. RowsMonotone /\ AbortsStay
  BY <1>1, StandingRows, SameRowsStanding
<1>4. RequestHeeds(req[u])'
  BY <1>2 DEF RequestHeeds, Idle
<1>5. \A v \in Users : RequestHeeds(req[v])'
  BY <1>2, <1>3, <1>4, RequestStillHeeds DEF OwnerInv
<1>6. \A r \in Runs : RunHeeds(r)'
  BY <1>3, RunStillHeeds DEF OwnerInv, execVars
<1>7. ChannelHeeds'
  BY <1>1, <1>3, ChannelStillHeeds DEF OwnerInv
<1>8. ASSUME NEW t \in Tasks, Awaited(t) PROVE Awaited(t)'
  <2>1. CASE t = req[u].task
    BY <1>1, <2>1 DEF Awaited, TypeInv, StoreInv, StoreTypeOK
  <2>2. CASE t # req[u].task
    BY <1>1, <1>2, <1>8, <2>2
    DEF Awaited, TypeInv, StoreInv, StoreTypeOK, execVars
  <2>. QED BY <2>1, <2>2
<1>9. \A t \in Tasks : Owned(t)'
  BY <1>1, <1>8 DEF OwnerInv, Owned, Executed, execVars
<1>. QED BY <1>5, <1>6, <1>7, <1>9 DEF OwnerInv

\* A cancel that read PENDING frees the slot, whatever the row says by now;
\* one that read IN_PROGRESS finds a run that listens.
LEMMA CancelAbortOwns ==
  ASSUME TypeInv, TypeInv', SlotInv, OutcomeInv, OwnerInv, NEW u \in Users,
         UNCHANGED execVars, CancelAbort(u)
  PROVE  OwnerInv'
<1>. DEFINE t == req[u].task
            seen == req[u].seen
            s == AbortTarget(seen)
            y == SetStatus(row[t], seen, s)
            q == [req[u] EXCEPT !.pc = "releasing", !.seen = NoRow,
                    !.plan = IF s = "aborting" THEN "published" ELSE "none"]
<1>0. req[u] \in Request /\ RequestHeeds(req[u]) /\ RequestTells(req[u])
      /\ RequestLocated(req[u]) /\ RequestKnows(req[u])
  BY DEF TypeInv, RequestInv, RequestTypeOK, OwnerInv, OutcomeInv, SlotInv,
         RequestsKnow
<1>1. /\ req' = [req EXCEPT ![u] = q] /\ row' = [row EXCEPT ![t] = y]
      /\ req[u].pc = "deciding" /\ req[u].plan = "abort"
      /\ queue' = queue /\ channel' = channel
  BY DEF CancelAbort
<1>2. /\ t \in Tasks /\ row[t] \in Row /\ row[t].status # Absent
      /\ row[t].keyed => seen.keyed
  BY <1>0, <1>1, RowsTyped DEF RequestLocated, RequestKnows
<1>3. /\ seen.status \in {"pending", "in_progress", "aborting"}
      /\ seen.status = "in_progress" => HasHandler(t)
      /\ seen.status = "aborting" => Aborting(t)
  BY <1>0, <1>1 DEF RequestTells, RequestHeeds, ACTIVE_STATES
<1>4. /\ y.status = (IF seen.status = s THEN row[t].status ELSE s)
      /\ y.keyed = IF s \in TERMINAL_STATES /\ seen.keyed THEN FALSE
                   ELSE row[t].keyed
  BY <1>2 DEF SetStatus, Row
<1>5. /\ s = (IF seen.status = "pending" THEN "aborted" ELSE "aborting")
      /\ "aborted" \in TERMINAL_STATES /\ "aborting" \notin TERMINAL_STATES
  BY StatusNames DEF AbortTarget
<1>6. /\ q.pc = "releasing" /\ q.task = t
      /\ q.plan = IF s = "aborting" THEN "published" ELSE "none"
  BY <1>0 DEF Request
<1>7. row[t].status = "pending" => ~HasHandler(t)
  <2>1. row[t].status = "pending" => hist[t].starts = 0
    BY <1>2 DEF SlotInv, RowsInOrder, RowInOrder
  <2>2. HasHandler(t) => hist[t].starts # 0
    BY DEF HasHandler, OutcomeInv, RunTells, StartTells, Begun
  <2>. QED BY <2>1, <2>2
<1>. HIDE DEF q, y, s
<1>8. /\ req'[u] = q /\ \A v \in Users \ {u} : req'[v] = req[v]
      /\ row'[t] = y /\ \A o \in Tasks \ {t} : row'[o] = row[o]
  BY <1>1, <1>2, RequestUpdated DEF TypeInv, StoreInv, StoreTypeOK
<1>9. /\ y.keyed => /\ row[t].keyed
                    /\ y.status = "aborting"
                    /\ row[t].status # "pending"
      /\ y.status # Absent
  BY <1>2, <1>3, <1>4, <1>5, <1>7 DEF Aborting, Absent
<1>10. RowsMonotone /\ AbortsStay
  BY <1>8, <1>9 DEF RowsMonotone, AbortsStay, Aborting
<1>11. RequestHeeds(req[u])'
  BY <1>6, <1>8, <1>9 DEF RequestHeeds, Aborting
<1>12. \A v \in Users : RequestHeeds(req[v])'
  BY <1>8, <1>10, <1>11, RequestStillHeeds DEF OwnerInv
<1>13. \A r \in Runs : RunHeeds(r)'
  BY <1>10, RunStillHeeds DEF OwnerInv, execVars
<1>14. ChannelHeeds'
  BY <1>1, <1>10, ChannelStillHeeds DEF OwnerInv
<1>15. ASSUME NEW o \in Tasks PROVE Owned(o)'
  <2>1. Awaited(o) => Awaited(o)'
    BY <1>1, <1>8 DEF Awaited, execVars
  <2>2. Executed(o)' = Executed(o) /\ Owned(o)
    BY DEF Executed, execVars, OwnerInv
  <2>3. CASE o = t
    BY <1>8, <1>9, <2>2, <2>3 DEF Owned
  <2>4. CASE o # t
    BY <1>8, <2>1, <2>2, <2>4 DEF Owned
  <2>. QED BY <2>3, <2>4
<1>. QED BY <1>12, <1>13, <1>14, <1>15 DEF OwnerInv

LEMMA CancelPublishOwns ==
  ASSUME TypeInv, TypeInv', SlotInv, OutcomeInv, OwnerInv, NEW u \in Users,
         UNCHANGED execVars, CancelPublish(u)
  PROVE  OwnerInv'
<1>. DEFINE t == req[u].task
<1>0. RequestHeeds(req[u]) /\ RequestLocated(req[u]) /\ RequestKnows(req[u])
  BY DEF TypeInv, RequestInv, OwnerInv, SlotInv, RequestsKnow
<1>1. /\ req' = [req EXCEPT ![u] = Idle] /\ req[u].pc = "publishing"
      /\ row' = row /\ queue' = queue
      /\ channel' = [channel EXCEPT ![t] = IF @ = "open" THEN "abort" ELSE @]
  BY DEF CancelPublish
<1>2. t \in Tasks /\ row[t].status # Absent /\ Aborting(t)
  BY <1>0, <1>1 DEF RequestLocated, RequestKnows, RequestHeeds
<1>3. req'[u] = Idle /\ \A v \in Users \ {u} : req'[v] = req[v]
  BY <1>1, RequestUpdated
<1>4. RowsMonotone /\ AbortsStay
  BY <1>1, StandingRows, SameRowsStanding
<1>5. RequestHeeds(req[u])'
  BY <1>3 DEF RequestHeeds, Idle
<1>6. \A v \in Users : RequestHeeds(req[v])'
  BY <1>3, <1>4, <1>5, RequestStillHeeds DEF OwnerInv
<1>7. \A r \in Runs : RunHeeds(r)'
  BY <1>4, RunStillHeeds DEF OwnerInv, execVars
<1>8. \A o \in Tasks \ {t} : channel'[o] = channel[o]
  BY <1>1 DEF TypeInv, StoreInv, StoreTypeOK
<1>9. ChannelHeeds'
  BY <1>1, <1>2, <1>8 DEF OwnerInv, ChannelHeeds, Aborting
<1>10. \A o \in Tasks : Awaited(o) => Awaited(o)'
  BY <1>1, <1>3 DEF Awaited, execVars
<1>11. \A o \in Tasks : Owned(o)'
  BY <1>1, <1>10 DEF OwnerInv, Owned, Executed, execVars
<1>. QED BY <1>6, <1>7, <1>9, <1>11 DEF OwnerInv

LEMMA RequestsOwn ==
  ASSUME TypeInv, TypeInv', SlotInv, OutcomeInv, OwnerInv, NEW u \in Users,
         UNCHANGED execVars, Submit(u) \/ Cancel(u)
  PROVE  OwnerInv'
BY SubmitCalmOwns, CancelCalmOwns, SubmitCreateOwns, ScheduleOwns,
   CancelAbortOwns, CancelPublishOwns
DEF Submit, Cancel
-----------------------------------------------------------------------------
(***************************************************************************)
(* Where only asynchronous tasks are offered, there are no others.         *)
(***************************************************************************)
AsyncInv == Modes \subseteq {"async"} => AllAsync

LEMMA RequestAllAsync ==
  ASSUME TypeInv, Modes \subseteq {"async"}, AllAsync, NEW u \in Users,
         Submit(u) \/ Cancel(u) \/ SubmitterDies(u)
  PROVE  AllAsync'
<1>. USE DEF AllAsync, TypeInv, RequestInv, RequestTypeOK, Request, Idle,
             StoreInv, StoreTypeOK, Row
<1>1. ASSUME SubmitLookup(u) PROVE AllAsync'
  <2>1. \A m \in Modes : m = "async"
    OBVIOUS
  <2>. QED BY <1>1, <2>1 DEF SubmitLookup
<1>2. ASSUME SubmitCreate(u) PROVE AllAsync'
  BY <1>2 DEF SubmitCreate, NewRow
<1>3. ASSUME SubmitUnlock(u) PROVE AllAsync'
  BY <1>3 DEF SubmitUnlock
<1>4. ASSUME \/ SubmitConflict(u) \/ Schedule(u) \/ WaitEnds(u)
            \/ WaitTimesOut(u) \/ SubmitterDies(u) \/ CancelRefused(u)
            \/ CancelPublish(u)
      PROVE  AllAsync'
  BY <1>4
  DEF SubmitConflict, Schedule, WaitEnds, WaitTimesOut, SubmitterDies,
      CancelRefused, CancelPublish, storeVars
<1>5. ASSUME SubmitJoin(u) PROVE AllAsync'
  BY <1>5 DEF SubmitJoin
<1>6. ASSUME CancelFetch(u) PROVE AllAsync'
  BY <1>6 DEF CancelFetch, storeVars
<1>7. ASSUME CancelLock(u) PROVE AllAsync'
  BY <1>7 DEF CancelLock
<1>8. ASSUME CancelDecide(u) PROVE AllAsync'
  BY <1>8 DEF CancelDecide, storeVars
<1>9. ASSUME CancelAbort(u) PROVE AllAsync'
  BY <1>9 DEF CancelAbort, SetStatus
<1>10. ASSUME CancelUnsubscribe(u) PROVE AllAsync'
  BY <1>10 DEF CancelUnsubscribe
<1>11. ASSUME CancelRelease(u) PROVE AllAsync'
  BY <1>11 DEF CancelRelease
<1>12. AllAsync'
  <2>. HIDE DEF AllAsync, TypeInv
  <2>. QED BY <1>1, <1>2, <1>3, <1>4, <1>5, <1>6, <1>7, <1>8, <1>9, <1>10,
              <1>11
       DEF Submit, Cancel
<1>. QED BY <1>12

LEMMA NextKeepsAsync ==
  ASSUME TypeInv, SlotInv, AsyncInv, [Next]_vars
  PROVE  AsyncInv'
<1>. SUFFICES ASSUME Modes \subseteq {"async"}, AllAsync PROVE AllAsync'
  BY DEF AsyncInv
<1>1. RowsFixed => \A t \in Tasks : row'[t].mode = "async"
  BY DEF RowsFixed, Fixed, AllAsync
<1>2. ASSUME NEW r \in Runs, Execute(r) \/ Background(r), req' = req
      PROVE  AllAsync'
  BY <1>1, <1>2, ExecuteFixed, BackgroundFixed DEF AllAsync
<1>3. ASSUME NEW t \in Tasks, Redeliver(t) \/ Prune(t), req' = req
      PROVE  AllAsync'
  BY <1>3 DEF Redeliver, Prune, TypeInv, StoreInv, StoreTypeOK, Row, AllAsync
<1>4. CASE RequestStep /\ UNCHANGED execVars
  BY <1>4, RequestAllAsync DEF RequestStep
<1>5. CASE RunStep /\ UNCHANGED req
  BY <1>2, <1>5 DEF RunStep
<1>6. CASE StoreStep /\ UNCHANGED <<req, execVars>>
  BY <1>3, <1>6 DEF StoreStep
<1>7. CASE CrashStep
  BY <1>7, RequestAllAsync DEF CrashStep, WorkerDies, AllAsync
<1>8. CASE UNCHANGED vars
  BY <1>8 DEF vars, storeVars, AllAsync
<1>. QED BY <1>4, <1>5, <1>6, <1>7, <1>8 DEF Next

LEMMA AsyncInvCorrect == Spec => []AsyncInv
<1>1. Init => AsyncInv
  BY DEF Init, StoreInit, NoRow, RequestInit, Idle, AsyncInv, AllAsync
<1>2. (TypeInv /\ SlotInv) /\ AsyncInv /\ [Next]_vars => AsyncInv'
  BY NextKeepsAsync
<1>. QED BY <1>1, <1>2, SlotInvCorrect, PTL DEF Spec
-----------------------------------------------------------------------------
(***************************************************************************)
(* Runs.                                                                   *)
(***************************************************************************)
\* A step of run r, or of its listener, that writes at most the row of its
\* task.
LEMMA RunStepOwns ==
  ASSUME TypeInv, SlotInv, OutcomeInv, OwnerInv,
         NEW r \in Runs, NEW me \in Tasks, row[me].status # Absent,
         run'[r].task = me, run[r].pc = "new" \/ run[r].task = me,
         \A s \in Runs \ {r} : run'[s] = run[s] /\ thread'[s] = thread[s],
         req' = req, queue' = queue,
         \A o \in Tasks : channel'[o] = "abort" => channel[o] = "abort",
         \A o \in Tasks \ {me} : row'[o] = row[o],
         row'[me].status # Absent,
         row'[me].keyed => row[me].keyed,
         row'[me].keyed /\ row[me].status = "aborting"
           => row'[me].status = "aborting",
         RunHeeds(r)', Owned(me)'
  PROVE  OwnerInv'
<1>1. RowsMonotone /\ AbortsStay
  BY DEF RowsMonotone, AbortsStay, Aborting
<1>2. \A u \in Users : RequestHeeds(req[u])'
  BY <1>1, RequestStillHeeds DEF OwnerInv
<1>3. \A s \in Runs : RunHeeds(s)'
  BY <1>1, RunStillHeeds DEF OwnerInv
<1>4. ChannelHeeds'
  BY <1>1, ChannelStillHeeds DEF OwnerInv
<1>5. ASSUME NEW o \in Tasks \ {me} PROVE Owned(o)'
  <2>1. /\ Awaited(o) => Awaited(o)'
        /\ Executed(o) => Executed(o)'
    BY <1>5 DEF Awaited, Executed, LivePlaces
  <2>2. Owned(o) /\ row'[o] = row[o]
    BY DEF OwnerInv
  <2>. QED BY <2>1, <2>2 DEF Owned
<1>6. \A o \in Tasks : Owned(o)'
  BY <1>5
<1>. QED BY <1>2, <1>3, <1>4, <1>6 DEF OwnerInv

\* It does not lose its task, if it goes on or has nothing more to do.
GoesOn(r, me) ==
  row'[me].keyed =>
    /\ row[me].keyed
    /\ row'[me].status = "pending" <=> row[me].status = "pending"
    /\ run[r].pc = "fetched" => row[me].status # "pending"
    /\ run[r].pc \in LivePlaces => run'[r].pc \in LivePlaces

LEMMA GoingRunOwns ==
  ASSUME TypeInv, SlotInv, OutcomeInv, OwnerInv,
         NEW r \in Runs, NEW me \in Tasks, row[me].status # Absent,
         run'[r].task = me, run[r].task = me,
         \A s \in Runs \ {r} : run'[s] = run[s] /\ thread'[s] = thread[s],
         req' = req, queue' = queue,
         \A o \in Tasks : channel'[o] = "abort" => channel[o] = "abort",
         \A o \in Tasks \ {me} : row'[o] = row[o],
         row'[me].status # Absent,
         row'[me].keyed /\ row[me].status = "aborting"
           => row'[me].status = "aborting",
         RunHeeds(r)', GoesOn(r, me)
  PROVE  OwnerInv'
<1>1. ASSUME row'[me].keyed PROVE Owned(me)'
  <2>1. Owned(me)
    BY DEF OwnerInv
  <2>2. CASE row[me].status = "pending"
    <3>1. Awaited(me) /\ run[r].pc # "fetched"
      BY <1>1, <2>1, <2>2 DEF GoesOn, Owned
    <3>2. Awaited(me)'
      BY <3>1 DEF Awaited
    <3>. QED BY <1>1, <2>2, <3>2 DEF GoesOn, Owned
  <2>3. CASE row[me].status # "pending"
    <3>1. Executed(me)
      BY <1>1, <2>1, <2>3 DEF GoesOn, Owned
    <3>2. Executed(me)'
      BY <1>1, <3>1 DEF Executed, GoesOn
    <3>. QED BY <1>1, <2>3, <3>2 DEF GoesOn, Owned
  <2>. QED BY <2>2, <2>3
<1>2. Owned(me)'
  BY <1>1 DEF Owned
<1>3. row'[me].keyed => row[me].keyed
  BY DEF GoesOn
<1>. QED BY <1>2, <1>3, RunStepOwns

\* A step that leaves the rows alone.
LEMMA CalmRunOwns ==
  ASSUME TypeInv, SlotInv, OutcomeInv, OwnerInv,
         NEW r \in Runs, NEW me \in Tasks, row[me].status # Absent,
         run[r].task = me, NEW x, run' = [run EXCEPT ![r] = x], x.task = me,
         \A s \in Runs \ {r} : thread'[s] = thread[s],
         req' = req, row' = row, queue' = queue,
         \A o \in Tasks : channel'[o] = "abort" => channel[o] = "abort",
         row[me].keyed =>
           /\ run[r].pc = "fetched" => row[me].status # "pending"
           /\ run[r].pc \in LivePlaces => x.pc \in LivePlaces,
         x.pc \notin {"report", "reporting", "unlocked"}, x.failures = {},
         x.dirty => ~x.registered,
         x.pc = "store" => x.target \in {"success", "failure"},
         x.abortDetected \/ thread'[r]["listener"].pc \in OnItsWay
           => Aborting(me),
         x.pc \in EndPlaces /\ row[me].keyed => x.abortDetected
  PROVE  OwnerInv'
<1>1. run'[r] = x /\ \A s \in Runs \ {r} : run'[s] = run[s]
  BY RunUpdated
<1>2. RunHeeds(r)'
  BY <1>1 DEF RunHeeds, Aborting
<1>3. GoesOn(r, me)
  BY <1>1 DEF GoesOn
<1>. QED BY <1>1, <1>2, <1>3, GoingRunOwns

\* A write that leaves the slot to the row leaves an abort of the row alone,
\* and the run on its way to give the slot back.
SlotPassedOn(r, me, x, y) ==
  y.keyed =>
    /\ row[me].keyed
    /\ row[me].status = "aborting" => y.status = "aborting"
    /\ y.status = "pending" <=> row[me].status = "pending"
    /\ run[r].pc = "fetched" => row[me].status # "pending"
    /\ run[r].pc \in LivePlaces => x.pc \in LivePlaces
    /\ x.pc \in EndPlaces => x.abortDetected

\* The run has no failure of a handler to report, no stale assignment once
\* it can be aborted, and in hand an outcome that ends its task.
Unburdened(x) ==
  /\ x.pc \notin {"report", "reporting", "unlocked"} /\ x.failures = {}
  /\ x.dirty => ~x.registered
  /\ x.pc = "store" => x.target \in {"success", "failure"}

\* A step that writes the row of its task.
LEMMA WritingRunOwns ==
  ASSUME TypeInv, SlotInv, OutcomeInv, OwnerInv,
         NEW r \in Runs, NEW me \in Tasks, row[me].status # Absent,
         run[r].task = me, NEW x, run' = [run EXCEPT ![r] = x], x.task = me,
         NEW y, row' = [row EXCEPT ![me] = y], thread' = thread,
         req' = req, queue' = queue, channel' = channel,
         y.status # Absent,
         SlotPassedOn(r, me, x, y), Unburdened(x),
         x.abortDetected => run[r].abortDetected
  PROVE  OwnerInv'
<1>1. run'[r] = x /\ \A s \in Runs \ {r} : run'[s] = run[s]
  BY RunUpdated
<1>2. row'[me] = y /\ \A o \in Tasks \ {me} : row'[o] = row[o]
  BY DEF TypeInv, StoreInv, StoreTypeOK
<1>3. Aborting(me) => Aborting(me)'
  BY <1>2 DEF Aborting, SlotPassedOn
<1>4. RunHeeds(r)
  BY DEF OwnerInv
<1>5. RunHeeds(r)'
  BY <1>1, <1>2, <1>3, <1>4 DEF RunHeeds, Aborting, SlotPassedOn, Unburdened
<1>6. GoesOn(r, me)
  BY <1>1, <1>2 DEF GoesOn, SlotPassedOn
<1>7. row'[me].keyed /\ row[me].status = "aborting"
        => row'[me].status = "aborting"
  BY <1>2 DEF SlotPassedOn
<1>. QED BY <1>1, <1>2, <1>5, <1>6, <1>7, GoingRunOwns

\* What a run that has begun finds in its row: an abort was only possible
\* after it had registered its handler, and so after its assignment of
\* IN_PROGRESS was flushed.
LEMMA FlushedOwns ==
  ASSUME TypeInv, SlotInv, OutcomeInv, OwnerInv, NEW r \in Runs, Begun(r),
         NEW me \in Tasks, run[r].task = me
  PROVE  /\ row[me] \in Row /\ Flushed(r) \in Row
         /\ row[me].status # Absent /\ Flushed(r).status # Absent
         /\ Flushed(r).keyed = row[me].keyed
         /\ row[me].keyed => Flushed(r).status \in {"in_progress", "aborting"}
         /\ row[me].keyed => row[me].status # "pending"
         /\ row[me].status = "aborting" => Flushed(r).status = "aborting"
<1>1. /\ row[me] \in Row /\ Flushed(r) \in Row
      /\ row[me].status # Absent /\ Flushed(r).status # Absent
      /\ Flushed(r).keyed => Flushed(r).status \in ACTIVE_STATES
  BY TaskOfInOrder
<1>2. Flushed(r).keyed = row[me].keyed
  BY <1>1 DEF Flushed, TaskOf, Row
<1>3. row[me].status # "pending"
  BY DEF SlotInv, RowsInOrder, RowInOrder, OutcomeInv, RunTells, StartTells
<1>4. Flushed(r).status # "pending"
  BY <1>1, <1>3 DEF Flushed, TaskOf, Row
<1>5. ASSUME row[me].status = "aborting" PROVE ~run[r].dirty
  <2>1. PICK s \in Runs : run[s].task = me /\ run[s].registered
    BY <1>5 DEF OutcomeInv, RowTells, HasHandler
  <2>2. s = r
    BY <2>1 DEF OutcomeInv, OneBegins, Begun
  <2>. QED BY <2>1, <2>2 DEF OwnerInv, RunHeeds
<1>6. row[me].status = "aborting" => Flushed(r).status = "aborting"
  BY <1>5 DEF Flushed, TaskOf
<1>. QED BY <1>1, <1>2, <1>3, <1>4, <1>6 DEF ACTIVE_STATES

\* A run in hand has a task, and its row has been created.
LEMMA RunInHand ==
  ASSUME TypeInv, SlotInv, OutcomeInv, OwnerInv, NEW r \in Runs,
         run[r].pc # "new"
  PROVE  /\ run[r].task \in Tasks /\ row[run[r].task] \in Row
         /\ row[run[r].task].status # Absent
         /\ run[r] \in RunState /\ RunHeeds(r)
         /\ row[run[r].task].keyed =>
              row[run[r].task].status \in ACTIVE_STATES
BY RunHasTask, RunTyped, TaskOfInOrder DEF OwnerInv

LEMMA FetchOwns ==
  ASSUME TypeInv, SlotInv, OutcomeInv, OwnerInv, NEW r \in Runs,
         req' = req, Fetch(r)
  PROVE  OwnerInv'
<1>1. PICK t \in Tasks :
        /\ run[r].pc = "new" /\ queue[t] > 0
        /\ queue' = [queue EXCEPT ![t] = @ - 1]
        /\ run' = [run EXCEPT ![r] = [NewRun EXCEPT
             !.task = t, !.seen = IF Exists(t) THEN row[t] ELSE NoRow,
             !.pc = IF Exists(t) THEN "fetched" ELSE "done"]]
  BY DEF Fetch
<1>2. row' = row /\ channel' = channel /\ thread' = thread
  BY DEF Fetch
<1>. DEFINE x == [NewRun EXCEPT
             !.task = t, !.seen = IF Exists(t) THEN row[t] ELSE NoRow,
             !.pc = IF Exists(t) THEN "fetched" ELSE "done"]
<1>3. /\ x.task = t /\ x.pc = (IF Exists(t) THEN "fetched" ELSE "done")
      /\ x.failures = {} /\ ~x.dirty /\ ~x.abortDetected
  BY DEF NewRun
<1>4. run' = [run EXCEPT ![r] = x]
  BY <1>1
<1>. HIDE DEF x
<1>5. run'[r] = x /\ \A s \in Runs \ {r} : run'[s] = run[s]
  BY <1>4, RunUpdated
<1>6. thread[r]["listener"].pc = "off"
  BY <1>1, BegunCases DEF OutcomeInv, RunTells, StartTells
<1>7. RunHeeds(r)'
  BY <1>2, <1>3, <1>5, <1>6 DEF RunHeeds, OnItsWay, EndPlaces
<1>8. RowsMonotone /\ AbortsStay
  BY <1>2, SameRowsStanding, StandingRows
<1>9. \A s \in Runs : RunHeeds(s)'
  BY <1>2, <1>5, <1>7, <1>8, RunStillHeeds DEF OwnerInv
<1>10. \A u \in Users : RequestHeeds(req[u])'
  BY <1>8, RequestStillHeeds DEF OwnerInv
<1>11. ChannelHeeds'
  BY <1>2, <1>8, ChannelStillHeeds DEF OwnerInv
<1>12. row[t].keyed => x.pc = "fetched"
  BY <1>3, StatusNames DEF SlotInv, RowsInOrder, RowInOrder, Exists
<1>13. ASSUME NEW o \in Tasks PROVE Owned(o)'
  <2>1. Executed(o) => Executed(o)'
    BY <1>1, <1>5 DEF Executed, LivePlaces
  <2>2. row[o].keyed /\ Awaited(o) => Awaited(o)'
    <3>1. CASE o = t
      BY <1>3, <1>5, <1>12, <3>1 DEF Awaited
    <3>2. CASE o # t
      <4>1. queue'[o] = queue[o]
        BY <1>1, <3>2 DEF TypeInv, StoreInv, StoreTypeOK
      <4>. QED BY <1>1, <1>5, <4>1 DEF Awaited
    <3>. QED BY <3>1, <3>2
  <2>. QED BY <1>2, <2>1, <2>2 DEF OwnerInv, Owned
<1>. QED BY <1>9, <1>10, <1>11, <1>13 DEF OwnerInv

LEMMA SkipAbortedOwns ==
  ASSUME TypeInv, SlotInv, OutcomeInv, OwnerInv, NEW r \in Runs,
         req' = req, SkipAborted(r)
  PROVE  OwnerInv'
<1>. DEFINE t == run[r].task
            y == IF CanSwap(row[t], {"pending", "aborting"})
                 THEN Swap(row[t], "aborted", FALSE) ELSE row[t]
            x == [run[r] EXCEPT !.pc = "done", !.seen = NoRow]
<1>1. run[r].pc = "fetched"
  BY DEF SkipAborted
<1>2. /\ t \in Tasks /\ row[t] \in Row /\ row[t].status # Absent
      /\ run[r] \in RunState /\ RunHeeds(r)
  BY <1>1, RunInHand
<1>3. /\ x.task = t /\ x.pc = "done" /\ x.failures = {}
      /\ x.dirty = run[r].dirty /\ x.registered = run[r].registered
      /\ x.abortDetected = run[r].abortDetected
  BY <1>2 DEF RunState, RunHeeds
<1>4. /\ y.status # Absent
      /\ y.keyed => y = row[t] /\ row[t].status # "pending"
  BY <1>2, StatusNames DEF CanSwap, Swap, Row, Absent
<1>5. row' = [row EXCEPT ![t] = y]
  BY <1>2 DEF SkipAborted, TypeInv, StoreInv, StoreTypeOK
<1>6. run' = [run EXCEPT ![r] = x]
  BY <1>2 DEF SkipAborted, TypeInv, ExecInv, ExecutionTypeOK
<1>7. queue' = queue /\ channel' = channel /\ thread' = thread
  BY DEF SkipAborted
<1>8. x.dirty => ~x.registered
  BY <1>2, <1>3 DEF RunHeeds
<1>. HIDE DEF x, y
<1>9. SlotPassedOn(r, t, x, y)
  BY <1>1, <1>3, <1>4 DEF EndPlaces, LivePlaces, SlotPassedOn
<1>10. Unburdened(x)
  BY <1>3, <1>8 DEF Unburdened
<1>. QED BY <1>2, <1>3, <1>4, <1>5, <1>6, <1>7, <1>9, <1>10,
            WritingRunOwns

LEMMA PickupFailsOwns ==
  ASSUME TypeInv, SlotInv, OutcomeInv, OwnerInv, NEW r \in Runs,
         req' = req, PickupFails(r)
  PROVE  OwnerInv'
<1>. DEFINE t == run[r].task
            x == [run[r] EXCEPT !.pc = "done", !.seen = NoRow]
<1>1. run[r].pc = "fetched"
  BY DEF PickupFails
<1>2. /\ t \in Tasks /\ row[t] \in Row /\ row[t].status # Absent
      /\ run[r] \in RunState /\ RunHeeds(r)
  BY <1>1, RunInHand
<1>3. /\ x.task = t /\ x.pc = "done" /\ x.failures = {}
      /\ x.dirty = run[r].dirty /\ x.registered = run[r].registered
      /\ x.abortDetected = run[r].abortDetected
  BY <1>2 DEF RunState, RunHeeds
<1>4. row[t].status # "pending"
  BY DEF PickupFails, CanSwap, PickupFrom, TaskOf
<1>5. run' = [run EXCEPT ![r] = x]
  BY <1>2 DEF PickupFails, TypeInv, ExecInv, ExecutionTypeOK
<1>6. row' = row /\ queue' = queue /\ channel' = channel /\ thread' = thread
  BY DEF PickupFails, storeVars
<1>7. /\ x.dirty => ~x.registered
      /\ x.abortDetected \/ thread'[r]["listener"].pc \in OnItsWay
           => Aborting(t)
  BY <1>2, <1>3, <1>6 DEF RunHeeds
<1>. HIDE DEF x
<1>. QED BY <1>1, <1>2, <1>3, <1>4, <1>5, <1>6, <1>7, CalmRunOwns
     DEF EndPlaces, LivePlaces

LEMMA PickupOwns ==
  ASSUME TypeInv, SlotInv, OutcomeInv, OwnerInv, NEW r \in Runs,
         req' = req, Pickup(r)
  PROVE  OwnerInv'
<1>. DEFINE t == run[r].task
            y == Swap(row[t], "in_progress", FALSE)
            x == [run[r] EXCEPT !.pc = "body", !.seen = NoRow,
                    !.dirty = TRUE, !.loaded = "in_progress"]
<1>1. run[r].pc = "fetched" /\ row[t].status = "pending"
  BY DEF Pickup, CanSwap, PickupFrom
<1>2. /\ t \in Tasks /\ row[t] \in Row /\ row[t].status # Absent
      /\ run[r] \in RunState /\ RunHeeds(r)
  BY <1>1, RunInHand
<1>3. ~run[r].registered /\ ~run[r].abortDetected
      /\ thread[r]["listener"].pc = "off"
  BY <1>1, BegunCases DEF OutcomeInv, RunTells, StartTells
<1>4. /\ x.task = t /\ x.pc = "body" /\ x.failures = {}
      /\ ~x.registered /\ ~x.abortDetected
  BY <1>2, <1>3 DEF RunState, RunHeeds
<1>5. y.status = "in_progress" /\ y.keyed = row[t].keyed
  BY <1>2 DEF Swap, Row, TERMINAL_STATES
<1>6. /\ row' = [row EXCEPT ![t] = y] /\ run' = [run EXCEPT ![r] = x]
      /\ queue' = queue /\ channel' = channel
  BY <1>2 DEF Pickup, TypeInv, StoreInv, StoreTypeOK, ExecInv, ExecutionTypeOK
<1>. HIDE DEF x, y
<1>7. run'[r] = x /\ \A s \in Runs \ {r} : run'[s] = run[s]
  BY <1>6, RunUpdated
<1>8. row'[t] = y /\ \A o \in Tasks \ {t} : row'[o] = row[o]
  BY <1>2, <1>6 DEF TypeInv, StoreInv, StoreTypeOK
<1>9. /\ thread'[r]["listener"].pc = "off"
      /\ \A s \in Runs \ {r} : thread'[s] = thread[s]
  BY <1>3 DEF Pickup, TypeInv, ExecInv, ExecutionTypeOK, ThreadState, Threads
<1>10. RunHeeds(r)'
  BY <1>4, <1>7, <1>9 DEF RunHeeds, OnItsWay, EndPlaces
<1>11. Owned(t)'
  BY <1>4, <1>5, <1>7, <1>8 DEF Owned, Executed, LivePlaces
<1>. QED BY <1>1, <1>2, <1>4, <1>5, <1>6, <1>7, <1>8, <1>9, <1>10, <1>11,
            RunStepOwns DEF Absent

\* A run that has picked its task up.
LEMMA BegunRun ==
  ASSUME TypeInv, SlotInv, OutcomeInv, OwnerInv, NEW r \in Runs,
         run[r].pc \in LivePlaces
  PROVE  LET t == run[r].task IN
         /\ t \in Tasks /\ row[t] \in Row /\ Flushed(r) \in Row
         /\ row[t].status # Absent /\ Flushed(r).status # Absent
         /\ Flushed(r).keyed = row[t].keyed
         /\ row[t].keyed => Flushed(r).status \in {"in_progress", "aborting"}
         /\ row[t].keyed => row[t].status # "pending"
         /\ row[t].status = "aborting" => Flushed(r).status = "aborting"
         /\ run[r] \in RunState /\ RunHeeds(r)
<1>1. run[r].pc # "new" /\ Begun(r)
  BY DEF LivePlaces, Begun
<1>2. run[r].task \in Tasks /\ run[r] \in RunState /\ RunHeeds(r)
  BY <1>1, RunInHand
<1>. QED BY <1>1, <1>2, FlushedOwns

LEMMA RegisterHandlerOwns ==
  ASSUME TypeInv, SlotInv, OutcomeInv, OwnerInv, NEW r \in Runs,
         req' = req, RegisterHandler(r)
  PROVE  OwnerInv'
<1>. DEFINE t == run[r].task
            y == [Flushed(r) EXCEPT !.abortable = Exists(t)]
            x == [Committed(run[r]) EXCEPT !.registered = TRUE,
                                           !.pc = "listen"]
<1>1. run[r].pc = "body"
  BY DEF RegisterHandler
<1>2. /\ t \in Tasks /\ row[t] \in Row /\ Flushed(r) \in Row
      /\ row[t].status # Absent /\ Flushed(r).status # Absent
      /\ Flushed(r).keyed = row[t].keyed
      /\ row[t].keyed => Flushed(r).status \in {"in_progress", "aborting"}
      /\ row[t].keyed => row[t].status # "pending"
      /\ row[t].status = "aborting" => Flushed(r).status = "aborting"
      /\ run[r] \in RunState /\ RunHeeds(r)
  BY <1>1, BegunRun DEF LivePlaces
<1>3. /\ x.task = t /\ x.pc = "listen" /\ x.failures = {} /\ ~x.dirty
      /\ x.abortDetected = run[r].abortDetected
  BY <1>2 DEF Committed, RunState, RunHeeds
<1>4. y.status = Flushed(r).status /\ y.keyed = Flushed(r).keyed
  BY <1>2 DEF Row
<1>5. /\ row' = [row EXCEPT ![t] = y] /\ run' = [run EXCEPT ![r] = x]
      /\ queue' = queue /\ channel' = channel /\ thread' = thread
  BY DEF RegisterHandler
<1>. HIDE DEF x, y
<1>6. SlotPassedOn(r, t, x, y)
  BY <1>1, <1>2, <1>3, <1>4 DEF EndPlaces, LivePlaces, SlotPassedOn
<1>7. Unburdened(x)
  BY <1>3 DEF Unburdened
<1>. QED BY <1>2, <1>3, <1>4, <1>5, <1>6, <1>7, WritingRunOwns

LEMMA UpdateTaskOwns ==
  ASSUME TypeInv, SlotInv, OutcomeInv, OwnerInv, NEW r \in Runs,
         req' = req, UpdateTask(r)
  PROVE  OwnerInv'
<1>. DEFINE t == run[r].task
            y == Flushed(r)
            x == Committed(run[r])
<1>1. run[r].pc = "body"
  BY DEF UpdateTask
<1>2. /\ t \in Tasks /\ row[t] \in Row /\ y \in Row
      /\ row[t].status # Absent /\ y.status # Absent
      /\ y.keyed = row[t].keyed
      /\ row[t].keyed => y.status \in {"in_progress", "aborting"}
      /\ row[t].keyed => row[t].status # "pending"
      /\ row[t].status = "aborting" => y.status = "aborting"
      /\ run[r] \in RunState /\ RunHeeds(r)
  BY <1>1, BegunRun DEF LivePlaces
<1>3. /\ x.task = t /\ x.pc = "body" /\ x.failures = {} /\ ~x.dirty
      /\ x.abortDetected = run[r].abortDetected
  BY <1>1, <1>2 DEF Committed, RunState, RunHeeds
<1>4. /\ row' = [row EXCEPT ![t] = y] /\ run' = [run EXCEPT ![r] = x]
      /\ queue' = queue /\ channel' = channel /\ thread' = thread
  BY DEF UpdateTask
<1>. HIDE DEF x, y
<1>5. SlotPassedOn(r, t, x, y)
  BY <1>1, <1>2, <1>3 DEF EndPlaces, LivePlaces, SlotPassedOn
<1>6. Unburdened(x)
  BY <1>3 DEF Unburdened
<1>. QED BY <1>2, <1>3, <1>4, <1>5, <1>6, WritingRunOwns

\* Whatever the body did, the store of its outcome gives the slot back.
LEMMA StoreOutcomeOwns ==
  ASSUME TypeInv, SlotInv, OutcomeInv, OwnerInv, AllAsync, NEW r \in Runs,
         req' = req, StoreOutcome(r)
  PROVE  OwnerInv'
<1>. DEFINE t == run[r].task
            f == Flushed(r)
            y == IF CanSwap(f, Expected(r))
                 THEN Swap(f, run[r].target, run[r].target = "failure")
                 ELSE f
            x == [Committed(run[r]) EXCEPT !.pc = "cleanup"]
<1>1. run[r].pc = "store"
  BY DEF StoreOutcome
<1>2. /\ t \in Tasks /\ row[t] \in Row /\ f \in Row
      /\ row[t].status # Absent /\ f.status # Absent
      /\ f.keyed = row[t].keyed
      /\ row[t].keyed => f.status \in {"in_progress", "aborting"}
      /\ run[r] \in RunState /\ RunHeeds(r)
  BY <1>1, BegunRun DEF LivePlaces
<1>3. /\ x.task = t /\ x.pc = "cleanup" /\ x.failures = {} /\ ~x.dirty
      /\ x.abortDetected = run[r].abortDetected
  BY <1>2 DEF Committed, RunState, RunHeeds
<1>4. /\ run[r].target \in {"success", "failure"}
      /\ Expected(r) = {"in_progress", "aborting"}
  BY <1>1, <1>2 DEF RunHeeds, Expected, Async, TaskOf, AllAsync
<1>5. /\ row' = [row EXCEPT ![t] = y] /\ run' = [run EXCEPT ![r] = x]
      /\ queue' = queue /\ channel' = channel /\ thread' = thread
  BY DEF StoreOutcome
<1>. HIDE DEF f, x
<1>6. ~y.keyed /\ y.status # Absent
  BY <1>2, <1>4 DEF CanSwap, Swap, Row, TERMINAL_STATES, Absent
<1>. HIDE DEF y
<1>7. Unburdened(x)
  BY <1>3 DEF Unburdened
<1>8. SlotPassedOn(r, t, x, y)
  BY <1>6 DEF SlotPassedOn
<1>. QED BY <1>2, <1>3, <1>5, <1>6, <1>7, <1>8, WritingRunOwns

LEMMA EndAbortOwns ==
  ASSUME TypeInv, SlotInv, OutcomeInv, OwnerInv, NEW r \in Runs,
         req' = req, EndAbort(r)
  PROVE  OwnerInv'
<1>. DEFINE t == run[r].task
            f == Flushed(r)
            y == IF CanSwap(f, {"aborting"})
                 THEN Swap(f, run[r].target, run[r].target = "failure")
                 ELSE f
            x == [Committed(run[r]) EXCEPT !.pc = "done"]
<1>1. run[r].pc = "final"
  BY DEF EndAbort
<1>2. /\ t \in Tasks /\ row[t] \in Row /\ f \in Row
      /\ row[t].status # Absent /\ f.status # Absent
      /\ f.keyed = row[t].keyed
      /\ row[t].status = "aborting" => f.status = "aborting"
      /\ run[r] \in RunState /\ RunHeeds(r)
  BY <1>1, BegunRun DEF LivePlaces
<1>3. /\ x.task = t /\ x.pc = "done" /\ x.failures = {} /\ ~x.dirty
      /\ x.abortDetected = run[r].abortDetected
  BY <1>2 DEF Committed, RunState, RunHeeds
<1>4. row[t].keyed => row[t].status = "aborting"
  BY <1>1, <1>2 DEF RunHeeds, Aborting, EndPlaces
<1>5. run[r].target \in TERMINAL_STATES
  BY <1>2 DEF RunState
<1>6. /\ row' = [row EXCEPT ![t] = y] /\ run' = [run EXCEPT ![r] = x]
      /\ queue' = queue /\ channel' = channel /\ thread' = thread
  BY DEF EndAbort
<1>. HIDE DEF f, x
<1>7. ~y.keyed /\ y.status # Absent
  BY <1>2, <1>4, <1>5, StatusNames DEF CanSwap, Swap, Row
<1>. HIDE DEF y
<1>8. Unburdened(x)
  BY <1>3 DEF Unburdened
<1>9. SlotPassedOn(r, t, x, y)
  BY <1>7 DEF SlotPassedOn
<1>. QED BY <1>2, <1>3, <1>6, <1>7, <1>8, <1>9, WritingRunOwns

LEMMA StartListenerOwns ==
  ASSUME TypeInv, SlotInv, OutcomeInv, OwnerInv, NEW r \in Runs,
         req' = req, StartListener(r)
  PROVE  OwnerInv'
<1>. DEFINE t == run[r].task
            x == [run[r] EXCEPT !.pc = "body"]
<1>1. run[r].pc = "listen"
  BY DEF StartListener
<1>2. /\ t \in Tasks /\ row[t].status # Absent
      /\ run[r] \in RunState /\ RunHeeds(r)
  BY <1>1, RunInHand
<1>3. /\ x.task = t /\ x.pc = "body" /\ x.failures = {}
      /\ x.dirty = run[r].dirty /\ x.registered = run[r].registered
      /\ x.abortDetected = run[r].abortDetected
  BY <1>2 DEF RunState, RunHeeds
<1>4. /\ run' = [run EXCEPT ![r] = x] /\ row' = row /\ queue' = queue
      /\ MoveThread(r, "listener", "check")
  BY <1>2 DEF StartListener, TypeInv, ExecInv, ExecutionTypeOK
<1>5. \A o \in Tasks : channel'[o] = "abort" => channel[o] = "abort"
  BY <1>2 DEF StartListener, TypeInv, StoreInv, StoreTypeOK
<1>6. /\ thread'[r]["listener"].pc = "check"
      /\ \A s \in Runs \ {r} : thread'[s] = thread[s]
  BY <1>4, ThreadMoved, TwoThreads
<1>7. /\ x.dirty => ~x.registered
      /\ x.abortDetected \/ thread'[r]["listener"].pc \in OnItsWay
           => Aborting(t)
  BY <1>2, <1>3, <1>6 DEF RunHeeds, OnItsWay
<1>. HIDE DEF x
<1>8. /\ x.pc \notin {"report", "reporting", "unlocked", "store"}
      /\ x.pc \notin EndPlaces /\ x.pc \in LivePlaces
  BY <1>3 DEF EndPlaces, LivePlaces
<1>. QED BY <1>1, <1>2, <1>3, <1>4, <1>5, <1>6, <1>7, <1>8, CalmRunOwns

\* A step of the executor that sets no flag and writes no row.
LEMMA MovingRunOwns ==
  ASSUME TypeInv, SlotInv, OutcomeInv, OwnerInv, NEW r \in Runs,
         run[r].pc \in LivePlaces,
         NEW x, run' = [run EXCEPT ![r] = x], x.pc \in LivePlaces,
         x.task = run[r].task, x.failures = {},
         x.dirty => run[r].dirty, x.registered = run[r].registered,
         x.abortDetected = run[r].abortDetected,
         x.pc = "store" => x.target \in {"success", "failure"},
         x.pc \in EndPlaces => run[r].pc \in EndPlaces \/ x.abortDetected,
         req' = req, row' = row, queue' = queue, channel' = channel,
         thread' = thread
  PROVE  OwnerInv'
<1>. DEFINE t == run[r].task
<1>1. /\ t \in Tasks /\ row[t].status # Absent /\ RunHeeds(r)
  BY BegunRun
<1>2. /\ x.dirty => ~x.registered
      /\ x.abortDetected \/ thread'[r]["listener"].pc \in OnItsWay
           => Aborting(t)
      /\ x.pc \in EndPlaces /\ row[t].keyed => x.abortDetected
  BY <1>1 DEF RunHeeds
<1>3. x.pc \notin {"report", "reporting", "unlocked"} /\ run[r].pc # "fetched"
  BY DEF LivePlaces
<1>. QED BY <1>1, <1>2, <1>3, CalmRunOwns

LEMMA BodyEndsOwns ==
  ASSUME TypeInv, SlotInv, OutcomeInv, OwnerInv, NEW r \in Runs,
         req' = req, BodyEnds(r)
  PROVE  OwnerInv'
<1>1. run[r].pc = "body" /\ run[r].pc \in LivePlaces
  BY DEF BodyEnds, LivePlaces
<1>2. run[r] \in RunState /\ RunHeeds(r)
  BY <1>1, BegunRun
<1>3. PICK f \in MayFail(BodiesFail) :
        run' = [run EXCEPT ![r].pc = "settle", ![r].failed = f,
                           ![r].completed = Async(r)]
  BY DEF BodyEnds
<1>. DEFINE x == [run[r] EXCEPT !.pc = "settle", !.failed = f,
                                !.completed = Async(r)]
<1>4. run' = [run EXCEPT ![r] = x]
  BY <1>2, <1>3 DEF TypeInv, ExecInv, ExecutionTypeOK
<1>5. /\ x.task = run[r].task /\ x.pc = "settle" /\ x.failures = {}
      /\ x.dirty = run[r].dirty /\ x.registered = run[r].registered
      /\ x.abortDetected = run[r].abortDetected
  BY <1>2 DEF RunState, RunHeeds
<1>. HIDE DEF x
<1>6. x.pc \in LivePlaces /\ x.pc \notin EndPlaces /\ x.pc # "store"
  BY <1>5 DEF LivePlaces, EndPlaces
<1>7. row' = row /\ queue' = queue /\ channel' = channel /\ thread' = thread
  BY DEF BodyEnds
<1>. QED BY <1>1, <1>4, <1>5, <1>6, <1>7, MovingRunOwns

LEMMA SettleOwns ==
  ASSUME TypeInv, SlotInv, OutcomeInv, OwnerInv, AllAsync, Untimed,
         NEW r \in Runs, req' = req, Settle(r)
  PROVE  OwnerInv'
<1>1. run[r].pc = "settle" /\ run[r].pc \in LivePlaces
  BY DEF Settle, LivePlaces
<1>2. /\ run[r].task \in Tasks /\ run[r] \in RunState /\ RunHeeds(r)
  BY <1>1, BegunRun
<1>3. Async(r) /\ (Detected(r) => run[r].abortDetected)
  BY <1>2 DEF Async, TaskOf, AllAsync, Detected, Untimed
<1>4. PICK p \in {"store", "cleanup"}, s \in TERMINAL_STATES :
        /\ run' = [run EXCEPT ![r] = [run[r] EXCEPT !.pc = p, !.target = s]]
        /\ p = "store" => s \in {"success", "failure"}
        /\ p = "cleanup" => run[r].abortDetected
  BY <1>2, <1>3 DEF Settle, RunState, TERMINAL_STATES
<1>. DEFINE x == [run[r] EXCEPT !.pc = p, !.target = s]
<1>5. /\ x.task = run[r].task /\ x.failures = {}
      /\ x.dirty = run[r].dirty /\ x.registered = run[r].registered
      /\ x.abortDetected = run[r].abortDetected
      /\ x.pc = p /\ x.target = s
  BY <1>2 DEF RunState, RunHeeds
<1>6. run' = [run EXCEPT ![r] = x]
  BY <1>4
<1>. HIDE DEF x
<1>7. x.pc \in LivePlaces /\ (x.pc \in EndPlaces => x.abortDetected)
  BY <1>4, <1>5 DEF LivePlaces, EndPlaces
<1>8. /\ x.dirty => run[r].dirty
      /\ x.pc = "store" => x.target \in {"success", "failure"}
      /\ x.pc \in EndPlaces => run[r].pc \in EndPlaces \/ x.abortDetected
  BY <1>4, <1>5, <1>7
<1>9. row' = row /\ queue' = queue /\ channel' = channel /\ thread' = thread
  BY DEF Settle, storeVars
<1>. QED BY <1>1, <1>5, <1>6, <1>7, <1>8, <1>9, MovingRunOwns

LEMMA StopThreadsOwns ==
  ASSUME TypeInv, SlotInv, OutcomeInv, OwnerInv, NEW r \in Runs,
         req' = req, StopThreads(r)
  PROVE  OwnerInv'
<1>. DEFINE t == run[r].task
            x == [run[r] EXCEPT !.pc = "abortcheck"]
<1>1. run[r].pc = "cleanup"
  BY DEF StopThreads
<1>2. /\ t \in Tasks /\ row[t].status # Absent
      /\ run[r] \in RunState /\ RunHeeds(r)
  BY <1>1, RunInHand
<1>3. /\ x.task = t /\ x.pc = "abortcheck" /\ x.failures = {}
      /\ x.dirty = run[r].dirty /\ x.registered = run[r].registered
      /\ x.abortDetected = run[r].abortDetected
  BY <1>2 DEF RunState, RunHeeds
<1>4. /\ run' = [run EXCEPT ![r] = x] /\ row' = row /\ queue' = queue
  BY <1>2 DEF StopThreads, TypeInv, ExecInv, ExecutionTypeOK
<1>5. \A o \in Tasks : channel'[o] = "abort" => channel[o] = "abort"
  BY <1>2 DEF StopThreads, TypeInv, StoreInv, StoreTypeOK
<1>6. /\ thread'[r]["listener"] \in {NoThread, thread[r]["listener"]}
      /\ \A s \in Runs \ {r} : thread'[s] = thread[s]
  BY TwoThreads DEF StopThreads, TypeInv, ExecInv, ExecutionTypeOK
<1>7. /\ x.dirty => ~x.registered
      /\ x.abortDetected \/ thread'[r]["listener"].pc \in OnItsWay
           => Aborting(t)
      /\ row[t].keyed => x.abortDetected
  BY <1>1, <1>2, <1>3, <1>6 DEF RunHeeds, OnItsWay, NoThread, EndPlaces
<1>. HIDE DEF x
<1>8. /\ x.pc \notin {"report", "reporting", "unlocked", "store"}
      /\ x.pc \in LivePlaces
  BY <1>3 DEF LivePlaces
<1>. QED BY <1>1, <1>2, <1>3, <1>4, <1>5, <1>6, <1>7, <1>8, CalmRunOwns

\* With handlers that do not raise nothing is left to report.
LEMMA AbortCheckOwns ==
  ASSUME TypeInv, SlotInv, OutcomeInv, OwnerInv, ~HandlersFail,
         NEW r \in Runs, req' = req, AbortCheck(r)
  PROVE  OwnerInv'
<1>1. run[r].pc = "abortcheck" /\ run[r].pc \in LivePlaces
      /\ run[r].pc \in EndPlaces
  BY DEF AbortCheck, LivePlaces, EndPlaces
<1>2. run[r] \in RunState /\ RunHeeds(r)
  BY <1>1, BegunRun
<1>. DEFINE a == AfterHandlers(run[r], FALSE)
<1>3. PICK x :
        /\ run' = [run EXCEPT ![r] = x]
        /\ \/ x = [a EXCEPT !.pc = "cleaners", !.dirty = FALSE]
           \/ x = [run[r] EXCEPT !.pc = "cleaners", !.dirty = FALSE]
  <2>1. CASE Unnoticed(r)
    <3>1. PICK f \in HandlerOutcome(r) :
            run' = [run EXCEPT ![r] = [AfterHandlers(run[r], f) EXCEPT
                                         !.pc = "cleaners", !.dirty = FALSE]]
      BY <2>1 DEF AbortCheck
    <3>2. f = FALSE
      BY DEF HandlerOutcome, MayFail
    <3>. QED BY <3>1, <3>2
  <2>2. CASE ~Unnoticed(r)
    BY <1>2, <2>2 DEF AbortCheck, TypeInv, ExecInv, ExecutionTypeOK
  <2>. QED BY <2>1, <2>2
<1>4. /\ x.task = run[r].task /\ x.failures = {} /\ ~x.dirty
      /\ x.registered = run[r].registered
      /\ x.abortDetected = run[r].abortDetected
      /\ x.pc = "cleaners"
  BY <1>2, <1>3 DEF AfterHandlers, RunState, RunHeeds
<1>5. x.pc \in LivePlaces /\ x.pc # "store"
  BY <1>4 DEF LivePlaces
<1>6. row' = row /\ queue' = queue /\ channel' = channel /\ thread' = thread
  BY DEF AbortCheck
<1>. QED BY <1>1, <1>3, <1>4, <1>5, <1>6, MovingRunOwns

LEMMA CleanupHandlersOwns ==
  ASSUME TypeInv, SlotInv, OutcomeInv, OwnerInv, ~CleanupFails,
         NEW r \in Runs, req' = req, CleanupHandlers(r)
  PROVE  OwnerInv'
<1>1. run[r].pc = "cleaners" /\ run[r].pc \in LivePlaces
      /\ run[r].pc \in EndPlaces
  BY DEF CleanupHandlers, LivePlaces, EndPlaces
<1>2. run[r] \in RunState /\ RunHeeds(r) /\ run[r].failures = {}
  BY <1>1, BegunRun DEF RunHeeds
<1>3. PICK x : /\ run' = [run EXCEPT ![r] = x]
               /\ x = [run[r] EXCEPT !.failures = {}, !.pc = "decide"]
  BY <1>2 DEF CleanupHandlers, MayFail, TypeInv, ExecInv, ExecutionTypeOK
<1>4. /\ x.task = run[r].task /\ x.failures = {}
      /\ x.dirty = run[r].dirty /\ x.registered = run[r].registered
      /\ x.abortDetected = run[r].abortDetected
      /\ x.pc = "decide"
  BY <1>2, <1>3 DEF RunState, RunHeeds
<1>5. x.pc \in LivePlaces /\ x.pc # "store"
  BY <1>4 DEF LivePlaces
<1>6. row' = row /\ queue' = queue /\ channel' = channel /\ thread' = thread
  BY DEF CleanupHandlers, storeVars
<1>. QED BY <1>1, <1>3, <1>4, <1>5, <1>6, MovingRunOwns

\* A run leaves a keyed row only for the last write of its abort.
LEMMA DecideOwns ==
  ASSUME TypeInv, SlotInv, OutcomeInv, OwnerInv, AllAsync, NEW r \in Runs,
         req' = req, Decide(r)
  PROVE  OwnerInv'
<1>. DEFINE t == run[r].task
<1>1. run[r].pc = "decide"
  BY DEF Decide
<1>2. /\ t \in Tasks /\ row[t].status # Absent
      /\ run[r] \in RunState /\ RunHeeds(r)
  BY <1>1, RunInHand
<1>3. PICK x :
        /\ run' = [run EXCEPT ![r] = x]
        /\ \/ x = [run[r] EXCEPT !.pc = "final", !.target = EndOfAbort(r)]
           \/ x = [run[r] EXCEPT !.pc = "done"] /\ ~run[r].abortDetected
  BY <1>2 DEF Decide, Async, TaskOf, AllAsync, Detected, TypeInv, ExecInv,
              ExecutionTypeOK
<1>4. /\ x.task = t /\ x.failures = {}
      /\ x.dirty = run[r].dirty /\ x.registered = run[r].registered
      /\ x.abortDetected = run[r].abortDetected
      /\ x.pc = "final" \/ (x.pc = "done" /\ ~run[r].abortDetected)
  BY <1>2, <1>3 DEF RunState, RunHeeds
<1>5. row' = row /\ queue' = queue /\ channel' = channel /\ thread' = thread
  BY DEF Decide, storeVars
<1>6. /\ x.dirty => ~x.registered
      /\ x.abortDetected \/ thread'[r]["listener"].pc \in OnItsWay
           => Aborting(t)
      /\ row[t].keyed => x.abortDetected /\ x.pc = "final"
  BY <1>1, <1>2, <1>4, <1>5 DEF RunHeeds, EndPlaces
<1>7. /\ x.pc \notin {"report", "reporting", "unlocked", "store"}
      /\ x.pc = "final" => x.pc \in LivePlaces
  BY <1>4 DEF LivePlaces
<1>. QED BY <1>1, <1>2, <1>3, <1>4, <1>5, <1>6, <1>7, CalmRunOwns

LEMMA ExecutesOwn ==
  ASSUME TypeInv, SlotInv, OutcomeInv, OwnerInv, AllAsync, Untimed, Orderly,
         NEW r \in Runs, req' = req, Execute(r)
  PROVE  OwnerInv'
<1>1. run[r].pc \notin {"report", "reporting", "unlocked"}
  BY DEF OwnerInv, RunHeeds
<1>2. ~Report(r) /\ ~ReportUnlocks(r) /\ ~ReportFailure(r) /\ ~ReportRefused(r)
  BY <1>1 DEF Report, ReportUnlocks, ReportFailure, ReportRefused
<1>. QED BY <1>2, FetchOwns, SkipAbortedOwns, PickupOwns, PickupFailsOwns,
            RegisterHandlerOwns, StartListenerOwns, UpdateTaskOwns,
            BodyEndsOwns, SettleOwns, StoreOutcomeOwns, StopThreadsOwns,
            AbortCheckOwns, CleanupHandlersOwns, DecideOwns, EndAbortOwns
     DEF Execute, Orderly

\* A step of the listener: it is on its way only after an abort.
LEMMA ListenerOwns ==
  ASSUME TypeInv, SlotInv, OutcomeInv, OwnerInv, NEW r \in Runs,
         thread[r]["listener"].pc # "off",
         NEW x, run' = [run EXCEPT ![r] = x],
         x.task = run[r].task, x.pc = run[r].pc,
         x.target = run[r].target, x.failures = {},
         x.dirty = run[r].dirty, x.registered = run[r].registered,
         run[r].abortDetected => x.abortDetected,
         \A s \in Runs \ {r} : thread'[s] = thread[s],
         x.abortDetected \/ thread'[r]["listener"].pc \in OnItsWay
           => Aborting(run[r].task),
         req' = req, row' = row, queue' = queue, channel' = channel
  PROVE  OwnerInv'
<1>. DEFINE t == run[r].task
<1>1. t \in Tasks /\ row[t].status # Absent
  BY ThreadHasTask, TwoThreads
<1>2. RunHeeds(r)
  BY DEF OwnerInv
<1>3. /\ x.pc \notin {"report", "reporting", "unlocked"}
      /\ x.dirty => ~x.registered
      /\ x.pc = "store" => x.target \in {"success", "failure"}
      /\ x.pc \in EndPlaces /\ row[t].keyed => x.abortDetected
  BY <1>2 DEF RunHeeds
<1>4. Begun(r)
  BY TwoThreads DEF Begun
<1>5. row[t].keyed => row[t].status # "pending"
  BY <1>1, <1>4, FlushedOwns
<1>. QED BY <1>1, <1>3, <1>5, CalmRunOwns

LEMMA BackgroundOwns ==
  ASSUME TypeInv, SlotInv, OutcomeInv, OwnerInv, Untimed, ~HandlersFail,
         NEW r \in Runs, req' = req, Background(r)
  PROVE  OwnerInv'
<1>. DEFINE h == "listener"
            t == run[r].task
<1>1. \/ ListenerHears(r) \/ Detect(r, h) \/ Claim(r, h) \/ Handle(r, h)
  BY DEF Background, TimerFires, TimerReads, TimerUnlocks, TimerAborts,
         TimerRefused, Detect, Claim, Handle, ThreadPc, Threads, Untimed
<1>2. thread[r][h].pc # "off" /\ run[r] \in RunState /\ RunHeeds(r)
  BY <1>1, RunTyped
  DEF ListenerHears, Detect, Claim, Handle, ThreadPc, OwnerInv
<1>3. t \in Tasks /\ row[t].status # Absent
      /\ (row[t].keyed => row[t].status \in ACTIVE_STATES)
  BY <1>2, ThreadHasTask, TaskOfInOrder, TwoThreads
<1>4. run[r].failures = {} /\ run[r].abortDetected => Aborting(t)
  BY <1>2 DEF RunHeeds
<1>5. run = [run EXCEPT ![r] = run[r]]
  BY DEF TypeInv, ExecInv, ExecutionTypeOK
<1>6. CASE ListenerHears(r)
  <2>1. Aborting(t)
    <3>1. CASE Redis
      BY <1>3, <1>6, <3>1 DEF ListenerHears, OwnerInv, ChannelHeeds
    <3>2. CASE ~Redis
      BY <1>3, <1>6, <3>2, StatusNames
      DEF ListenerHears, Aborting, TaskOf, ABORT_STATES
    <3>. QED BY <3>1, <3>2
  <2>2. run' = run /\ row' = row /\ queue' = queue /\ channel' = channel
        /\ MoveThread(r, h, "detect")
    BY <1>6 DEF ListenerHears, storeVars
  <2>3. \A s \in Runs \ {r} : thread'[s] = thread[s]
    BY <2>2, ThreadMoved, TwoThreads
  <2>. QED BY <1>2, <1>4, <1>5, <2>1, <2>2, <2>3, ListenerOwns DEF RunHeeds
<1>7. CASE Detect(r, h)
  <2>1. Aborting(t)
    BY <1>2, <1>7 DEF Detect, ThreadPc, RunHeeds, OnItsWay
  <2>2. PICK pc : MoveThread(r, h, pc)
    BY <1>7 DEF Detect
  <2>3. run' = run /\ row' = row /\ queue' = queue /\ channel' = channel
    BY <1>7 DEF Detect, storeVars
  <2>4. \A s \in Runs \ {r} : thread'[s] = thread[s]
    BY <2>2, ThreadMoved, TwoThreads
  <2>. QED BY <1>2, <1>4, <1>5, <2>1, <2>3, <2>4, ListenerOwns DEF RunHeeds
<1>8. CASE Claim(r, h)
  <2>. DEFINE x == [run[r] EXCEPT !.abortDetected = TRUE]
  <2>1. Aborting(t)
    BY <1>2, <1>8 DEF Claim, ThreadPc, RunHeeds, OnItsWay
  <2>2. MoveThread(r, h, "handle")
    BY <1>8 DEF Claim
  <2>3. run' = [run EXCEPT ![r] = x]
    BY <1>2, <1>8 DEF Claim, TypeInv, ExecInv, ExecutionTypeOK
  <2>4. row' = row /\ queue' = queue /\ channel' = channel
    BY <1>8 DEF Claim, storeVars
  <2>5. \A s \in Runs \ {r} : thread'[s] = thread[s]
    BY <2>2, ThreadMoved, TwoThreads
  <2>6. /\ x.task = t /\ x.pc = run[r].pc /\ x.target = run[r].target
        /\ x.failures = {} /\ x.dirty = run[r].dirty
        /\ x.registered = run[r].registered /\ x.abortDetected
    BY <1>2 DEF RunState, RunHeeds
  <2>. HIDE DEF x
  <2>. QED BY <1>2, <2>1, <2>3, <2>4, <2>5, <2>6, ListenerOwns
<1>9. CASE Handle(r, h)
  <2>. DEFINE x == AfterHandlers(run[r], FALSE)
  <2>1. Aborting(t)
    BY <1>2, <1>9 DEF Handle, ThreadPc, RunHeeds, OnItsWay
  <2>2. MoveThread(r, h, "done")
    BY <1>9 DEF Handle
  <2>3. run' = [run EXCEPT ![r] = x]
    BY <1>9 DEF Handle, HandlerOutcome, MayFail
  <2>4. row' = row /\ queue' = queue /\ channel' = channel
    BY <1>9 DEF Handle
  <2>5. \A s \in Runs \ {r} : thread'[s] = thread[s]
    BY <2>2, ThreadMoved, TwoThreads
  <2>6. /\ x.task = t /\ x.pc = run[r].pc /\ x.target = run[r].target
        /\ x.failures = {} /\ x.dirty = run[r].dirty
        /\ x.registered = run[r].registered
        /\ x.abortDetected = run[r].abortDetected
    BY <1>2 DEF AfterHandlers, RunState, RunHeeds
  <2>. HIDE DEF x
  <2>. QED BY <1>2, <2>1, <2>3, <2>4, <2>5, <2>6, ListenerOwns
<1>. QED BY <1>1, <1>6, <1>7, <1>8, <1>9
-----------------------------------------------------------------------------
(***************************************************************************)
(* The composition.                                                        *)
(***************************************************************************)
LEMMA StoreStepOwns ==
  ASSUME TypeInv, SlotInv, OutcomeInv, OwnerInv, NEW t \in Tasks,
         Redeliver(t) \/ Prune(t), UNCHANGED <<req, execVars>>
  PROVE  OwnerInv'
<1>1. channel' = channel /\ req' = req /\ run' = run /\ thread' = thread
  BY DEF Redeliver, Prune, execVars
<1>2. \A o \in Tasks : queue[o] > 0 => queue'[o] > 0
  BY DEF Redeliver, Prune, TypeInv, StoreInv, StoreTypeOK
<1>3. /\ \A o \in Tasks : row'[o].keyed = row[o].keyed
      /\ \A o \in Tasks : row[o].keyed => row'[o] = row[o]
      /\ \A o \in Tasks : row[o].status # Absent => row'[o].status # Absent
  <2>1. CASE Redeliver(t)
    BY <2>1 DEF Redeliver
  <2>2. CASE Prune(t)
    <3>1. ~row[t].keyed /\ row[t] \in Row
      BY <2>2, RowsTyped, StatusNames
      DEF Prune, Finished, SlotInv, RowsInOrder, RowInOrder
    <3>2. /\ row'[t] = [row[t] EXCEPT !.status = Pruned, !.subs = {}]
          /\ \A o \in Tasks \ {t} : row'[o] = row[o]
      BY <2>2 DEF Prune, TypeInv, StoreInv, StoreTypeOK
    <3>3. row'[t].status # Absent /\ ~row'[t].keyed
      BY <3>1, <3>2, StatusNames DEF Row
    <3>4. ASSUME NEW o \in Tasks
          PROVE  /\ row'[o].keyed = row[o].keyed
                 /\ row[o].keyed => row'[o] = row[o]
                 /\ row[o].status # Absent => row'[o].status # Absent
      <4>1. CASE o = t
        <5>1. row'[t].keyed = row[t].keyed
          BY <3>1, <3>2 DEF Row
        <5>. QED BY <3>1, <3>3, <4>1, <5>1
      <4>2. CASE o # t
        BY <3>2, <4>2
      <4>. QED BY <4>1, <4>2
    <3>. QED BY <3>4
  <2>. QED BY <2>1, <2>2
<1>4. RowsMonotone /\ AbortsStay
  BY <1>3 DEF RowsMonotone, AbortsStay, Aborting
<1>5. \A u \in Users : RequestHeeds(req[u])'
  BY <1>1, <1>4, RequestStillHeeds DEF OwnerInv
<1>6. \A r \in Runs : RunHeeds(r)'
  BY <1>1, <1>4, RunStillHeeds DEF OwnerInv
<1>7. ChannelHeeds'
  BY <1>1, <1>4, ChannelStillHeeds DEF OwnerInv
<1>8. ASSUME NEW o \in Tasks PROVE Owned(o)'
  <2>1. /\ Awaited(o) => Awaited(o)'
        /\ Executed(o) => Executed(o)'
    BY <1>1, <1>2 DEF Awaited, Executed
  <2>2. Owned(o) /\ row'[o].keyed = row[o].keyed
        /\ (row[o].keyed => row'[o] = row[o])
    BY <1>3 DEF OwnerInv
  <2>. QED BY <2>1, <2>2 DEF Owned
<1>. QED BY <1>5, <1>6, <1>7, <1>8 DEF OwnerInv

LEMMA InitOwns == Init => OwnerInv
<1>. SUFFICES ASSUME Init PROVE OwnerInv
  OBVIOUS
<1>1. ChannelHeeds /\ \A t \in Tasks : Owned(t)
  BY DEF Init, StoreInit, NoRow, ChannelHeeds, Owned
<1>2. \A u \in Users : RequestHeeds(req[u])
  BY IdleHeeds DEF Init, RequestInit
<1>3. ASSUME NEW r \in Runs PROVE RunHeeds(r)
  <2>1. run[r] = NewRun /\ thread[r]["listener"] = NoThread
    BY DEF Init, ExecutionInit, Threads
  <2>. QED BY <2>1 DEF RunHeeds, NewRun, NoThread, EndPlaces, OnItsWay
<1>. QED BY <1>1, <1>2, <1>3 DEF OwnerInv

LEMMA StutterOwns ==
  ASSUME TypeInv, SlotInv, OutcomeInv, OwnerInv, UNCHANGED vars
  PROVE  OwnerInv'
<1>1. /\ row' = row /\ channel' = channel /\ req' = req /\ queue' = queue
      /\ run' = run /\ thread' = thread
  BY DEF vars, storeVars, execVars
<1>2. RowsMonotone /\ AbortsStay
  BY <1>1, SameRowsStanding, StandingRows
<1>3. (\A u \in Users : RequestHeeds(req[u])') /\ ChannelHeeds'
  BY <1>1, <1>2, RequestStillHeeds, ChannelStillHeeds DEF OwnerInv
<1>4. \A r \in Runs : RunHeeds(r)'
  BY <1>1, <1>2, RunStillHeeds DEF OwnerInv
<1>5. \A t \in Tasks : Owned(t)'
  BY <1>1 DEF OwnerInv, Owned, Awaited, Executed
<1>. QED BY <1>3, <1>4, <1>5 DEF OwnerInv

LEMMA NextKeepsOwners ==
  ASSUME Orderly, TypeInv, SlotInv, OutcomeInv, DeadlineInv, AsyncInv,
         OwnerInv, [Next]_vars
  PROVE  OwnerInv'
<1>1. AllAsync /\ Untimed
  BY DEF Orderly, AsyncInv, DeadlineInv, Untimed
<1>2. TypeInv'
  BY NextTyped
<1>3. CASE RequestStep /\ UNCHANGED execVars
  BY <1>2, <1>3, RequestsOwn DEF RequestStep
<1>4. CASE RunStep /\ UNCHANGED req
  BY <1>1, <1>4, ExecutesOwn, BackgroundOwns DEF RunStep, Orderly
<1>5. CASE StoreStep /\ UNCHANGED <<req, execVars>>
  BY <1>5, StoreStepOwns DEF StoreStep
<1>6. ~CrashStep
  BY DEF CrashStep, Orderly
<1>7. CASE UNCHANGED vars
  BY <1>7, StutterOwns
<1>. QED BY <1>3, <1>4, <1>5, <1>6, <1>7 DEF Next

LEMMA OwnersInCharge == OwnerInv => SlotIsOwned
<1>. SUFFICES ASSUME OwnerInv, NEW t \in Tasks, row[t].keyed
              PROVE  InCharge(t)
  BY DEF SlotIsOwned
<1>1. Awaited(t) \/ Executed(t)
  BY DEF OwnerInv, Owned
<1>2. Awaited(t) => InCharge(t)
  BY DEF Awaited, InCharge
<1>3. Executed(t) => InCharge(t)
  BY DEF Executed, InCharge, LivePlaces
<1>. QED BY <1>1, <1>2, <1>3

\* Asynchronous tasks without timeouts, whose handlers do not raise and whose
\* processes do not die, never leave a slot behind: however often Celery
\* delivers the message, and wherever the cancels fall between the reads and
\* the writes of a run, a row holds its dedup_key only while a submit, a
\* message or a run is still on its way to end it.
THEOREM SlotsAreOwned == ASSUME Orderly PROVE Spec => []SlotIsOwned
<1>1. Init => OwnerInv
  BY InitOwns
<1>2. /\ (TypeInv /\ SlotInv) /\ OutcomeInv /\ DeadlineInv /\ AsyncInv
      /\ OwnerInv /\ [Next]_vars
      => OwnerInv'
  BY NextKeepsOwners
<1>3. OwnerInv => SlotIsOwned
  BY OwnersInCharge
<1>. QED BY <1>1, <1>2, <1>3, SlotInvCorrect, OutcomeInvCorrect,
            DeadlineInvCorrect, AsyncInvCorrect, PTL
     DEF Spec
=============================================================================
