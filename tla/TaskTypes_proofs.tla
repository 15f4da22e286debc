------------------------- MODULE TaskTypes_proofs -------------------------
(***************************************************************************)
(* Type correctness of the Global Task Framework, for every number of      *)
(* tasks, users, keys and runs.  TypeOK is not inductive by itself: an     *)
(* action reads the row of "its" task, so whoever is at work must know     *)
(* one, and the queue is bounded by the messages ever sent.                *)
(***************************************************************************)
EXTENDS TaskFramework, TLAPS

\* The queue never holds more messages of a task than were sent.
QueueBounded == \A t \in Tasks : queue[t] <= sent[t]

\* A request past its first steps knows its task.
RequestLocated(q) ==
  q.pc \notin {"idle", "submitting", "unlocked"} => q.task \in Tasks

\* So does a run that has fetched, and the threads it has started.
RunsLocated ==
  \A r \in Runs :
    /\ run[r].pc # "new" => run[r].task \in Tasks
    /\ \A h \in Threads : thread[r][h].pc # "off" => run[r].task \in Tasks

StoreInv == StoreTypeOK /\ QueueBounded
RequestInv == RequestTypeOK /\ \A u \in Users : RequestLocated(req[u])
ExecInv == ExecutionTypeOK /\ RunsLocated

TypeInv == StoreInv /\ RequestInv /\ ExecInv
-----------------------------------------------------------------------------
(***************************************************************************)
(* Initial records, and what the operators on rows return.                 *)
(***************************************************************************)
LEMMA NoRowTyped == NoRow \in Row
  BY DEF NoRow, Row, RowStatus, Absent

LEMMA IdleTyped == Idle \in Request
  BY NoRowTyped DEF Idle, Request

LEMMA NewRunTyped == NewRun \in RunState
  BY NoRowTyped DEF NewRun, RunState, TERMINAL_STATES, RowStatus, Absent

LEMMA NoThreadTyped == NoThread \in ThreadState
  BY NoRowTyped DEF NoThread, ThreadState

LEMMA NewRowTyped ==
  ASSUME NEW k \in Keys \cup {NoKey}, NEW u \in Users,
         NEW m \in {"async", "sync"}, NEW w \in BOOLEAN
  PROVE  NewRow(k, u, m, w) \in Row
  BY DEF NewRow, Row, RowStatus, TaskStatus, ACTIVE_STATES

LEMMA SetStatusTyped ==
  ASSUME NEW x \in Row, NEW seen, NEW s \in RowStatus
  PROVE  SetStatus(x, seen, s) \in Row
  BY DEF SetStatus, Row

LEMMA SwapTyped ==
  ASSUME NEW x \in Row, NEW s \in RowStatus, NEW p \in BOOLEAN
  PROVE  Swap(x, s, p) \in Row
  BY DEF Swap, Row

LEMMA StatusTyped ==
  /\ TERMINAL_STATES \subseteq RowStatus
  /\ {"pending", "in_progress", "aborting", "success", "failure", "aborted"}
       \subseteq RowStatus
  BY DEF RowStatus, TaskStatus, ACTIVE_STATES, TERMINAL_STATES

LEMMA InitTyped == Init => TypeInv
  <1>. SUFFICES ASSUME Init PROVE TypeInv
    OBVIOUS
  <1>1. StoreInv
    BY StoreAssumption, NoRowTyped
    DEF StoreAssumption, Init, StoreInit, StoreInv, StoreTypeOK,
        QueueBounded, NoHistory, History, LockState, ChannelState
  <1>2. RequestInv
    BY IdleTyped
    DEF Init, RequestInit, RequestInv, RequestTypeOK, RequestLocated, Idle
  <1>3. ExecInv
    BY NewRunTyped, NoThreadTyped
    DEF Init, ExecutionInit, ExecInv, ExecutionTypeOK, RunsLocated, NewRun,
        NoThread
  <1>. QED BY <1>1, <1>2, <1>3 DEF TypeInv
-----------------------------------------------------------------------------
(***************************************************************************)
(* What a step leaves alone, and steps that change one entry.              *)
(***************************************************************************)
LEMMA StoreKept == StoreInv /\ UNCHANGED storeVars => StoreInv'
  BY DEF StoreInv, StoreTypeOK, QueueBounded, storeVars

LEMMA RequestKept == RequestInv /\ UNCHANGED req => RequestInv'
  BY DEF RequestInv, RequestTypeOK

LEMMA ExecKept == ExecInv /\ UNCHANGED execVars => ExecInv'
  BY DEF ExecInv, ExecutionTypeOK, RunsLocated, execVars

\* The parts of StoreInv, once the row has been looked after.
LEMMA StoreStepTyped ==
  ASSUME StoreInv, row' \in [Tasks -> Row], hist' \in [Tasks -> History],
         lock' \in [Keys -> LockState], channel' \in [Tasks -> ChannelState],
         queue' = queue, sent' = sent
  PROVE  StoreInv'
<1>1. /\ queue' \in [Tasks -> 0..MaxDeliveries]
      /\ sent' \in [Tasks -> 0..MaxDeliveries]
  BY DEF StoreInv, StoreTypeOK
<1>2. QueueBounded'
  BY DEF StoreInv, QueueBounded
<1>. QED BY <1>1, <1>2 DEF StoreInv, StoreTypeOK

LEMMA RequestStepTyped ==
  ASSUME RequestInv, NEW u \in Users, req' = [req EXCEPT ![u] = req'[u]],
         req'[u] \in Request, RequestLocated(req'[u])
  PROVE  RequestInv'
  BY DEF RequestInv, RequestTypeOK

LEMMA RunStepTyped ==
  ASSUME ExecInv, NEW r \in Runs, run' = [run EXCEPT ![r] = run'[r]],
         run'[r] \in RunState, RunsLocated',
         thread' \in [Runs -> [Threads -> ThreadState]]
  PROVE  ExecInv'
  BY DEF ExecInv, ExecutionTypeOK

\* The row a run or one of its threads works on.
LEMMA TaskOfTyped ==
  ASSUME TypeInv, NEW r \in Runs, run[r].task \in Tasks
  PROVE  /\ TaskOf(r) \in Row
         /\ Flushed(r) \in Row
         /\ StatusSeen(r) \in RowStatus
<1>1. TaskOf(r) \in Row
  BY DEF TaskOf, TypeInv, StoreInv, StoreTypeOK
<1>2. Flushed(r) \in Row
  BY <1>1, StatusTyped DEF Flushed, Row
<1>3. run[r].loaded \in RowStatus
  BY DEF TypeInv, ExecInv, ExecutionTypeOK, RunState
<1>. QED BY <1>1, <1>2, <1>3 DEF StatusSeen, Row

\* One request, one run replaced.
LEMMA RequestUpdated ==
  ASSUME TypeInv, NEW u \in Users, NEW q, req' = [req EXCEPT ![u] = q]
  PROVE  req'[u] = q /\ \A v \in Users \ {u} : req'[v] = req[v]
BY DEF TypeInv, RequestInv, RequestTypeOK

LEMMA RunUpdated ==
  ASSUME TypeInv, NEW r \in Runs, NEW x, run' = [run EXCEPT ![r] = x]
  PROVE  run'[r] = x /\ \A s \in Runs \ {r} : run'[s] = run[s]
BY DEF TypeInv, ExecInv, ExecutionTypeOK

\* What a commit of its session leaves of a run.
LEMMA CommittedTyped ==
  ASSUME NEW x \in RunState
  PROVE  /\ Committed(x) \in RunState
         /\ Committed(x).task = x.task
<1>1. Absent \in RowStatus
  BY DEF RowStatus
<1>. QED BY <1>1 DEF Committed, RunState
-----------------------------------------------------------------------------
(***************************************************************************)
(* Requests.                                                               *)
(***************************************************************************)
\* The request a submit leaves behind when it has looked the slot up.
LookedUp(k, m, w, t) ==
  [Idle EXCEPT !.pc = "submitting", !.key = k, !.task = t,
               !.mode = m, !.timeout = w]

LEMMA LookedUpTyped ==
  ASSUME NEW k \in Keys, NEW m \in Modes, NEW w \in TimeoutOptions,
         NEW t \in Tasks \cup {NoTask}
  PROVE  /\ LookedUp(k, m, w, t) \in Request
         /\ LookedUp(k, m, w, t).pc = "submitting"
         /\ LookedUp(k, m, w, t).key = k
         /\ LookedUp(k, m, w, t).task = t
<1>1. m \in {"async", "sync"} /\ w \in BOOLEAN
  BY StoreAssumption DEF StoreAssumption
<1>2. LookedUp(k, m, w, t) \in Request
  BY <1>1, IdleTyped DEF LookedUp, Request
<1>3. LookedUp(k, m, w, t).pc = "submitting"
  BY DEF LookedUp, Idle
<1>4. LookedUp(k, m, w, t).key = k
  BY DEF LookedUp, Idle
<1>5. LookedUp(k, m, w, t).task = t
  BY DEF LookedUp, Idle
<1>. QED BY <1>2, <1>3, <1>4, <1>5

LEMMA SubmitLookupPicks ==
  ASSUME NEW u \in Users, SubmitLookup(u)
  PROVE  \E k \in Keys, t \in Tasks \cup {NoTask}, q \in Request :
           /\ LockFree(k)
           /\ lock' = [lock EXCEPT ![k] = IF Redis THEN "taken" ELSE "open"]
           /\ t # NoTask => t \in ActiveRows(k)
           /\ req' = [req EXCEPT ![u] = q]
           /\ q.pc = "submitting" /\ q.key = k /\ q.task = t
<1>1. PICK k \in Keys, m \in Modes, w \in TimeoutOptions :
        /\ LockFree(k)
        /\ lock' = [lock EXCEPT ![k] = IF Redis THEN "taken" ELSE "open"]
        /\ \E t \in Tasks \cup {NoTask} :
             /\ IF ActiveRows(k) = {} THEN t = NoTask /\ RoomForOneMore
                ELSE t \in ActiveRows(k)
             /\ req' = [req EXCEPT ![u] = LookedUp(k, m, w, t)]
  BY Zenon DEF SubmitLookup, LookedUp
<1>2. PICK t \in Tasks \cup {NoTask} :
        /\ IF ActiveRows(k) = {} THEN t = NoTask /\ RoomForOneMore
           ELSE t \in ActiveRows(k)
        /\ req' = [req EXCEPT ![u] = LookedUp(k, m, w, t)]
  BY <1>1, Zenon
<1>3. t # NoTask => t \in ActiveRows(k)
  BY <1>2
<1>. DEFINE q == LookedUp(k, m, w, t)
<1>4. q \in Request /\ q.pc = "submitting" /\ q.key = k /\ q.task = t
  BY LookedUpTyped
<1>5. req' = [req EXCEPT ![u] = q]
  BY <1>2
<1>. HIDE DEF q
<1>. QED BY <1>1, <1>3, <1>4, <1>5

LEMMA SubmitLookupTyped ==
  ASSUME TypeInv, NEW u \in Users, SubmitLookup(u)
  PROVE  StoreInv' /\ RequestInv'
<1>1. PICK q \in Request : /\ req' = [req EXCEPT ![u] = q]
                           /\ q.pc = "submitting"
  BY SubmitLookupPicks, Zenon
<1>2. req'[u] = q
  BY <1>1, RequestUpdated
<1>3. req' = [req EXCEPT ![u] = req'[u]]
  BY <1>1, <1>2
<1>4. RequestLocated(req'[u])
  BY <1>1, <1>2 DEF RequestLocated
<1>5. StoreInv'
  BY DEF SubmitLookup, TypeInv, StoreInv, StoreTypeOK, QueueBounded,
         LockState, ChannelState
<1>. QED BY <1>2, <1>3, <1>4, <1>5, RequestStepTyped DEF TypeInv

LEMMA SubmitUnlockTyped ==
  ASSUME TypeInv, NEW u \in Users, SubmitUnlock(u)
  PROVE  StoreInv' /\ RequestInv'
<1>1. req[u] \in Request /\ RequestTypeOK
  BY DEF TypeInv, RequestInv, RequestTypeOK
<1>2. req'[u] \in Request
  BY <1>1 DEF SubmitUnlock, RequestTypeOK, Request
<1>3. req' = [req EXCEPT ![u] = req'[u]]
  BY <1>1 DEF SubmitUnlock, RequestTypeOK
<1>4. RequestLocated(req'[u])
  BY <1>1
  DEF SubmitUnlock, TypeInv, RequestInv, RequestTypeOK, RequestLocated,
      Request
<1>5. StoreInv'
  BY DEF SubmitUnlock, TypeInv, StoreInv, StoreTypeOK, QueueBounded,
         LockState, ChannelState
<1>. QED BY <1>2, <1>3, <1>4, <1>5, RequestStepTyped DEF TypeInv

LEMMA SubmitCreateTyped ==
  ASSUME TypeInv, NEW u \in Users, SubmitCreate(u)
  PROVE  StoreInv' /\ RequestInv'
<1>0. PICK t \in Tasks :
        /\ row' = [row EXCEPT ![t] =
                    NewRow(req[u].key, u, req[u].mode, req[u].timeout)]
        /\ req' = [req EXCEPT ![u].pc = "scheduling", ![u].task = t]
  BY DEF SubmitCreate
<1>1. req[u] \in Request /\ RequestTypeOK
  BY DEF TypeInv, RequestInv, RequestTypeOK
<1>2. req'[u] \in Request
  BY <1>1, <1>0 DEF SubmitCreate, RequestTypeOK, Request
<1>3. req' = [req EXCEPT ![u] = req'[u]]
  BY <1>1, <1>0 DEF SubmitCreate, RequestTypeOK
<1>4. RequestLocated(req'[u])
  BY <1>1, <1>0
  DEF SubmitCreate, TypeInv, RequestInv, RequestTypeOK, RequestLocated,
      Request
<1>5. StoreInv'
  <2>1. NewRow(req[u].key, u, req[u].mode, req[u].timeout) \in Row
    BY <1>1, NewRowTyped DEF Request
  <2>2. row' \in [Tasks -> Row]
    BY <1>0, <2>1 DEF TypeInv, StoreInv, StoreTypeOK
  <2>3. lock' \in [Keys -> LockState]
    BY DEF SubmitCreate, ReleasedByCommit, TypeInv, StoreInv, StoreTypeOK,
           LockState
  <2>. QED BY <2>2, <2>3, StoreStepTyped DEF SubmitCreate, TypeInv,
     StoreInv, StoreTypeOK
<1>. QED BY <1>2, <1>3, <1>4, <1>5, RequestStepTyped DEF TypeInv

LEMMA SubmitConflictTyped ==
  ASSUME TypeInv, NEW u \in Users, SubmitConflict(u)
  PROVE  StoreInv' /\ RequestInv'
<1>1. req[u] \in Request /\ RequestTypeOK
  BY DEF TypeInv, RequestInv, RequestTypeOK
<1>2. req'[u] \in Request
  BY <1>1, IdleTyped DEF SubmitConflict, RequestTypeOK, Request
<1>3. req' = [req EXCEPT ![u] = req'[u]]
  BY <1>1 DEF SubmitConflict, RequestTypeOK
<1>4. RequestLocated(req'[u])
  BY <1>1
  DEF SubmitConflict, TypeInv, RequestInv, RequestTypeOK, RequestLocated,
      Idle, Request
<1>5. StoreInv'
  BY DEF SubmitConflict, TypeInv, StoreInv, StoreTypeOK, QueueBounded,
         LockState, ChannelState, ReleasedByCommit
<1>. QED BY <1>2, <1>3, <1>4, <1>5, RequestStepTyped DEF TypeInv

LEMMA SubmitJoinTyped ==
  ASSUME TypeInv, NEW u \in Users, SubmitJoin(u)
  PROVE  StoreInv' /\ RequestInv'
<1>1. req[u] \in Request /\ RequestTypeOK
  BY DEF TypeInv, RequestInv, RequestTypeOK
<1>2. req'[u] \in Request
  BY <1>1, IdleTyped DEF SubmitJoin, RequestTypeOK, Request
<1>3. req' = [req EXCEPT ![u] = req'[u]]
  BY <1>1 DEF SubmitJoin, RequestTypeOK
<1>4. RequestLocated(req'[u])
  BY <1>1
  DEF SubmitJoin, TypeInv, RequestInv, RequestTypeOK, RequestLocated, Idle,
      Request
<1>5. StoreInv'
  <2>1. req[u].task \in Tasks
    BY <1>1 DEF SubmitJoin, Request
  <2>2. [row[req[u].task] EXCEPT !.subs =
           IF Exists(req[u].task) THEN @ \cup {u} ELSE @] \in Row
    BY <2>1 DEF TypeInv, StoreInv, StoreTypeOK, Row
  <2>3. row' \in [Tasks -> Row]
    BY <2>1, <2>2 DEF SubmitJoin, TypeInv, StoreInv, StoreTypeOK
  <2>4. lock' \in [Keys -> LockState]
    BY DEF SubmitJoin, ReleasedByCommit, TypeInv, StoreInv, StoreTypeOK,
           LockState
  <2>. QED BY <2>3, <2>4, StoreStepTyped DEF SubmitJoin, TypeInv, StoreInv,
     StoreTypeOK
<1>. QED BY <1>2, <1>3, <1>4, <1>5, RequestStepTyped DEF TypeInv

LEMMA ScheduleTyped ==
  ASSUME TypeInv, NEW u \in Users, Schedule(u)
  PROVE  StoreInv' /\ RequestInv'
<1>1. req[u] \in Request /\ RequestTypeOK
  BY DEF TypeInv, RequestInv, RequestTypeOK
<1>2. req'[u] \in Request
  BY <1>1, IdleTyped DEF Schedule, RequestTypeOK, Request
<1>3. req' = [req EXCEPT ![u] = req'[u]]
  BY <1>1 DEF Schedule, RequestTypeOK
<1>4. RequestLocated(req'[u])
  BY <1>1
  DEF Schedule, TypeInv, RequestInv, RequestTypeOK, RequestLocated, Idle,
      Request
<1>5. StoreInv'
  <2>1. 1 \in 0..MaxDeliveries
    BY StoreAssumption DEF StoreAssumption
  <2>3. queue' \in [Tasks -> 0..MaxDeliveries]
    BY <2>1 DEF Schedule, TypeInv, StoreInv, StoreTypeOK
  <2>4. sent' \in [Tasks -> 0..MaxDeliveries]
    BY <2>1 DEF Schedule, TypeInv, StoreInv, StoreTypeOK
  <2>2. QueueBounded'
    BY DEF Schedule, TypeInv, StoreInv, StoreTypeOK, QueueBounded
  <2>. QED BY <2>2, <2>3, <2>4 DEF Schedule, TypeInv, StoreInv, StoreTypeOK
<1>. QED BY <1>2, <1>3, <1>4, <1>5, RequestStepTyped DEF TypeInv

LEMMA WaitEndsTyped ==
  ASSUME TypeInv, NEW u \in Users, WaitEnds(u)
  PROVE  StoreInv' /\ RequestInv'
<1>1. req[u] \in Request /\ RequestTypeOK
  BY DEF TypeInv, RequestInv, RequestTypeOK
<1>2. req'[u] \in Request
  BY <1>1, IdleTyped DEF WaitEnds, RequestTypeOK, Request
<1>3. req' = [req EXCEPT ![u] = req'[u]]
  BY <1>1 DEF WaitEnds, RequestTypeOK
<1>4. RequestLocated(req'[u])
  BY <1>1
  DEF WaitEnds, TypeInv, RequestInv, RequestTypeOK, RequestLocated, Idle,
      Request
<1>5. StoreInv'
  BY StoreKept DEF TypeInv, WaitEnds
<1>. QED BY <1>2, <1>3, <1>4, <1>5, RequestStepTyped DEF TypeInv

LEMMA WaitTimesOutTyped ==
  ASSUME TypeInv, NEW u \in Users, WaitTimesOut(u)
  PROVE  StoreInv' /\ RequestInv'
<1>1. req[u] \in Request /\ RequestTypeOK
  BY DEF TypeInv, RequestInv, RequestTypeOK
<1>2. req'[u] \in Request
  BY <1>1, IdleTyped DEF WaitTimesOut, RequestTypeOK, Request
<1>3. req' = [req EXCEPT ![u] = req'[u]]
  BY <1>1 DEF WaitTimesOut, RequestTypeOK
<1>4. RequestLocated(req'[u])
  BY <1>1
  DEF WaitTimesOut, TypeInv, RequestInv, RequestTypeOK, RequestLocated,
      Idle, Request
<1>5. StoreInv'
  BY StoreKept DEF TypeInv, WaitTimesOut
<1>. QED BY <1>2, <1>3, <1>4, <1>5, RequestStepTyped DEF TypeInv

LEMMA SubmitterDiesTyped ==
  ASSUME TypeInv, NEW u \in Users, SubmitterDies(u)
  PROVE  StoreInv' /\ RequestInv'
<1>1. req[u] \in Request /\ RequestTypeOK
  BY DEF TypeInv, RequestInv, RequestTypeOK
<1>2. req'[u] \in Request
  BY <1>1, IdleTyped DEF SubmitterDies, RequestTypeOK, Request
<1>3. req' = [req EXCEPT ![u] = req'[u]]
  BY <1>1 DEF SubmitterDies, RequestTypeOK
<1>4. RequestLocated(req'[u])
  BY <1>1
  DEF SubmitterDies, TypeInv, RequestInv, RequestTypeOK, RequestLocated,
      Idle, Request
<1>5. StoreInv'
  BY StoreKept DEF TypeInv, SubmitterDies
<1>. QED BY <1>2, <1>3, <1>4, <1>5, RequestStepTyped DEF TypeInv

LEMMA CancelFetchTyped ==
  ASSUME TypeInv, NEW u \in Users, CancelFetch(u)
  PROVE  StoreInv' /\ RequestInv'
<1>0. PICK t \in Tasks, f \in BOOLEAN :
        /\ row[t] \in Row /\ row[t].key \in Keys \cup {NoKey}
        /\ req' = [req EXCEPT ![u] = [Idle EXCEPT
                     !.pc = "cancelling", !.key = row[t].key, !.task = t,
                     !.force = f, !.seen = row[t]]]
  BY DEF CancelFetch, TypeInv, StoreInv, StoreTypeOK, Row
<1>1. req[u] \in Request /\ RequestTypeOK
  BY DEF TypeInv, RequestInv, RequestTypeOK
<1>2. req'[u] \in Request
  <2>. DEFINE q == [Idle EXCEPT
                      !.pc = "cancelling", !.key = row[t].key, !.task = t,
                      !.force = f, !.seen = row[t]]
  <2>2. q \in Request
    BY <1>0, IdleTyped DEF Request
  <2>3. req' = [req EXCEPT ![u] = q]
    BY <1>0
  <2>. HIDE DEF q
  <2>. QED BY <2>2, <2>3, RequestUpdated
<1>3. req' = [req EXCEPT ![u] = req'[u]]
  BY <1>1, <1>0 DEF CancelFetch, RequestTypeOK
<1>4. RequestLocated(req'[u])
  BY <1>1, <1>0
  DEF CancelFetch, TypeInv, RequestInv, RequestTypeOK, RequestLocated, Idle,
      Request
<1>5. StoreInv'
  BY StoreKept DEF TypeInv, CancelFetch
<1>. QED BY <1>2, <1>3, <1>4, <1>5, RequestStepTyped DEF TypeInv

LEMMA CancelLockTyped ==
  ASSUME TypeInv, NEW u \in Users, CancelLock(u)
  PROVE  StoreInv' /\ RequestInv'
<1>1. req[u] \in Request /\ RequestTypeOK
  BY DEF TypeInv, RequestInv, RequestTypeOK
<1>2. req'[u] \in Request
  BY <1>1 DEF CancelLock, RequestTypeOK, Request
<1>3. req' = [req EXCEPT ![u] = req'[u]]
  BY <1>1 DEF CancelLock, RequestTypeOK
<1>4. RequestLocated(req'[u])
  BY <1>1
  DEF CancelLock, TypeInv, RequestInv, RequestTypeOK, RequestLocated,
      Request
<1>5. StoreInv'
  BY DEF CancelLock, TypeInv, StoreInv, StoreTypeOK, QueueBounded,
         LockState, ChannelState
<1>. QED BY <1>2, <1>3, <1>4, <1>5, RequestStepTyped DEF TypeInv

LEMMA CancelRefusedTyped ==
  ASSUME TypeInv, NEW u \in Users, CancelRefused(u)
  PROVE  StoreInv' /\ RequestInv'
<1>1. req[u] \in Request /\ RequestTypeOK
  BY DEF TypeInv, RequestInv, RequestTypeOK
<1>2. req'[u] \in Request
  BY <1>1, IdleTyped DEF CancelRefused, RequestTypeOK, Request
<1>3. req' = [req EXCEPT ![u] = req'[u]]
  BY <1>1 DEF CancelRefused, RequestTypeOK
<1>4. RequestLocated(req'[u])
  BY <1>1
  DEF CancelRefused, TypeInv, RequestInv, RequestTypeOK, RequestLocated,
      Idle, Request
<1>5. StoreInv'
  BY StoreKept DEF TypeInv, CancelRefused
<1>. QED BY <1>2, <1>3, <1>4, <1>5, RequestStepTyped DEF TypeInv

LEMMA CancelDecideTyped ==
  ASSUME TypeInv, NEW u \in Users, CancelDecide(u)
  PROVE  StoreInv' /\ RequestInv'
<1>0. PICK x \in Row, p \in {"none", "unsubscribe", "abort"} :
        req' = [req EXCEPT ![u].seen = x, ![u].plan = p,
                   ![u].pc = IF p = "none" THEN "releasing" ELSE "deciding"]
  <2>1. req[u].task \in Tasks /\ req[u].seen \in Row
    BY DEF CancelDecide, TypeInv, RequestInv, RequestTypeOK, RequestLocated,
           Request
  <2>2. row[req[u].task] \in Row
    BY <2>1 DEF TypeInv, StoreInv, StoreTypeOK
  <2>. QED BY <2>1, <2>2 DEF CancelDecide, CancelPlan
<1>1. req[u] \in Request /\ RequestTypeOK
  BY DEF TypeInv, RequestInv, RequestTypeOK
<1>2. req'[u] \in Request
  BY <1>1, <1>0 DEF CancelDecide, RequestTypeOK, Request
<1>3. req' = [req EXCEPT ![u] = req'[u]]
  BY <1>1, <1>0 DEF CancelDecide, RequestTypeOK
<1>4. RequestLocated(req'[u])
  BY <1>1, <1>0
  DEF CancelDecide, TypeInv, RequestInv, RequestTypeOK, RequestLocated,
      Request
<1>5. StoreInv'
  BY StoreKept DEF TypeInv, CancelDecide
<1>. QED BY <1>2, <1>3, <1>4, <1>5, RequestStepTyped DEF TypeInv

LEMMA CancelAbortTyped ==
  ASSUME TypeInv, NEW u \in Users, CancelAbort(u)
  PROVE  StoreInv' /\ RequestInv'
<1>1. req[u] \in Request /\ RequestTypeOK
  BY DEF TypeInv, RequestInv, RequestTypeOK
<1>2. req'[u] \in Request
  BY <1>1, NoRowTyped DEF CancelAbort, RequestTypeOK, Request
<1>3. req' = [req EXCEPT ![u] = req'[u]]
  BY <1>1 DEF CancelAbort, RequestTypeOK
<1>4. RequestLocated(req'[u])
  BY <1>1
  DEF CancelAbort, TypeInv, RequestInv, RequestTypeOK, RequestLocated,
      Request
<1>5. StoreInv'
  <2>1. req[u].task \in Tasks
    BY <1>1 DEF CancelAbort, TypeInv, RequestInv, RequestLocated
  <2>2. SetStatus(row[req[u].task], req[u].seen,
     AbortTarget(req[u].seen)) \in Row
    BY <2>1, SetStatusTyped, StatusTyped
    DEF AbortTarget, TypeInv, StoreInv, StoreTypeOK
  <2>3. row' \in [Tasks -> Row]
    BY <2>1, <2>2 DEF CancelAbort, TypeInv, StoreInv, StoreTypeOK
  <2>4. hist' \in [Tasks -> History]
    BY DEF CancelAbort, TypeInv, StoreInv, StoreTypeOK, History
  <2>. QED BY <2>3, <2>4, StoreStepTyped DEF CancelAbort, TypeInv, StoreInv,
     StoreTypeOK
<1>. QED BY <1>2, <1>3, <1>4, <1>5, RequestStepTyped DEF TypeInv

LEMMA CancelUnsubscribeTyped ==
  ASSUME TypeInv, NEW u \in Users, CancelUnsubscribe(u)
  PROVE  StoreInv' /\ RequestInv'
<1>1. req[u] \in Request /\ RequestTypeOK
  BY DEF TypeInv, RequestInv, RequestTypeOK
<1>2. req'[u] \in Request
  BY <1>1, NoRowTyped DEF CancelUnsubscribe, RequestTypeOK, Request
<1>3. req' = [req EXCEPT ![u] = req'[u]]
  BY <1>1 DEF CancelUnsubscribe, RequestTypeOK
<1>4. RequestLocated(req'[u])
  BY <1>1
  DEF CancelUnsubscribe, TypeInv, RequestInv, RequestTypeOK, RequestLocated,
      Request
<1>5. StoreInv'
  <2>1. req[u].task \in Tasks
    BY <1>1 DEF CancelUnsubscribe, TypeInv, RequestInv, RequestLocated
  <2>2. [row[req[u].task] EXCEPT !.subs = @ \ {u}] \in Row
    BY <2>1 DEF TypeInv, StoreInv, StoreTypeOK, Row
  <2>3. row' \in [Tasks -> Row]
    BY <2>1, <2>2 DEF CancelUnsubscribe, TypeInv, StoreInv, StoreTypeOK
  <2>. QED BY <2>3, StoreStepTyped DEF CancelUnsubscribe, TypeInv, StoreInv,
     StoreTypeOK
<1>. QED BY <1>2, <1>3, <1>4, <1>5, RequestStepTyped DEF TypeInv

LEMMA CancelReleaseTyped ==
  ASSUME TypeInv, NEW u \in Users, CancelRelease(u)
  PROVE  StoreInv' /\ RequestInv'
<1>1. req[u] \in Request /\ RequestTypeOK
  BY DEF TypeInv, RequestInv, RequestTypeOK
<1>2. req'[u] \in Request
  BY <1>1, IdleTyped DEF CancelRelease, RequestTypeOK, Request
<1>3. req' = [req EXCEPT ![u] = req'[u]]
  BY <1>1 DEF CancelRelease, RequestTypeOK
<1>4. RequestLocated(req'[u])
  BY <1>1
  DEF CancelRelease, TypeInv, RequestInv, RequestTypeOK, RequestLocated,
      Idle, Request
<1>5. StoreInv'
  BY DEF CancelRelease, TypeInv, StoreInv, StoreTypeOK, QueueBounded,
         LockState, ChannelState
<1>. QED BY <1>2, <1>3, <1>4, <1>5, RequestStepTyped DEF TypeInv

LEMMA CancelPublishTyped ==
  ASSUME TypeInv, NEW u \in Users, CancelPublish(u)
  PROVE  StoreInv' /\ RequestInv'
<1>1. req[u] \in Request /\ RequestTypeOK
  BY DEF TypeInv, RequestInv, RequestTypeOK
<1>2. req'[u] \in Request
  BY <1>1, IdleTyped DEF CancelPublish, RequestTypeOK, Request
<1>3. req' = [req EXCEPT ![u] = req'[u]]
  BY <1>1 DEF CancelPublish, RequestTypeOK
<1>4. RequestLocated(req'[u])
  BY <1>1
  DEF CancelPublish, TypeInv, RequestInv, RequestTypeOK, RequestLocated,
      Idle, Request
<1>5. StoreInv'
  BY DEF CancelPublish, TypeInv, StoreInv, StoreTypeOK, QueueBounded,
         LockState, ChannelState
<1>. QED BY <1>2, <1>3, <1>4, <1>5, RequestStepTyped DEF TypeInv

-----------------------------------------------------------------------------
(***************************************************************************)
(* Runs and their threads.                                                 *)
(***************************************************************************)
LEMMA FetchTyped ==
  ASSUME TypeInv, NEW r \in Runs, Fetch(r)
  PROVE  StoreInv' /\ ExecInv'
<1>0. PICK t \in Tasks :
        /\ queue[t] > 0
        /\ queue' = [queue EXCEPT ![t] = @ - 1]
        /\ run' = [run EXCEPT ![r] = [NewRun EXCEPT
                     !.task = t, !.seen = IF Exists(t) THEN row[t] ELSE NoRow,
                     !.pc = IF Exists(t) THEN "fetched" ELSE "done"]]
        /\ row[t] \in Row
  BY DEF Fetch, TypeInv, StoreInv, StoreTypeOK
<1>1. run[r] \in RunState /\ ExecutionTypeOK
  BY DEF TypeInv, ExecInv, ExecutionTypeOK
<1>2. run'[r] \in RunState
  <2>. DEFINE x == [NewRun EXCEPT
                      !.task = t, !.seen = IF Exists(t) THEN row[t] ELSE NoRow,
                      !.pc = IF Exists(t) THEN "fetched" ELSE "done"]
  <2>1. x \in RunState
    <3>1. /\ (IF Exists(t) THEN row[t] ELSE NoRow) \in Row
          /\ (IF Exists(t) THEN "fetched" ELSE "done") \in {"fetched", "done"}
      BY <1>0, NoRowTyped
    <3>. QED BY <3>1, NewRunTyped DEF RunState
  <2>2. run' = [run EXCEPT ![r] = x]
    BY <1>0
  <2>. HIDE DEF x
  <2>. QED BY <2>1, <2>2, RunUpdated
<1>3. run' = [run EXCEPT ![r] = run'[r]]
  BY <1>1, <1>0 DEF Fetch, ExecutionTypeOK, NewRun
<1>4. thread' \in [Runs -> [Threads -> ThreadState]]
  BY <1>1 DEF Fetch, ExecutionTypeOK
<1>5. RunsLocated'
  BY <1>1, <1>0
  DEF Fetch, TypeInv, ExecInv, ExecutionTypeOK, RunsLocated, RunState,
      ThreadState, NewRun
<1>6. StoreInv'
  <2>1. queue' \in [Tasks -> 0..MaxDeliveries]
    BY <1>0, StoreAssumption
    DEF StoreAssumption, TypeInv, StoreInv, StoreTypeOK
  <2>2. QueueBounded'
    BY <1>0, StoreAssumption
    DEF StoreAssumption, Fetch, TypeInv, StoreInv, StoreTypeOK, QueueBounded
  <2>. QED BY <2>1, <2>2 DEF Fetch, TypeInv, StoreInv, StoreTypeOK
<1>. QED BY <1>1, <1>2, <1>3, <1>4, <1>5, <1>6, RunStepTyped DEF TypeInv

LEMMA SkipAbortedTyped ==
  ASSUME TypeInv, NEW r \in Runs, SkipAborted(r)
  PROVE  StoreInv' /\ ExecInv'
<1>1. run[r] \in RunState /\ ExecutionTypeOK
  BY DEF TypeInv, ExecInv, ExecutionTypeOK
<1>2. run'[r] \in RunState
  BY <1>1, NoRowTyped DEF SkipAborted, ExecutionTypeOK, RunState
<1>3. run' = [run EXCEPT ![r] = run'[r]]
  BY <1>1 DEF SkipAborted, ExecutionTypeOK
<1>4. thread' \in [Runs -> [Threads -> ThreadState]]
  BY <1>1 DEF SkipAborted, ExecutionTypeOK
<1>5. RunsLocated'
  BY <1>1
  DEF SkipAborted, TypeInv, ExecInv, ExecutionTypeOK, RunsLocated, RunState,
      ThreadState
<1>6. StoreInv'
  <2>1. run[r].task \in Tasks
    BY <1>1 DEF SkipAborted, TypeInv, ExecInv, RunsLocated
  <2>2. Swap(row[run[r].task], "aborted", FALSE) \in Row
    BY <2>1, TaskOfTyped, SwapTyped, StatusTyped DEF TaskOf
  <2>3. row' \in [Tasks -> Row]
    BY <2>1, <2>2 DEF SkipAborted, TypeInv, StoreInv, StoreTypeOK
  <2>. QED BY <2>3, StoreStepTyped DEF SkipAborted, TypeInv, StoreInv,
     StoreTypeOK
<1>. QED BY <1>1, <1>2, <1>3, <1>4, <1>5, <1>6, RunStepTyped DEF TypeInv

LEMMA PickupTyped ==
  ASSUME TypeInv, NEW r \in Runs, Pickup(r)
  PROVE  StoreInv' /\ ExecInv'
<1>1. run[r] \in RunState /\ ExecutionTypeOK
  BY DEF TypeInv, ExecInv, ExecutionTypeOK
<1>2. run'[r] \in RunState
  BY <1>1, NoRowTyped, StatusTyped DEF Pickup, ExecutionTypeOK, RunState
<1>3. run' = [run EXCEPT ![r] = run'[r]]
  BY <1>1 DEF Pickup, ExecutionTypeOK
<1>4. thread' \in [Runs -> [Threads -> ThreadState]]
  BY <1>1 DEF Pickup, ExecutionTypeOK, ThreadState, Threads
<1>5. RunsLocated'
  BY <1>1
  DEF Pickup, TypeInv, ExecInv, ExecutionTypeOK, RunsLocated, RunState,
      ThreadState
<1>6. StoreInv'
  <2>1. run[r].task \in Tasks
    BY <1>1 DEF Pickup, TypeInv, ExecInv, RunsLocated
  <2>2. Swap(row[run[r].task], "in_progress", FALSE) \in Row
    BY <2>1, TaskOfTyped, SwapTyped, StatusTyped DEF TaskOf
  <2>3. row' \in [Tasks -> Row]
    BY <2>1, <2>2 DEF Pickup, TypeInv, StoreInv, StoreTypeOK
  <2>5. hist[run[r].task] \in History
    BY <2>1 DEF TypeInv, StoreInv, StoreTypeOK
  <2>6. [hist[run[r].task] EXCEPT !.starts = @ + 1] \in History
    BY <2>5 DEF History
  <2>4. hist' \in [Tasks -> History]
    BY <2>1, <2>6 DEF Pickup, TypeInv, StoreInv, StoreTypeOK
  <2>. QED BY <2>3, <2>4, StoreStepTyped DEF Pickup, TypeInv, StoreInv,
     StoreTypeOK
<1>. QED BY <1>1, <1>2, <1>3, <1>4, <1>5, <1>6, RunStepTyped DEF TypeInv

LEMMA PickupFailsTyped ==
  ASSUME TypeInv, NEW r \in Runs, PickupFails(r)
  PROVE  StoreInv' /\ ExecInv'
<1>1. run[r] \in RunState /\ ExecutionTypeOK
  BY DEF TypeInv, ExecInv, ExecutionTypeOK
<1>2. run'[r] \in RunState
  BY <1>1, NoRowTyped DEF PickupFails, ExecutionTypeOK, RunState
<1>3. run' = [run EXCEPT ![r] = run'[r]]
  BY <1>1 DEF PickupFails, ExecutionTypeOK
<1>4. thread' \in [Runs -> [Threads -> ThreadState]]
  BY <1>1 DEF PickupFails, ExecutionTypeOK
<1>5. RunsLocated'
  BY <1>1
  DEF PickupFails, TypeInv, ExecInv, ExecutionTypeOK, RunsLocated, RunState,
      ThreadState
<1>6. StoreInv'
  BY StoreKept DEF TypeInv, PickupFails
<1>. QED BY <1>1, <1>2, <1>3, <1>4, <1>5, <1>6, RunStepTyped DEF TypeInv

LEMMA RegisterHandlerTyped ==
  ASSUME TypeInv, NEW r \in Runs, RegisterHandler(r)
  PROVE  StoreInv' /\ ExecInv'
<1>1. run[r] \in RunState /\ ExecutionTypeOK
  BY DEF TypeInv, ExecInv, ExecutionTypeOK
<1>2. run'[r] \in RunState
  <2>. DEFINE x == [Committed(run[r]) EXCEPT
                      !.registered = TRUE, !.pc = "listen"]
  <2>1. x \in RunState
    BY <1>1, CommittedTyped DEF RunState
  <2>2. run' = [run EXCEPT ![r] = x]
    BY DEF RegisterHandler
  <2>. HIDE DEF x
  <2>. QED BY <2>1, <2>2, RunUpdated
<1>3. run' = [run EXCEPT ![r] = run'[r]]
  BY <1>1 DEF RegisterHandler, ExecutionTypeOK, Committed
<1>4. thread' \in [Runs -> [Threads -> ThreadState]]
  BY <1>1 DEF RegisterHandler, ExecutionTypeOK
<1>5. RunsLocated'
  BY <1>1
  DEF RegisterHandler, TypeInv, ExecInv, ExecutionTypeOK, RunsLocated,
      RunState, ThreadState, Committed
<1>6. StoreInv'
  <2>1. run[r].task \in Tasks /\ Exists(run[r].task) \in BOOLEAN
    BY <1>1 DEF RegisterHandler, TypeInv, ExecInv, RunsLocated, Exists
  <2>2. Flushed(r) \in Row
    BY <2>1, TaskOfTyped
  <2>3. [Flushed(r) EXCEPT !.abortable = Exists(run[r].task)] \in Row
    BY <2>1, <2>2 DEF Row
  <2>4. row' \in [Tasks -> Row]
    BY <2>1, <2>3 DEF RegisterHandler, TypeInv, StoreInv, StoreTypeOK
  <2>. QED BY <2>4, StoreStepTyped DEF RegisterHandler, TypeInv, StoreInv,
     StoreTypeOK
<1>. QED BY <1>1, <1>2, <1>3, <1>4, <1>5, <1>6, RunStepTyped DEF TypeInv

LEMMA StartListenerTyped ==
  ASSUME TypeInv, NEW r \in Runs, StartListener(r)
  PROVE  StoreInv' /\ ExecInv'
<1>1. run[r] \in RunState /\ ExecutionTypeOK
  BY DEF TypeInv, ExecInv, ExecutionTypeOK
<1>2. run'[r] \in RunState
  BY <1>1 DEF StartListener, ExecutionTypeOK, RunState
<1>3. run' = [run EXCEPT ![r] = run'[r]]
  BY <1>1 DEF StartListener, ExecutionTypeOK
<1>4. thread' \in [Runs -> [Threads -> ThreadState]]
  BY <1>1
  DEF StartListener, ExecutionTypeOK, MoveThread, ThreadState, Threads
<1>5. RunsLocated'
  BY <1>1
  DEF StartListener, TypeInv, ExecInv, ExecutionTypeOK, RunsLocated,
      MoveThread, RunState, ThreadState
<1>6. StoreInv'
  <2>1. channel' \in [Tasks -> ChannelState]
    BY DEF StartListener, TypeInv, StoreInv, StoreTypeOK, ChannelState
  <2>. QED BY <2>1, StoreStepTyped DEF StartListener, TypeInv, StoreInv,
     StoreTypeOK
<1>. QED BY <1>1, <1>2, <1>3, <1>4, <1>5, <1>6, RunStepTyped DEF TypeInv

LEMMA UpdateTaskTyped ==
  ASSUME TypeInv, NEW r \in Runs, UpdateTask(r)
  PROVE  StoreInv' /\ ExecInv'
<1>1. run[r] \in RunState /\ ExecutionTypeOK
  BY DEF TypeInv, ExecInv, ExecutionTypeOK
<1>2. run'[r] \in RunState
  BY <1>1, CommittedTyped, RunUpdated DEF UpdateTask
<1>3. run' = [run EXCEPT ![r] = run'[r]]
  BY <1>1 DEF UpdateTask, ExecutionTypeOK, Committed
<1>4. thread' \in [Runs -> [Threads -> ThreadState]]
  BY <1>1 DEF UpdateTask, ExecutionTypeOK
<1>5. RunsLocated'
  BY <1>1
  DEF UpdateTask, TypeInv, ExecInv, ExecutionTypeOK, RunsLocated, RunState,
      ThreadState, Committed
<1>6. StoreInv'
  <2>1. run[r].task \in Tasks
    BY <1>1 DEF UpdateTask, TypeInv, ExecInv, RunsLocated
  <2>2. Flushed(r) \in Row
    BY <2>1, TaskOfTyped DEF TypeInv
  <2>3. row' \in [Tasks -> Row]
    BY <2>1, <2>2 DEF UpdateTask, TypeInv, StoreInv, StoreTypeOK
  <2>. QED BY <2>3, StoreStepTyped DEF UpdateTask, TypeInv, StoreInv,
     StoreTypeOK
<1>. QED BY <1>1, <1>2, <1>3, <1>4, <1>5, <1>6, RunStepTyped DEF TypeInv

LEMMA BodyEndsTyped ==
  ASSUME TypeInv, NEW r \in Runs, BodyEnds(r)
  PROVE  StoreInv' /\ ExecInv'
<1>0. PICK f \in BOOLEAN :
        /\ run' = [run EXCEPT ![r].pc = "settle", ![r].failed = f,
                              ![r].completed = Async(r)]
        /\ hist' = [hist EXCEPT ![run[r].task].body =
                      IF f THEN "raised" ELSE "returned"]
  BY ExecutionAssumption DEF ExecutionAssumption, BodyEnds, MayFail
<1>1. run[r] \in RunState /\ ExecutionTypeOK
  BY DEF TypeInv, ExecInv, ExecutionTypeOK
<1>2. run'[r] \in RunState
  <2>. DEFINE x == [run[r] EXCEPT !.pc = "settle", !.failed = f,
                                  !.completed = Async(r)]
  <2>1. x \in RunState
    BY <1>1 DEF RunState, Async
  <2>2. run'[r] = x
    BY <1>0, <1>1 DEF ExecutionTypeOK
  <2>. QED BY <2>1, <2>2
<1>3. run' = [run EXCEPT ![r] = run'[r]]
  BY <1>1, <1>0 DEF BodyEnds, ExecutionTypeOK
<1>4. thread' \in [Runs -> [Threads -> ThreadState]]
  BY <1>1 DEF BodyEnds, ExecutionTypeOK
<1>5. RunsLocated'
  BY <1>1, <1>0
  DEF BodyEnds, TypeInv, ExecInv, ExecutionTypeOK, RunsLocated, RunState,
      ThreadState
<1>6. StoreInv'
  <2>1. run[r].task \in Tasks
    BY <1>1 DEF BodyEnds, TypeInv, ExecInv, RunsLocated
  <2>2. hist[run[r].task] \in History
    BY <2>1 DEF TypeInv, StoreInv, StoreTypeOK
  <2>3. [hist[run[r].task] EXCEPT !.body =
           IF f THEN "raised" ELSE "returned"] \in History
    BY <2>2 DEF History
  <2>4. hist' \in [Tasks -> History]
    BY <1>0, <2>1, <2>3 DEF TypeInv, StoreInv, StoreTypeOK
  <2>. QED BY <2>4, StoreStepTyped DEF BodyEnds, TypeInv, StoreInv,
     StoreTypeOK
<1>. QED BY <1>1, <1>2, <1>3, <1>4, <1>5, <1>6, RunStepTyped DEF TypeInv

LEMMA SettleTyped ==
  ASSUME TypeInv, NEW r \in Runs, Settle(r)
  PROVE  StoreInv' /\ ExecInv'
<1>1. run[r] \in RunState /\ ExecutionTypeOK
  BY DEF TypeInv, ExecInv, ExecutionTypeOK
<1>2. run'[r] \in RunState
  <2>1. PICK p \in {"store", "cleanup"}, s \in TERMINAL_STATES :
          run' = [run EXCEPT ![r] = [run[r] EXCEPT !.pc = p, !.target = s]]
    BY <1>1 DEF Settle, TERMINAL_STATES, RunState
  <2>. DEFINE x == [run[r] EXCEPT !.pc = p, !.target = s]
  <2>2. x \in RunState
    BY <1>1 DEF RunState
  <2>3. run' = [run EXCEPT ![r] = x]
    BY <2>1
  <2>. HIDE DEF x
  <2>. QED BY <2>2, <2>3, RunUpdated
<1>3. run' = [run EXCEPT ![r] = run'[r]]
  BY <1>1 DEF Settle, ExecutionTypeOK
<1>4. thread' \in [Runs -> [Threads -> ThreadState]]
  BY <1>1 DEF Settle, ExecutionTypeOK
<1>5. RunsLocated'
  BY <1>1
  DEF Settle, TypeInv, ExecInv, ExecutionTypeOK, RunsLocated, RunState,
      ThreadState
<1>6. StoreInv'
  BY StoreKept DEF TypeInv, Settle
<1>. QED BY <1>1, <1>2, <1>3, <1>4, <1>5, <1>6, RunStepTyped DEF TypeInv

LEMMA StoreOutcomeTyped ==
  ASSUME TypeInv, NEW r \in Runs, StoreOutcome(r)
  PROVE  StoreInv' /\ ExecInv'
<1>1. run[r] \in RunState /\ ExecutionTypeOK
  BY DEF TypeInv, ExecInv, ExecutionTypeOK
<1>2. run'[r] \in RunState
  <2>. DEFINE x == [Committed(run[r]) EXCEPT !.pc = "cleanup"]
  <2>1. x \in RunState
    BY <1>1, CommittedTyped DEF RunState
  <2>2. run' = [run EXCEPT ![r] = x]
    BY DEF StoreOutcome
  <2>. HIDE DEF x
  <2>. QED BY <2>1, <2>2, RunUpdated
<1>3. run' = [run EXCEPT ![r] = run'[r]]
  BY <1>1 DEF StoreOutcome, ExecutionTypeOK, Committed
<1>4. thread' \in [Runs -> [Threads -> ThreadState]]
  BY <1>1 DEF StoreOutcome, ExecutionTypeOK
<1>5. RunsLocated'
  BY <1>1
  DEF StoreOutcome, TypeInv, ExecInv, ExecutionTypeOK, RunsLocated,
      RunState, ThreadState, Committed
<1>6. StoreInv'
  <2>1. run[r].task \in Tasks /\ run[r].target \in RowStatus
    BY <1>1, StatusTyped
    DEF StoreOutcome, TypeInv, ExecInv, RunsLocated, RunState
  <2>2. /\ Flushed(r) \in Row
        /\ Swap(Flushed(r), run[r].target, run[r].target = "failure") \in Row
    BY <2>1, TaskOfTyped, SwapTyped
  <2>3. row' \in [Tasks -> Row]
    BY <2>1, <2>2 DEF StoreOutcome, TypeInv, StoreInv, StoreTypeOK
  <2>. QED BY <2>3, StoreStepTyped DEF StoreOutcome, TypeInv, StoreInv,
     StoreTypeOK
<1>. QED BY <1>1, <1>2, <1>3, <1>4, <1>5, <1>6, RunStepTyped DEF TypeInv

LEMMA StopThreadsTyped ==
  ASSUME TypeInv, NEW r \in Runs, StopThreads(r)
  PROVE  StoreInv' /\ ExecInv'
<1>1. run[r] \in RunState /\ ExecutionTypeOK
  BY DEF TypeInv, ExecInv, ExecutionTypeOK
<1>2. run'[r] \in RunState
  <2>1. run'[r] = [run[r] EXCEPT !.pc = "abortcheck"]
    BY <1>1 DEF StopThreads, ExecutionTypeOK
  <2>2. [run[r] EXCEPT !.pc = "abortcheck"] \in RunState
    BY <1>1 DEF RunState
  <2>. QED BY <2>1, <2>2
<1>3. run' = [run EXCEPT ![r] = run'[r]]
  BY <1>1 DEF StopThreads, ExecutionTypeOK, NoThread
<1>4. thread' \in [Runs -> [Threads -> ThreadState]]
  BY <1>1, NoThreadTyped DEF StopThreads, ExecutionTypeOK
<1>5. RunsLocated'
  BY <1>1
  DEF StopThreads, TypeInv, ExecInv, ExecutionTypeOK, RunsLocated, RunState,
      ThreadState, NoThread
<1>6. StoreInv'
  <2>1. channel' \in [Tasks -> ChannelState]
    BY DEF StopThreads, TypeInv, StoreInv, StoreTypeOK, ChannelState
  <2>. QED BY <2>1, StoreStepTyped DEF StopThreads, TypeInv, StoreInv,
     StoreTypeOK
<1>. QED BY <1>1, <1>2, <1>3, <1>4, <1>5, <1>6, RunStepTyped DEF TypeInv

LEMMA AfterHandlersTyped ==
  ASSUME NEW x \in RunState, NEW f
  PROVE  /\ AfterHandlers(x, f) \in RunState
         /\ AfterHandlers(x, f).task = x.task
         /\ AfterHandlers(x, f).pc = x.pc
         /\ AfterHandlers(x, f).seen = x.seen
  BY DEF AfterHandlers, RunState

LEMMA AbortCheckTyped ==
  ASSUME TypeInv, NEW r \in Runs, AbortCheck(r)
  PROVE  StoreInv' /\ ExecInv'
<1>1. run[r] \in RunState /\ ExecutionTypeOK
  BY DEF TypeInv, ExecInv, ExecutionTypeOK
<1>0. PICK x \in RunState :
        /\ x.task = run[r].task
        /\ run' = [run EXCEPT ![r] =
                     [x EXCEPT !.pc = "cleaners", !.dirty = FALSE]]
  <2>1. CASE Unnoticed(r)
    <3>1. PICK f \in HandlerOutcome(r) :
            run' = [run EXCEPT ![r] = [AfterHandlers(@, f) EXCEPT
                                         !.pc = "cleaners", !.dirty = FALSE]]
      BY <2>1 DEF AbortCheck
    <3>2. run' = [run EXCEPT ![r] = [AfterHandlers(run[r], f) EXCEPT
                                       !.pc = "cleaners", !.dirty = FALSE]]
      BY <1>1, <3>1
    <3>. QED BY <1>1, <3>2, AfterHandlersTyped
  <2>2. CASE ~Unnoticed(r)
    <3>1. run' = [run EXCEPT ![r].pc = "cleaners", ![r].dirty = FALSE]
      BY <2>2 DEF AbortCheck
    <3>2. run' = [run EXCEPT ![r] =
                    [run[r] EXCEPT !.pc = "cleaners", !.dirty = FALSE]]
      BY <1>1, <3>1 DEF ExecutionTypeOK
    <3>. QED BY <1>1, <3>2
  <2>. QED BY <2>1, <2>2
<1>2. run'[r] \in RunState
  BY <1>1, <1>0 DEF ExecutionTypeOK, RunState
<1>3. run' = [run EXCEPT ![r] = run'[r]]
  BY <1>1, <1>0 DEF ExecutionTypeOK
<1>4. thread' \in [Runs -> [Threads -> ThreadState]]
  BY <1>1 DEF AbortCheck, ExecutionTypeOK
<1>5. RunsLocated'
  <2>1. run'[r].task = run[r].task /\ run[r].pc # "new"
    BY <1>0, <1>1 DEF AbortCheck, ExecutionTypeOK, RunState
  <2>. QED BY <1>1, <1>3, <2>1
       DEF AbortCheck, TypeInv, ExecInv, RunsLocated, ExecutionTypeOK
<1>6. StoreInv'
  <2>1. run[r].task \in Tasks /\ run[r].registered \in BOOLEAN
    BY <1>1 DEF AbortCheck, TypeInv, ExecInv, RunsLocated, RunState
  <2>2. hist[run[r].task] \in History
    BY <2>1 DEF TypeInv, StoreInv, StoreTypeOK
  <2>3. [hist[run[r].task] EXCEPT !.handled = @ \/ run[r].registered]
          \in History
    BY <2>1, <2>2 DEF History
  <2>4. hist' \in [Tasks -> History]
    BY <2>1, <2>3 DEF AbortCheck, Handled, TypeInv, StoreInv, StoreTypeOK
  <2>. QED BY <2>4, StoreStepTyped DEF AbortCheck, TypeInv, StoreInv,
     StoreTypeOK
<1>. QED BY <1>1, <1>2, <1>3, <1>4, <1>5, <1>6, RunStepTyped DEF TypeInv

LEMMA CleanupHandlersTyped ==
  ASSUME TypeInv, NEW r \in Runs, CleanupHandlers(r)
  PROVE  StoreInv' /\ ExecInv'
<1>1. run[r] \in RunState /\ ExecutionTypeOK
  BY DEF TypeInv, ExecInv, ExecutionTypeOK
<1>0. PICK fs \in SUBSET {"abort", "cleanup"} :
        run' = [run EXCEPT ![r].failures = fs,
                  ![r].pc = IF fs = {} THEN "decide" ELSE "report"]
  <2>1. PICK f \in MayFail(CleanupFails) :
          LET fs == IF f THEN run[r].failures \cup {"cleanup"}
                    ELSE run[r].failures
          IN run' = [run EXCEPT ![r].failures = fs,
                       ![r].pc = IF fs = {} THEN "decide" ELSE "report"]
    BY DEF CleanupHandlers
  <2>2. (IF f THEN run[r].failures \cup {"cleanup"} ELSE run[r].failures)
          \in SUBSET {"abort", "cleanup"}
    BY <1>1 DEF RunState
  <2>. QED BY <2>1, <2>2
<1>2. run'[r] \in RunState
  BY <1>1, <1>0 DEF ExecutionTypeOK, RunState
<1>3. run' = [run EXCEPT ![r] = run'[r]]
  BY <1>1, <1>0 DEF ExecutionTypeOK
<1>4. thread' \in [Runs -> [Threads -> ThreadState]]
  BY <1>1 DEF CleanupHandlers, ExecutionTypeOK
<1>5. RunsLocated'
  <2>1. run'[r].task = run[r].task /\ run[r].pc # "new"
    BY <1>0, <1>1 DEF CleanupHandlers, ExecutionTypeOK, RunState
  <2>. QED BY <1>1, <1>3, <2>1
       DEF CleanupHandlers, TypeInv, ExecInv, RunsLocated, ExecutionTypeOK
<1>6. StoreInv'
  BY StoreKept DEF TypeInv, CleanupHandlers
<1>. QED BY <1>1, <1>2, <1>3, <1>4, <1>5, <1>6, RunStepTyped DEF TypeInv

LEMMA ReportTyped ==
  ASSUME TypeInv, NEW r \in Runs, Report(r)
  PROVE  StoreInv' /\ ExecInv'
<1>0. TaskOf(r) \in Row
  BY TaskOfTyped DEF Report, TypeInv, ExecInv, RunsLocated
<1>1. run[r] \in RunState /\ ExecutionTypeOK
  BY DEF TypeInv, ExecInv, ExecutionTypeOK
<1>2. run'[r] \in RunState
  BY <1>1, <1>0 DEF Report, ExecutionTypeOK, RunState
<1>3. run' = [run EXCEPT ![r] = run'[r]]
  BY <1>1 DEF Report, ExecutionTypeOK
<1>4. thread' \in [Runs -> [Threads -> ThreadState]]
  BY <1>1 DEF Report, ExecutionTypeOK
<1>5. RunsLocated'
  BY <1>1
  DEF Report, TypeInv, ExecInv, ExecutionTypeOK, RunsLocated, RunState,
      ThreadState
<1>6. StoreInv'
  BY StoreKept DEF TypeInv, Report
<1>. QED BY <1>1, <1>2, <1>3, <1>4, <1>5, <1>6, RunStepTyped DEF TypeInv

LEMMA ReportUnlocksTyped ==
  ASSUME TypeInv, NEW r \in Runs, ReportUnlocks(r)
  PROVE  StoreInv' /\ ExecInv'
<1>1. run[r] \in RunState /\ ExecutionTypeOK
  BY DEF TypeInv, ExecInv, ExecutionTypeOK
<1>2. run'[r] \in RunState
  BY <1>1 DEF ReportUnlocks, ExecutionTypeOK, RunState
<1>3. run' = [run EXCEPT ![r] = run'[r]]
  BY <1>1 DEF ReportUnlocks, ExecutionTypeOK
<1>4. thread' \in [Runs -> [Threads -> ThreadState]]
  BY <1>1 DEF ReportUnlocks, ExecutionTypeOK
<1>5. RunsLocated'
  BY <1>1
  DEF ReportUnlocks, TypeInv, ExecInv, ExecutionTypeOK, RunsLocated,
      RunState, ThreadState
<1>6. StoreInv'
  BY StoreKept DEF TypeInv, ReportUnlocks
<1>. QED BY <1>1, <1>2, <1>3, <1>4, <1>5, <1>6, RunStepTyped DEF TypeInv

LEMMA ReportFailureTyped ==
  ASSUME TypeInv, NEW r \in Runs, ReportFailure(r)
  PROVE  StoreInv' /\ ExecInv'
<1>1. run[r] \in RunState /\ ExecutionTypeOK
  BY DEF TypeInv, ExecInv, ExecutionTypeOK
<1>2. run'[r] \in RunState
  <2>. DEFINE x == [Committed(run[r]) EXCEPT
                      !.failures = {}, !.seen = NoRow, !.pc = "decide"]
  <2>1. x \in RunState
    BY <1>1, CommittedTyped, NoRowTyped DEF RunState
  <2>2. run' = [run EXCEPT ![r] = x]
    BY DEF ReportFailure
  <2>. HIDE DEF x
  <2>. QED BY <2>1, <2>2, RunUpdated
<1>3. run' = [run EXCEPT ![r] = run'[r]]
  BY <1>1 DEF ReportFailure, ExecutionTypeOK, Committed
<1>4. thread' \in [Runs -> [Threads -> ThreadState]]
  BY <1>1 DEF ReportFailure, ExecutionTypeOK
<1>5. RunsLocated'
  BY <1>1
  DEF ReportFailure, TypeInv, ExecInv, ExecutionTypeOK, RunsLocated,
      RunState, ThreadState, Committed
<1>6. StoreInv'
  <2>1. run[r].task \in Tasks
    BY <1>1 DEF ReportFailure, TypeInv, ExecInv, RunsLocated
  <2>2. SetStatus(row[run[r].task], run[r].seen, "failure") \in Row
    BY <2>1, TaskOfTyped, SetStatusTyped, StatusTyped DEF TaskOf
  <2>3. row' \in [Tasks -> Row]
    BY <2>1, <2>2 DEF ReportFailure, TypeInv, StoreInv, StoreTypeOK
  <2>. QED BY <2>3, StoreStepTyped DEF ReportFailure, TypeInv, StoreInv,
     StoreTypeOK
<1>. QED BY <1>1, <1>2, <1>3, <1>4, <1>5, <1>6, RunStepTyped DEF TypeInv

LEMMA ReportRefusedTyped ==
  ASSUME TypeInv, NEW r \in Runs, ReportRefused(r)
  PROVE  StoreInv' /\ ExecInv'
<1>1. run[r] \in RunState /\ ExecutionTypeOK
  BY DEF TypeInv, ExecInv, ExecutionTypeOK
<1>2. run'[r] \in RunState
  BY <1>1, NoRowTyped DEF ReportRefused, ExecutionTypeOK, RunState
<1>3. run' = [run EXCEPT ![r] = run'[r]]
  BY <1>1 DEF ReportRefused, ExecutionTypeOK
<1>4. thread' \in [Runs -> [Threads -> ThreadState]]
  BY <1>1 DEF ReportRefused, ExecutionTypeOK
<1>5. RunsLocated'
  BY <1>1
  DEF ReportRefused, TypeInv, ExecInv, ExecutionTypeOK, RunsLocated,
      RunState, ThreadState
<1>6. StoreInv'
  BY StoreKept DEF TypeInv, ReportRefused
<1>. QED BY <1>1, <1>2, <1>3, <1>4, <1>5, <1>6, RunStepTyped DEF TypeInv

LEMMA DecideTyped ==
  ASSUME TypeInv, NEW r \in Runs, Decide(r)
  PROVE  StoreInv' /\ ExecInv'
<1>1. run[r] \in RunState /\ ExecutionTypeOK
  BY DEF TypeInv, ExecInv, ExecutionTypeOK
<1>2. run'[r] \in RunState
  BY <1>1 DEF Decide, ExecutionTypeOK, RunState, EndOfAbort, TERMINAL_STATES
<1>3. run' = [run EXCEPT ![r] = run'[r]]
  BY <1>1 DEF Decide, ExecutionTypeOK
<1>4. thread' \in [Runs -> [Threads -> ThreadState]]
  BY <1>1 DEF Decide, ExecutionTypeOK
<1>5. RunsLocated'
  BY <1>1
  DEF Decide, TypeInv, ExecInv, ExecutionTypeOK, RunsLocated, RunState,
      ThreadState
<1>6. StoreInv'
  BY StoreKept DEF TypeInv, Decide
<1>. QED BY <1>1, <1>2, <1>3, <1>4, <1>5, <1>6, RunStepTyped DEF TypeInv

LEMMA EndAbortTyped ==
  ASSUME TypeInv, NEW r \in Runs, EndAbort(r)
  PROVE  StoreInv' /\ ExecInv'
<1>1. run[r] \in RunState /\ ExecutionTypeOK
  BY DEF TypeInv, ExecInv, ExecutionTypeOK
<1>2. run'[r] \in RunState
  <2>. DEFINE x == [Committed(run[r]) EXCEPT !.pc = "done"]
  <2>1. x \in RunState
    BY <1>1, CommittedTyped DEF RunState
  <2>2. run' = [run EXCEPT ![r] = x]
    BY DEF EndAbort
  <2>. HIDE DEF x
  <2>. QED BY <2>1, <2>2, RunUpdated
<1>3. run' = [run EXCEPT ![r] = run'[r]]
  BY <1>1 DEF EndAbort, ExecutionTypeOK, Committed
<1>4. thread' \in [Runs -> [Threads -> ThreadState]]
  BY <1>1 DEF EndAbort, ExecutionTypeOK
<1>5. RunsLocated'
  BY <1>1
  DEF EndAbort, TypeInv, ExecInv, ExecutionTypeOK, RunsLocated, RunState,
      ThreadState, Committed
<1>6. StoreInv'
  <2>1. run[r].task \in Tasks /\ run[r].target \in RowStatus
    BY <1>1, StatusTyped
    DEF EndAbort, TypeInv, ExecInv, RunsLocated, RunState
  <2>2. /\ Flushed(r) \in Row
        /\ Swap(Flushed(r), run[r].target, run[r].target = "failure") \in Row
    BY <2>1, TaskOfTyped, SwapTyped
  <2>3. row' \in [Tasks -> Row]
    BY <2>1, <2>2 DEF EndAbort, TypeInv, StoreInv, StoreTypeOK
  <2>. QED BY <2>3, StoreStepTyped DEF EndAbort, TypeInv, StoreInv,
     StoreTypeOK
<1>. QED BY <1>1, <1>2, <1>3, <1>4, <1>5, <1>6, RunStepTyped DEF TypeInv

-----------------------------------------------------------------------------

LEMMA TimerFiresTyped ==
  ASSUME TypeInv, NEW r \in Runs, TimerFires(r)
  PROVE  StoreInv' /\ ExecInv'
<1>1. run[r] \in RunState /\ ExecutionTypeOK
  BY DEF TypeInv, ExecInv, ExecutionTypeOK
<1>0. PICK pc \in {"done", "check"} :
        thread' = [thread EXCEPT ![r]["timer"].pc = pc]
  BY DEF TimerFires, MoveThread
<1>7. \/ run' = run /\ hist' = hist
      \/ /\ run' = [run EXCEPT ![r].timedOut = TRUE]
         /\ hist' = [hist EXCEPT ![run[r].task].timedOut = TRUE]
  BY DEF TimerFires
<1>8. run[r].task \in Tasks
  BY DEF TimerFires, TypeInv, ExecInv, RunsLocated, ThreadPc, Threads
<1>2. run'[r] \in RunState
  <2>1. [run[r] EXCEPT !.timedOut = TRUE] \in RunState
    BY <1>1 DEF RunState
  <2>2. run'[r] \in {run[r], [run[r] EXCEPT !.timedOut = TRUE]}
    BY <1>1, <1>7 DEF ExecutionTypeOK
  <2>. QED BY <1>1, <2>1, <2>2
<1>3. run' = [run EXCEPT ![r] = run'[r]]
  BY <1>1, <1>7 DEF ExecutionTypeOK
<1>4. thread' \in [Runs -> [Threads -> ThreadState]]
  BY <1>0, <1>1 DEF ExecutionTypeOK, ThreadState, Threads
<1>5. RunsLocated'
  <2>1. run'[r].task = run[r].task
    BY <1>1, <1>7 DEF ExecutionTypeOK, RunState
  <2>. QED BY <1>0, <1>1, <1>3, <1>8, <2>1
       DEF TypeInv, ExecInv, RunsLocated, ExecutionTypeOK
<1>6. StoreInv'
  <2>2. hist[run[r].task] \in History
    BY <1>8 DEF TypeInv, StoreInv, StoreTypeOK
  <2>3. [hist[run[r].task] EXCEPT !.timedOut = TRUE] \in History
    BY <2>2 DEF History
  <2>4. hist' \in [Tasks -> History]
    BY <1>7, <1>8, <2>3 DEF TypeInv, StoreInv, StoreTypeOK
  <2>. QED BY <2>4, StoreStepTyped DEF TimerFires, TypeInv, StoreInv,
     StoreTypeOK
<1>. QED BY <1>1, <1>2, <1>3, <1>4, <1>5, <1>6, RunStepTyped DEF TypeInv

LEMMA TimerReadsTyped ==
  ASSUME TypeInv, NEW r \in Runs, TimerReads(r)
  PROVE  StoreInv' /\ ExecInv'
<1>0. TaskOf(r) \in Row /\ StatusSeen(r) \in RowStatus
  BY TaskOfTyped
  DEF TimerReads, TypeInv, ExecInv, RunsLocated, ThreadPc, Threads
<1>1. run[r] \in RunState /\ ExecutionTypeOK
  BY DEF TypeInv, ExecInv, ExecutionTypeOK
<1>2. run'[r] \in RunState
  BY <1>1, <1>0 DEF TimerReads, ExecutionTypeOK, RunState
<1>3. run' = [run EXCEPT ![r] = run'[r]]
  BY <1>1 DEF TimerReads, ExecutionTypeOK
<1>4. thread' \in [Runs -> [Threads -> ThreadState]]
  BY <1>0, <1>1 DEF TimerReads, ExecutionTypeOK, ThreadState, Threads
<1>5. RunsLocated'
  BY <1>1
  DEF TimerReads, TypeInv, ExecInv, ExecutionTypeOK, RunsLocated, RunState,
      ThreadState, ThreadPc
<1>6. StoreInv'
  BY StoreKept DEF TypeInv, TimerReads
<1>. QED BY <1>1, <1>2, <1>3, <1>4, <1>5, <1>6, RunStepTyped DEF TypeInv

LEMMA TimerUnlocksTyped ==
  ASSUME TypeInv, NEW r \in Runs, TimerUnlocks(r)
  PROVE  StoreInv' /\ ExecInv'
<1>1. run[r] \in RunState /\ ExecutionTypeOK
  BY DEF TypeInv, ExecInv, ExecutionTypeOK
<1>2. run' = run
  BY DEF TimerUnlocks
<1>3. run' = [run EXCEPT ![r] = run'[r]] /\ run'[r] \in RunState
  BY <1>1, <1>2 DEF ExecutionTypeOK
<1>4. thread' \in [Runs -> [Threads -> ThreadState]]
  BY <1>1
  DEF TimerUnlocks, ExecutionTypeOK, MoveThread, ThreadState, Threads,
      ThreadPc
<1>5. RunsLocated'
  BY <1>1
  DEF TimerUnlocks, TypeInv, ExecInv, ExecutionTypeOK, RunsLocated,
      MoveThread, RunState, ThreadState, ThreadPc
<1>6. StoreInv'
  BY StoreKept DEF TypeInv, TimerUnlocks
<1>. QED BY <1>1, <1>2, <1>3, <1>4, <1>5, <1>6, RunStepTyped DEF TypeInv

LEMMA TimerAbortsTyped ==
  ASSUME TypeInv, NEW r \in Runs, TimerAborts(r)
  PROVE  StoreInv' /\ ExecInv'
<1>1. run[r] \in RunState /\ ExecutionTypeOK
  BY DEF TypeInv, ExecInv, ExecutionTypeOK
<1>2. run' = run
  BY DEF TimerAborts
<1>3. run' = [run EXCEPT ![r] = run'[r]] /\ run'[r] \in RunState
  BY <1>1, <1>2 DEF ExecutionTypeOK
<1>4. thread' \in [Runs -> [Threads -> ThreadState]]
  BY <1>1, NoRowTyped DEF TimerAborts, ExecutionTypeOK, ThreadState, Threads
<1>5. RunsLocated'
  BY <1>1
  DEF TimerAborts, TypeInv, ExecInv, ExecutionTypeOK, RunsLocated, RunState,
      ThreadState, ThreadPc
<1>6. StoreInv'
  <2>1. run[r].task \in Tasks
    BY <1>1
    DEF TimerAborts, TypeInv, ExecInv, RunsLocated, ThreadPc, Threads
  <2>2. SetStatus(row[run[r].task], thread[r]["timer"].seen,
     "aborting") \in Row
    BY <2>1, TaskOfTyped, SetStatusTyped, StatusTyped DEF TaskOf
  <2>3. row' \in [Tasks -> Row]
    BY <2>1, <2>2 DEF TimerAborts, TypeInv, StoreInv, StoreTypeOK
  <2>. QED BY <2>3, StoreStepTyped DEF TimerAborts, TypeInv, StoreInv,
     StoreTypeOK
<1>. QED BY <1>1, <1>2, <1>3, <1>4, <1>5, <1>6, RunStepTyped DEF TypeInv

LEMMA TimerRefusedTyped ==
  ASSUME TypeInv, NEW r \in Runs, TimerRefused(r)
  PROVE  StoreInv' /\ ExecInv'
<1>1. run[r] \in RunState /\ ExecutionTypeOK
  BY DEF TypeInv, ExecInv, ExecutionTypeOK
<1>2. run' = run
  BY DEF TimerRefused
<1>3. run' = [run EXCEPT ![r] = run'[r]] /\ run'[r] \in RunState
  BY <1>1, <1>2 DEF ExecutionTypeOK
<1>4. thread' \in [Runs -> [Threads -> ThreadState]]
  BY <1>1, NoRowTyped
  DEF TimerRefused, ExecutionTypeOK, ThreadState, Threads
<1>5. RunsLocated'
  BY <1>1
  DEF TimerRefused, TypeInv, ExecInv, ExecutionTypeOK, RunsLocated,
      RunState, ThreadState, ThreadPc
<1>6. StoreInv'
  BY StoreKept DEF TypeInv, TimerRefused
<1>. QED BY <1>1, <1>2, <1>3, <1>4, <1>5, <1>6, RunStepTyped DEF TypeInv

LEMMA ListenerHearsTyped ==
  ASSUME TypeInv, NEW r \in Runs, ListenerHears(r)
  PROVE  StoreInv' /\ ExecInv'
<1>1. run[r] \in RunState /\ ExecutionTypeOK
  BY DEF TypeInv, ExecInv, ExecutionTypeOK
<1>2. run' = run
  BY DEF ListenerHears
<1>3. run' = [run EXCEPT ![r] = run'[r]] /\ run'[r] \in RunState
  BY <1>1, <1>2 DEF ExecutionTypeOK
<1>4. thread' \in [Runs -> [Threads -> ThreadState]]
  BY <1>1
  DEF ListenerHears, ExecutionTypeOK, MoveThread, ThreadState, Threads,
      ThreadPc
<1>5. RunsLocated'
  BY <1>1
  DEF ListenerHears, TypeInv, ExecInv, ExecutionTypeOK, RunsLocated,
      MoveThread, RunState, ThreadState, ThreadPc
<1>6. StoreInv'
  BY StoreKept DEF TypeInv, ListenerHears
<1>. QED BY <1>1, <1>2, <1>3, <1>4, <1>5, <1>6, RunStepTyped DEF TypeInv

LEMMA DetectTyped ==
  ASSUME TypeInv, NEW r \in Runs, NEW h \in Threads, Detect(r, h)
  PROVE  StoreInv' /\ ExecInv'
<1>1. run[r] \in RunState /\ ExecutionTypeOK
  BY DEF TypeInv, ExecInv, ExecutionTypeOK
<1>2. run' = run
  BY DEF Detect
<1>3. run' = [run EXCEPT ![r] = run'[r]] /\ run'[r] \in RunState
  BY <1>1, <1>2 DEF ExecutionTypeOK
<1>4. thread' \in [Runs -> [Threads -> ThreadState]]
  BY <1>1
  DEF Detect, ExecutionTypeOK, MoveThread, ThreadState, Threads, ThreadPc
<1>5. RunsLocated'
  BY <1>1
  DEF Detect, TypeInv, ExecInv, ExecutionTypeOK, RunsLocated, MoveThread,
      RunState, ThreadState, ThreadPc
<1>6. StoreInv'
  BY StoreKept DEF TypeInv, Detect
<1>. QED BY <1>1, <1>2, <1>3, <1>4, <1>5, <1>6, RunStepTyped DEF TypeInv

LEMMA ClaimTyped ==
  ASSUME TypeInv, NEW r \in Runs, NEW h \in Threads, Claim(r, h)
  PROVE  StoreInv' /\ ExecInv'
<1>1. run[r] \in RunState /\ ExecutionTypeOK
  BY DEF TypeInv, ExecInv, ExecutionTypeOK
<1>2. run'[r] \in RunState
  BY <1>1 DEF Claim, ExecutionTypeOK, RunState
<1>3. run' = [run EXCEPT ![r] = run'[r]]
  BY <1>1 DEF Claim, ExecutionTypeOK
<1>4. thread' \in [Runs -> [Threads -> ThreadState]]
  BY <1>1
  DEF Claim, ExecutionTypeOK, MoveThread, ThreadState, Threads, ThreadPc
<1>5. RunsLocated'
  BY <1>1
  DEF Claim, TypeInv, ExecInv, ExecutionTypeOK, RunsLocated, MoveThread,
      RunState, ThreadState, ThreadPc
<1>6. StoreInv'
  BY StoreKept DEF TypeInv, Claim
<1>. QED BY <1>1, <1>2, <1>3, <1>4, <1>5, <1>6, RunStepTyped DEF TypeInv

LEMMA HandleTyped ==
  ASSUME TypeInv, NEW r \in Runs, NEW h \in Threads, Handle(r, h)
  PROVE  StoreInv' /\ ExecInv'
<1>0. \A f \in HandlerOutcome(r) : AfterHandlers(run[r], f) \in RunState
  BY AfterHandlersTyped DEF TypeInv, ExecInv, ExecutionTypeOK
<1>1. run[r] \in RunState /\ ExecutionTypeOK
  BY DEF TypeInv, ExecInv, ExecutionTypeOK
<1>2. run'[r] \in RunState
  BY <1>1, <1>0 DEF Handle, ExecutionTypeOK, RunState
<1>3. run' = [run EXCEPT ![r] = run'[r]]
  BY <1>1, AfterHandlersTyped DEF Handle, ExecutionTypeOK
<1>4. thread' \in [Runs -> [Threads -> ThreadState]]
  BY <1>1
  DEF Handle, ExecutionTypeOK, MoveThread, ThreadState, Threads, ThreadPc
<1>5. RunsLocated'
  BY <1>1, AfterHandlersTyped
  DEF Handle, TypeInv, ExecInv, ExecutionTypeOK, RunsLocated, MoveThread,
      RunState, ThreadState, ThreadPc
<1>6. StoreInv'
  <2>1. run[r].task \in Tasks /\ run[r].registered \in BOOLEAN
    BY <1>1 DEF Handle, TypeInv, ExecInv, RunsLocated, RunState, ThreadPc
  <2>2. hist[run[r].task] \in History
    BY <2>1 DEF TypeInv, StoreInv, StoreTypeOK
  <2>3. [hist[run[r].task] EXCEPT !.handled = @ \/ run[r].registered]
          \in History
    BY <2>1, <2>2 DEF History
  <2>4. hist' \in [Tasks -> History]
    BY <2>1, <2>3 DEF Handle, Handled, TypeInv, StoreInv, StoreTypeOK
  <2>. QED BY <2>4, StoreStepTyped DEF Handle, TypeInv, StoreInv, StoreTypeOK
<1>. QED BY <1>1, <1>2, <1>3, <1>4, <1>5, <1>6, RunStepTyped DEF TypeInv

LEMMA WorkerDiesTyped ==
  ASSUME TypeInv, NEW r \in Runs, WorkerDies(r)
  PROVE  StoreInv' /\ ExecInv'
<1>1. run[r] \in RunState /\ ExecutionTypeOK
  BY DEF TypeInv, ExecInv, ExecutionTypeOK
<1>2. run'[r] \in RunState
  BY <1>1 DEF WorkerDies, ExecutionTypeOK, RunState
<1>3. run' = [run EXCEPT ![r] = run'[r]]
  BY <1>1 DEF WorkerDies, ExecutionTypeOK, NoThread
<1>4. thread' \in [Runs -> [Threads -> ThreadState]]
  BY <1>1, NoThreadTyped DEF WorkerDies, ExecutionTypeOK
<1>5. RunsLocated'
  BY <1>1
  DEF WorkerDies, TypeInv, ExecInv, ExecutionTypeOK, RunsLocated, RunState,
      ThreadState, NoThread
<1>6. StoreInv'
  <2>1. channel' \in [Tasks -> ChannelState]
    BY DEF WorkerDies, TypeInv, StoreInv, StoreTypeOK, ChannelState
  <2>. QED BY <2>1, StoreStepTyped DEF WorkerDies, TypeInv, StoreInv,
     StoreTypeOK
<1>. QED BY <1>1, <1>2, <1>3, <1>4, <1>5, <1>6, RunStepTyped DEF TypeInv

-----------------------------------------------------------------------------
(***************************************************************************)
(* The composition.                                                        *)
(***************************************************************************)
LEMMA RedeliverTyped ==
  ASSUME TypeInv, NEW t \in Tasks, Redeliver(t)
  PROVE  StoreInv'
<1>1. /\ MaxDeliveries \in Nat \ {0}
      /\ queue[t] \in 0..MaxDeliveries
      /\ sent[t] \in 0..MaxDeliveries
      /\ queue[t] <= sent[t]
  BY StoreAssumption
  DEF StoreAssumption, TypeInv, StoreInv, StoreTypeOK, QueueBounded
<1>2. queue[t] + 1 \in 0..MaxDeliveries /\ sent[t] + 1 \in 0..MaxDeliveries
  BY <1>1 DEF Redeliver
<1>3. /\ queue' \in [Tasks -> 0..MaxDeliveries]
      /\ sent' \in [Tasks -> 0..MaxDeliveries]
  BY <1>2 DEF Redeliver, TypeInv, StoreInv, StoreTypeOK
<1>4. QueueBounded'
  <2>. SUFFICES ASSUME NEW s \in Tasks PROVE queue'[s] <= sent'[s]
    BY DEF QueueBounded
  <2>1. CASE s = t
    BY <1>1, <2>1 DEF Redeliver, TypeInv, StoreInv, StoreTypeOK
  <2>2. CASE s # t
    BY <2>2 DEF Redeliver, TypeInv, StoreInv, StoreTypeOK, QueueBounded
  <2>. QED BY <2>1, <2>2
<1>. QED BY <1>3, <1>4 DEF Redeliver, TypeInv, StoreInv, StoreTypeOK

LEMMA PruneTyped ==
  ASSUME TypeInv, NEW t \in Tasks, Prune(t)
  PROVE  StoreInv'
<1>1. row[t] \in Row /\ Pruned \in RowStatus
  BY DEF TypeInv, StoreInv, StoreTypeOK, RowStatus
<1>2. [row[t] EXCEPT !.status = Pruned, !.subs = {}] \in Row
  BY <1>1 DEF Row
<1>3. row' = [row EXCEPT ![t] = [row[t] EXCEPT !.status = Pruned, !.subs = {}]]
  BY <1>1 DEF Prune
<1>4. row' \in [Tasks -> Row]
  BY <1>2, <1>3 DEF TypeInv, StoreInv, StoreTypeOK
<1>. QED BY <1>4, StoreStepTyped DEF Prune, TypeInv, StoreInv, StoreTypeOK

LEMMA SubmitTyped ==
  ASSUME TypeInv, NEW u \in Users, Submit(u)
  PROVE  StoreInv' /\ RequestInv'
BY SubmitLookupTyped, SubmitUnlockTyped, SubmitCreateTyped,
   SubmitConflictTyped, SubmitJoinTyped, ScheduleTyped, WaitEndsTyped,
   WaitTimesOutTyped
DEF Submit

LEMMA CancelTyped ==
  ASSUME TypeInv, NEW u \in Users, Cancel(u)
  PROVE  StoreInv' /\ RequestInv'
BY CancelFetchTyped, CancelLockTyped, CancelRefusedTyped, CancelDecideTyped,
   CancelAbortTyped, CancelUnsubscribeTyped, CancelReleaseTyped,
   CancelPublishTyped
DEF Cancel

LEMMA ExecuteTyped ==
  ASSUME TypeInv, NEW r \in Runs, Execute(r)
  PROVE  StoreInv' /\ ExecInv'
BY FetchTyped, SkipAbortedTyped, PickupTyped, PickupFailsTyped,
   RegisterHandlerTyped, StartListenerTyped, UpdateTaskTyped, BodyEndsTyped,
   SettleTyped, StoreOutcomeTyped, StopThreadsTyped, AbortCheckTyped,
   CleanupHandlersTyped, ReportTyped, ReportUnlocksTyped,
   ReportFailureTyped, ReportRefusedTyped, DecideTyped, EndAbortTyped
DEF Execute

LEMMA BackgroundTyped ==
  ASSUME TypeInv, NEW r \in Runs, Background(r)
  PROVE  StoreInv' /\ ExecInv'
<1>1. CASE \E h \in Threads : Detect(r, h) \/ Claim(r, h) \/ Handle(r, h)
  BY <1>1, DetectTyped, ClaimTyped, HandleTyped
<1>2. CASE ~ \E h \in Threads : Detect(r, h) \/ Claim(r, h) \/ Handle(r, h)
  BY <1>2, TimerFiresTyped, TimerReadsTyped, TimerUnlocksTyped,
     TimerAbortsTyped, TimerRefusedTyped, ListenerHearsTyped
  DEF Background
<1>. QED BY <1>1, <1>2

\* TypeInv is inductive.
LEMMA NextTyped ==
  ASSUME TypeInv, [Next]_vars
  PROVE  TypeInv'
<1>1. CASE RequestStep /\ UNCHANGED execVars
  BY <1>1, SubmitTyped, CancelTyped, ExecKept DEF RequestStep, TypeInv
<1>2. CASE RunStep /\ UNCHANGED req
  BY <1>2, ExecuteTyped, BackgroundTyped, RequestKept DEF RunStep, TypeInv
<1>3. CASE StoreStep /\ UNCHANGED <<req, execVars>>
  BY <1>3, RedeliverTyped, PruneTyped, RequestKept, ExecKept
  DEF StoreStep, TypeInv
<1>4. CASE CrashStep
  BY <1>4, SubmitterDiesTyped, WorkerDiesTyped, RequestKept, ExecKept
  DEF CrashStep, TypeInv
<1>5. CASE UNCHANGED vars
  BY <1>5, StoreKept, RequestKept, ExecKept DEF vars, TypeInv
<1>. QED BY <1>1, <1>2, <1>3, <1>4, <1>5 DEF Next

\* Every variable of the framework keeps its type, whatever requests, runs,
\* threads, redeliveries, crashes and prune jobs do: a task never gets a
\* status outside TaskStatus of superset/tasks/constants.py, and nobody acts
\* on a task that was never created.
THEOREM TypeCorrect == Spec => []TypeOK
<1>1. TypeInv => TypeOK
  BY DEF TypeInv, StoreInv, RequestInv, ExecInv, TypeOK
<1>2. Spec => []TypeInv
  BY InitTyped, NextTyped, PTL DEF Spec
<1>. QED BY <1>1, <1>2, PTL
=============================================================================
