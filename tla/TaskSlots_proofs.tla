------------------------- MODULE TaskSlots_proofs -------------------------
(***************************************************************************)
(* Deduplication, for every number of tasks, users, keys and runs: the     *)
(* slot discipline, the single start of each function, and that the        *)
(* framework implements TaskSlots.                                         *)
(*                                                                         *)
(* SlotDiscipline is not inductive.  The writes of Task.set_status go by a *)
(* copy of the row that was read before, so the invariant must say what    *)
(* such a copy can still be wrong about: a copy may believe in a slot that *)
(* is gone, but it never misses one that is still there.                   *)
(*                                                                         *)
(* The argument has two halves.  Each action moves at most one row, and in *)
(* one of three ways (SlotMove): a row is created, started, or written     *)
(* without gaining anything (RowKept).  And a SlotMove keeps the rows in   *)
(* order, is a step of TaskSlots, and spoils nobody's copy.                *)
(***************************************************************************)
EXTENDS TaskTypes_proofs

\* What holds of each row: a slot is held only by an active row, a pending
\* row holds its slot and was never started.
RowInOrder(t) ==
  /\ row[t].keyed => row[t].status \in ACTIVE_STATES /\ row[t].key \in Keys
  /\ row[t].status = "pending" => row[t].keyed /\ hist[t].starts = 0
  /\ row[t].status = Absent => hist[t].starts = 0
  /\ hist[t].starts \in {0, 1}

SlotsUnique ==
  \A s, t \in Tasks :
    row[s].keyed /\ row[t].keyed /\ row[s].key = row[t].key => s = t

RowsInOrder == SlotsUnique /\ \A t \in Tasks : RowInOrder(t)

\* A message is only ever sent for a row that exists.
MessagesKnown ==
  \A t \in Tasks : queue[t] > 0 \/ sent[t] > 0 => row[t].status # Absent

\* The copy a cancel decides on does not miss the slot of its task.
RequestKnows(q) ==
  /\ q.task \in Tasks => row[q.task].status # Absent
  /\ q.pc \in {"submitting", "unlocked"} => q.key \in Keys
  /\ q.pc \in {"cancelling", "locked", "deciding"}
       => (row[q.task].keyed => q.seen.keyed)

\* Nor does the copy a run reports its failures on.
RunKnows(x) ==
  /\ x.task \in Tasks => row[x.task].status # Absent
  /\ x.pc \in {"reporting", "unlocked"} =>
       /\ row[x.task].keyed => x.seen.keyed
       /\ x.seen.keyed => x.seen.status \in ACTIVE_STATES

RequestsKnow == \A u \in Users : RequestKnows(req[u])
RunsKnow == \A r \in Runs : RunKnows(run[r])

SlotInv == RowsInOrder /\ MessagesKnown /\ RequestsKnow /\ RunsKnow
-----------------------------------------------------------------------------
(***************************************************************************)
(* The ways in which a step may touch a row.                               *)
(***************************************************************************)
RowKept(x, y) ==
  /\ y.key = x.key
  /\ y.keyed => x.keyed /\ y.status \in ACTIVE_STATES
  /\ y.status = "pending" => x.status = "pending" /\ (x.keyed => y.keyed)
  /\ y.status # Absent

OnlyRow(t) == row' = [row EXCEPT ![t] = row'[t]]

StartsKept == \A t \in Tasks : hist'[t].starts = hist[t].starts

RowWritten(t) ==
  /\ row[t].status # Absent
  /\ OnlyRow(t)
  /\ RowKept(row[t], row'[t])
  /\ StartsKept

RowCreated(t) ==
  /\ row[t].status = Absent
  /\ OnlyRow(t)
  /\ row'[t].status = "pending" /\ row'[t].keyed /\ row'[t].key \in Keys
  /\ \A s \in Tasks : ~(row[s].keyed /\ row[s].key = row'[t].key)
  /\ StartsKept

RowStarted(t) ==
  /\ row[t].status = "pending"
  /\ OnlyRow(t)
  /\ row'[t].status = "in_progress"
  /\ row'[t].key = row[t].key /\ row'[t].keyed = row[t].keyed
  /\ hist'[t].starts = hist[t].starts + 1
  /\ \A s \in Tasks \ {t} : hist'[s].starts = hist[s].starts

SlotMove ==
  \/ row' = row /\ StartsKept
  \/ \E t \in Tasks : RowWritten(t) \/ RowCreated(t) \/ RowStarted(t)

\* Nothing that exists vanishes, and no slot is taken by an existing row.
RowsMonotone ==
  \A t \in Tasks : row[t].status # Absent =>
    /\ row'[t].status # Absent
    /\ row'[t].keyed => row[t].keyed

LEMMA StatusNames ==
  /\ Absent \notin TaskStatus /\ Pruned \notin TaskStatus
  /\ Absent # Pruned /\ Pruned # "pending" /\ Absent # "pending"
  /\ "pending" \in ACTIVE_STATES /\ "in_progress" \in ACTIVE_STATES
  /\ "aborting" \in ACTIVE_STATES
  /\ "aborted" \in TERMINAL_STATES /\ "failure" \in TERMINAL_STATES
  /\ "pending" \notin TERMINAL_STATES /\ "aborting" \notin TERMINAL_STATES
  /\ ACTIVE_STATES \subseteq TaskStatus /\ TERMINAL_STATES \subseteq TaskStatus
  /\ ACTIVE_STATES \cap TERMINAL_STATES = {}
  /\ Absent \notin ACTIVE_STATES /\ Absent \notin TERMINAL_STATES
BY DEF Absent, Pruned, TaskStatus, ACTIVE_STATES, TERMINAL_STATES

LEMMA RowsTyped ==
  ASSUME TypeInv, NEW t \in Tasks
  PROVE  row[t] \in Row /\ hist[t] \in History /\ hist[t].starts \in Nat
BY DEF TypeInv, StoreInv, StoreTypeOK, History

LEMMA RowKeptTransitive ==
  ASSUME NEW x, NEW y, NEW z, RowKept(x, y), RowKept(y, z)
  PROVE  RowKept(x, z)
BY DEF RowKept

LEMMA RowUnchangedIsKept ==
  ASSUME NEW x \in Row, x.keyed => x.status \in ACTIVE_STATES,
         x.status # Absent
  PROVE  RowKept(x, x)
BY DEF RowKept

LEMMA SwapKept ==
  ASSUME NEW x \in Row, x.keyed => x.status \in ACTIVE_STATES,
         NEW s \in TaskStatus \ {"pending"}, NEW p \in BOOLEAN
  PROVE  RowKept(x, Swap(x, s, p))
<1>1. /\ Swap(x, s, p).key = x.key
      /\ Swap(x, s, p).status = s
      /\ Swap(x, s, p).keyed =
           IF s \in TERMINAL_STATES THEN FALSE ELSE x.keyed
  BY DEF Swap, Row
<1>2. s \in ACTIVE_STATES \/ s \in TERMINAL_STATES
  BY DEF TaskStatus
<1>. QED BY <1>1, <1>2, StatusNames DEF RowKept

\* An ORM write by a stale copy cannot hurt, if the copy does not miss the
\* slot and, when the status it sees is the one to be set, holds none.
LEMMA SetStatusKept ==
  ASSUME NEW x \in Row, x.keyed => x.status \in ACTIVE_STATES,
         x.status # Absent,
         NEW seen, NEW s \in TaskStatus \ {"pending"},
         s \in TERMINAL_STATES => /\ x.keyed => seen.keyed
                                  /\ seen.keyed => seen.status # s
  PROVE  RowKept(x, SetStatus(x, seen, s))
<1>1. /\ SetStatus(x, seen, s).key = x.key
      /\ SetStatus(x, seen, s).status = IF seen.status = s THEN x.status ELSE s
      /\ SetStatus(x, seen, s).keyed =
           IF s \in TERMINAL_STATES /\ seen.keyed THEN FALSE ELSE x.keyed
  BY DEF SetStatus, Row
<1>2. s \in ACTIVE_STATES \/ s \in TERMINAL_STATES
  BY DEF TaskStatus
<1>. QED BY <1>1, <1>2, StatusNames DEF RowKept
-----------------------------------------------------------------------------
(***************************************************************************)
(* What a SlotMove preserves.                                              *)
(***************************************************************************)
LEMMA SlotMoveMonotone ==
  ASSUME TypeInv, RowsInOrder, SlotMove
  PROVE  RowsMonotone
<1>. SUFFICES ASSUME NEW t \in Tasks, row[t].status # Absent
              PROVE  /\ row'[t].status # Absent
                     /\ row'[t].keyed => row[t].keyed
  BY DEF RowsMonotone
<1>1. CASE row' = row
  BY <1>1
<1>2. ASSUME NEW s \in Tasks, OnlyRow(s), s # t
      PROVE  row'[t] = row[t]
  BY <1>2, RowsTyped DEF OnlyRow, TypeInv, StoreInv, StoreTypeOK
<1>3. ASSUME NEW s \in Tasks, RowWritten(s)
      PROVE  /\ row'[t].status # Absent
             /\ row'[t].keyed => row[t].keyed
  BY <1>2, <1>3 DEF RowWritten, RowKept
<1>4. ASSUME NEW s \in Tasks, RowCreated(s)
      PROVE  /\ row'[t].status # Absent
             /\ row'[t].keyed => row[t].keyed
  BY <1>2, <1>4 DEF RowCreated
<1>5. ASSUME NEW s \in Tasks, RowStarted(s)
      PROVE  /\ row'[t].status # Absent
             /\ row'[t].keyed => row[t].keyed
  BY <1>2, <1>5, StatusNames DEF RowStarted
<1>. QED BY <1>1, <1>3, <1>4, <1>5 DEF SlotMove

LEMMA SlotMoveInOrder ==
  ASSUME TypeInv, TypeInv', RowsInOrder, SlotMove
  PROVE  RowsInOrder'
<1>1. CASE row' = row /\ StartsKept
  BY <1>1 DEF RowsInOrder, RowInOrder, SlotsUnique, StartsKept
<1>2. ASSUME NEW t \in Tasks, OnlyRow(t), NEW s \in Tasks, s # t
      PROVE  row'[s] = row[s]
  BY <1>2, RowsTyped DEF OnlyRow, TypeInv, StoreInv, StoreTypeOK
<1>3. ASSUME NEW t \in Tasks, RowWritten(t)
      PROVE  RowsInOrder'
  <2>1. RowInOrder(t)'
    BY <1>3, StatusNames
    DEF RowsInOrder, RowInOrder, RowWritten, RowKept, StartsKept
  <2>2. \A s \in Tasks \ {t} : RowInOrder(s)'
    BY <1>2, <1>3 DEF RowsInOrder, RowInOrder, RowWritten, StartsKept
  <2>3. SlotsUnique'
    BY <1>2, <1>3 DEF RowsInOrder, SlotsUnique, RowWritten, RowKept
  <2>. QED BY <2>1, <2>2, <2>3 DEF RowsInOrder
<1>4. ASSUME NEW t \in Tasks, RowCreated(t)
      PROVE  RowsInOrder'
  <2>1. RowInOrder(t)'
    BY <1>4, StatusNames DEF RowsInOrder, RowInOrder, RowCreated, StartsKept
  <2>2. \A s \in Tasks \ {t} : RowInOrder(s)'
    BY <1>2, <1>4 DEF RowsInOrder, RowInOrder, RowCreated, StartsKept
  <2>3. SlotsUnique'
    BY <1>2, <1>4 DEF RowsInOrder, SlotsUnique, RowCreated
  <2>. QED BY <2>1, <2>2, <2>3 DEF RowsInOrder
<1>5. ASSUME NEW t \in Tasks, RowStarted(t)
      PROVE  RowsInOrder'
  <2>1. RowInOrder(t)'
    BY <1>5, StatusNames DEF RowsInOrder, RowInOrder, RowStarted
  <2>2. \A s \in Tasks \ {t} : RowInOrder(s)'
    BY <1>2, <1>5 DEF RowsInOrder, RowInOrder, RowStarted
  <2>3. SlotsUnique'
    BY <1>2, <1>5 DEF RowsInOrder, SlotsUnique, RowStarted
  <2>. QED BY <2>1, <2>2, <2>3 DEF RowsInOrder
<1>. QED BY <1>1, <1>3, <1>4, <1>5 DEF SlotMove

\* What others know stays true while the rows move on.
LEMMA RequestStillKnows ==
  ASSUME TypeInv, RowsMonotone, NEW u \in Users, RequestKnows(req[u]),
         req'[u] = req[u]
  PROVE  RequestKnows(req[u])'
BY DEF RowsMonotone, RequestKnows, TypeInv, RequestInv, RequestLocated

LEMMA RunStillKnows ==
  ASSUME TypeInv, RowsMonotone, NEW r \in Runs, RunKnows(run[r]),
         run'[r] = run[r]
  PROVE  RunKnows(run[r])'
BY DEF RowsMonotone, RunKnows, TypeInv, ExecInv, RunsLocated

LEMMA MessagesStillKnown ==
  ASSUME TypeInv, RowsMonotone, MessagesKnown, queue' = queue, sent' = sent
  PROVE  MessagesKnown'
BY DEF RowsMonotone, MessagesKnown
-----------------------------------------------------------------------------
(***************************************************************************)
(* Requests.                                                               *)
(***************************************************************************)
\* The facts about one step of user u that the invariant needs.
RequestMove(u) ==
  /\ SlotMove
  /\ MessagesKnown'
  /\ RequestKnows(req[u])'
  /\ \A v \in Users \ {u} : req'[v] = req[v]

LEMMA IdleKnows ==
  ASSUME NEW u \in Users, req'[u] = Idle
  PROVE  RequestKnows(req[u])'
BY StoreAssumption DEF StoreAssumption, Idle, RequestKnows

LEMMA SubmitLookupMoves ==
  ASSUME TypeInv, SlotInv, NEW u \in Users, SubmitLookup(u)
  PROVE  RequestMove(u)
<1>0. PICK k \in Keys, t \in Tasks \cup {NoTask}, q \in Request :
        /\ LockFree(k)
        /\ lock' = [lock EXCEPT ![k] = IF Redis THEN "taken" ELSE "open"]
        /\ t # NoTask => t \in ActiveRows(k)
        /\ req' = [req EXCEPT ![u] = q]
        /\ q.pc = "submitting" /\ q.key = k /\ q.task = t
  BY SubmitLookupPicks, Zenon
<1>1. SlotMove
  BY DEF SubmitLookup, SlotMove, StartsKept
<1>2. MessagesKnown'
  BY DEF SubmitLookup, SlotInv, MessagesKnown
<1>3. RequestKnows(req[u])'
  <2>1. row[t].status # Absent \/ t \notin Tasks
    BY <1>0, StoreAssumption, StatusNames
    DEF StoreAssumption, ActiveRows, Exists
  <2>2. req'[u] = q
    BY <1>0, RequestUpdated
  <2>3. row' = row
    BY DEF SubmitLookup
  <2>. QED BY <1>0, <2>1, <2>2, <2>3 DEF RequestKnows
<1>4. \A v \in Users \ {u} : req'[v] = req[v]
  BY <1>0, RequestUpdated
<1>. QED BY <1>1, <1>2, <1>3, <1>4 DEF RequestMove

LEMMA SubmitUnlockMoves ==
  ASSUME TypeInv, SlotInv, NEW u \in Users, SubmitUnlock(u)
  PROVE  RequestMove(u)
<1>1. SlotMove
  BY DEF SubmitUnlock, SlotMove, StartsKept
<1>2. MessagesKnown'
  BY DEF SubmitUnlock, SlotInv, MessagesKnown
<1>3. RequestKnows(req[u])'
  BY StoreAssumption
  DEF StoreAssumption, SubmitUnlock, SlotInv, RequestsKnow, RequestKnows,
      TypeInv, RequestInv, RequestTypeOK, Request
<1>4. \A v \in Users \ {u} : req'[v] = req[v]
  BY DEF SubmitUnlock, TypeInv, RequestInv, RequestTypeOK
<1>. QED BY <1>1, <1>2, <1>3, <1>4 DEF RequestMove

LEMMA SubmitCreateMoves ==
  ASSUME TypeInv, SlotInv, NEW u \in Users, SubmitCreate(u)
  PROVE  RequestMove(u)
<1>0. PICK t \in Tasks :
        /\ Fresh(t)
        /\ row' = [row EXCEPT ![t] =
                    NewRow(req[u].key, u, req[u].mode, req[u].timeout)]
        /\ req' = [req EXCEPT ![u].pc = "scheduling", ![u].task = t]
  BY DEF SubmitCreate
<1>5. /\ row'[t].status = "pending" /\ row'[t].keyed
      /\ row'[t].key = req[u].key
      /\ OnlyRow(t)
  BY <1>0 DEF NewRow, OnlyRow, TypeInv, StoreInv, StoreTypeOK
<1>6. req[u].key \in Keys
  BY DEF SubmitCreate, Committing, SlotInv, RequestsKnow, RequestKnows
<1>1. SlotMove
  <2>1. \A s \in Tasks : ~(row[s].keyed /\ row[s].key = req[u].key)
    BY StatusNames
    DEF SubmitCreate, ActiveRows, Exists, SlotInv, RowsInOrder, RowInOrder
  <2>2. RowCreated(t)
    BY <1>0, <1>5, <1>6, <2>1
    DEF RowCreated, Fresh, StartsKept, SubmitCreate
  <2>. QED BY <2>2 DEF SlotMove
<1>2. MessagesKnown'
  <2>1. RowsMonotone
    BY <1>1, SlotMoveMonotone DEF SlotInv
  <2>. QED BY <2>1, MessagesStillKnown DEF SubmitCreate, SlotInv
<1>3. RequestKnows(req[u])'
  <2>1. req'[u].pc = "scheduling" /\ req'[u].task = t
    BY <1>0 DEF TypeInv, RequestInv, RequestTypeOK, Request
  <2>. QED BY <1>5, <2>1, StatusNames DEF RequestKnows
<1>4. \A v \in Users \ {u} : req'[v] = req[v]
  BY <1>0 DEF SubmitCreate, TypeInv, RequestInv, RequestTypeOK
<1>. QED BY <1>1, <1>2, <1>3, <1>4 DEF RequestMove

LEMMA SubmitConflictMoves ==
  ASSUME TypeInv, SlotInv, NEW u \in Users, SubmitConflict(u)
  PROVE  RequestMove(u)
<1>1. SlotMove
  BY DEF SubmitConflict, SlotMove, StartsKept
<1>2. MessagesKnown'
  BY DEF SubmitConflict, SlotInv, MessagesKnown
<1>3. RequestKnows(req[u])'
  BY IdleKnows DEF SubmitConflict, TypeInv, RequestInv, RequestTypeOK
<1>4. \A v \in Users \ {u} : req'[v] = req[v]
  BY DEF SubmitConflict, TypeInv, RequestInv, RequestTypeOK
<1>. QED BY <1>1, <1>2, <1>3, <1>4 DEF RequestMove

LEMMA SubmitJoinMoves ==
  ASSUME TypeInv, SlotInv, NEW u \in Users, SubmitJoin(u)
  PROVE  RequestMove(u)
<1>0. req[u].task \in Tasks
  BY DEF SubmitJoin, TypeInv, RequestInv, RequestTypeOK, Request
<1>1. SlotMove
  <2>1. /\ row[req[u].task] \in Row
        /\ row[req[u].task].status # Absent
        /\ row[req[u].task].keyed => row[req[u].task].status \in ACTIVE_STATES
    BY <1>0, RowsTyped
    DEF SlotInv, RequestsKnow, RequestKnows, RowsInOrder, RowInOrder
  <2>2. /\ OnlyRow(req[u].task)
        /\ row'[req[u].task] = [row[req[u].task] EXCEPT !.subs =
              IF Exists(req[u].task) THEN @ \cup {u} ELSE @]
    BY <1>0 DEF SubmitJoin, OnlyRow, TypeInv, StoreInv, StoreTypeOK
  <2>3. RowKept(row[req[u].task], row'[req[u].task])
    BY <2>1, <2>2 DEF RowKept, Row
  <2>. QED BY <1>0, <2>1, <2>2, <2>3
       DEF SubmitJoin, RowWritten, SlotMove, StartsKept
<1>2. MessagesKnown'
  <2>1. RowsMonotone
    BY <1>1, SlotMoveMonotone DEF SlotInv
  <2>. QED BY <2>1, MessagesStillKnown DEF SubmitJoin, SlotInv
<1>3. RequestKnows(req[u])'
  <2>1. CASE req'[u] = Idle
    BY <2>1, IdleKnows
  <2>2. CASE req'[u] # Idle
    <3>1. req'[u] = [req[u] EXCEPT !.pc = "waiting"]
      BY <2>2 DEF SubmitJoin, TypeInv, RequestInv, RequestTypeOK
    <3>2. req'[u].pc = "waiting" /\ req'[u].task = req[u].task
      BY <3>1 DEF TypeInv, RequestInv, RequestTypeOK, Request
    <3>3. row'[req[u].task].status # Absent
      BY <1>0, <1>1, SlotMoveMonotone
      DEF RowsMonotone, SlotInv, RequestsKnow, RequestKnows
    <3>. QED BY <3>2, <3>3 DEF RequestKnows
  <2>. QED BY <2>1, <2>2
<1>4. \A v \in Users \ {u} : req'[v] = req[v]
  BY <1>0 DEF SubmitJoin, TypeInv, RequestInv, RequestTypeOK
<1>. QED BY <1>1, <1>2, <1>3, <1>4 DEF RequestMove

LEMMA ScheduleMoves ==
  ASSUME TypeInv, SlotInv, NEW u \in Users, Schedule(u)
  PROVE  RequestMove(u)
<1>1. SlotMove
  BY DEF Schedule, SlotMove, StartsKept
<1>2. MessagesKnown'
  <2>1. req[u].task \in Tasks /\ row[req[u].task].status # Absent
    BY DEF Schedule, TypeInv, RequestInv, RequestLocated, SlotInv,
           RequestsKnow, RequestKnows
  <2>2. \A t \in Tasks \ {req[u].task} :
          queue'[t] = queue[t] /\ sent'[t] = sent[t]
    BY DEF Schedule, TypeInv, StoreInv, StoreTypeOK
  <2>. QED BY <2>1, <2>2 DEF Schedule, SlotInv, MessagesKnown
<1>3. RequestKnows(req[u])'
  BY IdleKnows DEF Schedule, TypeInv, RequestInv, RequestTypeOK
<1>4. \A v \in Users \ {u} : req'[v] = req[v]
  BY DEF Schedule, TypeInv, RequestInv, RequestTypeOK
<1>. QED BY <1>1, <1>2, <1>3, <1>4 DEF RequestMove

LEMMA WaitEndsMoves ==
  ASSUME TypeInv, SlotInv, NEW u \in Users, WaitEnds(u)
  PROVE  RequestMove(u)
<1>1. SlotMove
  BY DEF WaitEnds, SlotMove, StartsKept, storeVars
<1>2. MessagesKnown'
  BY DEF WaitEnds, SlotInv, MessagesKnown, storeVars
<1>3. RequestKnows(req[u])'
  BY IdleKnows DEF WaitEnds, TypeInv, RequestInv, RequestTypeOK
<1>4. \A v \in Users \ {u} : req'[v] = req[v]
  BY DEF WaitEnds, TypeInv, RequestInv, RequestTypeOK
<1>. QED BY <1>1, <1>2, <1>3, <1>4 DEF RequestMove

LEMMA WaitTimesOutMoves ==
  ASSUME TypeInv, SlotInv, NEW u \in Users, WaitTimesOut(u)
  PROVE  RequestMove(u)
<1>1. SlotMove
  BY DEF WaitTimesOut, SlotMove, StartsKept, storeVars
<1>2. MessagesKnown'
  BY DEF WaitTimesOut, SlotInv, MessagesKnown, storeVars
<1>3. RequestKnows(req[u])'
  BY IdleKnows DEF WaitTimesOut, TypeInv, RequestInv, RequestTypeOK
<1>4. \A v \in Users \ {u} : req'[v] = req[v]
  BY DEF WaitTimesOut, TypeInv, RequestInv, RequestTypeOK
<1>. QED BY <1>1, <1>2, <1>3, <1>4 DEF RequestMove

LEMMA SubmitterDiesMoves ==
  ASSUME TypeInv, SlotInv, NEW u \in Users, SubmitterDies(u)
  PROVE  RequestMove(u)
<1>1. SlotMove
  BY DEF SubmitterDies, SlotMove, StartsKept, storeVars
<1>2. MessagesKnown'
  BY DEF SubmitterDies, SlotInv, MessagesKnown, storeVars
<1>3. RequestKnows(req[u])'
  BY IdleKnows DEF SubmitterDies, TypeInv, RequestInv, RequestTypeOK
<1>4. \A v \in Users \ {u} : req'[v] = req[v]
  BY DEF SubmitterDies, TypeInv, RequestInv, RequestTypeOK
<1>. QED BY <1>1, <1>2, <1>3, <1>4 DEF RequestMove

LEMMA CancelFetchMoves ==
  ASSUME TypeInv, SlotInv, NEW u \in Users, CancelFetch(u)
  PROVE  RequestMove(u)
<1>0. PICK t \in Tasks, f \in BOOLEAN :
        /\ Exists(t)
        /\ req' = [req EXCEPT ![u] = [Idle EXCEPT
                     !.pc = "cancelling", !.key = row[t].key, !.task = t,
                     !.force = f, !.seen = row[t]]]
  BY DEF CancelFetch, Visible
<1>1. SlotMove
  BY DEF CancelFetch, SlotMove, StartsKept, storeVars
<1>2. MessagesKnown'
  BY DEF CancelFetch, SlotInv, MessagesKnown, storeVars
<1>3. RequestKnows(req[u])'
  <2>1. /\ req'[u].pc = "cancelling" /\ req'[u].task = t
        /\ req'[u].seen = row[t]
    BY <1>0 DEF Idle, TypeInv, RequestInv, RequestTypeOK
  <2>. QED BY <1>0, <2>1, StatusNames
       DEF CancelFetch, storeVars, Exists, RequestKnows
<1>4. \A v \in Users \ {u} : req'[v] = req[v]
  BY <1>0 DEF CancelFetch, TypeInv, RequestInv, RequestTypeOK
<1>. QED BY <1>1, <1>2, <1>3, <1>4 DEF RequestMove

LEMMA CancelLockMoves ==
  ASSUME TypeInv, SlotInv, NEW u \in Users, CancelLock(u)
  PROVE  RequestMove(u)
<1>1. SlotMove
  BY DEF CancelLock, SlotMove, StartsKept
<1>2. MessagesKnown'
  BY DEF CancelLock, SlotInv, MessagesKnown
<1>3. RequestKnows(req[u])'
  BY StoreAssumption
  DEF StoreAssumption, CancelLock, SlotInv, RequestsKnow, RequestKnows,
      TypeInv, RequestInv, RequestTypeOK, Request
<1>4. \A v \in Users \ {u} : req'[v] = req[v]
  BY DEF CancelLock, TypeInv, RequestInv, RequestTypeOK
<1>. QED BY <1>1, <1>2, <1>3, <1>4 DEF RequestMove

LEMMA CancelRefusedMoves ==
  ASSUME TypeInv, SlotInv, NEW u \in Users, CancelRefused(u)
  PROVE  RequestMove(u)
<1>1. SlotMove
  BY DEF CancelRefused, SlotMove, StartsKept, storeVars
<1>2. MessagesKnown'
  BY DEF CancelRefused, SlotInv, MessagesKnown, storeVars
<1>3. RequestKnows(req[u])'
  BY IdleKnows DEF CancelRefused, TypeInv, RequestInv, RequestTypeOK
<1>4. \A v \in Users \ {u} : req'[v] = req[v]
  BY DEF CancelRefused, TypeInv, RequestInv, RequestTypeOK
<1>. QED BY <1>1, <1>2, <1>3, <1>4 DEF RequestMove

LEMMA CancelDecideMoves ==
  ASSUME TypeInv, SlotInv, NEW u \in Users, CancelDecide(u)
  PROVE  RequestMove(u)
<1>1. SlotMove
  BY DEF CancelDecide, SlotMove, StartsKept, storeVars
<1>2. MessagesKnown'
  BY DEF CancelDecide, SlotInv, MessagesKnown, storeVars
<1>3. RequestKnows(req[u])'
  <2>1. /\ req'[u].task = req[u].task
        /\ req'[u].pc \in {"releasing", "deciding"}
        /\ req'[u].seen \in {req[u].seen, row[req[u].task]}
    BY DEF CancelDecide, TypeInv, RequestInv, RequestTypeOK, Request
  <2>. QED BY <2>1
       DEF CancelDecide, storeVars, SlotInv, RequestsKnow, RequestKnows
<1>4. \A v \in Users \ {u} : req'[v] = req[v]
  BY DEF CancelDecide, TypeInv, RequestInv, RequestTypeOK
<1>. QED BY <1>1, <1>2, <1>3, <1>4 DEF RequestMove

LEMMA CancelAbortMoves ==
  ASSUME TypeInv, SlotInv, NEW u \in Users, CancelAbort(u)
  PROVE  RequestMove(u)
<1>0. /\ req[u].task \in Tasks
      /\ row[req[u].task] \in Row
      /\ row[req[u].task].status # Absent
      /\ row[req[u].task].keyed =>
           row[req[u].task].status \in ACTIVE_STATES /\ req[u].seen.keyed
  BY RowsTyped
  DEF CancelAbort, TypeInv, RequestInv, RequestLocated, SlotInv,
      RequestsKnow, RequestKnows, RowsInOrder, RowInOrder
<1>1. SlotMove
  <2>1. /\ OnlyRow(req[u].task)
        /\ row'[req[u].task] = SetStatus(row[req[u].task], req[u].seen,
                                        AbortTarget(req[u].seen))
    BY <1>0 DEF CancelAbort, OnlyRow, TypeInv, StoreInv, StoreTypeOK
  <2>2. /\ AbortTarget(req[u].seen) \in TaskStatus \ {"pending"}
        /\ AbortTarget(req[u].seen) \in TERMINAL_STATES
             => req[u].seen.status # AbortTarget(req[u].seen)
    BY StatusNames DEF AbortTarget
  <2>3. RowKept(row[req[u].task], row'[req[u].task])
    BY <1>0, <2>1, <2>2, SetStatusKept
  <2>4. StartsKept
    BY <1>0, RowsTyped
    DEF CancelAbort, StartsKept, TypeInv, StoreInv, StoreTypeOK, History
  <2>. QED BY <1>0, <2>1, <2>3, <2>4 DEF RowWritten, SlotMove
<1>2. MessagesKnown'
  <2>1. RowsMonotone
    BY <1>1, SlotMoveMonotone DEF SlotInv
  <2>. QED BY <2>1, MessagesStillKnown DEF CancelAbort, SlotInv
<1>3. RequestKnows(req[u])'
  <2>1. req'[u].pc = "releasing" /\ req'[u].task = req[u].task
    BY DEF CancelAbort, TypeInv, RequestInv, RequestTypeOK, Request
  <2>2. row'[req[u].task].status # Absent
    BY <1>0, <1>1, SlotMoveMonotone DEF RowsMonotone, SlotInv
  <2>. QED BY <2>1, <2>2 DEF RequestKnows
<1>4. \A v \in Users \ {u} : req'[v] = req[v]
  BY <1>0 DEF CancelAbort, TypeInv, RequestInv, RequestTypeOK
<1>. QED BY <1>1, <1>2, <1>3, <1>4 DEF RequestMove

LEMMA CancelUnsubscribeMoves ==
  ASSUME TypeInv, SlotInv, NEW u \in Users, CancelUnsubscribe(u)
  PROVE  RequestMove(u)
<1>0. /\ req[u].task \in Tasks
      /\ row[req[u].task] \in Row
      /\ row[req[u].task].status # Absent
      /\ row[req[u].task].keyed =>
           row[req[u].task].status \in ACTIVE_STATES /\ req[u].seen.keyed
  BY RowsTyped
  DEF CancelUnsubscribe, TypeInv, RequestInv, RequestLocated, SlotInv,
      RequestsKnow, RequestKnows, RowsInOrder, RowInOrder
<1>1. SlotMove
  <2>1. /\ OnlyRow(req[u].task)
        /\ row'[req[u].task] = [row[req[u].task] EXCEPT !.subs = @ \ {u}]
    BY <1>0 DEF CancelUnsubscribe, OnlyRow, TypeInv, StoreInv, StoreTypeOK
  <2>2. RowKept(row[req[u].task], row'[req[u].task])
    BY <1>0, <2>1 DEF RowKept, Row
  <2>. QED BY <1>0, <2>1, <2>2
       DEF CancelUnsubscribe, RowWritten, SlotMove, StartsKept
<1>2. MessagesKnown'
  <2>1. RowsMonotone
    BY <1>1, SlotMoveMonotone DEF SlotInv
  <2>. QED BY <2>1, MessagesStillKnown DEF CancelUnsubscribe, SlotInv
<1>3. RequestKnows(req[u])'
  <2>1. req'[u].pc = "releasing" /\ req'[u].task = req[u].task
    BY DEF CancelUnsubscribe, TypeInv, RequestInv, RequestTypeOK, Request
  <2>2. row'[req[u].task].status # Absent
    BY <1>0, <1>1, SlotMoveMonotone DEF RowsMonotone, SlotInv
  <2>. QED BY <2>1, <2>2 DEF RequestKnows
<1>4. \A v \in Users \ {u} : req'[v] = req[v]
  BY <1>0 DEF CancelUnsubscribe, TypeInv, RequestInv, RequestTypeOK
<1>. QED BY <1>1, <1>2, <1>3, <1>4 DEF RequestMove

LEMMA CancelReleaseMoves ==
  ASSUME TypeInv, SlotInv, NEW u \in Users, CancelRelease(u)
  PROVE  RequestMove(u)
<1>1. SlotMove
  BY DEF CancelRelease, SlotMove, StartsKept
<1>2. MessagesKnown'
  BY DEF CancelRelease, SlotInv, MessagesKnown
<1>3. RequestKnows(req[u])'
  BY StoreAssumption
  DEF StoreAssumption, CancelRelease, Idle, SlotInv, RequestsKnow,
      RequestKnows, TypeInv, RequestInv, RequestTypeOK, Request
<1>4. \A v \in Users \ {u} : req'[v] = req[v]
  BY DEF CancelRelease, TypeInv, RequestInv, RequestTypeOK
<1>. QED BY <1>1, <1>2, <1>3, <1>4 DEF RequestMove

LEMMA CancelPublishMoves ==
  ASSUME TypeInv, SlotInv, NEW u \in Users, CancelPublish(u)
  PROVE  RequestMove(u)
<1>1. SlotMove
  BY DEF CancelPublish, SlotMove, StartsKept
<1>2. MessagesKnown'
  BY DEF CancelPublish, SlotInv, MessagesKnown
<1>3. RequestKnows(req[u])'
  BY IdleKnows DEF CancelPublish, TypeInv, RequestInv, RequestTypeOK
<1>4. \A v \in Users \ {u} : req'[v] = req[v]
  BY DEF CancelPublish, TypeInv, RequestInv, RequestTypeOK
<1>. QED BY <1>1, <1>2, <1>3, <1>4 DEF RequestMove

LEMMA RequestMovesKeepSlotInv ==
  ASSUME TypeInv, TypeInv', SlotInv, NEW u \in Users, RequestMove(u),
         UNCHANGED run
  PROVE  SlotInv'
<1>1. RowsMonotone
  BY SlotMoveMonotone DEF RequestMove, SlotInv
<1>2. RowsInOrder'
  BY SlotMoveInOrder DEF RequestMove, SlotInv
<1>3. RequestsKnow'
  <2>. SUFFICES ASSUME NEW v \in Users PROVE RequestKnows(req[v])'
    BY DEF RequestsKnow
  <2>. QED BY <1>1, RequestStillKnows DEF RequestMove, SlotInv, RequestsKnow
<1>4. RunsKnow'
  BY <1>1, RunStillKnows DEF SlotInv, RunsKnow
<1>. QED BY <1>2, <1>3, <1>4 DEF RequestMove, SlotInv

LEMMA RequestsKeepSlotInv ==
  ASSUME TypeInv, TypeInv', SlotInv, NEW u \in Users,
         Submit(u) \/ Cancel(u) \/ SubmitterDies(u), UNCHANGED run
  PROVE  SlotMove /\ SlotInv'
<1>1. RequestMove(u)
  BY SubmitLookupMoves, SubmitUnlockMoves, SubmitCreateMoves,
     SubmitConflictMoves, SubmitJoinMoves, ScheduleMoves, WaitEndsMoves,
     WaitTimesOutMoves, SubmitterDiesMoves, CancelFetchMoves,
     CancelLockMoves, CancelRefusedMoves, CancelDecideMoves,
     CancelAbortMoves, CancelUnsubscribeMoves, CancelReleaseMoves,
     CancelPublishMoves
  DEF Submit, Cancel
<1>. QED BY <1>1, RequestMovesKeepSlotInv DEF RequestMove
-----------------------------------------------------------------------------
(***************************************************************************)
(* Runs.                                                                   *)
(***************************************************************************)
\* The facts about one step of run r, or of its threads, that the invariant
\* needs.
RunMove(r) ==
  /\ SlotMove
  /\ MessagesKnown'
  /\ RunKnows(run[r])'
  /\ \A q \in Runs \ {r} : run'[q] = run[q]

\* A step that is no Fetch and no Report.
RunGoesOn(r) ==
  /\ run'[r].task = run[r].task
  /\ \/ run'[r].pc \notin {"reporting", "unlocked"}
     \/ /\ run[r].pc \in {"reporting", "unlocked"}
        /\ run'[r].seen = run[r].seen

LEMMA RunGoesOnMoves ==
  ASSUME TypeInv, SlotInv, NEW r \in Runs, SlotMove, RunGoesOn(r),
         \A q \in Runs \ {r} : run'[q] = run[q],
         queue' = queue, sent' = sent
  PROVE  RunMove(r)
<1>1. RowsMonotone
  BY SlotMoveMonotone DEF SlotInv
<1>2. MessagesKnown'
  BY <1>1, MessagesStillKnown DEF SlotInv
<1>3. RunKnows(run[r])
  BY DEF SlotInv, RunsKnow
<1>4. run'[r].task \in Tasks => row'[run'[r].task].status # Absent
  BY <1>1, <1>3 DEF RunGoesOn, RowsMonotone, RunKnows
<1>5. run[r].pc \in {"reporting", "unlocked"} => run[r].task \in Tasks
  BY DEF TypeInv, ExecInv, RunsLocated
<1>6. RunKnows(run[r])'
  BY <1>1, <1>3, <1>4, <1>5 DEF RunGoesOn, RowsMonotone, RunKnows
<1>. QED BY <1>2, <1>6 DEF RunMove

\* The row a run works on.
LEMMA TaskOfInOrder ==
  ASSUME TypeInv, SlotInv, NEW r \in Runs, run[r].task \in Tasks
  PROVE  /\ row[run[r].task] \in Row
         /\ row[run[r].task].status # Absent
         /\ row[run[r].task].keyed =>
              row[run[r].task].status \in ACTIVE_STATES
         /\ RowKept(row[run[r].task], row[run[r].task])
         /\ RowKept(row[run[r].task], Flushed(r))
         /\ Flushed(r) \in Row
         /\ Flushed(r).status # Absent
         /\ Flushed(r).keyed => Flushed(r).status \in ACTIVE_STATES
<1>1. /\ row[run[r].task] \in Row
      /\ row[run[r].task].status # Absent
      /\ row[run[r].task].keyed => row[run[r].task].status \in ACTIVE_STATES
  BY RowsTyped DEF SlotInv, RunsKnow, RunKnows, RowsInOrder, RowInOrder
<1>2. Flushed(r) \in Row
  BY TaskOfTyped
<1>3. RowKept(row[run[r].task], row[run[r].task])
  BY <1>1, RowUnchangedIsKept
<1>4. RowKept(row[run[r].task], Flushed(r))
  BY <1>1, <1>3, StatusNames DEF Flushed, TaskOf, RowKept, Row
<1>5. Flushed(r).keyed => Flushed(r).status \in ACTIVE_STATES
  BY <1>4 DEF RowKept
<1>6. Flushed(r).status # Absent
  BY <1>4 DEF RowKept
<1>. QED BY <1>1, <1>2, <1>3, <1>4, <1>5, <1>6

LEMMA RunWrites ==
  ASSUME TypeInv, SlotInv, NEW r \in Runs, run[r].task \in Tasks, NEW y,
         row' = [row EXCEPT ![run[r].task] = y],
         RowKept(row[run[r].task], y), StartsKept
  PROVE  SlotMove
<1>1. /\ OnlyRow(run[r].task)
      /\ row'[run[r].task] = y
  BY DEF OnlyRow, TypeInv, StoreInv, StoreTypeOK
<1>. QED BY <1>1, TaskOfInOrder DEF RowWritten, SlotMove

LEMMA FetchMoves ==
  ASSUME TypeInv, SlotInv, NEW r \in Runs, Fetch(r)
  PROVE  RunMove(r)
<1>0. PICK t \in Tasks :
        /\ queue[t] > 0
        /\ queue' = [queue EXCEPT ![t] = @ - 1]
        /\ run' = [run EXCEPT ![r] = [NewRun EXCEPT
                     !.task = t, !.seen = IF Exists(t) THEN row[t] ELSE NoRow,
                     !.pc = IF Exists(t) THEN "fetched" ELSE "done"]]
  BY DEF Fetch
<1>1. SlotMove
  BY DEF Fetch, SlotMove, StartsKept
<1>2. row[t].status # Absent
  BY <1>0 DEF SlotInv, MessagesKnown
<1>3. MessagesKnown'
  <2>. SUFFICES ASSUME NEW s \in Tasks, queue'[s] > 0 \/ sent'[s] > 0
                PROVE  row'[s].status # Absent
    BY DEF MessagesKnown
  <2>1. CASE s = t
    BY <1>2, <2>1 DEF Fetch
  <2>2. CASE s # t
    BY <1>0, <2>2
    DEF Fetch, SlotInv, MessagesKnown, TypeInv, StoreInv, StoreTypeOK
  <2>. QED BY <2>1, <2>2
<1>4. RunKnows(run[r])'
  <2>1. run'[r].task = t /\ run'[r].pc \in {"fetched", "done"}
    BY <1>0 DEF NewRun, TypeInv, ExecInv, ExecutionTypeOK
  <2>. QED BY <1>2, <2>1 DEF Fetch, RunKnows
<1>5. \A q \in Runs \ {r} : run'[q] = run[q]
  BY <1>0 DEF TypeInv, ExecInv, ExecutionTypeOK
<1>. QED BY <1>1, <1>3, <1>4, <1>5 DEF RunMove

LEMMA SkipAbortedMoves ==
  ASSUME TypeInv, SlotInv, NEW r \in Runs, SkipAborted(r)
  PROVE  RunMove(r)
<1>1. SlotMove
  <2>1. run[r].task \in Tasks
    BY DEF SkipAborted, TypeInv, ExecInv, RunsLocated
  <2>2. RowKept(row[run[r].task], Swap(row[run[r].task], "aborted", FALSE))
    BY <2>1, TaskOfInOrder, SwapKept, StatusNames
  <2>3. CASE CanSwap(row[run[r].task], {"pending", "aborting"})
    BY <2>1, <2>2, <2>3, RunWrites
    DEF SkipAborted, StartsKept, TypeInv, StoreInv, StoreTypeOK
  <2>4. CASE ~CanSwap(row[run[r].task], {"pending", "aborting"})
    BY <2>4 DEF SkipAborted, SlotMove, StartsKept
  <2>. QED BY <2>3, <2>4
<1>2. RunGoesOn(r)
  BY DEF SkipAborted, RunGoesOn, TypeInv, ExecInv, ExecutionTypeOK, RunState
<1>3. \A q \in Runs \ {r} : run'[q] = run[q]
  BY DEF SkipAborted, TypeInv, ExecInv, ExecutionTypeOK
<1>4. queue' = queue /\ sent' = sent
  BY DEF SkipAborted
<1>. QED BY <1>1, <1>2, <1>3, <1>4, RunGoesOnMoves

LEMMA PickupMoves ==
  ASSUME TypeInv, SlotInv, NEW r \in Runs, Pickup(r)
  PROVE  RunMove(r)
<1>1. SlotMove
  <2>1. run[r].task \in Tasks
    BY DEF Pickup, TypeInv, ExecInv, RunsLocated
  <2>2. row[run[r].task].status = "pending" /\ row[run[r].task] \in Row
    BY <2>1, RowsTyped DEF Pickup, CanSwap, PickupFrom
  <2>3. /\ OnlyRow(run[r].task)
        /\ row'[run[r].task] = Swap(row[run[r].task], "in_progress", FALSE)
    BY <2>1 DEF Pickup, OnlyRow, TypeInv, StoreInv, StoreTypeOK
  <2>4. /\ row'[run[r].task].status = "in_progress"
        /\ row'[run[r].task].key = row[run[r].task].key
        /\ row'[run[r].task].keyed = row[run[r].task].keyed
    BY <2>2, <2>3 DEF Swap, Row, TERMINAL_STATES
  <2>5. hist'[run[r].task].starts = hist[run[r].task].starts + 1
    BY <2>1, RowsTyped DEF Pickup, TypeInv, StoreInv, StoreTypeOK, History
  <2>6. \A s \in Tasks \ {run[r].task} : hist'[s].starts = hist[s].starts
    BY <2>1 DEF Pickup, TypeInv, StoreInv, StoreTypeOK
  <2>. QED BY <2>1, <2>2, <2>3, <2>4, <2>5, <2>6 DEF RowStarted, SlotMove
<1>2. RunGoesOn(r)
  BY DEF Pickup, RunGoesOn, TypeInv, ExecInv, ExecutionTypeOK, RunState
<1>3. \A q \in Runs \ {r} : run'[q] = run[q]
  BY DEF Pickup, TypeInv, ExecInv, ExecutionTypeOK
<1>4. queue' = queue /\ sent' = sent
  BY DEF Pickup
<1>. QED BY <1>1, <1>2, <1>3, <1>4, RunGoesOnMoves

LEMMA PickupFailsMoves ==
  ASSUME TypeInv, SlotInv, NEW r \in Runs, PickupFails(r)
  PROVE  RunMove(r)
<1>1. SlotMove
  BY DEF PickupFails, SlotMove, StartsKept, storeVars
<1>2. RunGoesOn(r)
  BY DEF PickupFails, RunGoesOn, TypeInv, ExecInv, ExecutionTypeOK, RunState
<1>3. \A q \in Runs \ {r} : run'[q] = run[q]
  BY DEF PickupFails, TypeInv, ExecInv, ExecutionTypeOK
<1>4. queue' = queue /\ sent' = sent
  BY DEF PickupFails, storeVars
<1>. QED BY <1>1, <1>2, <1>3, <1>4, RunGoesOnMoves

LEMMA RegisterHandlerMoves ==
  ASSUME TypeInv, SlotInv, NEW r \in Runs, RegisterHandler(r)
  PROVE  RunMove(r)
<1>1. SlotMove
  <2>1. run[r].task \in Tasks
    BY DEF RegisterHandler, TypeInv, ExecInv, RunsLocated
  <2>2. RowKept(row[run[r].task],
                [Flushed(r) EXCEPT !.abortable = Exists(run[r].task)])
    BY <2>1, TaskOfInOrder DEF RowKept, Row
  <2>. QED BY <2>1, <2>2, RunWrites DEF RegisterHandler, StartsKept
<1>2. RunGoesOn(r)
  BY DEF RegisterHandler, RunGoesOn, TypeInv, ExecInv, ExecutionTypeOK,
         RunState, Committed
<1>3. \A q \in Runs \ {r} : run'[q] = run[q]
  BY DEF RegisterHandler, TypeInv, ExecInv, ExecutionTypeOK
<1>4. queue' = queue /\ sent' = sent
  BY DEF RegisterHandler
<1>. QED BY <1>1, <1>2, <1>3, <1>4, RunGoesOnMoves

LEMMA StartListenerMoves ==
  ASSUME TypeInv, SlotInv, NEW r \in Runs, StartListener(r)
  PROVE  RunMove(r)
<1>1. SlotMove
  BY DEF StartListener, SlotMove, StartsKept
<1>2. RunGoesOn(r)
  BY DEF StartListener, RunGoesOn, TypeInv, ExecInv, ExecutionTypeOK,
         RunState
<1>3. \A q \in Runs \ {r} : run'[q] = run[q]
  BY DEF StartListener, TypeInv, ExecInv, ExecutionTypeOK
<1>4. queue' = queue /\ sent' = sent
  BY DEF StartListener
<1>. QED BY <1>1, <1>2, <1>3, <1>4, RunGoesOnMoves

LEMMA UpdateTaskMoves ==
  ASSUME TypeInv, SlotInv, NEW r \in Runs, UpdateTask(r)
  PROVE  RunMove(r)
<1>1. SlotMove
  <2>1. run[r].task \in Tasks
    BY DEF UpdateTask, TypeInv, ExecInv, RunsLocated
  <2>2. RowKept(row[run[r].task], Flushed(r))
    BY <2>1, TaskOfInOrder
  <2>. QED BY <2>1, <2>2, RunWrites DEF UpdateTask, StartsKept
<1>2. RunGoesOn(r)
  BY DEF UpdateTask, RunGoesOn, TypeInv, ExecInv, ExecutionTypeOK, RunState,
         Committed
<1>3. \A q \in Runs \ {r} : run'[q] = run[q]
  BY DEF UpdateTask, TypeInv, ExecInv, ExecutionTypeOK
<1>4. queue' = queue /\ sent' = sent
  BY DEF UpdateTask
<1>. QED BY <1>1, <1>2, <1>3, <1>4, RunGoesOnMoves

LEMMA BodyEndsMoves ==
  ASSUME TypeInv, SlotInv, NEW r \in Runs, BodyEnds(r)
  PROVE  RunMove(r)
<1>1. SlotMove
  <2>1. run[r].task \in Tasks
    BY DEF BodyEnds, TypeInv, ExecInv, RunsLocated
  <2>2. StartsKept
    BY <2>1, RowsTyped
    DEF BodyEnds, StartsKept, TypeInv, StoreInv, StoreTypeOK, History
  <2>. QED BY <2>2 DEF BodyEnds, SlotMove
<1>2. RunGoesOn(r)
  BY DEF BodyEnds, RunGoesOn, TypeInv, ExecInv, ExecutionTypeOK, RunState
<1>3. \A q \in Runs \ {r} : run'[q] = run[q]
  BY DEF BodyEnds, TypeInv, ExecInv, ExecutionTypeOK
<1>4. queue' = queue /\ sent' = sent
  BY DEF BodyEnds
<1>. QED BY <1>1, <1>2, <1>3, <1>4, RunGoesOnMoves

LEMMA SettleMoves ==
  ASSUME TypeInv, SlotInv, NEW r \in Runs, Settle(r)
  PROVE  RunMove(r)
<1>1. SlotMove
  BY DEF Settle, SlotMove, StartsKept, storeVars
<1>2. RunGoesOn(r)
  BY DEF Settle, RunGoesOn, TypeInv, ExecInv, ExecutionTypeOK, RunState
<1>3. \A q \in Runs \ {r} : run'[q] = run[q]
  BY DEF Settle, TypeInv, ExecInv, ExecutionTypeOK
<1>4. queue' = queue /\ sent' = sent
  BY DEF Settle, storeVars
<1>. QED BY <1>1, <1>2, <1>3, <1>4, RunGoesOnMoves

LEMMA StoreOutcomeMoves ==
  ASSUME TypeInv, SlotInv, NEW r \in Runs, StoreOutcome(r)
  PROVE  RunMove(r)
<1>1. SlotMove
  <2>1. run[r].task \in Tasks
    BY DEF StoreOutcome, TypeInv, ExecInv, RunsLocated
  <2>2. run[r].target \in TaskStatus \ {"pending"}
    BY StatusNames DEF TypeInv, ExecInv, ExecutionTypeOK, RunState
  <2>3. RowKept(Flushed(r),
                Swap(Flushed(r), run[r].target, run[r].target = "failure"))
    BY <2>1, <2>2, TaskOfInOrder, SwapKept
  <2>4. RowKept(row[run[r].task],
                Swap(Flushed(r), run[r].target, run[r].target = "failure"))
    BY <2>1, <2>3, TaskOfInOrder, RowKeptTransitive
  <2>5. RowKept(row[run[r].task],
                IF CanSwap(Flushed(r), Expected(r))
                THEN Swap(Flushed(r), run[r].target, run[r].target = "failure")
                ELSE Flushed(r))
    BY <2>1, <2>4, TaskOfInOrder
  <2>. QED BY <2>1, <2>5, RunWrites DEF StoreOutcome, StartsKept
<1>2. RunGoesOn(r)
  BY DEF StoreOutcome, RunGoesOn, TypeInv, ExecInv, ExecutionTypeOK,
         RunState, Committed
<1>3. \A q \in Runs \ {r} : run'[q] = run[q]
  BY DEF StoreOutcome, TypeInv, ExecInv, ExecutionTypeOK
<1>4. queue' = queue /\ sent' = sent
  BY DEF StoreOutcome
<1>. QED BY <1>1, <1>2, <1>3, <1>4, RunGoesOnMoves

LEMMA StopThreadsMoves ==
  ASSUME TypeInv, SlotInv, NEW r \in Runs, StopThreads(r)
  PROVE  RunMove(r)
<1>1. SlotMove
  BY DEF StopThreads, SlotMove, StartsKept
<1>2. RunGoesOn(r)
  BY DEF StopThreads, RunGoesOn, TypeInv, ExecInv, ExecutionTypeOK, RunState
<1>3. \A q \in Runs \ {r} : run'[q] = run[q]
  BY DEF StopThreads, TypeInv, ExecInv, ExecutionTypeOK
<1>4. queue' = queue /\ sent' = sent
  BY DEF StopThreads
<1>. QED BY <1>1, <1>2, <1>3, <1>4, RunGoesOnMoves

LEMMA AbortCheckMoves ==
  ASSUME TypeInv, SlotInv, NEW r \in Runs, AbortCheck(r)
  PROVE  RunMove(r)
<1>1. SlotMove
  <2>1. run[r].task \in Tasks
    BY DEF AbortCheck, TypeInv, ExecInv, RunsLocated
  <2>3. ASSUME hist' = Handled(r) PROVE StartsKept
    BY <2>1, <2>3, RowsTyped
    DEF Handled, StartsKept, TypeInv, StoreInv, StoreTypeOK, History
  <2>2. StartsKept
    BY <2>3 DEF AbortCheck, StartsKept
  <2>. QED BY <2>2 DEF AbortCheck, SlotMove
<1>2. RunGoesOn(r)
  <2>1. /\ run[r] \in RunState
        /\ \A f : /\ AfterHandlers(run[r], f) \in RunState
                 /\ AfterHandlers(run[r], f).task = run[r].task
    BY AfterHandlersTyped DEF TypeInv, ExecInv, ExecutionTypeOK
  <2>2. run'[r].pc = "cleaners" /\ run'[r].task = run[r].task
    <3>1. CASE Unnoticed(r)
      <4>1. PICK f \in HandlerOutcome(r) :
              run' = [run EXCEPT ![r] = [AfterHandlers(@, f) EXCEPT
                                           !.pc = "cleaners", !.dirty = FALSE]]
        BY <3>1 DEF AbortCheck
      <4>2. run'[r] = [AfterHandlers(run[r], f) EXCEPT
                         !.pc = "cleaners", !.dirty = FALSE]
        BY <4>1 DEF TypeInv, ExecInv, ExecutionTypeOK
      <4>. QED BY <2>1, <4>2 DEF RunState
    <3>2. CASE ~Unnoticed(r)
      BY <2>1, <3>2
      DEF AbortCheck, TypeInv, ExecInv, ExecutionTypeOK, RunState
    <3>. QED BY <3>1, <3>2
  <2>. QED BY <2>2 DEF RunGoesOn
<1>3. \A q \in Runs \ {r} : run'[q] = run[q]
  BY DEF AbortCheck, TypeInv, ExecInv, ExecutionTypeOK
<1>4. queue' = queue /\ sent' = sent
  BY DEF AbortCheck
<1>. QED BY <1>1, <1>2, <1>3, <1>4, RunGoesOnMoves

LEMMA CleanupHandlersMoves ==
  ASSUME TypeInv, SlotInv, NEW r \in Runs, CleanupHandlers(r)
  PROVE  RunMove(r)
<1>1. SlotMove
  BY DEF CleanupHandlers, SlotMove, StartsKept, storeVars
<1>2. RunGoesOn(r)
  BY DEF CleanupHandlers, RunGoesOn, TypeInv, ExecInv, ExecutionTypeOK,
         RunState
<1>3. \A q \in Runs \ {r} : run'[q] = run[q]
  BY DEF CleanupHandlers, TypeInv, ExecInv, ExecutionTypeOK
<1>4. queue' = queue /\ sent' = sent
  BY DEF CleanupHandlers, storeVars
<1>. QED BY <1>1, <1>2, <1>3, <1>4, RunGoesOnMoves

LEMMA ReportMoves ==
  ASSUME TypeInv, SlotInv, NEW r \in Runs, Report(r)
  PROVE  RunMove(r)
<1>1. SlotMove
  BY DEF Report, SlotMove, StartsKept, storeVars
<1>2. MessagesKnown'
  BY DEF Report, storeVars, SlotInv, MessagesKnown
<1>3. RunKnows(run[r])'
  <2>1. run[r].task \in Tasks
    BY DEF Report, TypeInv, ExecInv, RunsLocated
  <2>2. run'[r].task = run[r].task /\ run'[r].seen = row[run[r].task]
    BY DEF Report, TaskOf, TypeInv, ExecInv, ExecutionTypeOK, RunState
  <2>. QED BY <2>1, <2>2, TaskOfInOrder DEF Report, storeVars, RunKnows
<1>4. \A q \in Runs \ {r} : run'[q] = run[q]
  BY DEF Report, TypeInv, ExecInv, ExecutionTypeOK
<1>. QED BY <1>1, <1>2, <1>3, <1>4 DEF RunMove

LEMMA ReportUnlocksMoves ==
  ASSUME TypeInv, SlotInv, NEW r \in Runs, ReportUnlocks(r)
  PROVE  RunMove(r)
<1>1. SlotMove
  BY DEF ReportUnlocks, SlotMove, StartsKept, storeVars
<1>2. RunGoesOn(r)
  BY DEF ReportUnlocks, RunGoesOn, TypeInv, ExecInv, ExecutionTypeOK,
         RunState
<1>3. \A q \in Runs \ {r} : run'[q] = run[q]
  BY DEF ReportUnlocks, TypeInv, ExecInv, ExecutionTypeOK
<1>4. queue' = queue /\ sent' = sent
  BY DEF ReportUnlocks, storeVars
<1>. QED BY <1>1, <1>2, <1>3, <1>4, RunGoesOnMoves

LEMMA ReportFailureMoves ==
  ASSUME TypeInv, SlotInv, NEW r \in Runs, ReportFailure(r)
  PROVE  RunMove(r)
<1>1. SlotMove
  <2>1. run[r].task \in Tasks
    BY DEF ReportFailure, TypeInv, ExecInv, RunsLocated
  <2>2. /\ row[run[r].task].keyed => run[r].seen.keyed
        /\ run[r].seen.keyed => run[r].seen.status \in ACTIVE_STATES
    BY DEF ReportFailure, SlotInv, RunsKnow, RunKnows
  <2>3. RowKept(row[run[r].task],
                SetStatus(row[run[r].task], run[r].seen, "failure"))
    BY <2>1, <2>2, TaskOfInOrder, SetStatusKept, StatusNames
  <2>. QED BY <2>1, <2>3, RunWrites
       DEF ReportFailure, StartsKept, TypeInv, StoreInv, StoreTypeOK
<1>2. RunGoesOn(r)
  BY DEF ReportFailure, RunGoesOn, TypeInv, ExecInv, ExecutionTypeOK,
         RunState, Committed
<1>3. \A q \in Runs \ {r} : run'[q] = run[q]
  BY DEF ReportFailure, TypeInv, ExecInv, ExecutionTypeOK
<1>4. queue' = queue /\ sent' = sent
  BY DEF ReportFailure
<1>. QED BY <1>1, <1>2, <1>3, <1>4, RunGoesOnMoves

LEMMA ReportRefusedMoves ==
  ASSUME TypeInv, SlotInv, NEW r \in Runs, ReportRefused(r)
  PROVE  RunMove(r)
<1>1. SlotMove
  BY DEF ReportRefused, SlotMove, StartsKept, storeVars
<1>2. RunGoesOn(r)
  BY DEF ReportRefused, RunGoesOn, TypeInv, ExecInv, ExecutionTypeOK,
         RunState
<1>3. \A q \in Runs \ {r} : run'[q] = run[q]
  BY DEF ReportRefused, TypeInv, ExecInv, ExecutionTypeOK
<1>4. queue' = queue /\ sent' = sent
  BY DEF ReportRefused, storeVars
<1>. QED BY <1>1, <1>2, <1>3, <1>4, RunGoesOnMoves

LEMMA DecideMoves ==
  ASSUME TypeInv, SlotInv, NEW r \in Runs, Decide(r)
  PROVE  RunMove(r)
<1>1. SlotMove
  BY DEF Decide, SlotMove, StartsKept, storeVars
<1>2. RunGoesOn(r)
  BY DEF Decide, RunGoesOn, TypeInv, ExecInv, ExecutionTypeOK, RunState
<1>3. \A q \in Runs \ {r} : run'[q] = run[q]
  BY DEF Decide, TypeInv, ExecInv, ExecutionTypeOK
<1>4. queue' = queue /\ sent' = sent
  BY DEF Decide, storeVars
<1>. QED BY <1>1, <1>2, <1>3, <1>4, RunGoesOnMoves

LEMMA EndAbortMoves ==
  ASSUME TypeInv, SlotInv, NEW r \in Runs, EndAbort(r)
  PROVE  RunMove(r)
<1>1. SlotMove
  <2>1. run[r].task \in Tasks
    BY DEF EndAbort, TypeInv, ExecInv, RunsLocated
  <2>2. run[r].target \in TaskStatus \ {"pending"}
    BY StatusNames DEF TypeInv, ExecInv, ExecutionTypeOK, RunState
  <2>3. RowKept(Flushed(r),
                Swap(Flushed(r), run[r].target, run[r].target = "failure"))
    BY <2>1, <2>2, TaskOfInOrder, SwapKept
  <2>4. RowKept(row[run[r].task],
                Swap(Flushed(r), run[r].target, run[r].target = "failure"))
    BY <2>1, <2>3, TaskOfInOrder, RowKeptTransitive
  <2>5. RowKept(row[run[r].task],
                IF CanSwap(Flushed(r), {"aborting"})
                THEN Swap(Flushed(r), run[r].target, run[r].target = "failure")
                ELSE Flushed(r))
    BY <2>1, <2>4, TaskOfInOrder
  <2>. QED BY <2>1, <2>5, RunWrites DEF EndAbort, StartsKept
<1>2. RunGoesOn(r)
  BY DEF EndAbort, RunGoesOn, TypeInv, ExecInv, ExecutionTypeOK, RunState,
         Committed
<1>3. \A q \in Runs \ {r} : run'[q] = run[q]
  BY DEF EndAbort, TypeInv, ExecInv, ExecutionTypeOK
<1>4. queue' = queue /\ sent' = sent
  BY DEF EndAbort
<1>. QED BY <1>1, <1>2, <1>3, <1>4, RunGoesOnMoves

-----------------------------------------------------------------------------
(***************************************************************************)
(* The threads of a run.                                                   *)
(***************************************************************************)

LEMMA TimerFiresMoves ==
  ASSUME TypeInv, SlotInv, NEW r \in Runs, TimerFires(r)
  PROVE  RunMove(r)
<1>1. SlotMove
  <2>1. run[r].task \in Tasks
    BY DEF TimerFires, TypeInv, ExecInv, RunsLocated, ThreadPc, Threads
  <2>3. ASSUME hist' = [hist EXCEPT ![run[r].task].timedOut = TRUE]
        PROVE  StartsKept
    BY <2>1, <2>3, RowsTyped
    DEF StartsKept, TypeInv, StoreInv, StoreTypeOK, History
  <2>2. StartsKept
    BY <2>3 DEF TimerFires, StartsKept
  <2>. QED BY <2>2 DEF TimerFires, SlotMove
<1>2. RunGoesOn(r)
  BY DEF TimerFires, RunGoesOn, TypeInv, ExecInv, ExecutionTypeOK, RunState
<1>3. \A q \in Runs \ {r} : run'[q] = run[q]
  BY DEF TimerFires, TypeInv, ExecInv, ExecutionTypeOK
<1>4. queue' = queue /\ sent' = sent
  BY DEF TimerFires
<1>. QED BY <1>1, <1>2, <1>3, <1>4, RunGoesOnMoves

LEMMA TimerReadsMoves ==
  ASSUME TypeInv, SlotInv, NEW r \in Runs, TimerReads(r)
  PROVE  RunMove(r)
<1>1. SlotMove
  BY DEF TimerReads, SlotMove, StartsKept, storeVars
<1>2. RunGoesOn(r)
  BY DEF TimerReads, RunGoesOn, TypeInv, ExecInv, ExecutionTypeOK, RunState
<1>3. \A q \in Runs \ {r} : run'[q] = run[q]
  BY DEF TimerReads, TypeInv, ExecInv, ExecutionTypeOK
<1>4. queue' = queue /\ sent' = sent
  BY DEF TimerReads, storeVars
<1>. QED BY <1>1, <1>2, <1>3, <1>4, RunGoesOnMoves

LEMMA TimerUnlocksMoves ==
  ASSUME TypeInv, SlotInv, NEW r \in Runs, TimerUnlocks(r)
  PROVE  RunMove(r)
<1>1. SlotMove
  BY DEF TimerUnlocks, SlotMove, StartsKept, storeVars
<1>2. RunGoesOn(r)
  BY DEF TimerUnlocks, RunGoesOn, TypeInv, ExecInv, ExecutionTypeOK,
         RunState
<1>3. \A q \in Runs \ {r} : run'[q] = run[q]
  BY DEF TimerUnlocks, TypeInv, ExecInv, ExecutionTypeOK
<1>4. queue' = queue /\ sent' = sent
  BY DEF TimerUnlocks, storeVars
<1>. QED BY <1>1, <1>2, <1>3, <1>4, RunGoesOnMoves

LEMMA TimerAbortsMoves ==
  ASSUME TypeInv, SlotInv, NEW r \in Runs, TimerAborts(r)
  PROVE  RunMove(r)
<1>1. SlotMove
  <2>1. run[r].task \in Tasks
    BY DEF TimerAborts, TypeInv, ExecInv, RunsLocated, ThreadPc, Threads
  <2>2. RowKept(row[run[r].task], SetStatus(row[run[r].task],
                  thread[r]["timer"].seen, "aborting"))
    BY <2>1, TaskOfInOrder, SetStatusKept, StatusNames
  <2>. QED BY <2>1, <2>2, RunWrites
       DEF TimerAborts, StartsKept, TypeInv, StoreInv, StoreTypeOK
<1>2. RunGoesOn(r)
  BY DEF TimerAborts, RunGoesOn, TypeInv, ExecInv, ExecutionTypeOK, RunState
<1>3. \A q \in Runs \ {r} : run'[q] = run[q]
  BY DEF TimerAborts, TypeInv, ExecInv, ExecutionTypeOK
<1>4. queue' = queue /\ sent' = sent
  BY DEF TimerAborts
<1>. QED BY <1>1, <1>2, <1>3, <1>4, RunGoesOnMoves

LEMMA TimerRefusedMoves ==
  ASSUME TypeInv, SlotInv, NEW r \in Runs, TimerRefused(r)
  PROVE  RunMove(r)
<1>1. SlotMove
  BY DEF TimerRefused, SlotMove, StartsKept, storeVars
<1>2. RunGoesOn(r)
  BY DEF TimerRefused, RunGoesOn, TypeInv, ExecInv, ExecutionTypeOK,
         RunState
<1>3. \A q \in Runs \ {r} : run'[q] = run[q]
  BY DEF TimerRefused, TypeInv, ExecInv, ExecutionTypeOK
<1>4. queue' = queue /\ sent' = sent
  BY DEF TimerRefused, storeVars
<1>. QED BY <1>1, <1>2, <1>3, <1>4, RunGoesOnMoves

LEMMA ListenerHearsMoves ==
  ASSUME TypeInv, SlotInv, NEW r \in Runs, ListenerHears(r)
  PROVE  RunMove(r)
<1>1. SlotMove
  BY DEF ListenerHears, SlotMove, StartsKept, storeVars
<1>2. RunGoesOn(r)
  BY DEF ListenerHears, RunGoesOn, TypeInv, ExecInv, ExecutionTypeOK,
         RunState
<1>3. \A q \in Runs \ {r} : run'[q] = run[q]
  BY DEF ListenerHears, TypeInv, ExecInv, ExecutionTypeOK
<1>4. queue' = queue /\ sent' = sent
  BY DEF ListenerHears, storeVars
<1>. QED BY <1>1, <1>2, <1>3, <1>4, RunGoesOnMoves

LEMMA DetectMoves ==
  ASSUME TypeInv, SlotInv, NEW r \in Runs, NEW h \in Threads, Detect(r, h)
  PROVE  RunMove(r)
<1>1. SlotMove
  BY DEF Detect, SlotMove, StartsKept, storeVars
<1>2. RunGoesOn(r)
  BY DEF Detect, RunGoesOn, TypeInv, ExecInv, ExecutionTypeOK, RunState
<1>3. \A q \in Runs \ {r} : run'[q] = run[q]
  BY DEF Detect, TypeInv, ExecInv, ExecutionTypeOK
<1>4. queue' = queue /\ sent' = sent
  BY DEF Detect, storeVars
<1>. QED BY <1>1, <1>2, <1>3, <1>4, RunGoesOnMoves

LEMMA ClaimMoves ==
  ASSUME TypeInv, SlotInv, NEW r \in Runs, NEW h \in Threads, Claim(r, h)
  PROVE  RunMove(r)
<1>1. SlotMove
  BY DEF Claim, SlotMove, StartsKept, storeVars
<1>2. RunGoesOn(r)
  BY DEF Claim, RunGoesOn, TypeInv, ExecInv, ExecutionTypeOK, RunState
<1>3. \A q \in Runs \ {r} : run'[q] = run[q]
  BY DEF Claim, TypeInv, ExecInv, ExecutionTypeOK
<1>4. queue' = queue /\ sent' = sent
  BY DEF Claim, storeVars
<1>. QED BY <1>1, <1>2, <1>3, <1>4, RunGoesOnMoves

LEMMA HandleMoves ==
  ASSUME TypeInv, SlotInv, NEW r \in Runs, NEW h \in Threads, Handle(r, h)
  PROVE  RunMove(r)
<1>1. SlotMove
  <2>1. run[r].task \in Tasks
    BY DEF Handle, TypeInv, ExecInv, RunsLocated, ThreadPc
  <2>2. StartsKept
    BY <2>1, RowsTyped
    DEF Handle, Handled, StartsKept, TypeInv, StoreInv, StoreTypeOK, History
  <2>. QED BY <2>2 DEF Handle, SlotMove
<1>2. RunGoesOn(r)
  <2>1. PICK f \in HandlerOutcome(r) :
          run' = [run EXCEPT ![r] = AfterHandlers(@, f)]
    BY DEF Handle
  <2>2. run'[r] = AfterHandlers(run[r], f) /\ run[r] \in RunState
    BY <2>1 DEF TypeInv, ExecInv, ExecutionTypeOK
  <2>3. /\ run'[r].task = run[r].task /\ run'[r].pc = run[r].pc
        /\ run'[r].seen = run[r].seen
    BY <2>2, AfterHandlersTyped
  <2>. QED BY <2>3 DEF RunGoesOn
<1>3. \A q \in Runs \ {r} : run'[q] = run[q]
  BY DEF Handle, TypeInv, ExecInv, ExecutionTypeOK
<1>4. queue' = queue /\ sent' = sent
  BY DEF Handle
<1>. QED BY <1>1, <1>2, <1>3, <1>4, RunGoesOnMoves

LEMMA WorkerDiesMoves ==
  ASSUME TypeInv, SlotInv, NEW r \in Runs, WorkerDies(r)
  PROVE  RunMove(r)
<1>1. SlotMove
  BY DEF WorkerDies, SlotMove, StartsKept
<1>2. RunGoesOn(r)
  BY DEF WorkerDies, RunGoesOn, TypeInv, ExecInv, ExecutionTypeOK, RunState
<1>3. \A q \in Runs \ {r} : run'[q] = run[q]
  BY DEF WorkerDies, TypeInv, ExecInv, ExecutionTypeOK
<1>4. queue' = queue /\ sent' = sent
  BY DEF WorkerDies
<1>. QED BY <1>1, <1>2, <1>3, <1>4, RunGoesOnMoves

LEMMA RunMovesKeepSlotInv ==
  ASSUME TypeInv, TypeInv', SlotInv, NEW r \in Runs, RunMove(r),
         UNCHANGED req
  PROVE  SlotInv'
<1>1. RowsMonotone
  BY SlotMoveMonotone DEF RunMove, SlotInv
<1>2. RowsInOrder'
  BY SlotMoveInOrder DEF RunMove, SlotInv
<1>3. RunsKnow'
  <2>. SUFFICES ASSUME NEW q \in Runs PROVE RunKnows(run[q])'
    BY DEF RunsKnow
  <2>. QED BY <1>1, RunStillKnows DEF RunMove, SlotInv, RunsKnow
<1>4. RequestsKnow'
  BY <1>1, RequestStillKnows DEF SlotInv, RequestsKnow
<1>. QED BY <1>2, <1>3, <1>4 DEF RunMove, SlotInv

LEMMA RunsKeepSlotInv ==
  ASSUME TypeInv, TypeInv', SlotInv, NEW r \in Runs,
         Execute(r) \/ Background(r) \/ WorkerDies(r), UNCHANGED req
  PROVE  SlotMove /\ SlotInv'
<1>1. ASSUME Execute(r) PROVE RunMove(r)
  BY <1>1, FetchMoves, SkipAbortedMoves, PickupMoves, PickupFailsMoves,
     RegisterHandlerMoves, StartListenerMoves, UpdateTaskMoves,
     BodyEndsMoves, SettleMoves, StoreOutcomeMoves, StopThreadsMoves,
     AbortCheckMoves, CleanupHandlersMoves, ReportMoves, ReportUnlocksMoves,
     ReportFailureMoves, ReportRefusedMoves, DecideMoves, EndAbortMoves
  DEF Execute
<1>2. ASSUME Background(r) PROVE RunMove(r)
  <2>1. CASE \E h \in Threads : Detect(r, h) \/ Claim(r, h) \/ Handle(r, h)
    BY <2>1, DetectMoves, ClaimMoves, HandleMoves
  <2>2. CASE ~ \E h \in Threads : Detect(r, h) \/ Claim(r, h) \/ Handle(r, h)
    BY <1>2, <2>2, TimerFiresMoves, TimerReadsMoves, TimerUnlocksMoves,
       TimerAbortsMoves, TimerRefusedMoves, ListenerHearsMoves
    DEF Background
  <2>. QED BY <2>1, <2>2
<1>. QED BY <1>1, <1>2, WorkerDiesMoves, RunMovesKeepSlotInv DEF RunMove
-----------------------------------------------------------------------------
(***************************************************************************)
(* The composition.                                                        *)
(***************************************************************************)
LEMMA OthersStillKnow ==
  ASSUME TypeInv, SlotInv, SlotMove, UNCHANGED <<req, run>>
  PROVE  RequestsKnow' /\ RunsKnow'
<1>1. RowsMonotone
  BY SlotMoveMonotone DEF SlotInv
<1>. QED BY <1>1, RequestStillKnows, RunStillKnows
     DEF SlotInv, RequestsKnow, RunsKnow

LEMMA RedeliverKeepsSlotInv ==
  ASSUME TypeInv, TypeInv', SlotInv, NEW t \in Tasks, Redeliver(t),
         UNCHANGED <<req, run>>
  PROVE  SlotMove /\ SlotInv'
<1>1. SlotMove
  BY DEF Redeliver, SlotMove, StartsKept
<1>2. row[t].status # Absent
  BY DEF Redeliver, SlotInv, MessagesKnown
<1>3. \A s \in Tasks \ {t} : queue'[s] = queue[s] /\ sent'[s] = sent[s]
  BY DEF Redeliver, TypeInv, StoreInv, StoreTypeOK
<1>4. MessagesKnown'
  BY <1>2, <1>3 DEF Redeliver, SlotInv, MessagesKnown
<1>. QED BY <1>1, <1>4, OthersStillKnow, SlotMoveInOrder DEF SlotInv

LEMMA PruneKeepsSlotInv ==
  ASSUME TypeInv, TypeInv', SlotInv, NEW t \in Tasks, Prune(t),
         UNCHANGED <<req, run>>
  PROVE  SlotMove /\ SlotInv'
<1>1. /\ row[t] \in Row /\ row[t].status # Absent
      /\ ~row[t].keyed
  BY RowsTyped, StatusNames
  DEF Prune, Finished, SlotInv, RowsInOrder, RowInOrder, Row
<1>2. OnlyRow(t) /\ row'[t] = [row[t] EXCEPT !.status = Pruned, !.subs = {}]
  BY DEF Prune, OnlyRow, TypeInv, StoreInv, StoreTypeOK
<1>3. RowKept(row[t], row'[t])
  BY <1>1, <1>2, StatusNames DEF RowKept, Row
<1>4. SlotMove
  BY <1>1, <1>2, <1>3 DEF Prune, RowWritten, SlotMove, StartsKept
<1>5. MessagesKnown'
  BY <1>4, SlotMoveMonotone, MessagesStillKnown DEF SlotInv, Prune
<1>. QED BY <1>4, <1>5, OthersStillKnow, SlotMoveInOrder DEF SlotInv

LEMMA InitSlotInv == Init => SlotInv
<1>. SUFFICES ASSUME Init PROVE SlotInv
  OBVIOUS
<1>1. RowsInOrder
  BY StatusNames
  DEF Init, StoreInit, NoRow, NoHistory, RowsInOrder, RowInOrder,
      SlotsUnique
<1>2. MessagesKnown
  BY DEF Init, StoreInit, MessagesKnown
<1>3. RequestsKnow
  BY StoreAssumption
  DEF StoreAssumption, Init, RequestInit, Idle, RequestsKnow, RequestKnows
<1>4. RunsKnow
  BY StoreAssumption
  DEF StoreAssumption, Init, ExecutionInit, NewRun, RunsKnow, RunKnows
<1>. QED BY <1>1, <1>2, <1>3, <1>4 DEF SlotInv

\* SlotInv is inductive, and every step is a SlotMove.
LEMMA NextKeepsSlotInv ==
  ASSUME TypeInv, TypeInv', SlotInv, [Next]_vars
  PROVE  SlotMove /\ SlotInv'
<1>1. CASE RequestStep /\ UNCHANGED execVars
  BY <1>1, RequestsKeepSlotInv DEF RequestStep, execVars
<1>2. CASE RunStep /\ UNCHANGED req
  BY <1>2, RunsKeepSlotInv DEF RunStep
<1>3. CASE StoreStep /\ UNCHANGED <<req, execVars>>
  BY <1>3, RedeliverKeepsSlotInv, PruneKeepsSlotInv DEF StoreStep, execVars
<1>4. CASE CrashStep
  BY <1>4, RequestsKeepSlotInv, RunsKeepSlotInv DEF CrashStep, execVars
<1>5. CASE UNCHANGED vars
  <2>1. SlotMove
    BY <1>5 DEF vars, storeVars, SlotMove, StartsKept
  <2>2. MessagesKnown'
    BY <1>5 DEF vars, storeVars, SlotInv, MessagesKnown
  <2>. QED BY <1>5, <2>1, <2>2, OthersStillKnow, SlotMoveInOrder
       DEF vars, execVars, SlotInv
<1>. QED BY <1>1, <1>2, <1>3, <1>4, <1>5 DEF Next

LEMMA SlotInvCorrect == Spec => [](TypeInv /\ SlotInv)
<1>1. Init => TypeInv /\ SlotInv
  BY InitTyped, InitSlotInv
<1>2. TypeInv /\ SlotInv /\ [Next]_vars => (TypeInv /\ SlotInv)'
  BY NextTyped, NextKeepsSlotInv
<1>. QED BY <1>1, <1>2, PTL DEF Spec
-----------------------------------------------------------------------------
\* Whatever stale copies are written back by cancels, timeout threads and
\* failure reports, a row that is no longer active has given up its
\* dedup_key, and no two rows hold the slot of one key.
THEOREM SlotsAreDisciplined == Spec => []SlotDiscipline
<1>1. SlotInv => SlotDiscipline
  BY DEF SlotInv, RowsInOrder, RowInOrder, SlotsUnique, SlotDiscipline
<1>. QED BY <1>1, SlotInvCorrect, PTL

\* The compare-and-swap from PENDING starts the function of a task at most
\* once, however often its message is delivered: no write of any process
\* brings a row back to PENDING.
THEOREM FunctionStartsOnce == Spec => []BodyRunsOnce
<1>1. SlotInv => BodyRunsOnce
  <2>. SUFFICES ASSUME SlotInv, NEW t \in Tasks PROVE hist[t].starts <= 1
    BY DEF BodyRunsOnce
  <2>1. hist[t].starts \in {0, 1}
    BY DEF SlotInv, RowsInOrder, RowInOrder
  <2>. QED BY <2>1
<1>. QED BY <1>1, SlotInvCorrect, PTL
-----------------------------------------------------------------------------
(***************************************************************************)
(* Refinement.                                                             *)
(***************************************************************************)
CreatedTasks == {t \in Tasks : row[t].status # Absent}
Holders(k) == {t \in Tasks : row[t].keyed /\ row[t].key = k}
SlotHolders == [k \in Keys |-> Holders(k)]
StartCounts == [t \in Tasks |-> hist[t].starts]

LEMMA InitImplements == Init => Slots!Init
<1>. SUFFICES ASSUME Init PROVE Slots!Init
  OBVIOUS
<1>1. {t \in Tasks : row[t].status # Absent} = {}
  BY DEF Init, StoreInit, NoRow
<1>2. \A k \in Keys : {t \in Tasks : row[t].keyed /\ row[t].key = k} = {}
  BY DEF Init, StoreInit, NoRow
<1>3. \A t \in Tasks : hist[t].starts = 0
  BY DEF Init, StoreInit, NoHistory
<1>. QED BY <1>1, <1>2, <1>3 DEF Slots!Init

\* Who holds a slot after a step that touches the row of t only.
LEMMA HoldersAfter ==
  ASSUME TypeInv, NEW t \in Tasks, OnlyRow(t), NEW k
  PROVE  Holders(k)' = IF row'[t].keyed /\ row'[t].key = k
                       THEN Holders(k) \cup {t} ELSE Holders(k) \ {t}
BY DEF Holders, OnlyRow, TypeInv, StoreInv, StoreTypeOK

LEMMA SameHolders ==
  ASSUME TypeInv, NEW t \in Tasks, OnlyRow(t), row'[t].key = row[t].key,
         row[t].keyed \in BOOLEAN, row'[t].keyed \in BOOLEAN,
         row'[t].keyed = row[t].keyed
  PROVE  SlotHolders' = SlotHolders
<1>1. \A k \in Keys : Holders(k)' = Holders(k)
  BY HoldersAfter DEF Holders
<1>. QED BY <1>1 DEF SlotHolders

LEMMA CreatedAfter ==
  ASSUME TypeInv, NEW t \in Tasks, OnlyRow(t), row'[t].status # Absent
  PROVE  CreatedTasks' = CreatedTasks \cup {t}
BY DEF CreatedTasks, OnlyRow, TypeInv, StoreInv, StoreTypeOK

LEMMA StartsKeptCounts == StartsKept => StartCounts' = StartCounts
BY DEF StartsKept, StartCounts

LEMMA CreatedImplements ==
  ASSUME TypeInv, SlotInv, NEW t \in Tasks, RowCreated(t)
  PROVE  Slots!Next
<1>0. PICK k \in Keys : k = row'[t].key
  BY DEF RowCreated
<1>1. k \in Keys /\ OnlyRow(t)
  BY DEF RowCreated
<1>2. t \notin CreatedTasks /\ CreatedTasks' = CreatedTasks \cup {t}
  BY CreatedAfter, StatusNames DEF RowCreated, CreatedTasks
<1>3. Holders(k) = {}
  BY <1>0 DEF RowCreated, Holders
<1>4. \A j \in Keys : Holders(j)' = IF j = k THEN {t} ELSE Holders(j)
  <2>1. \A j \in Keys : t \notin Holders(j)
    BY StatusNames DEF RowCreated, SlotInv, RowsInOrder, RowInOrder, Holders
  <2>. QED BY <1>0, <1>1, <1>3, <2>1, HoldersAfter DEF RowCreated
<1>5. SlotHolders' = [SlotHolders EXCEPT ![k] = {t}]
  BY <1>4 DEF SlotHolders
<1>6. Slots!Create(t, k)
  BY <1>1, <1>2, <1>3, <1>5, StartsKeptCounts
  DEF Slots!Create, CreatedTasks, SlotHolders, Holders, StartCounts,
      RowCreated
<1>. QED BY <1>6 DEF Slots!Next

LEMMA StartedImplements ==
  ASSUME TypeInv, SlotInv, NEW t \in Tasks, RowStarted(t)
  PROVE  Slots!Next
<1>0. PICK k \in Keys : k = row[t].key /\ row[t].keyed
  BY DEF RowStarted, SlotInv, RowsInOrder, RowInOrder
<1>1. /\ row[t].keyed /\ hist[t].starts = 0
      /\ row[t].keyed \in BOOLEAN /\ row[t].status # Absent
  BY RowsTyped, StatusNames
  DEF RowStarted, SlotInv, RowsInOrder, RowInOrder, Row
<1>2. CreatedTasks' = CreatedTasks
  BY <1>1, CreatedAfter DEF RowStarted, CreatedTasks, Absent
<1>3. SlotHolders' = SlotHolders
  BY <1>1, SameHolders DEF RowStarted
<1>4. StartCounts' = [StartCounts EXCEPT ![t] = 1]
  <2>1. \A s \in Tasks : hist'[s].starts = IF s = t THEN 1 ELSE hist[s].starts
    BY <1>1 DEF RowStarted
  <2>. QED BY <2>1 DEF StartCounts
<1>5. Slots!Start(t, k)
  BY <1>0, <1>1, <1>2, <1>3, <1>4
  DEF Slots!Start, CreatedTasks, SlotHolders, Holders, StartCounts
<1>. QED BY <1>5 DEF Slots!Next

LEMMA WrittenImplements ==
  ASSUME TypeInv, TypeInv', SlotInv, NEW t \in Tasks, RowWritten(t)
  PROVE  [Slots!Next]_(Slots!vars)
<1>1. /\ row[t].keyed \in BOOLEAN /\ row'[t].keyed \in BOOLEAN
      /\ OnlyRow(t) /\ row'[t].key = row[t].key
      /\ row[t].status # Absent /\ row'[t].status # Absent
      /\ row'[t].keyed => row[t].keyed
  BY RowsTyped DEF RowWritten, RowKept, Row, TypeInv, StoreInv, StoreTypeOK
<1>2. CreatedTasks' = CreatedTasks
  BY <1>1, CreatedAfter DEF CreatedTasks
<1>3. StartCounts' = StartCounts
  BY StartsKeptCounts DEF RowWritten
<1>4. CASE row'[t].keyed = row[t].keyed
  <2>1. SlotHolders' = SlotHolders
    BY <1>1, <1>4, SameHolders
  <2>. QED BY <1>2, <1>3, <2>1
       DEF Slots!vars, CreatedTasks, SlotHolders, Holders, StartCounts
<1>5. CASE row[t].keyed /\ ~row'[t].keyed
  <2>1. PICK k \in Keys : k = row[t].key /\ t \in Holders(k)
    BY <1>5 DEF SlotInv, RowsInOrder, RowInOrder, Holders
  <2>2. Holders(k) = {t}
    BY <1>5, <2>1 DEF SlotInv, RowsInOrder, SlotsUnique, Holders
  <2>3. \A j \in Keys : Holders(j)' = IF j = k THEN {} ELSE Holders(j)
    <3>1. \A j \in Keys : Holders(j)' = Holders(j) \ {t}
      BY <1>1, <1>5, HoldersAfter
    <3>2. \A j \in Keys \ {k} : t \notin Holders(j)
      BY <2>1 DEF Holders
    <3>. QED BY <2>2, <3>1, <3>2
  <2>4. SlotHolders' = [SlotHolders EXCEPT ![k] = {}]
    BY <2>3 DEF SlotHolders
  <2>5. Slots!Release(t, k)
    BY <1>2, <1>3, <2>1, <2>4
    DEF Slots!Release, CreatedTasks, SlotHolders, Holders, StartCounts
  <2>. QED BY <2>5 DEF Slots!Next
<1>. QED BY <1>1, <1>4, <1>5

LEMMA SlotMoveImplements ==
  ASSUME TypeInv, TypeInv', SlotInv, SlotMove
  PROVE  [Slots!Next]_(Slots!vars)
<1>1. CASE row' = row /\ StartsKept
  BY <1>1, StartsKeptCounts DEF Slots!vars, StartCounts
<1>2. CASE \E t \in Tasks : RowWritten(t) \/ RowCreated(t) \/ RowStarted(t)
  BY <1>2, WrittenImplements, CreatedImplements, StartedImplements
<1>. QED BY <1>1, <1>2 DEF SlotMove

\* The whole framework, with all that its processes read, write and
\* overwrite, implements TaskSlots: create with a free slot, start at most
\* once and only with the slot, release once.
THEOREM FrameworkImplementsTaskSlots == Spec => ImplementsTaskSlots
<1>1. TypeInv /\ SlotInv /\ (TypeInv /\ SlotInv)' /\ [Next]_vars
        => [Slots!Next]_(Slots!vars)
  BY NextKeepsSlotInv, SlotMoveImplements
<1>. QED BY <1>1, InitImplements, SlotInvCorrect, PTL
     DEF Spec, ImplementsTaskSlots, Slots!Spec
=============================================================================
