----------------------------- MODULE TaskStore -----------------------------
(***************************************************************************)
(* What the processes of the Global Task Framework share: the tasks table  *)
(* of the metadata database, the lock that task_lock takes, the Celery     *)
(* queue and the abort channel of Redis.  The operators below are the      *)
(* writes of superset/daos/tasks.py and superset/models/tasks.py; the      *)
(* processes that issue them are in TaskRequests and TaskExecution.        *)
(*                                                                         *)
(* A database transaction is one step from its first write to its commit:  *)
(* readers never see an uncommitted row.  A value read before a commit and *)
(* written back later is two steps, with everybody else in between.        *)
(***************************************************************************)
EXTENDS Naturals, FiniteSets, TaskStates

CONSTANTS
  Tasks,          \* identities (uuids) of the task rows that can be created
  NoTask,         \* "no task"
  Users,          \* users who submit and cancel
  Keys,           \* logical tasks: what get_active_dedup_key hashes
  NoKey,          \* the key of a row that does not exist yet
  Modes,          \* execution modes offered, a subset of {"async", "sync"}
  TimeoutOptions, \* whether a submitted task may carry a timeout
  Redis,          \* DISTRIBUTED_COORDINATION_CONFIG is set
  MaxDeliveries   \* bound: how often Celery delivers the message of one task

ASSUME StoreAssumption ==
  /\ NoKey \notin Keys
  /\ NoTask \notin Tasks
  /\ Modes \subseteq {"async", "sync"}
  /\ TimeoutOptions \subseteq BOOLEAN
  /\ Redis \in BOOLEAN
  /\ MaxDeliveries \in Nat \ {0}

VARIABLES
  row,      \* the tasks table
  lock,     \* the lock entry of each key: no owner is recorded in it
  queue,    \* messages waiting in the Celery broker
  sent,     \* how often the message of a task has been put in the queue
  channel,  \* Redis channel gtf:abort:<uuid>: subscribed?  message waiting?
  hist      \* history: what really happened to the task's body (not in code)

storeVars == <<row, lock, queue, sent, channel, hist>>

Row == [key: Keys \cup {NoKey}, status: RowStatus, keyed: BOOLEAN,
        abortable: BOOLEAN, subs: SUBSET Users, mode: {"async", "sync"},
        timeout: BOOLEAN]

NoRow == [key |-> NoKey, status |-> Absent, keyed |-> FALSE,
          abortable |-> FALSE, subs |-> {}, mode |-> "async",
          timeout |-> FALSE]

History == [starts: Nat, body: {"no", "returned", "raised"},
            cancelled: BOOLEAN, timedOut: BOOLEAN, handled: BOOLEAN]

NoHistory == [starts |-> 0, body |-> "no", cancelled |-> FALSE,
              timedOut |-> FALSE, handled |-> FALSE]

(***************************************************************************)
(* "free": no entry.  "taken": an entry every process sees.  "open": the   *)
(* entry sits in the open transaction of the holder; only the database     *)
(* backend has such entries, and there a contender waits on the unique     *)
(* index until the holder commits.                                         *)
(***************************************************************************)
LockState == {"free", "open", "taken"}
ChannelState == {"closed", "open", "abort"}

StoreTypeOK ==
  /\ row \in [Tasks -> Row]
  /\ lock \in [Keys -> LockState]
  /\ queue \in [Tasks -> 0..MaxDeliveries]
  /\ sent \in [Tasks -> 0..MaxDeliveries]
  /\ channel \in [Tasks -> ChannelState]
  /\ hist \in [Tasks -> History]

StoreInit ==
  /\ row = [t \in Tasks |-> NoRow]
  /\ lock = [k \in Keys |-> "free"]
  /\ queue = [t \in Tasks |-> 0]
  /\ sent = [t \in Tasks |-> 0]
  /\ channel = [t \in Tasks |-> "closed"]
  /\ hist = [t \in Tasks |-> NoHistory]
-----------------------------------------------------------------------------
Exists(t) == row[t].status \in TaskStatus
Finished(t) == row[t].status \in TERMINAL_STATES

\* The row that holds the deduplication slot of key k, if any.
ActiveRows(k) == {t \in Tasks : Exists(t) /\ row[t].keyed /\ row[t].key = k}

\* create_task: a pending row that holds the slot and subscribes its creator.
NewRow(k, u, mode, timeout) ==
  [key |-> k, status |-> "pending", keyed |-> TRUE, abortable |-> FALSE,
   subs |-> {u}, mode |-> mode, timeout |-> timeout]

(***************************************************************************)
(* Task.set_status, flushed by the ORM.  seen is the row as the session    *)
(* loaded it: only attributes that differ from what was loaded are         *)
(* written, and nothing compares seen with the row that is overwritten.    *)
(***************************************************************************)
SetStatus(r, seen, s) ==
  [r EXCEPT
     !.status = IF seen.status = s THEN @ ELSE s,
     !.keyed = IF s \in TERMINAL_STATES /\ seen.keyed THEN FALSE ELSE @]

\* TaskDAO.conditional_status_update: compare-and-swap in one UPDATE.
\* A status written with new properties loses is_abortable.
CanSwap(r, expected) == r.status \in expected

SwapKeepingSlot(r, s, replaceProperties) ==          \* mutant
  [r EXCEPT !.status = s,
            !.abortable = IF replaceProperties THEN FALSE ELSE @]

Swap(r, s, replaceProperties) ==
  [r EXCEPT
     !.status = s,
     !.keyed = IF s \in TERMINAL_STATES THEN FALSE ELSE @,
     !.abortable = IF replaceProperties THEN FALSE ELSE @]

\* Where an acquisition of the lock succeeds, fails, or waits ("open").
LockFree(k) == lock[k] = "free"
LockRefused(k) == lock[k] = "taken"

\* The Celery broker delivers the message of a task again.
Redeliver(t) ==
  /\ row[t].mode = "async"
  /\ sent[t] \in 1 .. MaxDeliveries - 1
  /\ sent' = [sent EXCEPT ![t] = @ + 1]
  /\ queue' = [queue EXCEPT ![t] = @ + 1]
  /\ UNCHANGED <<row, lock, channel, hist>>
=============================================================================
