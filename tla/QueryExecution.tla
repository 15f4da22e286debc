--------------------------- MODULE QueryExecution ---------------------------
(***************************************************************************)
(* SQL Lab on the server: the row of a query, the worker that runs it      *)
(* (execute_sql_statements in sql_lab.py, inside the request of a          *)
(* synchronous query, on a Celery worker for an asynchronous one), the     *)
(* results backend and the request that stops a query (QueryDAO.stop_query *)
(* and cancel_query).  Neither takes a lock: the worker looks at the       *)
(* status between two blocks, and both write it without looking again.     *)
(*                                                                         *)
(* A query runs as async or not, keeps its results in the backend or not   *)
(* (CREATE TABLE AS never does), on an engine that cancels implicitly (its *)
(* cursor polls the row: Hive, Presto, Impala) or by killing the session   *)
(* whose id is in the row.  Parsing, limits, CTAS and access checks are    *)
(* the setup, which may fail.                                              *)
(***************************************************************************)
EXTENDS Naturals, SqlQueries

CONSTANTS
  Blocks,       \* how many blocks a script has
  MaxStops      \* how often one query is stopped

ASSUME BlocksAssumption == Blocks \in Nat \ {0} /\ MaxStops \in Nat

VARIABLES
  mode,         \* how a query is run
  row,          \* the row of the query: [status, key, session]
  worker,       \* where the run stands
  killed,       \* queries whose database session was killed
  stored,       \* queries whose results are in the backend
  stop,         \* the request that stops the query
  stops,        \* how many there were
  late,         \* blocks begun since the row says stopped
  post          \* the request of the client, and the answer to it

executionVars == <<mode, row, worker, killed, stored, stop, stops, late, post>>

Modes == [async : BOOLEAN, keeps : BOOLEAN, implicit : BOOLEAN]
Statuses == {"none", "pending", "running", "success", "failed", "stopped"}
Stages == {"none", "validating", "queued", "starting", "connecting", "checking",
           "beginning", "executing", "storing", "committing", "returning",
           "failing", "done"}

ExecutionTypeOK ==
  /\ mode \in [Queries -> Modes]
  /\ row \in [Queries -> [status : Statuses, key : BOOLEAN, session : BOOLEAN]]
  /\ worker \in [Queries -> [at : Stages, block : 1 .. Blocks, wrote : BOOLEAN]]
  /\ killed \subseteq Queries
  /\ stored \subseteq Queries
  /\ stop \in [Queries -> [at : {"none", "sent", "read", "cancelled", "ok", "refused"},
                           loaded : Statuses]]
  /\ stops \in [Queries -> 0 .. MaxStops]
  /\ late \in [Queries -> 0 .. Blocks]
  /\ post \in [Queries -> {"none", "sent", "serving", "success", "stopped",
                           "running", "error", "closed"}]

ExecutionInit ==
  /\ mode \in [Queries -> Modes]
  /\ row = [q \in Queries |-> [status |-> "none", key |-> FALSE, session |-> FALSE]]
  /\ worker = [q \in Queries |-> [at |-> "none", block |-> 1, wrote |-> FALSE]]
  /\ killed = {}
  /\ stored = {}
  /\ stop = [q \in Queries |-> [at |-> "none", loaded |-> "none"]]
  /\ stops = [q \in Queries |-> 0]
  /\ late = [q \in Queries |-> 0]
  /\ post = [q \in Queries |-> "none"]

stopVars == <<stop, stops>>

At(q, stage) == worker[q].at = stage
Go(q, stage) == worker' = [worker EXCEPT ![q].at = stage]
SetStatus(q, status) == row' = [row EXCEPT ![q].status = status]

\* The answer to the client, unless the connection was lost.
Reply(q, answer) ==
  post' = IF post[q] = "serving" THEN [post EXCEPT ![q] = answer] ELSE post
-----------------------------------------------------------------------------
\* POST /api/v1/sqllab/execute.

\* ExecuteSqlCommand.run: the row is created and committed.
Create(q) ==
  /\ post[q] = "sent"
  /\ post' = [post EXCEPT ![q] = "serving"]
  /\ SetStatus(q, "pending")
  /\ Go(q, "validating")
  /\ UNCHANGED <<mode, killed, stored, stopVars, late>>

\* The access check, the rendering or the broker fails: the status failed is
\* set, and rolled back with the transaction of the command.
Reject(q) ==
  /\ At(q, "validating")
  /\ Go(q, "done")
  /\ Reply(q, "error")
  /\ UNCHANGED <<mode, row, killed, stored, stopVars, late>>

Delegate(q) ==
  /\ At(q, "validating")
  /\ mode[q].async
  /\ Go(q, "queued")
  /\ Reply(q, "running")
  /\ UNCHANGED <<mode, row, killed, stored, stopVars, late>>

RunInline(q) ==
  /\ At(q, "validating")
  /\ ~mode[q].async
  /\ Go(q, "starting")
  /\ UNCHANGED <<mode, row, killed, stored, stopVars, late, post>>
-----------------------------------------------------------------------------
\* The worker.

\* The status becomes running, whatever it was.
Start(q) ==
  /\ At(q, "queued") \/ At(q, "starting")
  /\ SetStatus(q, "running")
  /\ Go(q, "connecting")
  /\ UNCHANGED <<mode, killed, stored, stopVars, late, post>>

\* A disallowed function or table, DML, an invalid CTAS, no connection.
SetupFails(q) ==
  /\ At(q, "connecting")
  /\ Go(q, "failing")
  /\ UNCHANGED <<mode, row, killed, stored, stopVars, late, post>>

\* get_cancel_query_id: the session is stored with the row.
Connect(q) ==
  /\ At(q, "connecting")
  /\ row' = [row EXCEPT ![q].session = ~mode[q].implicit]
  /\ Go(q, "checking")
  /\ UNCHANGED <<mode, killed, stored, stopVars, late, post>>

\* Mutant: the status is looked at before the first block only.
CheckStoppedAtFirst(q) ==
  /\ At(q, "checking")
  /\ IF row[q].status = "stopped" /\ worker[q].block = 1
     THEN Go(q, "done") /\ Reply(q, "stopped")
     ELSE Go(q, "beginning") /\ UNCHANGED post
  /\ UNCHANGED <<mode, row, killed, stored, stopVars, late>>

\* The row is refreshed between two blocks.
CheckStopped(q) ==
  /\ At(q, "checking")
  /\ IF row[q].status = "stopped"
     THEN Go(q, "done") /\ Reply(q, "stopped")
     ELSE Go(q, "beginning") /\ UNCHANGED post
  /\ UNCHANGED <<mode, row, killed, stored, stopVars, late>>

\* The progress is committed, and the block goes to the database.
Begin(q) ==
  /\ At(q, "beginning")
  /\ Go(q, "executing")
  /\ late' = IF row[q].status = "stopped" THEN [late EXCEPT ![q] = @ + 1] ELSE late
  /\ UNCHANGED <<mode, row, killed, stored, stopVars, post>>

\* Mutant: the last block is not told from the others.
BlockEndsUncounted(q) ==
  /\ At(q, "executing")
  /\ q \notin killed
  /\ worker' = [worker EXCEPT ![q].at = "checking", ![q].block = @ + 1]
  /\ UNCHANGED <<mode, row, killed, stored, stopVars, late, post>>

\* The block ends.  An implicit cancellation may come too late for it.
BlockEnds(q) ==
  /\ At(q, "executing")
  /\ q \notin killed
  /\ worker' = IF worker[q].block < Blocks
               THEN [worker EXCEPT ![q].at = "checking", ![q].block = @ + 1]
               ELSE [worker EXCEPT ![q].at = "storing"]
  /\ UNCHANGED <<mode, row, killed, stored, stopVars, late, post>>

\* execute_query fails: an error of the query, the time limit, the session
\* was killed, or the cursor saw that the query is stopped.  The row is
\* refreshed to tell a cancelled query from a failed one.
BlockRaises(q) ==
  /\ At(q, "executing")
  /\ IF row[q].status = "stopped"
     THEN Go(q, "done") /\ Reply(q, "stopped")
     ELSE Go(q, "failing") /\ UNCHANGED post
  /\ UNCHANGED <<mode, row, killed, stored, stopVars, late>>

\* handle_query_error.
HandleQueryError(q) ==
  /\ At(q, "failing")
  /\ SetStatus(q, "failed")
  /\ Go(q, "done")
  /\ Reply(q, "error")
  /\ UNCHANGED <<mode, killed, stored, stopVars, late>>

\* The results are too large, or the final commit finds the session killed.
StoreRaises(q) ==
  /\ At(q, "storing")
  /\ mode[q].keeps \/ q \in killed
  /\ Go(q, "failing")
  /\ UNCHANGED <<mode, row, killed, stored, stopVars, late, post>>

StoreNothing(q) ==
  /\ At(q, "storing")
  /\ ~mode[q].keeps
  /\ Go(q, "committing")
  /\ UNCHANGED <<mode, row, killed, stored, stopVars, late, post>>

StoreResults(q) ==
  /\ At(q, "storing")
  /\ mode[q].keeps
  /\ stored' = stored \cup {q}
  /\ worker' = [worker EXCEPT ![q].at = "committing", ![q].wrote = TRUE]
  /\ UNCHANGED <<mode, row, killed, stopVars, late, post>>

\* Mutant: the key is set although the write failed.
StoreFailsUnnoticed(q) ==
  /\ At(q, "storing")
  /\ mode[q].keeps
  /\ worker' = [worker EXCEPT ![q].at = "committing", ![q].wrote = TRUE]
  /\ UNCHANGED <<mode, row, killed, stored, stopVars, late, post>>

\* The backend refuses the write: an asynchronous query fails, a synchronous
\* one goes on without a key.
StoreFails(q) ==
  /\ At(q, "storing")
  /\ mode[q].keeps
  /\ IF mode[q].async
     THEN SetStatus(q, "failed") /\ Go(q, "failing")
     ELSE UNCHANGED row /\ Go(q, "committing")
  /\ UNCHANGED <<mode, killed, stored, stopVars, late, post>>

\* The status becomes success, also when the query was stopped meanwhile.
CommitSuccess(q) ==
  /\ At(q, "committing")
  /\ row' = [row EXCEPT ![q].status = "success", ![q].key = worker[q].wrote]
  /\ Go(q, IF mode[q].async THEN "done" ELSE "returning")
  /\ UNCHANGED <<mode, killed, stored, stopVars, late, post>>

Return(q) ==
  /\ At(q, "returning")
  /\ Go(q, "done")
  /\ Reply(q, "success")
  /\ UNCHANGED <<mode, row, killed, stored, stopVars, late>>

\* The payload exceeds SQLLAB_PAYLOAD_MAX_MB.
ReturnRaises(q) ==
  /\ At(q, "returning")
  /\ Go(q, "failing")
  /\ UNCHANGED <<mode, row, killed, stored, stopVars, late, post>>

Work(q) ==
  \/ Start(q) \/ SetupFails(q) \/ Connect(q)
  \/ CheckStopped(q) \/ Begin(q) \/ BlockEnds(q) \/ BlockRaises(q)
  \/ StoreRaises(q) \/ StoreNothing(q) \/ StoreResults(q) \/ StoreFails(q)
  \/ CommitSuccess(q) \/ Return(q) \/ ReturnRaises(q) \/ HandleQueryError(q)

Serve(q) == Create(q) \/ Reject(q) \/ Delegate(q) \/ RunInline(q)
-----------------------------------------------------------------------------
\* POST /api/v1/query/stop: QueryDAO.stop_query.

StopAnswers(q, answer) == stop' = [stop EXCEPT ![q].at = answer]

\* Mutant: a query without a session counts as cancelled.
StopReadsAny(q) ==
  /\ stop[q].at = "sent"
  /\ stop' = [stop EXCEPT ![q] =
       [loaded |-> row[q].status,
        at |-> CASE row[q].status = "none" -> "refused"
                 [] row[q].status \in {"failed", "success"} -> "ok"
                 [] mode[q].implicit \/ row[q].session -> "read"
                 [] OTHER -> "cancelled"]]
  /\ UNCHANGED <<mode, row, worker, killed, stored, stops, late, post>>

\* The row is loaded.  A query that is over is left alone; one without a
\* session cannot be cancelled, except implicitly.
StopReads(q) ==
  /\ stop[q].at = "sent"
  /\ stop' = [stop EXCEPT ![q] =
       [loaded |-> row[q].status,
        at |-> CASE row[q].status = "none" -> "refused"
                 [] row[q].status \in {"failed", "success"} -> "ok"
                 [] mode[q].implicit \/ row[q].session -> "read"
                 [] OTHER -> "refused"]]
  /\ UNCHANGED <<mode, row, worker, killed, stored, stops, late, post>>

\* cancel_query kills the session; an implicit cancellation does nothing.
StopCancels(q) ==
  /\ stop[q].at = "read"
  /\ StopAnswers(q, "cancelled")
  /\ killed' = IF mode[q].implicit THEN killed ELSE killed \cup {q}
  /\ UNCHANGED <<mode, row, worker, stored, stops, late, post>>

\* The status is written unless it was stopped when it was loaded.
StopCommits(q) ==
  /\ stop[q].at = "cancelled"
  /\ StopAnswers(q, "ok")
  /\ IF stop[q].loaded = "stopped"
     THEN UNCHANGED <<row, late>>
     ELSE /\ SetStatus(q, "stopped")
          /\ late' = IF row[q].status = "stopped" THEN late ELSE [late EXCEPT ![q] = 0]
  /\ UNCHANGED <<mode, worker, killed, stored, stops, post>>

ServeStop(q) == StopReads(q) \/ StopCancels(q) \/ StopCommits(q)
=============================================================================
