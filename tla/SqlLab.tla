------------------------------- MODULE SqlLab -------------------------------
(***************************************************************************)
(* SQL Lab from end to end: the store of one browser tab (QueryStore) and  *)
(* the server (QueryExecution).  They exchange the request that runs a     *)
(* query, the request that stops it, polls of the rows, and requests for   *)
(* the results; each can be answered late or not at all.                   *)
(***************************************************************************)
EXTENDS QueryExecution, QueryStore

vars == <<executionVars, storeVars>>

TypeOK == ExecutionTypeOK /\ StoreTypeOK

Init == ExecutionInit /\ StoreInit
-----------------------------------------------------------------------------
\* Running a query.

\* runQuery.
RunQuery(q) ==
  /\ post[q] = "none"
  /\ post' = [post EXCEPT ![q] = "sent"]
  /\ Dispatch(StartQuery(q, mode[q].async))
  /\ UNCHANGED <<mode, row, worker, killed, stored, stopVars, late>>

\* The answer: an asynchronous query waits for the poller, and QUERY_SUCCESS
\* is ignored when the results say that the query was stopped.  The results
\* name their key, also when the backend did not take them.
PostReturns(q) ==
  /\ post[q] \in {"success", "stopped", "running", "error"}
  /\ post' = [post EXCEPT ![q] = "closed"]
  /\ CASE post[q] = "success" -> Dispatch(QuerySuccess(q, "pending", mode[q].keeps))
       [] post[q] = "error" -> Dispatch(QueryFailed(q, "pending"))
       [] OTHER -> UNCHANGED storeVars
  /\ UNCHANGED <<mode, row, worker, killed, stored, stopVars, late>>

\* The connection is lost, or a proxy gives up.
PostLost(q) ==
  /\ post[q] \in {"sent", "serving", "success", "stopped", "running"}
  /\ post' = [post EXCEPT ![q] = "error"]
  /\ UNCHANGED <<mode, row, worker, killed, stored, stopVars, late, storeVars>>

Server(q) == (Serve(q) \/ Work(q) \/ ServeStop(q)) /\ UNCHANGED storeVars
-----------------------------------------------------------------------------
\* Stopping it.

\* stopQuery of SqlEditor and postStopQuery.
UserStops(q) ==
  /\ query[q].state \in {"pending", "running"}
  /\ stop[q].at = "none"
  /\ stops[q] < MaxStops
  /\ stop' = [stop EXCEPT ![q].at = "sent"]
  /\ stops' = [stops EXCEPT ![q] = @ + 1]
  /\ UNCHANGED <<mode, row, worker, killed, stored, late, post, storeVars>>

StopReturns(q) ==
  /\ stop[q].at \in {"ok", "refused"}
  /\ stop' = [stop EXCEPT ![q] = [at |-> "none", loaded |-> "none"]]
  /\ IF stop[q].at = "ok" THEN Dispatch(StopQuery(q)) ELSE UNCHANGED storeVars
  /\ UNCHANGED <<mode, row, worker, killed, stored, stops, late, post>>

\* The answer is lost: the user is told that the query could not be stopped.
StopUnheard(q) ==
  /\ stop[q].at = "ok"
  /\ stop' = [stop EXCEPT ![q] = [at |-> "none", loaded |-> "none"]]
  /\ UNCHANGED <<mode, row, worker, killed, stored, stops, late, post, storeVars>>
-----------------------------------------------------------------------------
\* Following it.

Created == {q \in Queries : row[q].status /= "none"}

Poll ==
  /\ PollAnswered([q \in Created |-> [status |-> row[q].status, key |-> row[q].key]])
  /\ UNCHANGED executionVars

Refresh == PollRefreshes([q \in Queries |-> mode[q].async]) /\ UNCHANGED executionVars

Ask == PollAsks /\ UNCHANGED executionVars
Forget == (\E old \in SUBSET Queries : PollFindsNone(old)) /\ UNCHANGED executionVars
PollError == PollFails /\ UNCHANGED executionVars
Clean == CleanOnce /\ UNCHANGED executionVars

\* SqlExecutionResultsCommand: the key is looked up in the rows, then in the
\* backend.
Fetched(q, s) ==
  /\ row[q].key
  /\ q \in stored
  /\ FetchReturns(q, s)
  /\ UNCHANGED executionVars

\* 404, 410, or a request that takes too long.
NotFetched(q, s) == FetchFails(q, s) /\ UNCHANGED executionVars

Fetching(q) == \E s \in fetch[q] : Fetched(q, s) \/ NotFetched(q, s)
-----------------------------------------------------------------------------
Next ==
  \/ \E q \in Queries :
       \/ RunQuery(q) \/ PostReturns(q) \/ PostLost(q) \/ Server(q)
       \/ UserStops(q) \/ StopReturns(q) \/ StopUnheard(q)
       \/ Fetching(q)
  \/ Ask \/ Poll \/ Refresh \/ Forget \/ PollError \/ Clean

Spec == Init /\ [][Next]_vars

\* Requests are answered and workers go on; the poller asks every two seconds
\* while a query runs, and not all of its requests fail.
Fairness ==
  /\ WF_vars(Ask) /\ SF_vars(Poll) /\ SF_vars(Refresh) /\ WF_vars(Forget)
  /\ \A q \in Queries :
       /\ WF_vars(Serve(q) /\ UNCHANGED storeVars)
       /\ WF_vars(Work(q) /\ UNCHANGED storeVars)
       /\ WF_vars(ServeStop(q) /\ UNCHANGED storeVars)
       /\ WF_vars(PostReturns(q)) /\ WF_vars(StopReturns(q))
       /\ WF_vars(Fetching(q))

FairSpec == Spec /\ Fairness
-----------------------------------------------------------------------------
\* Stopping bounds the work (execute_sql_statements, "Check if stopped"):
\* the status is read, and the block begun, in two steps, so a block may
\* begin after the row says stopped, but only one.
OneBlockAfterStop ==
  \A q \in Queries : row[q].status = "stopped" => late[q] <= 1

\* The row never names results that are not in the backend ("Don't set
\* results_key to prevent 410 errors when fetching"), and the tab never
\* names results of an asynchronous query that the row does not name.
KeyLeadsToResults ==
  \A q \in Queries :
    /\ row[q].key => q \in stored
    /\ mode[q].async /\ query[q].key => row[q].key

\* REFRESH_QUERIES races with the answer to the POST of a synchronous query:
\* a row that says success does not make it a success before that answer (or
\* the end of a stop) has given it results.
SyncSuccessHasResults ==
  \A q \in Queries : query[q].sync /\ query[q].state = "success" => query[q].results /= "none"

\* A query the tab shows as stopped is over, or its session is killed and its
\* next statement fails (stop_query answers OK only then).  An engine with
\* implicit cancellation is excepted: stopped while it is queued, the query
\* is started nevertheless, and Start forgets the stop.
StopEndsTheWork ==
  \A q \in Queries :
    query[q].state = "stopped" /\ ~mode[q].implicit =>
      q \in killed \/ worker[q].at \in {"returning", "failing", "done"}

\* Every query the tab shows as running is concluded: it succeeds, fails, is
\* stopped or is dropped by CLEAR_INACTIVE_QUERIES.  The exception is a
\* query that succeeds without a results key (CREATE TABLE AS, or results
\* that are not kept): REFRESH_QUERIES may leave it running for ever.
QueriesConclude ==
  \A q \in Queries :
    query[q].state \in Running ~>
      \/ query[q].state \in {"success", "failed", "stopped", "absent"}
      \/ row[q].status = "success" /\ ~row[q].key
-----------------------------------------------------------------------------
\* "Don't set results_key to prevent 410 errors when fetching": results are
\* asked for under a key only when they were stored under it.
FetchesAreBacked ==
  \A q \in Queries : fetch[q] /= {} => row[q].key /\ q \in stored
=============================================================================
