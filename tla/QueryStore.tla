----------------------------- MODULE QueryStore -----------------------------
(***************************************************************************)
(* SQL Lab in the browser: the queries of the Redux store (the actions in  *)
(* actions/sqlLab.ts and the reducer reducers/sqlLab.ts), the poller       *)
(* QueryAutoRefresh, and the panel ResultSet, whose effect fetches the     *)
(* results of a query when a render shows a new results key.               *)
(*                                                                         *)
(* An answer is applied to the store as it is when the answer arrives, but *)
(* QUERY_SUCCESS and QUERY_FAILED look at the state of the query object    *)
(* the request was made with: runQuery's is pending for ever, since the    *)
(* store holds copies.                                                     *)
(***************************************************************************)
EXTENDS SqlQueries

VARIABLES
  query,        \* the query in the store: [state, results, key, sync]
  fetch,        \* requests for the results: the states of their query objects
  poll,         \* the request for the rows: idle, asked, or the answer
  told,         \* failedQueries of the poller
  cleaned       \* cleanInactiveRequestRef

storeVars == <<query, fetch, poll, told, cleaned>>

States == {"absent", "pending", "running", "fetching", "success", "failed", "stopped"}
Running == {"pending", "running", "fetching"}

Absent == [state |-> "absent", results |-> "none", key |-> FALSE, sync |-> FALSE]

\* The rows of the queries that were created when the poll was answered.
Rows == UNION {[S -> [status : {"pending", "running", "success", "failed", "stopped"},
                      key : BOOLEAN]] : S \in SUBSET Queries}

StoreTypeOK ==
  /\ query \in [Queries -> [state : States, results : {"none", "empty", "data"},
                            key : BOOLEAN, sync : BOOLEAN]]
  /\ fetch \in [Queries -> SUBSET (States \ {"absent"})]
  /\ poll.at \in {"idle", "asked", "answered"}
  /\ poll.rows \in Rows
  /\ told \subseteq Queries
  /\ cleaned \in BOOLEAN

Nothing == [q \in {} |-> {}]
Idle == [at |-> "idle", rows |-> Nothing]

StoreInit ==
  /\ query = [q \in Queries |-> Absent]
  /\ fetch = [q \in Queries |-> {}]
  /\ poll = Idle
  /\ told = {}
  /\ cleaned = FALSE
-----------------------------------------------------------------------------
\* The reducer.  An action for a query that is no longer in the store brings
\* it back (alterInObject).

StartQuery(q, async) ==
  [query EXCEPT ![q] = [Absent EXCEPT !.state = "pending", !.sync = ~async]]

StopQuery(q) == [query EXCEPT ![q].state = "stopped", ![q].results = "empty"]

\* QUERY_SUCCESS with the query object of a request made in state s.  The
\* results bring their key, when they have one.
QuerySuccess(q, s, keyed) ==
  IF s = "stopped" THEN query
  ELSE [query EXCEPT ![q].state = "success", ![q].results = "data", ![q].key = @ \/ keyed]

Failed(x, s) == IF s = "stopped" THEN x ELSE [x EXCEPT !.state = "failed"]

QueryFailed(q, s) == [query EXCEPT ![q] = Failed(@, s)]

\* Mutant: a synchronous query without results is shown as a success.
RefreshedBare(x, r) ==
  IF x.state \in {"stopped", "failed"} THEN x
  ELSE [x EXCEPT !.key = r.key,
                 !.state = IF r.status = "success" /\ @ \in {"fetching", "success", "running"}
                           THEN @ ELSE r.status]

\* REFRESH_QUERIES on one query of the store and its row.
Refreshed(x, r) ==
  LET s == IF r.status = "success" /\ x.state \in {"fetching", "success", "running"}
           THEN x.state ELSE r.status
  IN IF x.state \in {"stopped", "failed"} THEN x
     ELSE [x EXCEPT !.key = r.key,
                    !.state = IF s = "success" /\ x.sync /\ x.results = "none"
                              THEN "fetching" ELSE s]

\* CLEAR_INACTIVE_QUERIES; old are the queries that started long enough ago.
\* None of those that run has made progress.
ClearInactive(old) ==
  [q \in Queries |->
     CASE q \in old /\ query[q].state \in {"pending", "running"} -> Absent
       [] query[q].key /\ query[q].results = "data" -> [query[q] EXCEPT !.state = "success"]
       [] OTHER -> query[q]]
-----------------------------------------------------------------------------
\* The store changes and ResultSet renders it: each results key that was not
\* there before is fetched (fetchQueryResults with REQUEST_QUERY_RESULTS).
\* open are the requests that are not answered yet.

\* Mutant: only the results of a query that is a success are fetched.
ShowSuccess(new, open) ==
  LET Fetched == {q \in Queries : new[q].key /\ ~query[q].key /\ new[q].state = "success"}
  IN /\ query' = [q \in Queries |->
          IF q \in Fetched THEN [new[q] EXCEPT !.state = "fetching"] ELSE new[q]]
     /\ fetch' = [q \in Queries |->
          IF q \in Fetched THEN open[q] \cup {new[q].state} ELSE open[q]]

Show(new, open) ==
  LET Fetched == {q \in Queries : new[q].key /\ ~query[q].key}
  IN /\ query' = [q \in Queries |->
          IF q \in Fetched THEN [new[q] EXCEPT !.state = "fetching"] ELSE new[q]]
     /\ fetch' = [q \in Queries |->
          IF q \in Fetched THEN open[q] \cup {new[q].state} ELSE open[q]]

Dispatch(new) == Show(new, fetch) /\ UNCHANGED <<poll, told, cleaned>>

\* The request made in state s is answered.
FetchEnds(q, s, new) ==
  /\ s \in fetch[q]
  /\ Show(new, [fetch EXCEPT ![q] = @ \ {s}])
  /\ UNCHANGED <<poll, told, cleaned>>

FetchReturns(q, s) == FetchEnds(q, s, QuerySuccess(q, s, TRUE))
FetchFails(q, s) == FetchEnds(q, s, QueryFailed(q, s))
-----------------------------------------------------------------------------
\* QueryAutoRefresh, every two seconds.

ShouldCheck == \E q \in Queries : query[q].state \in Running

PollAsks ==
  /\ poll.at = "idle"
  /\ ShouldCheck
  /\ poll' = [Idle EXCEPT !.at = "asked"]
  /\ UNCHANGED <<query, fetch, told, cleaned>>

\* Rows changed since the newest row seen, less five seconds.
PollAnswered(rows) ==
  /\ poll.at = "asked"
  /\ poll' = [at |-> "answered", rows |-> rows]
  /\ UNCHANGED <<query, fetch, told, cleaned>>

\* Rows came: the store is refreshed, and each query of an asynchronous
\* database that has failed is reported once, whatever the store says of it.
PollRefreshes(async) ==
  LET rows == poll.rows
      Reported == {q \in DOMAIN rows \ told : async[q] /\ rows[q].status = "failed"}
  IN /\ poll.at = "answered"
     /\ rows /= Nothing
     /\ Show([q \in Queries |->
               IF q \in Reported THEN Failed(Refreshed(query[q], rows[q]), "failed")
               ELSE IF q \in DOMAIN rows THEN Refreshed(query[q], rows[q])
               ELSE query[q]], fetch)
     /\ told' = told \cup Reported
     /\ poll' = Idle
     /\ UNCHANGED cleaned

\* No rows came: what waits for two seconds is dropped.
PollFindsNone(old) ==
  /\ poll.at = "answered"
  /\ poll.rows = Nothing
  /\ Show(ClearInactive(old), fetch)
  /\ poll' = Idle
  /\ UNCHANGED <<told, cleaned>>

PollFails ==
  /\ poll.at /= "idle"
  /\ poll' = Idle
  /\ UNCHANGED <<query, fetch, told, cleaned>>

\* The first time that nothing runs.
CleanOnce ==
  /\ ~ShouldCheck
  /\ ~cleaned
  /\ cleaned' = TRUE
  /\ Show(ClearInactive({}), fetch)
  /\ UNCHANGED <<poll, told>>
=============================================================================
