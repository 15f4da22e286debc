----------------------------- MODULE ChartStore -----------------------------
(***************************************************************************)
(* One chart of the Redux store: exploreJSON (chartAction.ts) and the      *)
(* reducer chartReducer.ts.  A run of the query is a request with its own  *)
(* AbortController; starting a run aborts the controller of the run before *)
(* it.  CHART_UPDATE_STOPPED is ignored when it comes from another run,    *)
(* CHART_UPDATE_SUCCEEDED and CHART_UPDATE_FAILED are not.                 *)
(*                                                                         *)
(* The chart is a saved one (its key is not 0); annotation queries, which  *)
(* only the legacy API makes, are left out, and so is the rendering, which *)
(* turns the status success into rendered.                                 *)
(***************************************************************************)
EXTENDS ChartRequests

VARIABLES
  chart,        \* [status, form, controller, shown]
  req,          \* where a request stands, and how it was answered
  reply,        \* the answer of the server, on its way
  aborting      \* controllers a zero-delay timer is going to abort

chartVars == <<chart, req, reply, aborting>>

OrNone == Requests \cup {NoRequest}

ChartTypeOK ==
  /\ chart \in [status : {"loading", "success", "failed", "stopped"},
                form : OrNone, controller : OrNone, shown : OrNone]
  /\ req \in [Requests -> [phase : {"new", "posting", "waiting", "succeeded", "failed", "stopped"},
                      via : {"none", "200", "202"}]]
  /\ reply \in [Requests -> {"none", "200", "202", "error"}]
  /\ aborting \subseteq Requests

ChartInit ==
  /\ chart = [status |-> "loading", form |-> NoRequest,
              controller |-> NoRequest, shown |-> NoRequest]
  /\ req = [r \in Requests |-> [phase |-> "new", via |-> "none"]]
  /\ reply = [r \in Requests |-> "none"]
  /\ aborting = {}

ChartUpdateStarted(r) ==
  [chart EXCEPT !.status = "loading", !.controller = r, !.form = r]
ChartUpdateSucceeded(c, r) == [c EXCEPT !.status = "success", !.shown = r]
ChartUpdateFailed(c) == [c EXCEPT !.status = "failed", !.shown = NoRequest]
\* Mutant: the controller is not compared.
ChartUpdateStoppedByAny(r) == [chart EXCEPT !.status = "stopped", !.controller = NoRequest]
ChartUpdateStopped(r) ==
  IF chart.controller /= NoRequest /\ r /= chart.controller THEN chart
  ELSE [chart EXCEPT !.status = "stopped", !.controller = NoRequest]

\* Mutant: the run before is not aborted.
ExploreJSONBesides(r) ==
  /\ req[r].phase = "new"
  /\ chart' = ChartUpdateStarted(r)
  /\ req' = [req EXCEPT ![r].phase = "posting"]
  /\ UNCHANGED <<reply, aborting>>

\* exploreJSON, with triggerQuery(false) and updateQueryFormData.
ExploreJSON(r) ==
  /\ req[r].phase = "new"
  /\ chart' = ChartUpdateStarted(r)
  /\ req' = [req EXCEPT ![r].phase = "posting"]
  /\ aborting' = aborting \cup ({chart.controller} \ {NoRequest})
  /\ UNCHANGED reply

\* controller.abort(): a request whose answer has not come rejects with an
\* AbortError, any other does not notice.
Abort(r) ==
  IF req[r].phase = "posting"
  THEN /\ req' = [req EXCEPT ![r].phase = "stopped"]
       /\ chart' = ChartUpdateStopped(r)
  ELSE UNCHANGED <<req, chart>>

\* The timer with which exploreJSON aborts the previous run.
AbortPrevious(r) ==
  /\ r \in aborting
  /\ aborting' = aborting \ {r}
  /\ Abort(r)
  /\ UNCHANGED reply

\* The user stops the query (onStop of the explore view).
StopQuery ==
  /\ chart.controller /= NoRequest
  /\ req[chart.controller].phase = "posting"
  /\ Abort(chart.controller)
  /\ UNCHANGED <<reply, aborting>>

\* The server has handled the POST.
Serve(r, answer) ==
  /\ req[r].phase \in {"posting", "stopped"}
  /\ reply[r] = "none"
  /\ reply' = [reply EXCEPT ![r] = answer]
  /\ UNCHANGED <<chart, req, aborting>>

\* The answer arrives (handleChartDataResponse).  A zero-delay timer set
\* before the POST was sent has fired by then.
Answered(r) ==
  /\ req[r].phase = "posting"
  /\ reply[r] /= "none"
  /\ r = chart.controller => aborting = {}
  /\ CASE reply[r] = "200" ->
            /\ req' = [req EXCEPT ![r] = [phase |-> "succeeded", via |-> "200"]]
            /\ chart' = ChartUpdateSucceeded(chart, r)
       [] reply[r] = "202" ->
            /\ req' = [req EXCEPT ![r] = [phase |-> "waiting", via |-> "202"]]
            /\ UNCHANGED chart
       [] reply[r] = "error" ->
            /\ req' = [req EXCEPT ![r].phase = "failed"]
            /\ chart' = ChartUpdateFailed(chart)
  /\ UNCHANGED <<reply, aborting>>

\* The promises of waitForAsyncData of some requests are rejected.
Rejected(rs) ==
  /\ req' = [r \in Requests |-> IF r \in rs THEN [req[r] EXCEPT !.phase = "failed"] ELSE req[r]]
  /\ chart' = IF rs = {} THEN chart ELSE ChartUpdateFailed(chart)
  /\ UNCHANGED <<reply, aborting>>

\* The promise of a request is resolved with its data.
Resolved(r) ==
  /\ req' = [req EXCEPT ![r].phase = "succeeded"]
  /\ chart' = ChartUpdateSucceeded(chart, r)
  /\ UNCHANGED <<reply, aborting>>
=============================================================================
