----------------------------- MODULE AsyncCharts -----------------------------
(***************************************************************************)
(* Asynchronous chart queries from end to end: a chart of one browser tab  *)
(* (ChartStore), the event client of the tab (AsyncEventClient), the       *)
(* WebSocket server (WebsocketServer) and the Redis streams the workers    *)
(* write to (EventStreams).                                                *)
(*                                                                         *)
(* Faults (a lost or refused connection, a failed poll, a server that      *)
(* restarts) happen at most MaxFaults times.                               *)
(***************************************************************************)
EXTENDS WebsocketServer, AsyncEventClient, ChartStore

CONSTANTS
  MaxFaults,
  PollCount,        \* MAX_EVENT_COUNT
  Answers           \* how the server may answer a POST

ASSUME FaultsAssumption == MaxFaults \in Nat /\ Sockets = 1 .. MaxFaults + 1
ASSUME AnswersAssumption == Answers \subseteq {"200", "202", "error"}
ASSUME CountsAssumption == PollCount \in Nat \ {0} /\ ReadCount \in Nat \ {0}

VARIABLE faults

vars == <<streamVars, serverVars, clientVars, chartVars, faults>>

TypeOK ==
  /\ StreamsTypeOK
  /\ ServerTypeOK
  /\ ClientTypeOK
  /\ ChartTypeOK
  /\ faults \in 0 .. MaxFaults

Init ==
  /\ StreamsInit
  /\ ServerInit
  /\ ClientInit
  /\ ChartInit
  /\ faults = 0

Fault == faults < MaxFaults /\ faults' = faults + 1
NoFault == UNCHANGED faults

\* The chart hears of the promises an action of the client has rejected.
ChartHears ==
  Rejected({r \in Requests : promise[r] = "pending" /\ promise'[r] = "rejected"})
-----------------------------------------------------------------------------
\* The user and the chart.

RunQuery(r) ==
  ExploreJSON(r) /\ NoFault /\ UNCHANGED <<streamVars, serverVars, clientVars>>

Stop ==
  StopQuery /\ NoFault /\ UNCHANGED <<streamVars, serverVars, clientVars>>

AbortTimer(r) ==
  AbortPrevious(r) /\ NoFault /\ UNCHANGED <<streamVars, serverVars, clientVars>>

\* POST /api/v1/chart/data: from the cache, as a job, or an error.
ServePost(r, answer) ==
  /\ Serve(r, answer)
  /\ IF answer = "202" THEN SubmitJob(r) ELSE UNCHANGED streamVars
  /\ NoFault
  /\ UNCHANGED <<serverVars, clientVars>>

PostAnswered(r) ==
  /\ Answered(r)
  /\ IF reply[r] = "202" THEN WaitForAsyncData(r) ELSE UNCHANGED waitVars
  /\ NoFault
  /\ UNCHANGED <<streamVars, serverVars, transport, poll, ws>>
-----------------------------------------------------------------------------
\* The workers.

JobEnds(r, status) ==
  UpdateJobScoped(r, status) /\ NoFault /\ UNCHANGED <<serverVars, clientVars, chartVars>>
JobPublished(r) ==
  UpdateJobFull(r) /\ NoFault /\ UNCHANGED <<serverVars, clientVars, chartVars>>
JobTimesOut(r) ==
  TimeLimitExceeded(r) /\ NoFault /\ UNCHANGED <<serverVars, clientVars, chartVars>>
-----------------------------------------------------------------------------
\* The WebSocket server, which is deployed with the transport "ws" only.

ServerAlone(A) ==
  transport = "ws" /\ A /\ NoFault /\ UNCHANGED <<streamVars, clientVars, chartVars>>
ServerReads == ServerAlone(Xread)
ServerForwards == ServerAlone(XreadReply)
ServerReadTimesOut == ServerAlone(XreadTimeout)
ServerCatchesUp == ServerAlone(XrangeReply)
ServerChecks == \E overdue \in SUBSET Sockets : ServerAlone(CheckSockets(overdue))
ServerCleans == ServerAlone(GcChannels)

\* The upgrade succeeds at both ends.
Connect ==
  /\ WsOpen
  /\ WsConnection(ws.socket, ws.asked)
  /\ NoFault
  /\ UNCHANGED <<streamVars, chartVars, transport, poll, waitVars>>

\* The next event arrives over the socket.
Message ==
  /\ ws.state = "open"
  /\ wire[ws.socket] /= <<>>
  /\ ProcessEvents(<<Head(wire[ws.socket])>>)
  /\ wire' = [wire EXCEPT ![ws.socket] = Tail(@)]
  /\ ChartHears
  /\ NoFault
  /\ UNCHANGED <<streamVars, firehose, sockets, channel, ready, alive, ranges,
                 transport, poll, ws>>

Reconnect ==
  WsReconnect /\ NoFault /\ UNCHANGED <<streamVars, serverVars, chartVars, transport, waitVars>>

Refused ==
  /\ ws.state = "connecting"
  /\ WsClose
  /\ Fault
  /\ UNCHANGED <<streamVars, serverVars, chartVars, transport, poll, waitVars>>

Lost(noticed) ==
  /\ ws.state = "open"
  /\ WsClose
  /\ ConnectionLost(ws.socket, noticed)
  /\ Fault
  /\ UNCHANGED <<streamVars, chartVars, transport, poll, waitVars>>

Restart ==
  /\ transport = "ws"
  /\ IF ws.state = "open" THEN WsClose ELSE UNCHANGED ws
  /\ ServerRestart
  /\ Fault
  /\ UNCHANGED <<streamVars, chartVars, transport, poll, waitVars>>
-----------------------------------------------------------------------------
\* Polling, retries and the fetch of a result.

Ask ==
  PollAsk /\ NoFault /\ UNCHANGED <<streamVars, serverVars, chartVars, transport, ws, waitVars>>
AskNobody ==
  PollIdle /\ NoFault /\ UNCHANGED <<streamVars, serverVars, chartVars, transport, ws>>
Answer ==
  PollAnswer(PollCount) /\ NoFault
    /\ UNCHANGED <<streamVars, serverVars, chartVars, transport, ws, waitVars>>
Poll ==
  PollReturns /\ ChartHears /\ NoFault
    /\ UNCHANGED <<streamVars, serverVars, transport, ws>>
PollError ==
  PollFails /\ Fault /\ UNCHANGED <<streamVars, serverVars, chartVars, transport, ws>>

Retry(e) ==
  /\ RetryTimer(e)
  /\ ChartHears
  /\ NoFault
  /\ UNCHANGED <<streamVars, serverVars, transport, poll, ws>>

Fetched(r, ok) ==
  /\ FetchReturns(r, ok)
  /\ IF ok THEN Resolved(r) ELSE Rejected({r})
  /\ NoFault
  /\ UNCHANGED <<streamVars, serverVars, transport, poll, ws>>
-----------------------------------------------------------------------------
Next ==
  \/ \E r \in Requests : RunQuery(r) \/ AbortTimer(r) \/ PostAnswered(r)
  \/ Stop
  \/ \E r \in Requests, answer \in Answers : ServePost(r, answer)
  \/ \E r \in Requests, status \in {"done", "error"} : JobEnds(r, status)
  \/ \E r \in Requests : JobPublished(r) \/ JobTimesOut(r)
  \/ ServerReads \/ ServerForwards \/ ServerReadTimesOut \/ ServerCatchesUp
  \/ ServerChecks \/ ServerCleans
  \/ Connect \/ Message \/ Reconnect \/ Refused \/ Restart
  \/ \E noticed \in BOOLEAN : Lost(noticed)
  \/ Ask \/ AskNobody \/ Answer \/ Poll \/ PollError
  \/ \E e \in DOMAIN timers : Retry(e)
  \/ \E r \in Requests, ok \in BOOLEAN : Fetched(r, ok)

Spec == Init /\ [][Next]_vars

\* Every process goes on, requests arrive at the server, and timers fire.
\* The user need not do anything, and no fault needs to happen.
Fairness ==
  /\ \A r \in Requests : /\ WF_vars(AbortTimer(r) \/ PostAnswered(r))
                    /\ WF_vars(\E answer \in Answers : ServePost(r, answer))
                    /\ WF_vars(\E ok \in BOOLEAN : Fetched(r, ok))
  /\ \A r \in Requests : WF_vars(JobPublished(r))
  /\ WF_vars(ServerReads) /\ WF_vars(ServerForwards) /\ WF_vars(ServerCatchesUp)
  /\ WF_vars(Connect) /\ WF_vars(Message) /\ WF_vars(Reconnect)
  /\ WF_vars(Ask) /\ WF_vars(AskNobody) /\ WF_vars(Answer) /\ WF_vars(Poll)
  /\ WF_vars(\E e \in DOMAIN timers : Retry(e))

FairSpec == Spec /\ Fairness
-----------------------------------------------------------------------------
\* Properties.

\* The id of a job's entry in a stream, 0 when it has none.
IdIn(stream, r) ==
  IF \E i \in DOMAIN stream : stream[i].job = r
  THEN stream[CHOOSE i \in DOMAIN stream : stream[i].job = r].id ELSE 0

\* trackClient, checkSockets, cleanChannel: whatever order sockets are lost,
\* checked and cleaned in, a connection that still reaches its browser is in
\* both registries of the server.
LiveSocketsStayRegistered ==
  \A s \in Sockets : alive[s] => s \in sockets /\ s \in channel

\* asyncEvent.ts with read_events: while the tab polls, its cursor
\* (lastReceivedEventId, which a retried event may also set back) never
\* stands behind an event of the channel that the tab has not processed.
PollingSkipsNoEvent ==
  transport = "polling" =>
    \A i \in DOMAIN scoped : scoped[i].id <= lastId => scoped[i].job \in received

\* wsConnection: on a connection that was opened with a last_id, every event
\* that the channel's stream holds after this id, and that the server has
\* read from the firehose, was received, is on its way or is in a range that
\* is being read: the range and the firehose leave no gap between them.
CatchUpLeavesNoGap ==
  \A i \in DOMAIN full :
    LET e == full[i]
        c == IdIn(scoped, e.job)
    IN (/\ ws.state = "open" /\ ws.asked > 0 /\ c > ws.asked
        /\ firehose.base < e.id /\ e.id <= firehose.last)
       => \/ e.job \in received
          \/ \E k \in DOMAIN wire[ws.socket] : wire[ws.socket][k].job = e.job
          \/ \E k \in DOMAIN ranges :
                ranges[k].start <= c /\ (ranges[k].end = -1 \/ c <= ranges[k].end)

\* exploreJSON: once the run of the current form data has its data, the
\* chart shows them: a run it has superseded was aborted and shows nothing
\* any more, unless that run is a job already (the answer was 202).
SupersededRunShowsNothing ==
  (/\ chart.form /= NoRequest
   /\ req[chart.form].phase = "succeeded"
   /\ \A r \in Requests \ {chart.form} : req[r].via /= "202")
  => chart.shown = chart.form

\* CHART_UPDATE_STOPPED: the chart says that it was stopped only when its
\* current run was; the late abort of an older run does not stop it.
OnlyOwnAbortStopsChart ==
  chart.status = "stopped" => req[chart.form].phase = "stopped"

\* The event of a job has reached the tab and was not given up, or is on its
\* way: the tab polls for it, or an open socket and a blocked XREAD wait.
ReachesTab(r) ==
  /\ r \notin givenUp
  /\ \/ r \in received
     \/ transport = "polling"
     \/ ws.state = "open" /\ firehose.reading /\ IdIn(full, r) > firehose.from

\* processEvents and its retries: the event of a job settles the promise of
\* its waiter, whether the event or the answer to the POST arrives first,
\* unless the event was retried MaxRetries times before anybody waited for
\* it.  Over a WebSocket this needs the connection to last.
EventSettlesItsWaiter ==
  \A r \in Requests :
    (promise[r] = "pending" /\ job[r].state = "published" /\ ReachesTab(r))
      ~> (\/ promise[r] \in {"resolved", "rejected"}
          \/ transport = "ws" /\ ws.state /= "open")
=============================================================================
