-------------------------- MODULE AsyncEventClient --------------------------
(***************************************************************************)
(* middleware/asyncEvent.ts: one browser tab that waits for the events of  *)
(* its jobs, over a WebSocket or by polling.  A caller of waitForAsyncData *)
(* registers a listener under its job id; an event that arrives before its *)
(* listener is processed again by a timer, at most MaxRetries times.       *)
(*                                                                         *)
(* The transport is defined by the module that composes the client with a  *)
(* server: here are the effects of the handlers on the client's state.     *)
(***************************************************************************)
EXTENDS EventStreams

CONSTANTS
  MaxRetries,       \* MAX_RETRIES
  MaxWsRetries,     \* wsConnectMaxRetries
  Transports        \* values of GLOBAL_ASYNC_QUERIES_TRANSPORT to consider

ASSUME RetriesAssumption ==
  /\ MaxRetries \in Nat
  /\ MaxWsRetries \in Nat

VARIABLES
  transport,    \* "ws" or "polling"
  listeners,    \* keys of listenersByJobId
  retries,      \* retriesByJobId, 0 when there is no entry
  timers,       \* events a timer will process again: [Entry -> how many]
  lastId,       \* lastReceivedEventId, 0 for null
  fetching,     \* jobs whose cached result is being fetched
  promise,      \* what waitForAsyncData has returned
  poll,         \* the request of loadEventsFromApi
  ws,           \* the WebSocket: its number, its state, the last_id it was
                \* opened with, wsConnectRetries
  received,     \* history: the jobs whose event the tab has processed
  givenUp       \* history: the jobs whose event found no listener in the end

clientVars == <<transport, listeners, retries, timers, lastId, fetching,
                promise, poll, ws, received, givenUp>>
waitVars == <<listeners, retries, timers, lastId, fetching, promise, received,
              givenUp>>

ClientTypeOK ==
  /\ transport \in Transports
  /\ listeners \subseteq Requests
  /\ retries \in [Requests -> 0 .. MaxRetries]
  /\ IsABag(timers) /\ DOMAIN timers \subseteq Entry
  /\ lastId \in Nat
  /\ fetching \subseteq Requests
  /\ promise \in [Requests -> {"none", "pending", "resolved", "rejected"}]
  /\ poll \in [phase : {"off", "timer", "sent", "answered"}, last : Nat, events : Seq(Entry)]
  /\ ws \in [socket : Nat, asked : Nat, retries : 0 .. MaxWsRetries + 1,
             state : {"off", "connecting", "open", "closed", "givenup"}]
  /\ received \subseteq Requests
  /\ givenUp \subseteq Requests

NoPoll == [phase |-> "off", last |-> 0, events |-> <<>>]
NoWs == [socket |-> 0, state |-> "off", asked |-> 0, retries |-> 0]

\* init(): the tab starts without a stored event id.
ClientInit ==
  /\ transport \in Transports
  /\ listeners = {}
  /\ retries = [r \in Requests |-> 0]
  /\ timers = EmptyBag
  /\ lastId = 0
  /\ fetching = {}
  /\ promise = [r \in Requests |-> "none"]
  /\ poll = IF transport = "polling" THEN [NoPoll EXCEPT !.phase = "timer"] ELSE NoPoll
  /\ ws = IF transport = "ws" THEN [NoWs EXCEPT !.state = "connecting", !.socket = 1] ELSE NoWs
  /\ received = {}
  /\ givenUp = {}

\* waitForAsyncData: addListener.
WaitForAsyncData(r) ==
  /\ listeners' = listeners \cup {r}
  /\ promise' = [promise EXCEPT ![r] = "pending"]
  /\ UNCHANGED <<retries, timers, lastId, fetching, received, givenUp>>

\* The part of the state that processing events changes.
Waiting == [listeners |-> listeners, retries |-> retries, timers |-> timers,
            lastId |-> lastId, fetching |-> fetching, promise |-> promise,
            givenUp |-> givenUp]

\* A listener is called: it fetches the result of a job that is done, and
\* rejects at once for a job that ended in error.
CallListener(w, e) ==
  IF job[e.job].status = "done"
  THEN [w EXCEPT !.retries[e.job] = 0, !.fetching = @ \cup {e.job}]
  ELSE [w EXCEPT !.retries[e.job] = 0, !.listeners = @ \ {e.job},
                 !.promise[e.job] = IF @ = "pending" THEN "rejected" ELSE @]

\* Mutants: an event without a listener is dropped; one retry too many.
RetryNever(w, e) == w
RetryOnceMore(w, e) ==
  IF w.retries[e.job] <= MaxRetries
  THEN [w EXCEPT !.retries[e.job] = @ + 1, !.timers = @ (+) SetToBag({e})]
  ELSE [w EXCEPT !.retries[e.job] = 0, !.givenUp = @ \cup {e.job}]

\* No listener: try again later, or give the event up.
RetryLater(w, e) ==
  IF w.retries[e.job] < MaxRetries
  THEN [w EXCEPT !.retries[e.job] = @ + 1, !.timers = @ (+) SetToBag({e})]
  ELSE [w EXCEPT !.retries[e.job] = 0, !.givenUp = @ \cup {e.job}]

\* One turn of the loop of processEvents, setLastId included.
ProcessEvent(w, e) ==
  [(IF e.job \in w.listeners THEN CallListener(w, e) ELSE RetryLater(w, e))
     EXCEPT !.lastId = e.id]

\* The state after each turn of the loop.
Turns(w, events) ==
  LET after[i \in 0 .. Len(events)] ==
        IF i = 0 THEN w ELSE ProcessEvent(after[i - 1], events[i])
  IN after

\* processEvents.  In w the timer that has fired is already gone.
ProcessEventsFrom(w, events) ==
  LET after == Turns(w, events)[Len(events)]
  IN /\ listeners' = after.listeners
     /\ retries' = after.retries
     /\ timers' = after.timers
     /\ lastId' = after.lastId
     /\ fetching' = after.fetching
     /\ promise' = after.promise
     /\ givenUp' = after.givenUp
     /\ received' = received \cup {e.job : e \in Range(events)}

ProcessEvents(events) == ProcessEventsFrom(Waiting, events)

\* The timer set by RetryLater.
RetryTimer(e) ==
  /\ e \in DOMAIN timers
  /\ ProcessEventsFrom([Waiting EXCEPT !.timers = @ (-) SetToBag({e})], <<e>>)

\* fetchCachedData has returned: the promise is settled, unless it was
\* before, and removeListener is called.
FetchReturns(r, ok) ==
  /\ r \in fetching
  /\ fetching' = fetching \ {r}
  /\ listeners' = listeners \ {r}
  /\ promise' = [promise EXCEPT ![r] =
       IF @ = "pending" THEN (IF ok THEN "resolved" ELSE "rejected") ELSE @]
  /\ UNCHANGED <<retries, timers, lastId, received, givenUp>>

\* loadEventsFromApi: it asks only while somebody waits.
PollAsk ==
  /\ poll.phase = "timer"
  /\ listeners /= {}
  /\ poll' = [phase |-> "sent", last |-> lastId, events |-> <<>>]

\* Polling goes on only when polling is the configured transport.
AfterPoll == IF transport = "polling" THEN [NoPoll EXCEPT !.phase = "timer"] ELSE NoPoll

\* The single poll after the WebSocket was given up finds nobody waiting.
PollIdle ==
  /\ poll.phase = "timer"
  /\ listeners = {}
  /\ poll' = AfterPoll
  /\ UNCHANGED waitVars

PollAnswer(count) ==
  /\ poll.phase = "sent"
  /\ poll' = [poll EXCEPT !.phase = "answered", !.events = ReadEvents(poll.last, count)]

PollReturns ==
  /\ poll.phase = "answered"
  /\ poll' = AfterPoll
  /\ ProcessEvents(poll.events)

\* The request fails and the error is logged.
PollFails ==
  /\ poll.phase \in {"sent", "answered"}
  /\ poll' = AfterPoll
  /\ UNCHANGED waitVars

\* The "open" handler.
WsOpen ==
  /\ ws.state = "connecting"
  /\ ws' = [ws EXCEPT !.state = "open", !.retries = 0]

\* The "close" handler sets the timer of wsConnectErrorDelay.
WsClose ==
  /\ ws.state \in {"connecting", "open"}
  /\ ws' = [ws EXCEPT !.state = "closed"]

\* That timer: connect again, or fall back to one call of loadEventsFromApi.
WsReconnect ==
  /\ ws.state = "closed"
  /\ IF ws.retries < MaxWsRetries
     THEN /\ ws' = [socket |-> ws.socket + 1, state |-> "connecting",
                     asked |-> lastId, retries |-> ws.retries + 1]
          /\ UNCHANGED poll
     ELSE /\ ws' = [ws EXCEPT !.state = "givenup", !.retries = @ + 1]
          /\ poll' = [NoPoll EXCEPT !.phase = "timer"]
=============================================================================
