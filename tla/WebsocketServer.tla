-------------------------- MODULE WebsocketServer --------------------------
(***************************************************************************)
(* superset-websocket: one Node process that reads the firehose with a     *)
(* blocking XREAD and sends every event to the sockets of its channel.  A  *)
(* connection that names the last event its browser has received is        *)
(* brought up to date with an XRANGE over the stream of the channel.       *)
(*                                                                         *)
(* The handlers run to completion on one thread.  XREAD and XRANGE share   *)
(* one Redis connection, which serves them in the order they were sent: an *)
(* XRANGE waits for the XREAD that blocks, and is answered before the next.*)
(***************************************************************************)
EXTENDS EventStreams

CONSTANTS
  Sockets,      \* connections, numbered in the order they are made
  ReadCount     \* redisStreamReadCount

VARIABLES
  firehose,     \* [last: lastFirehoseId, 0 for "$"; reading: an XREAD blocks;
                \*  from: the id it reads after; base: what the last "$" meant]
  sockets,      \* the keys of the registry of sockets
  channel,      \* the sockets listed under the channel
  ready,        \* readyState of a socket, as the server sees it
  alive,        \* the connection still reaches the browser
  wire,         \* events sent to a socket and not yet received
  ranges        \* XRANGE commands that were sent and not yet answered

serverVars == <<firehose, sockets, channel, ready, alive, wire, ranges>>

NoRead == [last |-> 0, reading |-> FALSE, from |-> 0, base |-> 0]

ServerTypeOK ==
  /\ firehose \in [last : Nat, reading : BOOLEAN, from : Nat, base : Nat]
  /\ sockets \subseteq Sockets
  /\ channel \subseteq Sockets
  /\ ready \in [Sockets -> {"connecting", "open", "closed"}]
  /\ alive \in [Sockets -> BOOLEAN]
  /\ wire \in [Sockets -> Seq(Entry)]
  /\ ranges \in Seq([start : Nat, end : Nat \cup {-1}])

ServerInit ==
  /\ firehose = NoRead
  /\ sockets = {}
  /\ channel = {}
  /\ ready = [s \in Sockets |-> "connecting"]
  /\ alive = [s \in Sockets |-> FALSE]
  /\ wire = [s \in Sockets |-> <<>>]
  /\ ranges = <<>>

\* Mutant: the channel is dropped as soon as one of its sockets is gone.
CleanChannelAtOnce == IF channel \subseteq sockets THEN channel ELSE {}

\* cleanChannel: the sockets of the channel that are registered and active.
CleanChannel == {s \in channel : s \in sockets /\ ready[s] = "open"}

\* sendToChannel for every entry of a reply (processStreamResults): every
\* socket of the channel gets it, and a socket that is no longer registered
\* makes the channel be cleaned.
SendToChannel(entries) ==
  /\ wire' = [s \in Sockets |->
                IF s \in channel \cap sockets /\ alive[s]
                THEN wire[s] \o entries ELSE wire[s]]
  /\ channel' = IF entries = <<>> \/ channel \subseteq sockets
                THEN channel ELSE CleanChannel

\* Mutant: the range starts one id too late.
WsConnectionPastNext(s, lastId) ==
  /\ ready[s] = "connecting"
  /\ sockets' = sockets \cup {s}
  /\ channel' = channel \cup {s}
  /\ ready' = [ready EXCEPT ![s] = "open"]
  /\ alive' = [alive EXCEPT ![s] = TRUE]
  /\ ranges' = IF lastId = 0 THEN ranges
               ELSE Append(ranges,
                      [start |-> lastId + 2,
                       end |-> IF firehose.last = 0 THEN -1 ELSE firehose.last])
  /\ UNCHANGED <<firehose, wire>>

\* wsConnection and trackClient: the socket is registered before the range
\* is read, and the range ends where the firehose stands.
WsConnection(s, lastId) ==
  /\ ready[s] = "connecting"
  /\ sockets' = sockets \cup {s}
  /\ channel' = channel \cup {s}
  /\ ready' = [ready EXCEPT ![s] = "open"]
  /\ alive' = [alive EXCEPT ![s] = TRUE]
  /\ ranges' = IF lastId = 0 THEN ranges
               ELSE Append(ranges,
                      [start |-> lastId + 1,
                       end |-> IF firehose.last = 0 THEN -1 ELSE firehose.last])
  /\ UNCHANGED <<firehose, wire>>

\* The reply of an XRANGE (fetchRangeFromStream); end -1 is "+".
XrangeReply ==
  /\ ranges /= <<>>
  /\ ~firehose.reading
  /\ LET range == Head(ranges)
     IN SendToChannel(Xrange(scoped, range.start,
                             IF range.end = -1 THEN tick ELSE range.end))
  /\ ranges' = Tail(ranges)
  /\ UNCHANGED <<firehose, sockets, ready, alive>>

\* subscribeToGlobalStream sends its next XREAD.
Xread ==
  /\ ~firehose.reading
  /\ ranges = <<>>
  /\ firehose' = [firehose EXCEPT
       !.reading = TRUE,
       !.from = IF firehose.last = 0 THEN LastIdOf(full) ELSE firehose.last,
       !.base = IF firehose.last = 0 THEN LastIdOf(full) ELSE @]
  /\ UNCHANGED <<sockets, channel, ready, alive, wire, ranges>>

NewEntries == AtMost(ReadCount, Xrange(full, firehose.from + 1, tick))

\* XREAD returns entries: they are sent, then lastFirehoseId is set.
XreadReply ==
  /\ firehose.reading
  /\ NewEntries /= <<>>
  /\ SendToChannel(NewEntries)
  /\ firehose' = [firehose EXCEPT
       !.reading = FALSE,
       !.last = Last(NewEntries).id]
  /\ UNCHANGED <<sockets, ready, alive, ranges>>

\* XREAD returns nothing within redisStreamReadBlockMs, or fails.
XreadTimeout ==
  /\ firehose.reading
  /\ NewEntries = <<>>
  /\ firehose' = [firehose EXCEPT !.reading = FALSE]
  /\ UNCHANGED <<sockets, channel, ready, alive, wire, ranges>>

\* checkSockets: a socket whose pong is overdue is terminated; it and the
\* closed ones are forgotten.  The pong of a broken connection is overdue.
CheckSockets(overdue) ==
  LET gone == overdue \cup {s \in sockets : ready[s] = "closed"}
  IN /\ overdue \subseteq {s \in sockets : ~alive[s]}
     /\ gone /= {}
     /\ sockets' = sockets \ gone
     /\ ready' = [s \in Sockets |-> IF s \in gone THEN "closed" ELSE ready[s]]
     /\ UNCHANGED <<firehose, channel, alive, wire, ranges>>

\* The garbage collection of the registry of channels.
GcChannels ==
  /\ channel /= CleanChannel
  /\ channel' = CleanChannel
  /\ UNCHANGED <<firehose, sockets, ready, alive, wire, ranges>>

\* The network drops a connection; the server may or may not notice.
ConnectionLost(s, noticed) ==
  /\ alive[s]
  /\ alive' = [alive EXCEPT ![s] = FALSE]
  /\ wire' = [wire EXCEPT ![s] = <<>>]
  /\ ready' = [ready EXCEPT ![s] = IF noticed THEN "closed" ELSE @]
  /\ UNCHANGED <<firehose, sockets, channel, ranges>>

\* The process dies and is started again: the registries are in memory.
ServerRestart ==
  /\ firehose' = NoRead
  /\ sockets' = {}
  /\ channel' = {}
  /\ ready' = [s \in Sockets |-> IF ready[s] = "open" THEN "closed" ELSE ready[s]]
  /\ alive' = [s \in Sockets |-> FALSE]
  /\ wire' = [s \in Sockets |-> <<>>]
  /\ ranges' = <<>>
=============================================================================
