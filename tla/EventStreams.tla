---------------------------- MODULE EventStreams ----------------------------
(***************************************************************************)
(* The asynchronous chart queries of the Flask application: a POST that    *)
(* misses the cache becomes a Celery job (submit_chart_data_job), and the  *)
(* worker announces its end with update_job, which appends the event to    *)
(* the Redis stream of the user's channel and then, with a second XADD, to *)
(* the stream of all channels (the firehose).                              *)
(*                                                                         *)
(* There is one channel, and one event per job.  Redis gives every entry   *)
(* an id of its own ("*"): ids of both streams come from the clock of one  *)
(* Redis server and are modelled as one counter.  The trimming of a stream *)
(* at its limit (1000 entries of a channel) is left out.                   *)
(***************************************************************************)
EXTENDS Integers, Sequences, SequencesExt, ChartRequests

VARIABLES
  tick,     \* the id of the newest entry Redis has handed out
  scoped,   \* stream of the channel
  full,     \* stream of all channels
  job       \* the Celery job of a request and the status it ends with

streamVars == <<tick, scoped, full, job>>

Entry == [id : Nat, job : Requests]
JobStates == {"none", "queued", "scoped", "published", "silent"}
Statuses == {"pending", "done", "error"}

StreamsTypeOK ==
  /\ tick \in Nat
  /\ scoped \in Seq(Entry)
  /\ full \in Seq(Entry)
  /\ job \in [Requests -> [state : JobStates, status : Statuses]]

StreamsInit ==
  /\ tick = 0
  /\ scoped = <<>>
  /\ full = <<>>
  /\ job = [r \in Requests |-> [state |-> "none", status |-> "pending"]]

\* XADD with id "*".
Xadd(stream, r) == Append(stream, [id |-> tick + 1, job |-> r])

\* XRANGE from to, both inclusive: a stream is ordered by its ids.
Xrange(stream, from, to) ==
  LET Within == {i \in DOMAIN stream : from <= stream[i].id /\ stream[i].id <= to}
  IN IF Within = {} THEN <<>> ELSE SubSeq(stream, Min(Within), Max(Within))

\* What "$" stands for in an XREAD.
LastIdOf(stream) == IF stream = <<>> THEN 0 ELSE Last(stream).id

\* The first n entries of a reply (COUNT).
AtMost(n, entries) == SubSeq(entries, 1, IF Len(entries) < n THEN Len(entries) ELSE n)

\* submit_chart_data_job: a fresh job id, and a Celery message.
SubmitJob(r) ==
  /\ job[r].state = "none"
  /\ job' = [job EXCEPT ![r].state = "queued"]
  /\ UNCHANGED <<tick, scoped, full>>

\* The worker ran the query, or it raised; update_job appends the event to
\* the stream of the channel.
UpdateJobScoped(r, status) ==
  /\ job[r].state = "queued"
  /\ job' = [job EXCEPT ![r] = [state |-> "scoped", status |-> status]]
  /\ tick' = tick + 1
  /\ scoped' = Xadd(scoped, r)
  /\ UNCHANGED full

\* The second XADD of update_job; another worker may have come in between.
UpdateJobFull(r) ==
  /\ job[r].state = "scoped"
  /\ job' = [job EXCEPT ![r].state = "published"]
  /\ tick' = tick + 1
  /\ full' = Xadd(full, r)
  /\ UNCHANGED scoped

\* SoftTimeLimitExceeded is raised again without an update_job.
TimeLimitExceeded(r) ==
  /\ job[r].state = "queued"
  /\ job' = [job EXCEPT ![r].state = "silent"]
  /\ UNCHANGED <<tick, scoped, full>>

\* Mutant: a full page holds the newest entries.
ReadEventsNewest(lastId, count) ==
  LET all == Xrange(scoped, IF lastId = 0 THEN 0 ELSE lastId + 1, tick)
  IN SubSeq(all, IF Len(all) > count THEN Len(all) - count + 1 ELSE 1, Len(all))

\* read_events: what GET /api/v1/async_event/ answers to last_id.
ReadEvents(lastId, count) ==
  AtMost(count, Xrange(scoped, IF lastId = 0 THEN 0 ELSE lastId + 1, tick))
=============================================================================
