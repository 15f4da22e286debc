------------------------ MODULE AsyncCatchUp_proofs ------------------------
(***************************************************************************)
(* The proof that a connection with a last_id leaves no gap between the    *)
(* XRANGE over the channel's stream and the firehose.                      *)
(*                                                                         *)
(* An event is in the stream of its channel before it is in the firehose   *)
(* (OrderInv), the blocked XREAD goes on where the last one ended, or at   *)
(* the newest entry after a start (ReadInv), and an open WebSocket of the  *)
(* browser is one the server still reaches (OpenInv).                      *)
(***************************************************************************)
EXTENDS AsyncCharts_proofs

OrderInv ==
  /\ \A i \in DOMAIN full : full[i].id >= 1 /\ job[full[i].job].state = "published"
  /\ \A i \in DOMAIN full, j \in DOMAIN scoped :
       full[i].job = scoped[j].job => scoped[j].id < full[i].id

ReadInv ==
  /\ firehose.last <= tick
  /\ firehose.reading =>
       firehose.from = IF firehose.last = 0 THEN firehose.base ELSE firehose.last

OpenInv == ws.state = "open" => alive[ws.socket]

\* The event of job r, which has the id c in the channel's stream, was
\* received, is on its way, or is in a range that is being read.
Covered(r, c) ==
  \/ r \in received
  \/ \E k \in DOMAIN wire[ws.socket] : wire[ws.socket][k].job = r
  \/ \E k \in DOMAIN ranges :
       ranges[k].start <= c /\ (ranges[k].end = -1 \/ c <= ranges[k].end)

\* The server has read this entry of the firehose, and its id in the
\* channel's stream is newer than the last_id of the connection.
Due(e, c) ==
  e.job = c.job /\ c.id > ws.asked /\ firehose.base < e.id /\ e.id <= firehose.last

GapFree ==
  ws.state = "open" /\ ws.asked > 0 =>
    \A i \in DOMAIN full, j \in DOMAIN scoped :
      Due(full[i], scoped[j]) => Covered(full[i].job, scoped[j].id)

CatchUpInv == IInv /\ OrderInv /\ ReadInv /\ OpenInv /\ GapFree

LEMMA StreamTypes ==
  ASSUME StreamsInv
  PROVE  /\ tick \in Nat /\ scoped \in Seq(Entry) /\ full \in Seq(Entry)
         /\ \A i \in DOMAIN full : full[i] \in Entry /\ full[i].id \in Nat
                                   /\ full[i].job \in Requests /\ full[i].id <= tick
         /\ \A i \in DOMAIN scoped : scoped[i] \in Entry /\ scoped[i].id \in Nat
                                     /\ scoped[i].job \in Requests /\ scoped[i].id <= tick
BY EntryFacts DEF StreamsInv, StreamsTypeOK, Ordered
-----------------------------------------------------------------------------
(***************************************************************************)
(* The streams.                                                            *)
(***************************************************************************)
\* What is added to the streams is newer than everything, and the event of a
\* job is added to the firehose last.
BothGrow ==
  /\ StreamsGrow
  /\ \A i \in DOMAIN full' :
       full'[i].id > tick \/ (i \in DOMAIN full /\ full'[i] = full[i])
  /\ \A j \in DOMAIN scoped', i \in DOMAIN full :
       scoped'[j].id > tick => scoped'[j].job /= full[i].job

LEMMA OrderStep ==
  ASSUME StreamsInv, OrderInv,
         \/ UNCHANGED streamVars
         \/ \E r \in Requests :
              \/ SubmitJob(r) \/ UpdateJobFull(r) \/ TimeLimitExceeded(r)
              \/ \E status \in {"done", "error"} : UpdateJobScoped(r, status)
  PROVE  OrderInv' /\ BothGrow
<1>0. StreamsGrow /\ StreamsInv' /\ job \in [Requests -> [state : JobStates, status : Statuses]]
  BY StreamsStep DEF StreamsInv, StreamsTypeOK
<1>1. CASE UNCHANGED streamVars
  BY <1>0, <1>1, StreamTypes DEF OrderInv, BothGrow, streamVars
<1>2. ASSUME NEW r \in Requests, SubmitJob(r) \/ TimeLimitExceeded(r)
      PROVE  OrderInv' /\ BothGrow
  <2>1. UNCHANGED <<tick, scoped, full>> /\ job[r].state /= "published"
        /\ \A q \in Requests \ {r} : job'[q] = job[q]
    BY <1>0, <1>2 DEF SubmitJob, TimeLimitExceeded
  <2> QED
    BY <1>0, <2>1, StreamTypes DEF OrderInv, BothGrow
<1>3. ASSUME NEW r \in Requests, UpdateJobFull(r)
      PROVE  OrderInv' /\ BothGrow
  <2>1. /\ job[r].state = "scoped" /\ tick' = tick + 1 /\ full' = Xadd(full, r)
        /\ scoped' = scoped /\ job'[r].state = "published"
        /\ \A q \in Requests \ {r} : job'[q] = job[q]
    BY <1>0, <1>3 DEF UpdateJobFull
  <2>2. \A i \in DOMAIN full' :
          \/ full'[i] = [id |-> tick + 1, job |-> r]
          \/ i \in DOMAIN full /\ full'[i] = full[i]
    BY <2>1, StreamTypes DEF Xadd
  <2>3. \A i \in DOMAIN full' :
          \/ full'[i].id = tick + 1 /\ full'[i].job = r
          \/ i \in DOMAIN full /\ full'[i] = full[i]
    BY <2>2
  <2>4. /\ tick \in Nat
        /\ \A j \in DOMAIN scoped : scoped[j].id \in Nat /\ scoped[j].id <= tick
        /\ \A i \in DOMAIN full : full[i].job \in Requests
    BY StreamTypes
  <2>5. \A i \in DOMAIN full' : full'[i].id >= 1 /\ job'[full'[i].job].state = "published"
    BY <2>1, <2>3, <2>4 DEF OrderInv
  <2>6. \A i \in DOMAIN full', j \in DOMAIN scoped' :
          full'[i].job = scoped'[j].job => scoped'[j].id < full'[i].id
    BY <2>1, <2>3, <2>4 DEF OrderInv
  <2>7. BothGrow
    BY <1>0, <2>1, <2>3, <2>4 DEF BothGrow
  <2> QED
    BY <2>5, <2>6, <2>7 DEF OrderInv
<1>4. ASSUME NEW r \in Requests, NEW status \in {"done", "error"}, UpdateJobScoped(r, status)
      PROVE  OrderInv' /\ BothGrow
  <2>1. /\ job[r].state = "queued" /\ tick' = tick + 1 /\ scoped' = Xadd(scoped, r)
        /\ full' = full /\ \A q \in Requests \ {r} : job'[q] = job[q]
    BY <1>0, <1>4 DEF UpdateJobScoped
  <2>2. \A i \in DOMAIN scoped' :
          \/ scoped'[i] = [id |-> tick + 1, job |-> r]
          \/ i \in DOMAIN scoped /\ scoped'[i] = scoped[i]
    BY <2>1, StreamTypes DEF Xadd
  <2>3. \A i \in DOMAIN scoped' :
          \/ scoped'[i].id = tick + 1 /\ scoped'[i].job = r
          \/ i \in DOMAIN scoped /\ scoped'[i] = scoped[i]
    BY <2>2
  <2>4. \A i \in DOMAIN full : full[i].job /= r
    BY <2>1 DEF OrderInv
  <2>5. /\ tick \in Nat
        /\ \A j \in DOMAIN scoped : scoped[j].id \in Nat /\ scoped[j].id <= tick
        /\ \A i \in DOMAIN full : full[i].job \in Requests
    BY StreamTypes
  <2>6. \A i \in DOMAIN full' : full'[i].id >= 1 /\ job'[full'[i].job].state = "published"
    BY <2>1, <2>4, <2>5 DEF OrderInv
  <2>7. \A i \in DOMAIN full', j \in DOMAIN scoped' :
          full'[i].job = scoped'[j].job => scoped'[j].id < full'[i].id
    BY <2>1, <2>3, <2>4 DEF OrderInv
  <2>8. BothGrow
    BY <1>0, <2>1, <2>3, <2>4, <2>5 DEF BothGrow
  <2> QED
    BY <2>6, <2>7, <2>8 DEF OrderInv
<1> QED
  BY <1>1, <1>2, <1>3, <1>4

\* Every entry of the range is in the reply.
LEMMA XrangeHolds ==
  ASSUME NEW stream \in Seq(Entry), NEW from \in Nat, NEW to \in Nat,
         NEW i \in DOMAIN stream, from <= stream[i].id, stream[i].id <= to
  PROVE  \E k \in DOMAIN Xrange(stream, from, to) : Xrange(stream, from, to)[k] = stream[i]
<1> DEFINE x == Xrange(stream, from, to)
           W == Within(stream, from, to)
<1>1. i \in W
  BY DEF Within
<1>2. PICK a, b \in W : (\A j \in W : a <= j /\ j <= b) /\ x = SubSeq(stream, a, b)
  BY <1>1, XrangeIsPart
<1>3. a \in 1 .. Len(stream) /\ b \in 1 .. Len(stream) /\ i \in 1 .. Len(stream)
  BY DEF Within
<1> HIDE DEF x, W
<1>4. a <= i /\ i <= b
  BY <1>1, <1>2
<1>5. /\ Len(x) = b - a + 1 /\ \A k \in 1 .. b - a + 1 : x[k] = stream[a + k - 1]
      /\ DOMAIN x = 1 .. Len(x)
  <2>1. a \in Int /\ b \in Int /\ a <= b /\ \A j \in a .. b : stream[j] \in Entry
    BY <1>3, <1>4
  <2>2. SubSeq(stream, a, b) \in Seq(Entry)
        /\ Len(SubSeq(stream, a, b)) = b - a + 1
        /\ \A k \in 1 .. b - a + 1 : SubSeq(stream, a, b)[k] = stream[a + k - 1]
    BY <2>1, SubSeqProperties
  <2> QED
    BY <1>2, <2>2
<1>6. i - a + 1 \in 1 .. b - a + 1 /\ a + (i - a + 1) - 1 = i
  BY <1>3, <1>4
<1>7. \E k \in DOMAIN x : x[k] = stream[i]
  BY <1>5, <1>6
<1> QED
  BY <1>7 DEF x

\* The entries XRANGE returns follow each other in the stream.
LEMMA XrangeConsecutive ==
  ASSUME NEW stream \in Seq(Entry), Increasing(stream), NEW from \in Nat, NEW to \in Nat,
         Xrange(stream, from, to) /= <<>>
  PROVE  \E lo \in Nat :
           \A k \in 1 .. Len(Xrange(stream, from, to)) :
             lo + k \in DOMAIN stream /\ Xrange(stream, from, to)[k] = stream[lo + k]
<1>1. PICK lo \in Nat :
        \A k \in 1 .. Len(Xrange(stream, from, to)) :
          lo + k \in DOMAIN stream /\ Xrange(stream, from, to)[k] = stream[lo + k]
  BY XrangeFacts, Zenon
<1> QED
  BY <1>1

\* A page of the firehose holds every entry after its start, up to its last.
LEMMA NewEntriesHold ==
  ASSUME ServerInv, StreamsInv, NewEntries /= <<>>, NEW i \in DOMAIN full,
         firehose.from < full[i].id, full[i].id <= Last(NewEntries).id
  PROVE  \E k \in DOMAIN NewEntries : NewEntries[k] = full[i]
<1> DEFINE x == Xrange(full, firehose.from + 1, tick)
           y == NewEntries
<1>1. /\ full \in Seq(Entry) /\ Increasing(full) /\ firehose.from + 1 \in Nat /\ tick \in Nat
      /\ firehose.from + 1 <= full[i].id /\ full[i].id <= tick
  BY ServerTyped, StreamTypes DEF StreamsInv, Ordered
<1>2. x \in Seq(Entry)
  BY <1>1, XrangeTyped
<1>3. PICK k \in DOMAIN x : x[k] = full[i]
  BY <1>1, XrangeHolds
<1>4. y = AtMost(ReadCount, x) /\ ReadCount \in Nat
  BY CountsAssumption DEF NewEntries, CountsAssumption
<1>5. PICK lo \in Nat :
        \A m \in 1 .. Len(x) : lo + m \in DOMAIN full /\ x[m] = full[lo + m]
  <2>1. x /= <<>>
    BY <1>3
  <2> QED
    BY <1>1, <2>1, XrangeConsecutive
<1> HIDE DEF x
<1>6. y \in Seq(Entry) /\ Len(y) <= Len(x) /\ \A m \in 1 .. Len(y) : y[m] = x[m]
  BY <1>2, <1>4, AtMostFacts
<1>7. Last(y) = y[Len(y)]
  BY DEF Last
<1> HIDE DEF y
<1>8. /\ Len(x) \in Nat /\ Len(y) \in Nat /\ Len(y) >= 1 /\ k \in 1 .. Len(x)
      /\ DOMAIN y = 1 .. Len(y)
  <2>1. y /= <<>>
    BY DEF y
  <2> QED
    BY <1>2, <1>3, <1>6, <2>1
<1>9. k <= Len(y)
  <2> SUFFICES ASSUME Len(y) < k
               PROVE  FALSE
    BY <1>8
  <2>1. Len(y) \in 1 .. Len(x)
    BY <1>6, <1>8
  <2>2. lo + Len(y) \in DOMAIN full /\ lo + k \in DOMAIN full /\ lo + Len(y) < lo + k
    BY <1>5, <1>8, <2>1
  <2>3. full[lo + Len(y)].id < full[lo + k].id
    BY <1>1, <2>2 DEF Increasing
  <2>4. y[Len(y)] = full[lo + Len(y)] /\ full[i] = full[lo + k]
    BY <1>3, <1>5, <1>6, <1>8, <2>1
  <2>5. full[i].id <= y[Len(y)].id
    BY <1>7 DEF y
  <2>6. full[lo + Len(y)].id \in Nat /\ full[lo + k].id \in Nat
    BY <2>2, StreamTypes
  <2> QED
    BY <2>3, <2>4, <2>5, <2>6
<1>10. k \in DOMAIN y /\ y[k] = full[i]
  BY <1>3, <1>6, <1>8, <1>9
<1> QED
  BY <1>10 DEF y

\* What is sent to the channel is on the wire of every live socket.
LEMMA SentIsOnTheWire ==
  ASSUME ServerInv, NEW x \in Seq(Entry), SendToChannel(x), NEW s \in Sockets, alive[s]
  PROVE  /\ \A k \in DOMAIN x : \E m \in DOMAIN wire'[s] : wire'[s][m] = x[k]
         /\ \A k \in DOMAIN wire[s] : \E m \in DOMAIN wire'[s] : wire'[s][m] = wire[s][k]
<1>1. wire[s] \in Seq(Entry)
  BY ServerTyped
<1>2. wire'[s] = wire[s] \o x
  BY DEF SendToChannel, ServerInv, SocketInv
<1> DEFINE w == wire[s]
<1>3. /\ DOMAIN (w \o x) = 1 .. Len(w) + Len(x) /\ Len(w) \in Nat /\ Len(x) \in Nat
      /\ DOMAIN w = 1 .. Len(w) /\ DOMAIN x = 1 .. Len(x)
      /\ \A m \in 1 .. Len(w) : (w \o x)[m] = w[m]
      /\ \A m \in 1 .. Len(x) : (w \o x)[Len(w) + m] = x[m]
  BY <1>1
<1> HIDE DEF w
<1>4. ASSUME NEW k \in DOMAIN x
      PROVE  \E m \in DOMAIN (w \o x) : (w \o x)[m] = x[k]
  <2>1. Len(w) + k \in 1 .. Len(w) + Len(x)
    BY <1>3
  <2> QED
    BY <1>3, <2>1
<1>5. ASSUME NEW k \in DOMAIN w
      PROVE  \E m \in DOMAIN (w \o x) : (w \o x)[m] = w[k]
  <2>1. k \in 1 .. Len(w) + Len(x)
    BY <1>3
  <2> QED
    BY <1>3, <2>1
<1> QED
  BY <1>2, <1>4, <1>5 DEF w
-----------------------------------------------------------------------------
(***************************************************************************)
(* The firehose and the socket.                                            *)
(***************************************************************************)
LEMMA ReadKept ==
  ASSUME ReadInv, ServerInv, StreamsGrow, firehose' = firehose
  PROVE  ReadInv'
<1>1. firehose.last \in Nat
  BY ServerTyped
<1> QED
  BY <1>1 DEF ReadInv, StreamsGrow

LEMMA ReadStep ==
  ASSUME ReadInv, ServerInv, StreamsInv, UNCHANGED streamVars, Xread \/ XreadReply \/ XreadTimeout
  PROVE  /\ ReadInv' /\ firehose'.last \in Nat /\ firehose'.base \in Nat
         /\ Xread \/ XreadTimeout => firehose'.last = firehose.last
         /\ XreadReply => firehose'.last = Last(NewEntries).id
         /\ firehose'.base = firehose.base \/ firehose'.last = 0
<1>0. /\ firehose \in Firehoses /\ firehose.last \in Nat /\ firehose.from \in Nat
      /\ firehose.base \in Nat /\ tick \in Nat /\ tick' = tick
  BY ServerTyped, StreamTypes DEF streamVars
<1>1. CASE Xread
  <2> DEFINE from == IF firehose.last = 0 THEN LastIdOf(full) ELSE firehose.last
             base == IF firehose.last = 0 THEN LastIdOf(full) ELSE firehose.base
  <2>1. firehose' = [firehose EXCEPT !.reading = TRUE, !.from = from, !.base = base]
        /\ ~firehose.reading
    BY <1>1 DEF Xread
  <2>2. base \in Nat
    BY <1>0, LastFacts, StreamTypes
  <2>3. from = IF firehose.last = 0 THEN base ELSE firehose.last
    OBVIOUS
  <2>4. firehose.last /= 0 => base = firehose.base
    OBVIOUS
  <2> HIDE DEF from, base
  <2>5. /\ firehose'.last = firehose.last /\ firehose'.from = from /\ firehose'.base = base
        /\ firehose'.reading = TRUE
    BY <1>0, <2>1 DEF Firehoses
  <2>6. ~XreadReply
    BY <2>1 DEF XreadReply
  <2> QED
    BY <1>0, <2>2, <2>3, <2>4, <2>5, <2>6 DEF ReadInv
<1>2. CASE XreadReply
  <2> DEFINE id == Last(NewEntries).id
  <2>1. firehose' = [firehose EXCEPT !.reading = FALSE, !.last = id] /\ firehose.reading
        /\ NewEntries /= <<>>
    BY <1>2 DEF XreadReply
  <2>2. id \in Nat /\ id <= tick
    <3>1. NewEntries \in Seq(Entry)
      BY NewEntriesTyped
    <3>2. id \in Nat
      BY <2>1, <3>1, LastFacts
    <3>3. \E i \in DOMAIN full : Last(NewEntries) = full[i]
      <4> DEFINE x == Xrange(full, firehose.from + 1, tick)
                 y == NewEntries
      <4>1. full \in Seq(Entry) /\ Increasing(full) /\ firehose.from + 1 \in Nat
        BY <1>0, StreamTypes DEF StreamsInv, Ordered
      <4>2. x \in Seq(Entry)
        BY <1>0, <4>1, XrangeTyped
      <4>3. y = AtMost(ReadCount, x) /\ ReadCount \in Nat
        BY CountsAssumption DEF NewEntries, CountsAssumption
      <4>4. x /= <<>> => \E lo \in Nat :
              \A m \in 1 .. Len(x) : lo + m \in DOMAIN full /\ x[m] = full[lo + m]
        BY <1>0, <4>1, XrangeConsecutive
      <4> HIDE DEF x
      <4>5. Len(y) <= Len(x) /\ \A m \in 1 .. Len(y) : y[m] = x[m]
        BY <4>2, <4>3, AtMostFacts
      <4>6. Last(y) = y[Len(y)]
        BY DEF Last
      <4>7. y \in Seq(Entry) /\ y /= <<>>
        BY <2>1, <3>1
      <4> HIDE DEF y
      <4>8. Len(y) \in 1 .. Len(y) /\ Len(y) \in 1 .. Len(x) /\ x /= <<>>
        BY <4>2, <4>5, <4>7
      <4>9. \E i \in DOMAIN full : Last(y) = full[i]
        BY <4>4, <4>5, <4>6, <4>8
      <4> QED
        BY <4>9 DEF y
    <3> QED
      BY <3>2, <3>3, StreamTypes
  <2> HIDE DEF id
  <2>3. firehose'.last = id /\ firehose'.base = firehose.base /\ firehose'.reading = FALSE
    BY <1>0, <2>1 DEF Firehoses
  <2>4. ~Xread /\ ~XreadTimeout
    BY <2>1 DEF Xread, XreadTimeout
  <2> QED
    BY <1>0, <2>2, <2>3, <2>4 DEF ReadInv, id
<1>3. CASE XreadTimeout
  <2>1. firehose' = [firehose EXCEPT !.reading = FALSE] /\ NewEntries = <<>>
    BY <1>3 DEF XreadTimeout
  <2>2. /\ firehose'.last = firehose.last /\ firehose'.base = firehose.base
        /\ firehose'.reading = FALSE /\ ~XreadReply
    BY <1>0, <2>1 DEF Firehoses, XreadReply
  <2> QED
    BY <1>0, <2>2 DEF ReadInv
<1> QED
  BY <1>1, <1>2, <1>3
-----------------------------------------------------------------------------
(***************************************************************************)
(* What is covered stays covered.                                          *)
(***************************************************************************)
\* Nothing that the server has read before is new in a stream.
LEMMA GapKept ==
  ASSUME GapFree, StreamsInv, StreamsInv', ReadInv, BothGrow, firehose.last \in Nat,
         UNCHANGED <<ws, firehose>>,
         \A r \in Requests, c \in Nat : Covered(r, c) => Covered(r, c)'
  PROVE  GapFree'
<1> SUFFICES ASSUME ws.state = "open", ws.asked > 0,
                    NEW i \in DOMAIN full', NEW j \in DOMAIN scoped', Due(full[i], scoped[j])'
             PROVE  Covered(full[i].job, scoped[j].id)'
  BY DEF GapFree
<1>1. /\ full'[i].job = scoped'[j].job /\ scoped'[j].id > ws.asked
      /\ firehose.base < full'[i].id /\ full'[i].id <= firehose.last
  BY DEF Due
<1>2. /\ tick \in Nat /\ full'[i].id \in Nat /\ full'[i].job \in Requests
      /\ scoped'[j].id \in Nat /\ firehose.last <= tick
  BY StreamTypes, EntryFacts DEF StreamsInv, StreamsTypeOK, ReadInv
<1>3. i \in DOMAIN full /\ full'[i] = full[i]
  BY <1>1, <1>2 DEF BothGrow
<1>4. j \in DOMAIN scoped /\ scoped'[j] = scoped[j]
  BY <1>1, <1>3 DEF BothGrow, StreamsGrow
<1>5. Covered(full[i].job, scoped[j].id)
  BY <1>1, <1>3, <1>4 DEF GapFree, Due
<1>6. \A r \in Requests, c \in Nat : Covered(r, c) => Covered(r, c)'
  OBVIOUS
<1> QED
  BY <1>2, <1>3, <1>4, <1>5, <1>6 DEF Covered

\* The step changes neither the socket, nor what is on its way to it.
LEMMA QuietInv ==
  ASSUME CatchUpInv, IInv', UNCHANGED <<ws, firehose, wire, ranges, alive>>,
         received \subseteq received',
         \/ UNCHANGED streamVars
         \/ \E r \in Requests :
              \/ SubmitJob(r) \/ UpdateJobFull(r) \/ TimeLimitExceeded(r)
              \/ \E status \in {"done", "error"} : UpdateJobScoped(r, status)
  PROVE  CatchUpInv'
<1>0. StreamsInv /\ StreamsInv' /\ ServerInv /\ firehose.last \in Nat
  BY ServerTyped DEF CatchUpInv, IInv
<1>1. OrderInv' /\ BothGrow
  BY <1>0, OrderStep DEF CatchUpInv
<1>2. ReadInv'
  BY <1>0, <1>1, ReadKept DEF CatchUpInv, BothGrow
<1>3. OpenInv'
  BY DEF CatchUpInv, OpenInv
<1>4. \A r \in Requests, c \in Nat : Covered(r, c) => Covered(r, c)'
  BY DEF Covered
<1>5. GapFree'
  BY <1>0, <1>1, <1>4, GapKept DEF CatchUpInv
<1> QED
  BY <1>1, <1>2, <1>3, <1>5 DEF CatchUpInv

\* Without an open socket there is nothing to catch up with.
LEMMA ClosedInv ==
  ASSUME CatchUpInv, IInv', UNCHANGED streamVars, ws'.state /= "open",
         firehose' = firehose \/ firehose' = NoRead
  PROVE  CatchUpInv'
<1>0. StreamsInv /\ ServerInv /\ tick \in Nat /\ tick' = tick
  BY StreamTypes DEF CatchUpInv, IInv, streamVars
<1>1. OrderInv' /\ BothGrow
  BY <1>0, OrderStep DEF CatchUpInv
<1>2. ReadInv'
  <2>1. CASE firehose' = firehose
    BY <1>0, <1>1, <2>1, ReadKept DEF CatchUpInv, BothGrow
  <2>2. CASE firehose' = NoRead
    BY <1>0, <2>2 DEF ReadInv, NoRead
  <2> QED
    BY <2>1, <2>2
<1>3. OpenInv' /\ GapFree'
  BY DEF OpenInv, GapFree
<1> QED
  BY <1>1, <1>2, <1>3 DEF CatchUpInv

LEMMA ClosingInv ==
  ASSUME CatchUpInv, IInv', Reconnect \/ Refused \/ Restart \/ \E noticed \in BOOLEAN : Lost(noticed)
  PROVE  CatchUpInv'
<1>0. ws \in WsValues
  BY DEF CatchUpInv, IInv, WsInv
<1>1. UNCHANGED streamVars /\ (firehose' = firehose \/ firehose' = NoRead)
  BY DEF Reconnect, Refused, Restart, Lost, serverVars, ConnectionLost, ServerRestart
<1>2. ws'.state /= "open"
  <2>1. CASE WsReconnect
    <3>1. \/ ws'.state = "connecting"
          \/ ws' = [ws EXCEPT !.state = "givenup", !.retries = ws.retries + 1]
      BY <2>1 DEF WsReconnect
    <3> QED
      BY <1>0, <3>1 DEF WsValues
  <2>2. CASE WsClose
    BY <1>0, <2>2 DEF WsClose, WsValues
  <2>3. CASE ws' = ws /\ ws.state /= "open"
    BY <2>3
  <2> QED
    BY <2>1, <2>2, <2>3 DEF Reconnect, Refused, Restart, Lost
<1> QED
  BY <1>1, <1>2, ClosedInv

\* The next event is taken from the wire: it is received.
LEMMA MessageCatchUp ==
  ASSUME CatchUpInv, IInv', Message
  PROVE  CatchUpInv'
<1> DEFINE s == ws.socket
           w == wire[s]
<1>0. StreamsInv /\ StreamsInv' /\ ServerInv /\ WsInv /\ WaitTyped /\ firehose.last \in Nat
  BY ServerTyped DEF CatchUpInv, IInv
<1>1. /\ s \in Sockets /\ w /= <<>> /\ ProcessEvents(<<Head(w)>>)
      /\ wire' = [wire EXCEPT ![s] = Tail(w)]
      /\ UNCHANGED <<streamVars, firehose, sockets, channel, ready, alive, ranges, ws>>
  BY <1>0, SocketKnown DEF Message
<1>2. OrderInv' /\ BothGrow
  BY <1>0, <1>1, OrderStep DEF CatchUpInv
<1>3. ReadInv' /\ OpenInv'
  BY <1>0, <1>1, <1>2, ReadKept DEF CatchUpInv, BothGrow, OpenInv
<1>4. w \in Seq(Entry) /\ wire'[s] = Tail(w) /\ Head(w) \in Entry
  BY <1>0, <1>1, ServerTyped
<1>5. received' = received \cup {Head(w).job}
  <2>1. received' = received \cup {e.job : e \in Range(<<Head(w)>>)}
    BY <1>1 DEF ProcessEvents, ProcessEventsFrom
  <2>2. Range(<<Head(w)>>) = {Head(w)}
    BY DEF Range
  <2> QED
    BY <2>1, <2>2
<1>6. \A k \in DOMAIN w : w[k] = Head(w) \/ \E m \in DOMAIN Tail(w) : Tail(w)[m] = w[k]
  <2>1. \A k \in DOMAIN w : k = 1 \/ (k - 1 \in DOMAIN Tail(w) /\ Tail(w)[k - 1] = w[k])
    BY <1>1, <1>4, HeadTailProperties
  <2>2. Head(w) = w[1]
    BY <1>1, <1>4
  <2> HIDE DEF w
  <2> QED
    BY <2>1, <2>2
<1>7. ASSUME NEW r \in Requests, NEW c \in Nat, Covered(r, c)
      PROVE  Covered(r, c)'
  <2>1. CASE r \in received
    BY <1>5, <2>1 DEF Covered
  <2>2. CASE \E k \in DOMAIN w : w[k].job = r
    BY <1>1, <1>4, <1>5, <1>6, <2>2 DEF Covered
  <2>3. CASE \E k \in DOMAIN ranges :
               ranges[k].start <= c /\ (ranges[k].end = -1 \/ c <= ranges[k].end)
    BY <1>1, <2>3 DEF Covered
  <2> QED
    BY <1>7, <2>1, <2>2, <2>3 DEF Covered
<1>8. GapFree'
  BY <1>0, <1>1, <1>2, <1>7, GapKept DEF CatchUpInv
<1> QED
  BY <1>2, <1>3, <1>8 DEF CatchUpInv

\* The socket is registered and the range ends where the firehose stands:
\* what the server has read before is in the range.
LEMMA ConnectCatchUp ==
  ASSUME CatchUpInv, IInv', Connect
  PROVE  CatchUpInv'
<1>0. StreamsInv /\ StreamsInv' /\ ServerInv /\ WsInv /\ firehose.last \in Nat
      /\ ws \in WsValues /\ ws.asked \in Nat /\ ranges \in Seq(RangeValues)
  BY ServerTyped DEF CatchUpInv, IInv, WsInv, WsValues
<1>1. /\ ws.socket \in Sockets /\ WsOpen /\ WsConnection(ws.socket, ws.asked)
      /\ UNCHANGED <<streamVars, firehose>>
  BY <1>0, SocketKnown DEF Connect, WsOpen, WsConnection
<1>2. ws'.socket = ws.socket /\ ws'.asked = ws.asked
  BY <1>0, <1>1 DEF WsOpen, WsValues
<1>3. OrderInv' /\ BothGrow
  BY <1>0, <1>1, OrderStep DEF CatchUpInv
<1>4. ReadInv'
  BY <1>0, <1>1, <1>3, ReadKept DEF CatchUpInv, BothGrow
<1>5. OpenInv'
  BY <1>0, <1>1, <1>2, ServerTyped DEF OpenInv, WsConnection
<1>6. GapFree'
  <2> SUFFICES ASSUME ws.asked > 0, NEW i \in DOMAIN full, NEW j \in DOMAIN scoped,
                      full[i].job = scoped[j].job, scoped[j].id > ws.asked,
                      full[i].id <= firehose.last
               PROVE  \E k \in DOMAIN ranges' :
                        /\ ranges'[k].start <= scoped[j].id
                        /\ ranges'[k].end = -1 \/ scoped[j].id <= ranges'[k].end
    BY <1>1, <1>2 DEF GapFree, Due, Covered, streamVars
  <2> DEFINE end == IF firehose.last = 0 THEN -1 ELSE firehose.last
             range == [start |-> ws.asked + 1, end |-> end]
  <2>1. ranges' = Append(ranges, range)
    BY <1>0, <1>1 DEF WsConnection
  <2>2. scoped[j].id < full[i].id /\ scoped[j].id \in Nat /\ full[i].id \in Nat
    BY <1>0, StreamTypes DEF CatchUpInv, OrderInv
  <2>3. range.start <= scoped[j].id /\ (range.end = -1 \/ scoped[j].id <= range.end)
    BY <1>0, <2>2
  <2>4. end \in Nat \cup {-1}
    BY <1>0
  <2>5. range \in RangeValues
    BY <1>0, <2>4 DEF RangeValues
  <2> HIDE DEF range
  <2>6. Len(ranges) + 1 \in DOMAIN Append(ranges, range)
        /\ Append(ranges, range)[Len(ranges) + 1] = range
    BY <1>0, <2>5, AppendProperties
  <2> QED
    BY <2>1, <2>3, <2>6
<1> QED
  BY <1>3, <1>4, <1>5, <1>6 DEF CatchUpInv

\* A page of the firehose goes to every live socket.
LEMMA ForwardCatchUp ==
  ASSUME CatchUpInv, IInv', ServerForwards
  PROVE  CatchUpInv'
<1> DEFINE s == ws.socket
<1>0. /\ StreamsInv /\ StreamsInv' /\ ServerInv /\ WsInv /\ ReadInv /\ firehose.last \in Nat
      /\ firehose.base \in Nat /\ NewEntries \in Seq(Entry)
  BY ServerTyped, NewEntriesTyped DEF CatchUpInv, IInv
<1>1. /\ XreadReply /\ UNCHANGED <<streamVars, clientVars>> /\ firehose.reading
      /\ SendToChannel(NewEntries) /\ NewEntries /= <<>> /\ ranges' = ranges /\ alive' = alive
  BY DEF ServerForwards, ServerAlone, XreadReply
<1>2. OrderInv' /\ BothGrow
  BY <1>0, <1>1, OrderStep DEF CatchUpInv
<1>3. ReadInv' /\ firehose'.last = Last(NewEntries).id /\ firehose'.last \in Nat
      /\ (firehose'.base = firehose.base \/ firehose'.last = 0)
  BY <1>0, <1>1, ReadStep
<1>4. OpenInv'
  BY <1>1 DEF CatchUpInv, OpenInv, clientVars
<1>5. GapFree'
  <2> SUFFICES ASSUME ws.state = "open", ws.asked > 0,
                      NEW i \in DOMAIN full, NEW j \in DOMAIN scoped,
                      full[i].job = scoped[j].job, scoped[j].id > ws.asked,
                      firehose'.base < full[i].id, full[i].id <= firehose'.last
               PROVE  Covered(full[i].job, scoped[j].id)'
    BY <1>1 DEF GapFree, Due, Covered, clientVars, streamVars
  <2>1. full[i].id \in Nat /\ full[i].id >= 1
    BY <1>0, StreamTypes DEF CatchUpInv, OrderInv
  <2>2. firehose'.base = firehose.base
    BY <1>3, <2>1
  <2>3. s \in Sockets /\ alive[s]
    BY <1>0, SocketKnown DEF CatchUpInv, OpenInv
  <2>4. /\ \A k \in DOMAIN NewEntries : \E m \in DOMAIN wire'[s] : wire'[s][m] = NewEntries[k]
        /\ \A k \in DOMAIN wire[s] : \E m \in DOMAIN wire'[s] : wire'[s][m] = wire[s][k]
    BY <1>0, <1>1, <2>3, SentIsOnTheWire
  <2>5. UNCHANGED <<scoped, full, ws, received, ranges>>
    BY <1>1 DEF clientVars, streamVars
  <2>6. CASE full[i].id <= firehose.last
    <3>1. Covered(full[i].job, scoped[j].id)
      BY <2>2, <2>6 DEF CatchUpInv, GapFree, Due
    <3> QED
      BY <2>4, <2>5, <3>1 DEF Covered
  <2>7. CASE firehose.last < full[i].id
    <3>1. firehose.from < full[i].id
      BY <1>1, <2>2, <2>7 DEF CatchUpInv, ReadInv
    <3>2. \E k \in DOMAIN NewEntries : NewEntries[k] = full[i]
      BY <1>0, <1>1, <1>3, <3>1, NewEntriesHold
    <3>3. \E m \in DOMAIN wire'[s] : wire'[s][m] = full[i]
      BY <2>4, <3>2
    <3> QED
      BY <2>5, <3>3 DEF Covered
  <2> QED
    BY <1>0, <2>1, <2>6, <2>7
<1> QED
  BY <1>2, <1>3, <1>4, <1>5 DEF CatchUpInv

\* The reply of an XRANGE goes to every live socket of the channel.
LEMMA RangeCatchUp ==
  ASSUME CatchUpInv, IInv', ServerCatchesUp
  PROVE  CatchUpInv'
<1> DEFINE s == ws.socket
           range == Head(ranges)
           end == IF range.end = -1 THEN tick ELSE range.end
           x == Xrange(scoped, range.start, end)
<1>0. /\ StreamsInv /\ StreamsInv' /\ ServerInv /\ WsInv /\ ReadInv /\ firehose.last \in Nat
      /\ ranges \in Seq(RangeValues)
  BY ServerTyped DEF CatchUpInv, IInv
<1>1. /\ UNCHANGED <<streamVars, clientVars, firehose, alive>> /\ ranges /= <<>>
      /\ SendToChannel(x) /\ ranges' = Tail(ranges)
  BY DEF ServerCatchesUp, ServerAlone, XrangeReply
<1>2. OrderInv' /\ BothGrow
  BY <1>0, <1>1, OrderStep DEF CatchUpInv
<1>3. ReadInv' /\ OpenInv'
  BY <1>0, <1>1, <1>2, ReadKept DEF CatchUpInv, BothGrow, OpenInv, clientVars
<1>4. /\ range \in RangeValues /\ range.start \in Nat /\ end \in Nat
      /\ \A k \in DOMAIN ranges :
           ranges[k] = range \/ \E m \in DOMAIN Tail(ranges) : Tail(ranges)[m] = ranges[k]
  <2>1. range \in RangeValues /\ Tail(ranges) \in Seq(RangeValues)
    BY <1>0, <1>1, HeadTailProperties
  <2>2. \A k \in DOMAIN ranges : k = 1 \/ (k - 1 \in DOMAIN Tail(ranges)
                                           /\ Tail(ranges)[k - 1] = ranges[k])
    BY <1>0, <1>1, HeadTailProperties
  <2>3. range = ranges[1]
    BY <1>0, <1>1
  <2>4. tick \in Nat
    BY <1>0, StreamTypes
  <2> HIDE DEF range
  <2> QED
    BY <2>1, <2>2, <2>3, <2>4 DEF RangeValues
<1>5. x \in Seq(Entry)
  BY <1>0, <1>4, StreamTypes, XrangeTyped
<1>6. GapFree'
  <2> SUFFICES ASSUME ws.state = "open", ws.asked > 0,
                      NEW i \in DOMAIN full, NEW j \in DOMAIN scoped, Due(full[i], scoped[j])
               PROVE  Covered(full[i].job, scoped[j].id)'
    BY <1>1 DEF GapFree, Due, Covered, clientVars, streamVars
  <2>1. Covered(full[i].job, scoped[j].id) /\ full[i].job = scoped[j].job
    BY DEF CatchUpInv, GapFree, Due
  <2>2. s \in Sockets /\ alive[s]
    BY <1>0, SocketKnown DEF CatchUpInv, OpenInv
  <2>3. UNCHANGED <<scoped, full, ws, received>>
    BY <1>1 DEF clientVars, streamVars
  <2>4. /\ scoped \in Seq(Entry) /\ scoped[j].id \in Nat /\ scoped[j].id <= tick
    BY <1>0, StreamTypes
  <2>5. range.start <= scoped[j].id /\ (range.end = -1 \/ scoped[j].id <= range.end)
          => \E k \in DOMAIN x : x[k] = scoped[j]
    BY <1>4, <2>4, XrangeHolds
  <2> HIDE DEF x, range, end
  <2>6. /\ \A k \in DOMAIN x : \E m \in DOMAIN wire'[s] : wire'[s][m] = x[k]
        /\ \A k \in DOMAIN wire[s] : \E m \in DOMAIN wire'[s] : wire'[s][m] = wire[s][k]
    BY <1>0, <1>1, <1>5, <2>2, SentIsOnTheWire
  <2>7. CASE full[i].job \in received
    BY <2>3, <2>7 DEF Covered
  <2>8. CASE \E k \in DOMAIN wire[s] : wire[s][k].job = full[i].job
    BY <2>3, <2>6, <2>8 DEF Covered
  <2>9. CASE \E k \in DOMAIN ranges : ranges[k].start <= scoped[j].id
               /\ (ranges[k].end = -1 \/ scoped[j].id <= ranges[k].end)
    <3>1. PICK k \in DOMAIN ranges : ranges[k].start <= scoped[j].id
            /\ (ranges[k].end = -1 \/ scoped[j].id <= ranges[k].end)
      BY <2>9
    <3>2. CASE ranges[k] = range
      <4>1. \E m \in DOMAIN wire'[s] : wire'[s][m] = scoped[j]
        BY <2>5, <2>6, <3>1, <3>2
      <4> QED
        BY <2>1, <2>3, <4>1 DEF Covered
    <3>3. CASE \E m \in DOMAIN Tail(ranges) : Tail(ranges)[m] = ranges[k]
      BY <1>1, <2>3, <3>1, <3>3 DEF Covered
    <3> QED
      BY <1>4, <3>2, <3>3
  <2> QED
    BY <2>1, <2>7, <2>8, <2>9 DEF Covered
<1> QED
  BY <1>2, <1>3, <1>6 DEF CatchUpInv

\* An XREAD after "$" has read nothing yet; any other goes on after the last.
LEMMA ReadsCatchUp ==
  ASSUME CatchUpInv, IInv', ServerReads \/ ServerReadTimesOut
  PROVE  CatchUpInv'
<1>0. StreamsInv /\ StreamsInv' /\ ServerInv /\ WsInv /\ ReadInv /\ firehose.last \in Nat
  BY ServerTyped DEF CatchUpInv, IInv
<1>1. /\ Xread \/ XreadTimeout
      /\ UNCHANGED <<streamVars, clientVars, alive, wire, ranges>>
  BY DEF ServerReads, ServerReadTimesOut, ServerAlone, Xread, XreadTimeout
<1>2. OrderInv' /\ BothGrow
  BY <1>0, <1>1, OrderStep DEF CatchUpInv
<1>3. ReadInv' /\ firehose'.last = firehose.last
      /\ (firehose'.base = firehose.base \/ firehose'.last = 0)
  BY <1>0, <1>1, ReadStep
<1>4. OpenInv'
  BY <1>1 DEF CatchUpInv, OpenInv, clientVars
<1>5. GapFree'
  <2>1. UNCHANGED <<scoped, full, ws, received, wire, ranges>>
    BY <1>1 DEF clientVars, streamVars
  <2>2. \A i \in DOMAIN full : full[i].id \in Nat /\ full[i].id >= 1
    BY <1>0, StreamTypes DEF CatchUpInv, OrderInv
  <2>3. CASE firehose'.base = firehose.base
    BY <1>3, <2>1, <2>3 DEF CatchUpInv, GapFree, Due, Covered
  <2>4. CASE firehose'.last = 0
    BY <2>1, <2>2, <2>4 DEF GapFree, Due
  <2> QED
    BY <1>3, <2>3, <2>4
<1> QED
  BY <1>2, <1>3, <1>4, <1>5 DEF CatchUpInv
-----------------------------------------------------------------------------
LEMMA OthersCatchUp ==
  ASSUME CatchUpInv, IInv',
         \/ UNCHANGED vars \/ Stop \/ Ask \/ AskNobody \/ Answer \/ Poll \/ PollError
         \/ ServerChecks \/ ServerCleans
         \/ \E r \in Requests :
              \/ RunQuery(r) \/ AbortTimer(r) \/ PostAnswered(r) \/ JobPublished(r) \/ JobTimesOut(r)
              \/ \E answer \in Answers : ServePost(r, answer)
              \/ \E status \in {"done", "error"} : JobEnds(r, status)
              \/ \E ok \in BOOLEAN : Fetched(r, ok)
         \/ \E e \in DOMAIN timers : Retry(e)
  PROVE  CatchUpInv'
<1>1. UNCHANGED <<ws, firehose, wire, ranges, alive>>
  BY DEF vars, Stop, Ask, AskNobody, Answer, Poll, PollError, ServerChecks, ServerCleans, ServerAlone,
         RunQuery, AbortTimer, PostAnswered, JobPublished, JobTimesOut, ServePost, JobEnds, Fetched,
         Retry, serverVars, clientVars, CheckSockets, GcChannels
<1>2. received \subseteq received'
  BY DEF vars, Stop, Ask, AskNobody, Answer, Poll, PollError, ServerChecks, ServerCleans, ServerAlone,
         RunQuery, AbortTimer, PostAnswered, JobPublished, JobTimesOut, ServePost, JobEnds, Fetched,
         Retry, clientVars, waitVars, WaitForAsyncData, FetchReturns, PollIdle, PollFails, PollReturns,
         ProcessEvents, RetryTimer, ProcessEventsFrom
<1>3. \/ UNCHANGED streamVars
      \/ \E r \in Requests :
           \/ SubmitJob(r) \/ UpdateJobFull(r) \/ TimeLimitExceeded(r)
           \/ \E status \in {"done", "error"} : UpdateJobScoped(r, status)
  BY DEF vars, Stop, Ask, AskNobody, Answer, Poll, PollError, ServerChecks, ServerCleans, ServerAlone,
         RunQuery, AbortTimer, PostAnswered, JobPublished, JobTimesOut, ServePost, JobEnds, Fetched,
         Retry
<1> QED
  BY <1>1, <1>2, <1>3, QuietInv

LEMMA CatchUpInit ==
  ASSUME Init
  PROVE  CatchUpInv
<1>1. OrderInv /\ ReadInv /\ OpenInv /\ GapFree
  <2>1. ws.state /= "open"
    BY DEF Init, ClientInit, NoWs
  <2> QED
    BY <2>1 DEF Init, StreamsInit, ServerInit, NoRead, OrderInv, ReadInv, OpenInv, GapFree
<1> QED
  BY <1>1, InitInv DEF CatchUpInv

LEMMA CatchUpNext ==
  ASSUME CatchUpInv, [Next]_vars
  PROVE  CatchUpInv'
<1>0. IInv'
  BY NextInv DEF CatchUpInv
<1>1. CASE \/ UNCHANGED vars \/ Stop \/ Ask \/ AskNobody \/ Answer \/ Poll \/ PollError
           \/ ServerChecks \/ ServerCleans
           \/ \E r \in Requests :
                \/ RunQuery(r) \/ AbortTimer(r) \/ PostAnswered(r) \/ JobPublished(r)
                \/ JobTimesOut(r)
                \/ \E answer \in Answers : ServePost(r, answer)
                \/ \E status \in {"done", "error"} : JobEnds(r, status)
                \/ \E ok \in BOOLEAN : Fetched(r, ok)
           \/ \E e \in DOMAIN timers : Retry(e)
  BY <1>0, <1>1, OthersCatchUp
<1>2. CASE ServerReads \/ ServerReadTimesOut
  BY <1>0, <1>2, ReadsCatchUp
<1>3. CASE ServerForwards
  BY <1>0, <1>3, ForwardCatchUp
<1>4. CASE ServerCatchesUp
  BY <1>0, <1>4, RangeCatchUp
<1>5. CASE Connect
  BY <1>0, <1>5, ConnectCatchUp
<1>6. CASE Message
  BY <1>0, <1>6, MessageCatchUp
<1>7. CASE Reconnect \/ Refused \/ Restart \/ \E noticed \in BOOLEAN : Lost(noticed)
  BY <1>0, <1>7, ClosingInv
<1> QED
  BY <1>1, <1>2, <1>3, <1>4, <1>5, <1>6, <1>7 DEF Next

\* wsConnection, fetchRangeFromStream and subscribeToGlobalStream: on a
\* connection with a last_id, every event after this id that the server has
\* read was received, is on its way or is in a range that is being read,
\* whatever was published, lost or restarted before.
THEOREM NoEventFallsBetween == Spec => []CatchUpLeavesNoGap
<1>1. CatchUpInv => CatchUpLeavesNoGap
  <2> SUFFICES ASSUME CatchUpInv, NEW i \in DOMAIN full, ws.state = "open", ws.asked > 0,
                      IdIn(scoped, full[i].job) > ws.asked,
                      firehose.base < full[i].id, full[i].id <= firehose.last
               PROVE  Covered(full[i].job, IdIn(scoped, full[i].job))
    BY DEF CatchUpLeavesNoGap, Covered
  <2>1. ws.asked \in Nat
    BY DEF CatchUpInv, IInv, WsInv, WsValues
  <2>2. \E j \in DOMAIN scoped : scoped[j].job = full[i].job
    BY <2>1 DEF IdIn
  <2>3. \E j \in DOMAIN scoped :
          scoped[j].job = full[i].job /\ IdIn(scoped, full[i].job) = scoped[j].id
    BY <2>2 DEF IdIn
  <2> QED
    BY <2>3 DEF CatchUpInv, GapFree, Due
<1>2. Spec => []CatchUpInv
  BY CatchUpInit, CatchUpNext, PTL DEF Spec
<1> QED
  BY <1>1, <1>2, PTL
=============================================================================
