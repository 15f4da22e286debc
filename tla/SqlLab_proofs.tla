--------------------------- MODULE SqlLab_proofs ---------------------------
(***************************************************************************)
(* SQL Lab, for every number of queries, blocks and stops: type            *)
(* correctness, the work that is done after a stop, and what the results   *)
(* key and the states of the browser say about the server.                 *)
(*                                                                         *)
(* The server and the browser share nothing but messages.  ServerInv is    *)
(* about the row, the worker and the stop request of each query; StoreInv  *)
(* says what the browser, and the answer of a poll that is on its way, may *)
(* believe.  A belief of the browser stays true because what it is about   *)
(* only grows: a results key is never taken back, and a run that has ended *)
(* or lost its session is not taken up again (Grows).                      *)
(***************************************************************************)
EXTENDS SqlLab, TLAPS

Over == {"returning", "failing", "done"}

\* The run has nothing more to do for the database, or lost its session.
Ended(q) == q \in killed \/ worker[q].at \in Over

BeforeBlock == {"none", "validating", "queued", "starting", "connecting",
                "checking", "beginning"}

\* The number of blocks that have begun.
Begun(q) == IF worker[q].at \in BeforeBlock THEN worker[q].block - 1 ELSE worker[q].block

\* A row is created once; its key comes with results, and last.
KeyBacked(q) ==
  /\ post[q] \in {"none", "sent"} => worker[q].at = "none"
  /\ row[q].key => q \in stored /\ worker[q].at \in Over
  /\ worker[q].wrote => q \in stored
  /\ mode[q].async => worker[q].at \notin {"starting", "returning"} /\ post[q] /= "success"

\* What the stop request has seen and done.
StopBacked(q) ==
  /\ row[q].status \in {"failed", "success"} => worker[q].at \in Over
  /\ ~mode[q].implicit =>
       /\ row[q].status = "stopped" => q \in killed
       /\ stop[q].at = "cancelled" => q \in killed
       /\ stop[q].at = "ok" => Ended(q)

\* A block may begin after the stop only if the status was read before it.
LateBounded(q) ==
  /\ late[q] <= Begun(q)
  /\ row[q].status = "stopped" =>
       late[q] <= 1 /\ (worker[q].at = "beginning" => late[q] = 0)

ServerOK(q) == KeyBacked(q) /\ StopBacked(q) /\ LateBounded(q)

ServerInv == ExecutionTypeOK /\ \A q \in Queries : ServerOK(q)

\* An entry x of the store does not claim more than there is.
EntryOK(q, x) ==
  /\ x.state = "absent" => ~x.key
  /\ x.sync /\ x.state = "success" => x.results /= "none"
  /\ mode[q].async /\ x.key => row[q].key
  /\ ~mode[q].implicit /\ x.state = "stopped" => Ended(q)

\* Nor does the row r a poll has brought.
RowOK(q, r) ==
  /\ r.key => row[q].key
  /\ ~mode[q].implicit /\ r.status = "stopped" => Ended(q)

StoreInv ==
  /\ StoreTypeOK
  /\ \A q \in Queries : EntryOK(q, query[q])
  /\ \A q \in DOMAIN poll.rows : RowOK(q, poll.rows[q])

IInv == ServerInv /\ StoreInv

\* What the beliefs of the browser are about only grows.
Grows ==
  /\ mode' = mode
  /\ \A q \in Queries : (row[q].key => row'[q].key) /\ (Ended(q) => Ended(q)')
-----------------------------------------------------------------------------
(***************************************************************************)
(* The server.  A step of a query leaves the other queries alone.          *)
(***************************************************************************)
WorkerStates == [at : Stages, block : 1 .. Blocks, wrote : BOOLEAN]
RowStates == [status : Statuses, key : BOOLEAN, session : BOOLEAN]
StopStates == [at : {"none", "sent", "read", "cancelled", "ok", "refused"}, loaded : Statuses]

LEMMA ServerTyped ==
  ASSUME ServerInv, NEW q \in Queries
  PROVE  /\ mode[q].async \in BOOLEAN /\ mode[q].keeps \in BOOLEAN /\ mode[q].implicit \in BOOLEAN
         /\ row[q] \in RowStates /\ row[q].status \in Statuses /\ row[q].key \in BOOLEAN
         /\ worker[q] \in WorkerStates /\ worker[q].at \in Stages /\ worker[q].wrote \in BOOLEAN
         /\ worker[q].block \in 1 .. Blocks /\ worker[q].block \in Nat
         /\ stop[q] \in StopStates
         /\ late[q] \in 0 .. Blocks /\ late[q] \in Nat
         /\ Blocks \in Nat \ {0}
<1>1. mode[q] \in Modes /\ row[q] \in RowStates /\ worker[q] \in WorkerStates
      /\ stop[q] \in StopStates /\ late[q] \in 0 .. Blocks
  BY DEF ServerInv, ExecutionTypeOK, WorkerStates, RowStates, StopStates
<1> QED
  BY <1>1, BlocksAssumption DEF Modes, RowStates, WorkerStates, BlocksAssumption

\* The state of every other query is as it was.
Only(q) ==
  /\ mode' = mode
  /\ \A p \in Queries \ {q} :
       /\ row'[p] = row[p] /\ worker'[p] = worker[p] /\ stop'[p] = stop[p]
       /\ late'[p] = late[p] /\ post'[p] = post[p]
       /\ (p \in killed' <=> p \in killed) /\ (p \in stored' <=> p \in stored)

LEMMA ServerStep ==
  ASSUME ServerInv, NEW q \in Queries, Only(q), ExecutionTypeOK', ServerOK(q)',
         row[q].key => row'[q].key, Ended(q) => Ended(q)'
  PROVE  ServerInv' /\ Grows
<1>1. ASSUME NEW p \in Queries \ {q}
      PROVE  ServerOK(p)' /\ row'[p].key = row[p].key /\ (Ended(p) => Ended(p)')
  BY DEF ServerInv, ServerOK, KeyBacked, StopBacked, LateBounded, Begun, Ended, Only
<1> QED
  BY <1>1 DEF ServerInv, Grows, Only

LEMMA GoFacts ==
  ASSUME ServerInv, NEW q \in Queries, NEW stage \in Stages, Go(q, stage)
  PROVE  /\ worker' \in [Queries -> WorkerStates]
         /\ worker'[q].at = stage
         /\ worker'[q].block = worker[q].block /\ worker'[q].wrote = worker[q].wrote
         /\ \A p \in Queries \ {q} : worker'[p] = worker[p]
<1>1. worker \in [Queries -> WorkerStates]
  BY DEF ServerInv, ExecutionTypeOK, WorkerStates
<1>2. worker' = [worker EXCEPT ![q] = [worker[q] EXCEPT !.at = stage]]
  BY DEF Go
<1>3. [worker[q] EXCEPT !.at = stage] \in WorkerStates
  BY <1>1 DEF WorkerStates
<1> QED
  BY <1>1, <1>2, <1>3 DEF WorkerStates

LEMMA StatusFacts ==
  ASSUME ServerInv, NEW q \in Queries, NEW status \in Statuses, SetStatus(q, status)
  PROVE  /\ row' \in [Queries -> RowStates]
         /\ row'[q].status = status /\ row'[q].key = row[q].key
         /\ \A p \in Queries \ {q} : row'[p] = row[p]
<1>1. row \in [Queries -> RowStates]
  BY DEF ServerInv, ExecutionTypeOK, RowStates
<1>2. row' = [row EXCEPT ![q] = [row[q] EXCEPT !.status = status]]
  BY DEF SetStatus
<1>3. [row[q] EXCEPT !.status = status] \in RowStates
  BY <1>1 DEF RowStates
<1> QED
  BY <1>1, <1>2, <1>3 DEF RowStates

Answers == {"success", "stopped", "running", "error"}
Posts == {"none", "sent", "serving", "closed"} \cup Answers

LEMMA ReplyFacts ==
  ASSUME ServerInv, NEW q \in Queries, NEW answer \in Answers, Reply(q, answer)
  PROVE  /\ post' \in [Queries -> Posts]
         /\ post'[q] = post[q] \/ post'[q] = answer
         /\ \A p \in Queries \ {q} : post'[p] = post[p]
<1>1. post \in [Queries -> Posts]
  BY DEF ServerInv, ExecutionTypeOK, Posts, Answers
<1> QED
  BY <1>1 DEF Reply, Posts

\* The types of the next state, from those of the parts that change.
LEMMA StillTyped ==
  ASSUME ServerInv, mode' = mode, worker' \in [Queries -> WorkerStates],
         row' \in [Queries -> RowStates], post' \in [Queries -> Posts],
         killed' \subseteq Queries, stored' \subseteq Queries,
         stop' \in [Queries -> StopStates], stops' = stops,
         late' \in [Queries -> 0 .. Blocks]
  PROVE  ExecutionTypeOK'
BY DEF ServerInv, ExecutionTypeOK, WorkerStates, RowStates, StopStates, Posts, Answers

LEMMA NowTyped ==
  ASSUME ServerInv
  PROVE  /\ worker \in [Queries -> WorkerStates] /\ row \in [Queries -> RowStates]
         /\ post \in [Queries -> Posts] /\ stop \in [Queries -> StopStates]
         /\ late \in [Queries -> 0 .. Blocks]
         /\ killed \subseteq Queries /\ stored \subseteq Queries
BY DEF ServerInv, ExecutionTypeOK, WorkerStates, RowStates, StopStates, Posts, Answers

\* The worker goes on to another stage, and perhaps answers the client.
WorkMoves(q, stage) ==
  /\ worker[q].at /= "none"
  /\ stage \in Stages \ {"none"}
  /\ worker[q].at \in Over => stage \in Over
  /\ stage \in {"starting", "returning"} => ~mode[q].async
  /\ stage \in BeforeBlock => worker[q].at \in BeforeBlock
  /\ stage = "beginning" => row[q].status /= "stopped"

LEMMA MoveInv ==
  ASSUME ServerInv, NEW q \in Queries, NEW stage, NEW answer \in Answers,
         WorkMoves(q, stage), Go(q, stage), Reply(q, answer) \/ UNCHANGED post,
         answer = "success" => ~mode[q].async,
         UNCHANGED <<mode, row, killed, stored, stopVars, late>>
  PROVE  ServerInv' /\ Grows
<1>1. /\ worker' \in [Queries -> WorkerStates]
      /\ worker'[q].at = stage
      /\ worker'[q].block = worker[q].block /\ worker'[q].wrote = worker[q].wrote
      /\ \A p \in Queries \ {q} : worker'[p] = worker[p]
  BY GoFacts DEF WorkMoves
<1>2. /\ post' \in [Queries -> Posts]
      /\ post'[q] = post[q] \/ post'[q] = answer
      /\ \A p \in Queries \ {q} : post'[p] = post[p]
  BY ReplyFacts, NowTyped
<1>3. Only(q) /\ ExecutionTypeOK'
  BY <1>1, <1>2, NowTyped, StillTyped DEF Only, stopVars
<1>4. (row[q].key => row'[q].key) /\ (Ended(q) => Ended(q)')
  BY <1>1 DEF Ended, WorkMoves
<1>5. KeyBacked(q)'
  BY <1>1, <1>2 DEF ServerInv, ServerOK, KeyBacked, WorkMoves, Answers
<1>6. StopBacked(q)'
  BY <1>1, <1>4 DEF ServerInv, ServerOK, StopBacked, WorkMoves, stopVars
<1>7. LateBounded(q)'
  <2>1. late'[q] = late[q] /\ row'[q] = row[q]
    OBVIOUS
  <2>2. Begun(q)' \in Nat /\ Begun(q) \in Nat /\ Begun(q) <= Begun(q)'
    BY <1>1, ServerTyped DEF Begun, WorkMoves
  <2> QED
    BY <2>1, <2>2, <1>1, ServerTyped DEF ServerInv, ServerOK, LateBounded, WorkMoves
<1> QED
  BY <1>3, <1>4, <1>5, <1>6, <1>7, ServerStep DEF ServerOK

LEMMA MovesInv ==
  ASSUME ServerInv, NEW q \in Queries,
         \/ Reject(q) \/ Delegate(q) \/ RunInline(q) \/ SetupFails(q) \/ CheckStopped(q)
         \/ BlockRaises(q) \/ StoreRaises(q) \/ StoreNothing(q) \/ Return(q) \/ ReturnRaises(q)
  PROVE  ServerInv' /\ Grows
<1> DEFINE Same == UNCHANGED <<mode, row, killed, stored, stopVars, late>>
<1> USE DEF At
<1>0. Answers = {"success", "stopped", "running", "error"}
  BY DEF Answers
<1>1. CASE Reject(q)
  <2>1. Go(q, "done") /\ Reply(q, "error") /\ Same
    BY <1>1 DEF Reject
  <2>2. WorkMoves(q, "done")
    BY <1>1 DEF Reject, WorkMoves, Over, BeforeBlock, Stages
  <2> QED
    BY <1>0, <2>1, <2>2, MoveInv
<1>2. CASE Delegate(q)
  <2>1. Go(q, "queued") /\ Reply(q, "running") /\ Same
    BY <1>2 DEF Delegate
  <2>2. WorkMoves(q, "queued")
    BY <1>2 DEF Delegate, WorkMoves, Over, BeforeBlock, Stages
  <2> QED
    BY <1>0, <2>1, <2>2, MoveInv
<1>3. CASE RunInline(q)
  <2>1. Go(q, "starting") /\ UNCHANGED post /\ Same
    BY <1>3 DEF RunInline
  <2>2. WorkMoves(q, "starting")
    BY <1>3 DEF RunInline, WorkMoves, Over, BeforeBlock, Stages
  <2> QED
    BY <1>0, <2>1, <2>2, MoveInv
<1>4. CASE SetupFails(q)
  <2>1. Go(q, "failing") /\ UNCHANGED post /\ Same
    BY <1>4 DEF SetupFails
  <2>2. WorkMoves(q, "failing")
    BY <1>4 DEF SetupFails, WorkMoves, Over, BeforeBlock, Stages
  <2> QED
    BY <1>0, <2>1, <2>2, MoveInv
<1>5. CASE CheckStopped(q)
  <2>1. CASE row[q].status = "stopped"
    <3>1. Go(q, "done") /\ Reply(q, "stopped") /\ Same
      BY <1>5, <2>1 DEF CheckStopped
    <3>2. WorkMoves(q, "done")
      BY <1>5 DEF CheckStopped, WorkMoves, Over, BeforeBlock, Stages
    <3> QED
      BY <1>0, <3>1, <3>2, MoveInv
  <2>2. CASE row[q].status /= "stopped"
    <3>1. Go(q, "beginning") /\ UNCHANGED post /\ Same
      BY <1>5, <2>2 DEF CheckStopped
    <3>2. WorkMoves(q, "beginning")
      BY <1>5, <2>2 DEF CheckStopped, WorkMoves, Over, BeforeBlock, Stages
    <3> QED
      BY <1>0, <3>1, <3>2, MoveInv
  <2> QED
    BY <2>1, <2>2
<1>6. CASE BlockRaises(q)
  <2>1. CASE row[q].status = "stopped"
    <3>1. Go(q, "done") /\ Reply(q, "stopped") /\ Same
      BY <1>6, <2>1 DEF BlockRaises
    <3>2. WorkMoves(q, "done")
      BY <1>6 DEF BlockRaises, WorkMoves, Over, BeforeBlock, Stages
    <3> QED
      BY <1>0, <3>1, <3>2, MoveInv
  <2>2. CASE row[q].status /= "stopped"
    <3>1. Go(q, "failing") /\ UNCHANGED post /\ Same
      BY <1>6, <2>2 DEF BlockRaises
    <3>2. WorkMoves(q, "failing")
      BY <1>6, <2>2 DEF BlockRaises, WorkMoves, Over, BeforeBlock, Stages
    <3> QED
      BY <1>0, <3>1, <3>2, MoveInv
  <2> QED
    BY <2>1, <2>2
<1>7. CASE StoreRaises(q)
  <2>1. Go(q, "failing") /\ UNCHANGED post /\ Same
    BY <1>7 DEF StoreRaises
  <2>2. WorkMoves(q, "failing")
    BY <1>7 DEF StoreRaises, WorkMoves, Over, BeforeBlock, Stages
  <2> QED
    BY <1>0, <2>1, <2>2, MoveInv
<1>8. CASE StoreNothing(q)
  <2>1. Go(q, "committing") /\ UNCHANGED post /\ Same
    BY <1>8 DEF StoreNothing
  <2>2. WorkMoves(q, "committing")
    BY <1>8 DEF StoreNothing, WorkMoves, Over, BeforeBlock, Stages
  <2> QED
    BY <1>0, <2>1, <2>2, MoveInv
<1>9. CASE Return(q)
  <2>1. Go(q, "done") /\ Reply(q, "success") /\ Same /\ ~mode[q].async
    BY <1>9 DEF Return, ServerInv, ServerOK, KeyBacked
  <2>2. WorkMoves(q, "done")
    BY <1>9 DEF Return, WorkMoves, Over, BeforeBlock, Stages
  <2> QED
    BY <1>0, <2>1, <2>2, MoveInv
<1>10. CASE ReturnRaises(q)
  <2>1. Go(q, "failing") /\ UNCHANGED post /\ Same
    BY <1>10 DEF ReturnRaises
  <2>2. WorkMoves(q, "failing")
    BY <1>10 DEF ReturnRaises, WorkMoves, Over, BeforeBlock, Stages
  <2> QED
    BY <1>0, <2>1, <2>2, MoveInv
<1> QED
  BY <1>1, <1>2, <1>3, <1>4, <1>5, <1>6, <1>7, <1>8, <1>9, <1>10

LEMMA CreateInv ==
  ASSUME ServerInv, NEW q \in Queries, Create(q)
  PROVE  ServerInv' /\ Grows
<1>0. worker[q].at = "none" /\ post[q] = "sent"
  BY DEF Create, ServerInv, ServerOK, KeyBacked
<1>1. /\ worker' \in [Queries -> WorkerStates] /\ worker'[q].at = "validating"
      /\ worker'[q].block = worker[q].block /\ worker'[q].wrote = worker[q].wrote
      /\ \A p \in Queries \ {q} : worker'[p] = worker[p]
  BY GoFacts DEF Create, Stages
<1>2. /\ row' \in [Queries -> RowStates]
      /\ row'[q].status = "pending" /\ row'[q].key = row[q].key
      /\ \A p \in Queries \ {q} : row'[p] = row[p]
  BY StatusFacts DEF Create, Statuses
<1>3. post' \in [Queries -> Posts] /\ post'[q] = "serving"
      /\ \A p \in Queries \ {q} : post'[p] = post[p]
  BY NowTyped DEF Create, Posts
<1>4. Only(q) /\ ExecutionTypeOK'
  BY <1>1, <1>2, <1>3, NowTyped, StillTyped DEF Only, Create, stopVars
<1>5. (row[q].key => row'[q].key) /\ (Ended(q) => Ended(q)')
  BY <1>0, <1>2 DEF Ended, Over, Create
<1>6. ServerOK(q)'
  <2>1. KeyBacked(q)'
    BY <1>0, <1>1, <1>2, <1>3 DEF ServerInv, ServerOK, KeyBacked, Over, Create
  <2>2. StopBacked(q)'
    BY <1>0, <1>2, <1>5 DEF ServerInv, ServerOK, StopBacked, Create, stopVars
  <2>3. LateBounded(q)'
    BY <1>0, <1>1, <1>2 DEF ServerInv, ServerOK, LateBounded, Begun, BeforeBlock, Create
  <2> QED
    BY <2>1, <2>2, <2>3 DEF ServerOK
<1> QED
  BY <1>4, <1>5, <1>6, ServerStep

LEMMA StartInv ==
  ASSUME ServerInv, NEW q \in Queries, Start(q)
  PROVE  ServerInv' /\ Grows
<1>0. worker[q].at \in {"queued", "starting"}
  BY DEF Start, At
<1>1. /\ worker' \in [Queries -> WorkerStates] /\ worker'[q].at = "connecting"
      /\ worker'[q].block = worker[q].block /\ worker'[q].wrote = worker[q].wrote
      /\ \A p \in Queries \ {q} : worker'[p] = worker[p]
  BY GoFacts DEF Start, Stages
<1>2. /\ row' \in [Queries -> RowStates]
      /\ row'[q].status = "running" /\ row'[q].key = row[q].key
      /\ \A p \in Queries \ {q} : row'[p] = row[p]
  BY StatusFacts DEF Start, Statuses
<1>3. Only(q) /\ ExecutionTypeOK'
  BY <1>1, <1>2, NowTyped, StillTyped DEF Only, Start, stopVars
<1>4. (row[q].key => row'[q].key) /\ (Ended(q) => Ended(q)')
  BY <1>0, <1>2 DEF Ended, Over, Start
<1>5. ServerOK(q)'
  <2>1. KeyBacked(q)'
    BY <1>0, <1>1, <1>2 DEF ServerInv, ServerOK, KeyBacked, Over, Start
  <2>2. StopBacked(q)'
    BY <1>0, <1>2, <1>4 DEF ServerInv, ServerOK, StopBacked, Start, stopVars
  <2>3. LateBounded(q)'
    BY <1>0, <1>1, <1>2 DEF ServerInv, ServerOK, LateBounded, Begun, BeforeBlock, Start
  <2> QED
    BY <2>1, <2>2, <2>3 DEF ServerOK
<1> QED
  BY <1>3, <1>4, <1>5, ServerStep

LEMMA ConnectInv ==
  ASSUME ServerInv, NEW q \in Queries, Connect(q)
  PROVE  ServerInv' /\ Grows
<1>0. worker[q].at = "connecting"
  BY DEF Connect, At
<1>1. /\ worker' \in [Queries -> WorkerStates] /\ worker'[q].at = "checking"
      /\ worker'[q].block = worker[q].block /\ worker'[q].wrote = worker[q].wrote
      /\ \A p \in Queries \ {q} : worker'[p] = worker[p]
  BY GoFacts DEF Connect, Stages
<1>2. /\ row' \in [Queries -> RowStates]
      /\ row'[q].status = row[q].status /\ row'[q].key = row[q].key
      /\ \A p \in Queries \ {q} : row'[p] = row[p]
  <2>1. row' = [row EXCEPT ![q] = [row[q] EXCEPT !.session = ~mode[q].implicit]]
    BY DEF Connect
  <2>2. [row[q] EXCEPT !.session = ~mode[q].implicit] \in RowStates
    BY ServerTyped DEF RowStates
  <2> QED
    BY <2>1, <2>2, NowTyped, ServerTyped DEF RowStates
<1>3. Only(q) /\ ExecutionTypeOK'
  BY <1>1, <1>2, NowTyped, StillTyped DEF Only, Connect, stopVars
<1>4. (row[q].key => row'[q].key) /\ (Ended(q) => Ended(q)')
  BY <1>0, <1>2 DEF Ended, Over, Connect
<1>5. ServerOK(q)'
  <2>1. KeyBacked(q)'
    BY <1>0, <1>1, <1>2 DEF ServerInv, ServerOK, KeyBacked, Over, Connect
  <2>2. StopBacked(q)'
    BY <1>0, <1>2, <1>4 DEF ServerInv, ServerOK, StopBacked, Over, Connect, stopVars
  <2>3. LateBounded(q)'
    BY <1>0, <1>1, <1>2 DEF ServerInv, ServerOK, LateBounded, Begun, BeforeBlock, Connect
  <2> QED
    BY <2>1, <2>2, <2>3 DEF ServerOK
<1> QED
  BY <1>3, <1>4, <1>5, ServerStep

LEMMA BeginInv ==
  ASSUME ServerInv, NEW q \in Queries, Begin(q)
  PROVE  ServerInv' /\ Grows
<1>0. worker[q].at = "beginning"
  BY DEF Begin, At
<1>1. /\ worker' \in [Queries -> WorkerStates] /\ worker'[q].at = "executing"
      /\ worker'[q].block = worker[q].block /\ worker'[q].wrote = worker[q].wrote
      /\ \A p \in Queries \ {q} : worker'[p] = worker[p]
  BY GoFacts DEF Begin, Stages
<1>2. late[q] <= worker[q].block - 1 /\ worker[q].block \in 1 .. Blocks /\ late[q] \in Nat
  BY <1>0, ServerTyped DEF ServerInv, ServerOK, LateBounded, Begun, BeforeBlock
<1>3. /\ late' \in [Queries -> 0 .. Blocks]
      /\ late'[q] = IF row[q].status = "stopped" THEN late[q] + 1 ELSE late[q]
      /\ \A p \in Queries \ {q} : late'[p] = late[p]
  <2>1. late[q] + 1 \in 0 .. Blocks
    BY <1>2, BlocksAssumption DEF BlocksAssumption
  <2> QED
    BY <2>1, NowTyped DEF Begin
<1>4. Only(q) /\ ExecutionTypeOK'
  BY <1>1, <1>3, NowTyped, StillTyped DEF Only, Begin, stopVars
<1>5. (row[q].key => row'[q].key) /\ (Ended(q) => Ended(q)')
  BY <1>0 DEF Ended, Over, Begin
<1>6. ServerOK(q)'
  <2>1. KeyBacked(q)'
    BY <1>0, <1>1 DEF ServerInv, ServerOK, KeyBacked, Over, Begin
  <2>2. StopBacked(q)'
    BY <1>0, <1>5 DEF ServerInv, ServerOK, StopBacked, Over, Begin, stopVars
  <2>3. LateBounded(q)'
    <3>1. Begun(q)' = worker[q].block
      BY <1>1 DEF Begun, BeforeBlock
    <3>2. row[q].status = "stopped" => late[q] = 0
      BY <1>0 DEF ServerInv, ServerOK, LateBounded
    <3> QED
      BY <1>1, <1>2, <1>3, <3>1, <3>2 DEF LateBounded, Begin
  <2> QED
    BY <2>1, <2>2, <2>3 DEF ServerOK
<1> QED
  BY <1>4, <1>5, <1>6, ServerStep

LEMMA BlockEndsInv ==
  ASSUME ServerInv, NEW q \in Queries, BlockEnds(q)
  PROVE  ServerInv' /\ Grows
<1>0. worker[q].at = "executing" /\ worker[q].block \in 1 .. Blocks
      /\ late[q] <= worker[q].block /\ late[q] \in Nat /\ Blocks \in Nat
  BY ServerTyped DEF BlockEnds, At, ServerInv, ServerOK, LateBounded, Begun, BeforeBlock
<1>1. CASE worker[q].block = Blocks
  <2>1. Go(q, "storing") /\ UNCHANGED <<mode, row, killed, stored, stopVars, late, post>>
    BY <1>0, <1>1 DEF BlockEnds, Go
  <2>2. WorkMoves(q, "storing") /\ "error" \in Answers
    BY <1>0 DEF WorkMoves, Over, BeforeBlock, Stages, Answers
  <2> QED
    BY <2>1, <2>2, MoveInv
<1>2. CASE worker[q].block < Blocks
  <2> DEFINE w == [worker[q] EXCEPT !.at = "checking", !.block = @ + 1]
  <2>1. worker' = [worker EXCEPT ![q] = w]
    BY <1>2 DEF BlockEnds
  <2>2. w \in WorkerStates /\ w.at = "checking" /\ w.block = worker[q].block + 1
        /\ w.wrote = worker[q].wrote
    <3>1. worker[q].block + 1 \in 1 .. Blocks
      BY <1>0, <1>2
    <3> QED
      BY <3>1, ServerTyped DEF WorkerStates, Stages
  <2> HIDE DEF w
  <2>3. /\ worker' \in [Queries -> WorkerStates] /\ worker'[q] = w
        /\ \A p \in Queries \ {q} : worker'[p] = worker[p]
    BY <2>1, <2>2, NowTyped
  <2>4. Only(q) /\ ExecutionTypeOK'
    BY <2>3, NowTyped, StillTyped DEF Only, BlockEnds, stopVars
  <2>5. (row[q].key => row'[q].key) /\ (Ended(q) => Ended(q)')
    BY <1>0 DEF Ended, Over, BlockEnds
  <2>6. ServerOK(q)'
    <3>1. KeyBacked(q)'
      BY <1>0, <2>2, <2>3 DEF ServerInv, ServerOK, KeyBacked, Over, BlockEnds
    <3>2. StopBacked(q)'
      BY <1>0, <2>5 DEF ServerInv, ServerOK, StopBacked, Over, BlockEnds, stopVars
    <3>3. LateBounded(q)'
      <4>1. Begun(q)' = worker[q].block /\ worker'[q].at /= "beginning"
        BY <1>0, <2>2, <2>3 DEF Begun, BeforeBlock
      <4>2. late' = late /\ row' = row
        BY DEF BlockEnds
      <4> QED
        BY <1>0, <4>1, <4>2 DEF ServerInv, ServerOK, LateBounded
    <3> QED
      BY <3>1, <3>2, <3>3 DEF ServerOK
  <2> QED
    BY <2>4, <2>5, <2>6, ServerStep
<1> QED
  BY <1>0, <1>1, <1>2

LEMMA HandleQueryErrorInv ==
  ASSUME ServerInv, NEW q \in Queries, HandleQueryError(q)
  PROVE  ServerInv' /\ Grows
<1>0. worker[q].at = "failing" /\ "error" \in Answers
  BY DEF HandleQueryError, At, Answers
<1>1. /\ worker' \in [Queries -> WorkerStates] /\ worker'[q].at = "done"
      /\ worker'[q].block = worker[q].block /\ worker'[q].wrote = worker[q].wrote
      /\ \A p \in Queries \ {q} : worker'[p] = worker[p]
  BY GoFacts DEF HandleQueryError, Stages
<1>2. /\ row' \in [Queries -> RowStates]
      /\ row'[q].status = "failed" /\ row'[q].key = row[q].key
      /\ \A p \in Queries \ {q} : row'[p] = row[p]
  BY StatusFacts DEF HandleQueryError, Statuses
<1>3. /\ post' \in [Queries -> Posts]
      /\ post'[q] = post[q] \/ post'[q] = "error"
      /\ \A p \in Queries \ {q} : post'[p] = post[p]
  BY <1>0, ReplyFacts DEF HandleQueryError
<1>4. Only(q) /\ ExecutionTypeOK'
  BY <1>1, <1>2, <1>3, NowTyped, StillTyped DEF Only, HandleQueryError, stopVars
<1>5. (row[q].key => row'[q].key) /\ Ended(q)'
  BY <1>1, <1>2 DEF Ended, Over
<1>6. ServerOK(q)'
  <2>1. KeyBacked(q)'
    BY <1>0, <1>1, <1>2, <1>3 DEF ServerInv, ServerOK, KeyBacked, Over, HandleQueryError
  <2>2. StopBacked(q)'
    BY <1>1, <1>2, <1>5 DEF ServerInv, ServerOK, StopBacked, Over, HandleQueryError, stopVars
  <2>3. LateBounded(q)'
    BY <1>0, <1>1, <1>2 DEF ServerInv, ServerOK, LateBounded, Begun, BeforeBlock, HandleQueryError
  <2> QED
    BY <2>1, <2>2, <2>3 DEF ServerOK
<1> QED
  BY <1>4, <1>5, <1>6, ServerStep

LEMMA StoreResultsInv ==
  ASSUME ServerInv, NEW q \in Queries, StoreResults(q)
  PROVE  ServerInv' /\ Grows
<1> DEFINE w == [worker[q] EXCEPT !.at = "committing", !.wrote = TRUE]
<1>0. worker[q].at = "storing"
  BY DEF StoreResults, At
<1>1. worker' = [worker EXCEPT ![q] = w]
  BY DEF StoreResults
<1>2. w \in WorkerStates /\ w.at = "committing" /\ w.block = worker[q].block
  BY ServerTyped DEF WorkerStates, Stages
<1> HIDE DEF w
<1>3. /\ worker' \in [Queries -> WorkerStates] /\ worker'[q] = w
      /\ \A p \in Queries \ {q} : worker'[p] = worker[p]
  BY <1>1, <1>2, NowTyped
<1>4. stored' = stored \cup {q}
  BY DEF StoreResults
<1>5. Only(q) /\ ExecutionTypeOK'
  BY <1>3, <1>4, NowTyped, StillTyped DEF Only, StoreResults, stopVars
<1>6. (row[q].key => row'[q].key) /\ (Ended(q) => Ended(q)')
  BY <1>0 DEF Ended, Over, StoreResults
<1>7. ServerOK(q)'
  <2>1. KeyBacked(q)'
    BY <1>0, <1>2, <1>3, <1>4 DEF ServerInv, ServerOK, KeyBacked, Over, StoreResults
  <2>2. StopBacked(q)'
    BY <1>0, <1>6 DEF ServerInv, ServerOK, StopBacked, Over, StoreResults, stopVars
  <2>3. LateBounded(q)'
    BY <1>0, <1>2, <1>3 DEF ServerInv, ServerOK, LateBounded, Begun, BeforeBlock, StoreResults
  <2> QED
    BY <2>1, <2>2, <2>3 DEF ServerOK
<1> QED
  BY <1>5, <1>6, <1>7, ServerStep

LEMMA StoreFailsInv ==
  ASSUME ServerInv, NEW q \in Queries, StoreFails(q)
  PROVE  ServerInv' /\ Grows
<1>0. worker[q].at = "storing" /\ "error" \in Answers
  BY DEF StoreFails, At, Answers
<1>1. CASE ~mode[q].async
  <2>1. Go(q, "committing") /\ UNCHANGED <<mode, row, killed, stored, stopVars, late, post>>
    BY <1>1 DEF StoreFails
  <2>2. WorkMoves(q, "committing")
    BY <1>0 DEF WorkMoves, Over, BeforeBlock, Stages
  <2> QED
    BY <1>0, <2>1, <2>2, MoveInv
<1>2. CASE mode[q].async
  <2>1. /\ worker' \in [Queries -> WorkerStates] /\ worker'[q].at = "failing"
        /\ worker'[q].block = worker[q].block /\ worker'[q].wrote = worker[q].wrote
        /\ \A p \in Queries \ {q} : worker'[p] = worker[p]
    BY <1>2, GoFacts DEF StoreFails, Stages
  <2>2. /\ row' \in [Queries -> RowStates]
        /\ row'[q].status = "failed" /\ row'[q].key = row[q].key
        /\ \A p \in Queries \ {q} : row'[p] = row[p]
    BY <1>2, StatusFacts DEF StoreFails, Statuses
  <2>3. Only(q) /\ ExecutionTypeOK'
    BY <2>1, <2>2, NowTyped, StillTyped DEF Only, StoreFails, stopVars
  <2>4. (row[q].key => row'[q].key) /\ Ended(q)'
    BY <2>1, <2>2 DEF Ended, Over
  <2>5. ServerOK(q)'
    <3>1. KeyBacked(q)'
      BY <1>0, <2>1, <2>2 DEF ServerInv, ServerOK, KeyBacked, Over, StoreFails
    <3>2. StopBacked(q)'
      BY <2>1, <2>2, <2>4 DEF ServerInv, ServerOK, StopBacked, Over, StoreFails, stopVars
    <3>3. LateBounded(q)'
      BY <1>0, <2>1, <2>2 DEF ServerInv, ServerOK, LateBounded, Begun, BeforeBlock, StoreFails
    <3> QED
      BY <3>1, <3>2, <3>3 DEF ServerOK
  <2> QED
    BY <2>3, <2>4, <2>5, ServerStep
<1> QED
  BY <1>1, <1>2

LEMMA CommitSuccessInv ==
  ASSUME ServerInv, NEW q \in Queries, CommitSuccess(q)
  PROVE  ServerInv' /\ Grows
<1> DEFINE stage == IF mode[q].async THEN "done" ELSE "returning"
<1>0. worker[q].at = "committing" /\ Go(q, stage)
  BY DEF CommitSuccess, At
<1>1. stage \in Stages /\ stage \in Over /\ stage \notin BeforeBlock
      /\ (stage = "returning" => ~mode[q].async) /\ stage \notin {"none", "starting", "beginning"}
  BY DEF Stages, Over, BeforeBlock
<1> HIDE DEF stage
<1>2. /\ worker' \in [Queries -> WorkerStates] /\ worker'[q].at = stage
      /\ worker'[q].block = worker[q].block /\ worker'[q].wrote = worker[q].wrote
      /\ \A p \in Queries \ {q} : worker'[p] = worker[p]
  BY <1>0, <1>1, GoFacts
<1>3. /\ row' \in [Queries -> RowStates]
      /\ row'[q].status = "success" /\ row'[q].key = worker[q].wrote
      /\ \A p \in Queries \ {q} : row'[p] = row[p]
  <2>1. row' = [row EXCEPT ![q] = [row[q] EXCEPT !.status = "success", !.key = worker[q].wrote]]
    BY DEF CommitSuccess
  <2>2. [row[q] EXCEPT !.status = "success", !.key = worker[q].wrote] \in RowStates
    BY ServerTyped DEF RowStates, Statuses
  <2> QED
    BY <2>1, <2>2, NowTyped, ServerTyped DEF RowStates
<1>4. Only(q) /\ ExecutionTypeOK'
  BY <1>2, <1>3, NowTyped, StillTyped DEF Only, CommitSuccess, stopVars
<1>5. ~row[q].key /\ Ended(q)'
  BY <1>0, <1>1, <1>2 DEF ServerInv, ServerOK, KeyBacked, Ended, Over
<1>6. ServerOK(q)'
  <2>1. KeyBacked(q)'
    BY <1>0, <1>1, <1>2, <1>3 DEF ServerInv, ServerOK, KeyBacked, CommitSuccess
  <2>2. StopBacked(q)'
    BY <1>1, <1>2, <1>3, <1>5 DEF ServerInv, ServerOK, StopBacked, CommitSuccess, stopVars
  <2>3. LateBounded(q)'
    BY <1>0, <1>1, <1>2, <1>3 DEF ServerInv, ServerOK, LateBounded, Begun, BeforeBlock, CommitSuccess
  <2> QED
    BY <2>1, <2>2, <2>3 DEF ServerOK
<1> QED
  BY <1>4, <1>5, <1>6, ServerStep

LEMMA StopReadsInv ==
  ASSUME ServerInv, NEW q \in Queries, StopReads(q)
  PROVE  ServerInv' /\ Grows
<1> DEFINE at == CASE row[q].status = "none" -> "refused"
                   [] row[q].status \in {"failed", "success"} -> "ok"
                   [] mode[q].implicit \/ row[q].session -> "read"
                   [] OTHER -> "refused"
<1>1. at \in {"refused", "ok", "read"} /\ (at = "ok" => row[q].status \in {"failed", "success"})
  OBVIOUS
<1>2. stop' = [stop EXCEPT ![q] = [loaded |-> row[q].status, at |-> at]]
      /\ UNCHANGED <<mode, row, worker, killed, stored, stops, late, post>>
  BY DEF StopReads
<1> HIDE DEF at
<1>3. [loaded |-> row[q].status, at |-> at] \in StopStates
  BY <1>1, ServerTyped DEF StopStates
<1>4. stop' \in [Queries -> StopStates] /\ stop'[q].at = at
      /\ \A p \in Queries \ {q} : stop'[p] = stop[p]
  BY <1>2, <1>3, NowTyped
<1>5. Only(q) /\ ExecutionTypeOK'
  BY <1>2, <1>4, NowTyped, StillTyped DEF Only
<1>6. (row[q].key => row'[q].key) /\ (Ended(q) => Ended(q)')
  BY <1>2 DEF Ended
<1>7. ServerOK(q)'
  <2>1. KeyBacked(q)' /\ LateBounded(q)'
    BY <1>2 DEF ServerInv, ServerOK, KeyBacked, LateBounded, Begun
  <2>2. StopBacked(q)'
    BY <1>1, <1>2, <1>4 DEF ServerInv, ServerOK, StopBacked, Ended
  <2> QED
    BY <2>1, <2>2 DEF ServerOK
<1> QED
  BY <1>5, <1>6, <1>7, ServerStep

LEMMA AnswerFacts ==
  ASSUME ServerInv, NEW q \in Queries, NEW at \in {"cancelled", "ok"}, StopAnswers(q, at)
  PROVE  /\ stop' \in [Queries -> StopStates] /\ stop'[q].at = at
         /\ \A p \in Queries \ {q} : stop'[p] = stop[p]
<1>1. stop' = [stop EXCEPT ![q] = [stop[q] EXCEPT !.at = at]]
  BY DEF StopAnswers
<1>2. [stop[q] EXCEPT !.at = at] \in StopStates
  BY ServerTyped DEF StopStates
<1> QED
  BY <1>1, <1>2, NowTyped DEF StopStates

LEMMA StopCancelsInv ==
  ASSUME ServerInv, NEW q \in Queries, StopCancels(q)
  PROVE  ServerInv' /\ Grows
<1>1. /\ stop' \in [Queries -> StopStates] /\ stop'[q].at = "cancelled"
      /\ \A p \in Queries \ {q} : stop'[p] = stop[p]
  BY AnswerFacts DEF StopCancels
<1>2. /\ killed' = IF mode[q].implicit THEN killed ELSE killed \cup {q}
      /\ UNCHANGED <<mode, row, worker, stored, stops, late, post>>
  BY DEF StopCancels
<1>3. Only(q) /\ ExecutionTypeOK'
  BY <1>1, <1>2, NowTyped, StillTyped DEF Only
<1>4. (row[q].key => row'[q].key) /\ (Ended(q) => Ended(q)')
  BY <1>2 DEF Ended
<1>5. ServerOK(q)'
  <2>1. KeyBacked(q)' /\ LateBounded(q)'
    BY <1>2 DEF ServerInv, ServerOK, KeyBacked, LateBounded, Begun
  <2>2. StopBacked(q)'
    BY <1>1, <1>2 DEF ServerInv, ServerOK, StopBacked, Ended
  <2> QED
    BY <2>1, <2>2 DEF ServerOK
<1> QED
  BY <1>3, <1>4, <1>5, ServerStep

LEMMA StopCommitsInv ==
  ASSUME ServerInv, NEW q \in Queries, StopCommits(q)
  PROVE  ServerInv' /\ Grows
<1>0. stop[q].at = "cancelled" /\ UNCHANGED <<mode, worker, killed, stored, stops, post>>
  BY DEF StopCommits
<1>1. /\ stop' \in [Queries -> StopStates] /\ stop'[q].at = "ok"
      /\ \A p \in Queries \ {q} : stop'[p] = stop[p]
  BY AnswerFacts DEF StopCommits
<1>2. ~mode[q].implicit => q \in killed
  BY <1>0 DEF ServerInv, ServerOK, StopBacked
<1>3. CASE UNCHANGED <<row, late>>
  <2>1. Only(q) /\ ExecutionTypeOK'
    BY <1>0, <1>1, <1>3, NowTyped, StillTyped DEF Only
  <2>2. (row[q].key => row'[q].key) /\ (Ended(q) => Ended(q)')
    BY <1>0, <1>3 DEF Ended
  <2>3. ServerOK(q)'
    BY <1>0, <1>1, <1>2, <1>3
       DEF ServerInv, ServerOK, KeyBacked, LateBounded, Begun, StopBacked, Ended
  <2> QED
    BY <2>1, <2>2, <2>3, ServerStep
<1>4. CASE ~UNCHANGED <<row, late>>
  <2>1. /\ SetStatus(q, "stopped")
        /\ late' = IF row[q].status = "stopped" THEN late ELSE [late EXCEPT ![q] = 0]
    BY <1>4 DEF StopCommits
  <2>2. /\ row' \in [Queries -> RowStates]
        /\ row'[q].status = "stopped" /\ row'[q].key = row[q].key
        /\ \A p \in Queries \ {q} : row'[p] = row[p]
    BY <2>1, StatusFacts DEF Statuses
  <2>3. /\ late' \in [Queries -> 0 .. Blocks]
        /\ row[q].status = "stopped" => late'[q] = late[q]
        /\ row[q].status /= "stopped" => late'[q] = 0
        /\ \A p \in Queries \ {q} : late'[p] = late[p]
    <3>1. 0 \in 0 .. Blocks
      BY BlocksAssumption DEF BlocksAssumption
    <3> QED
      BY <2>1, <3>1, NowTyped
  <2>4. Only(q) /\ ExecutionTypeOK'
    BY <1>0, <1>1, <2>2, <2>3, NowTyped, StillTyped DEF Only
  <2>5. (row[q].key => row'[q].key) /\ (Ended(q) => Ended(q)')
    BY <1>0, <2>2 DEF Ended
  <2>6. KeyBacked(q)' /\ StopBacked(q)'
    BY <1>0, <1>1, <1>2, <2>2 DEF ServerInv, ServerOK, KeyBacked, StopBacked, Ended
  <2>7. LateBounded(q)'
    <3>1. Begun(q)' = Begun(q) /\ Begun(q) \in Nat
      BY <1>0, ServerTyped DEF Begun, BeforeBlock, Stages
    <3> QED
      BY <1>0, <2>2, <2>3, <3>1, ServerTyped DEF ServerInv, ServerOK, LateBounded
  <2> QED
    BY <2>4, <2>5, <2>6, <2>7, ServerStep DEF ServerOK
<1> QED
  BY <1>3, <1>4

\* Any step of the server for one query.
LEMMA ServerStepInv ==
  ASSUME ServerInv, NEW q \in Queries, Serve(q) \/ Work(q) \/ ServeStop(q)
  PROVE  ServerInv' /\ Grows
<1>1. CASE Serve(q)
  BY <1>1, CreateInv, MovesInv DEF Serve
<1>2. CASE Work(q)
  BY <1>2, StartInv, ConnectInv, BeginInv, BlockEndsInv, StoreResultsInv, StoreFailsInv,
     CommitSuccessInv, HandleQueryErrorInv, MovesInv DEF Work
<1>3. CASE ServeStop(q)
  BY <1>3, StopReadsInv, StopCancelsInv, StopCommitsInv DEF ServeStop
<1> QED
  BY <1>1, <1>2, <1>3

\* Sending a request, and taking an answer, changes the message only.
LEMMA PostInv ==
  ASSUME ServerInv, NEW q \in Queries, NEW answer,
         answer \in {"closed", "error"} \/ (answer = "sent" /\ post[q] = "none"),
         answer = "error" => post[q] /= "none", answer = "closed" => post[q] \in Answers,
         post' = [post EXCEPT ![q] = answer],
         UNCHANGED <<mode, row, worker, killed, stored, stopVars, late>>
  PROVE  ServerInv' /\ Grows
<1>1. /\ post' \in [Queries -> Posts] /\ post'[q] = answer
      /\ \A p \in Queries \ {q} : post'[p] = post[p]
  BY NowTyped DEF Posts, Answers
<1>2. Only(q) /\ ExecutionTypeOK'
  BY <1>1, NowTyped, StillTyped DEF Only, stopVars
<1>3. (row[q].key => row'[q].key) /\ (Ended(q) => Ended(q)')
  BY DEF Ended
<1>4. ServerOK(q)'
  <2>1. KeyBacked(q)'
    BY <1>1 DEF ServerInv, ServerOK, KeyBacked, Answers
  <2>2. StopBacked(q)' /\ LateBounded(q)'
    BY DEF ServerInv, ServerOK, StopBacked, LateBounded, Begun, Ended, stopVars
  <2> QED
    BY <2>1, <2>2 DEF ServerOK
<1> QED
  BY <1>2, <1>3, <1>4, ServerStep

LEMMA StopSentInv ==
  ASSUME ServerInv, NEW q \in Queries, NEW s \in StopStates, s.at \in {"none", "sent"},
         stop' = [stop EXCEPT ![q] = s], stops' \in [Queries -> 0 .. MaxStops],
         UNCHANGED <<mode, row, worker, killed, stored, late, post>>
  PROVE  ServerInv' /\ Grows
<1>1. /\ stop' \in [Queries -> StopStates] /\ stop'[q] = s
      /\ \A p \in Queries \ {q} : stop'[p] = stop[p]
  BY NowTyped
<1>2. Only(q) /\ ExecutionTypeOK'
  BY <1>1, NowTyped DEF Only, ServerInv, ExecutionTypeOK, StopStates
<1>3. (row[q].key => row'[q].key) /\ (Ended(q) => Ended(q)')
  BY DEF Ended
<1>4. ServerOK(q)'
  <2>1. KeyBacked(q)' /\ LateBounded(q)'
    BY DEF ServerInv, ServerOK, KeyBacked, LateBounded, Begun
  <2>2. StopBacked(q)'
    BY <1>1 DEF ServerInv, ServerOK, StopBacked, Ended
  <2> QED
    BY <2>1, <2>2 DEF ServerOK
<1> QED
  BY <1>2, <1>3, <1>4, ServerStep

LEMMA ServerStays ==
  ASSUME ServerInv, UNCHANGED executionVars
  PROVE  ServerInv' /\ Grows
<1>1. ExecutionTypeOK'
  BY DEF ServerInv, ExecutionTypeOK, executionVars
<1>2. ASSUME NEW q \in Queries
      PROVE  ServerOK(q)' /\ row'[q].key = row[q].key /\ (Ended(q) => Ended(q)')
  BY DEF ServerInv, ServerOK, KeyBacked, StopBacked, LateBounded, Begun, Ended, executionVars
<1> QED
  BY <1>1, <1>2 DEF ServerInv, Grows, executionVars
-----------------------------------------------------------------------------
(***************************************************************************)
(* The browser.  Each action of the reducer leaves entries that claim no   *)
(* more than there is; a render adds requests for results.                 *)
(***************************************************************************)
Entries == [state : States, results : {"none", "empty", "data"}, key : BOOLEAN, sync : BOOLEAN]
Requests == [Queries -> SUBSET (States \ {"absent"})]
RowAnswers == [status : {"pending", "running", "success", "failed", "stopped"}, key : BOOLEAN]

LEMMA IdleTyped ==
  Idle.at = "idle" /\ Idle.rows \in Rows /\ DOMAIN Idle.rows = {}
<1>1. DOMAIN Nothing = {} /\ Nothing \in [{} -> RowAnswers]
  BY DEF Nothing
<1>2. Nothing \in Rows
  BY <1>1 DEF Rows, RowAnswers
<1> QED
  BY <1>1, <1>2 DEF Idle

LEMMA StoreTyped ==
  ASSUME StoreInv
  PROVE  /\ query \in [Queries -> Entries] /\ fetch \in Requests
         /\ \A q \in Queries : query[q] \in Entries /\ EntryOK(q, query[q])
BY DEF StoreInv, StoreTypeOK, Entries, Requests

\* What holds of the browser holds after a step of the server.
LEMMA StoreStep ==
  ASSUME Grows, StoreTypeOK', \A q \in Queries : EntryOK(q, query'[q]),
         \A q \in DOMAIN poll'.rows : RowOK(q, poll'.rows[q])
  PROVE  StoreInv'
<1>1. DOMAIN poll'.rows \subseteq Queries
  BY DEF StoreTypeOK, Rows
<1>2. \A q \in Queries : EntryOK(q, query[q])'
  BY DEF Grows, EntryOK
<1>3. \A q \in DOMAIN poll'.rows : RowOK(q, poll.rows[q])'
  BY <1>1 DEF Grows, RowOK
<1> QED
  BY <1>2, <1>3 DEF StoreInv

LEMMA StoreStays ==
  ASSUME StoreInv, Grows, UNCHANGED storeVars
  PROVE  StoreInv'
<1>1. StoreTypeOK'
  BY DEF StoreInv, StoreTypeOK, storeVars
<1> QED
  BY <1>1, StoreStep DEF StoreInv, storeVars

LEMMA ShowFacts ==
  ASSUME StoreInv, NEW new, NEW open \in Requests, Show(new, open),
         \A q \in Queries : new[q] \in Entries /\ EntryOK(q, new[q])
  PROVE  /\ query' \in [Queries -> Entries] /\ fetch' \in Requests
         /\ \A q \in Queries : EntryOK(q, query'[q])
<1> DEFINE Asked == {q \in Queries : new[q].key /\ ~query[q].key}
           shown(q) == [new[q] EXCEPT !.state = "fetching"]
<1>1. /\ query' = [q \in Queries |-> IF q \in Asked THEN shown(q) ELSE new[q]]
      /\ fetch' = [q \in Queries |-> IF q \in Asked THEN open[q] \cup {new[q].state} ELSE open[q]]
  BY DEF Show
<1>2. ASSUME NEW q \in Queries
      PROVE  shown(q) \in Entries /\ EntryOK(q, shown(q))
  BY DEF Entries, States, EntryOK
<1>3. ASSUME NEW q \in Asked
      PROVE  new[q].state \in States \ {"absent"}
  BY DEF Entries, EntryOK
<1> HIDE DEF shown
<1>4. query' \in [Queries -> Entries] /\ \A q \in Queries : EntryOK(q, query'[q])
  BY <1>1, <1>2
<1>5. fetch' \in Requests
  BY <1>1, <1>3 DEF Requests
<1> QED
  BY <1>4, <1>5

\* The poller, told and cleaned have no part in what an entry claims.
LEMMA ShowInv ==
  ASSUME StoreInv, Grows, NEW new, NEW open \in Requests, Show(new, open),
         \A q \in Queries : new[q] \in Entries /\ EntryOK(q, new[q]),
         poll' = poll \/ poll' = Idle, told' \subseteq Queries, cleaned' \in BOOLEAN
  PROVE  StoreInv'
<1>1. /\ query' \in [Queries -> Entries] /\ fetch' \in Requests
      /\ \A q \in Queries : EntryOK(q, query'[q])
  BY ShowFacts
<1>2. poll'.at \in {"idle", "asked", "answered"} /\ poll'.rows \in Rows
      /\ \A q \in DOMAIN poll'.rows : RowOK(q, poll'.rows[q])
  BY IdleTyped DEF StoreInv, StoreTypeOK
<1>3. StoreTypeOK'
  BY <1>1, <1>2 DEF StoreTypeOK, Entries, Requests
<1> QED
  BY <1>1, <1>2, <1>3, StoreStep

LEMMA DispatchInv ==
  ASSUME StoreInv, Grows, NEW new, Dispatch(new),
         \A q \in Queries : new[q] \in Entries /\ EntryOK(q, new[q])
  PROVE  StoreInv'
<1>1. told \subseteq Queries /\ cleaned \in BOOLEAN
  BY DEF StoreInv, StoreTypeOK
<1> QED
  BY <1>1, ShowInv, StoreTyped DEF Dispatch

\* The reducer changes one entry.
LEMMA OneEntry ==
  ASSUME StoreInv, NEW q \in Queries, NEW x \in Entries, EntryOK(q, x)
  PROVE  \A p \in Queries : [query EXCEPT ![q] = x][p] \in Entries
                            /\ EntryOK(p, [query EXCEPT ![q] = x][p])
BY StoreTyped

LEMMA StopQueryOK ==
  ASSUME StoreInv, NEW q \in Queries, mode[q].implicit \/ Ended(q)
  PROVE  \A p \in Queries : StopQuery(q)[p] \in Entries /\ EntryOK(p, StopQuery(q)[p])
<1> DEFINE x == [query[q] EXCEPT !.state = "stopped", !.results = "empty"]
<1>1. StopQuery(q) = [query EXCEPT ![q] = x]
  BY StoreTyped DEF StopQuery
<1>2. x \in Entries /\ EntryOK(q, x)
  BY StoreTyped DEF Entries, States, EntryOK
<1> HIDE DEF x
<1> QED
  BY <1>1, <1>2, OneEntry

LEMMA QuerySuccessOK ==
  ASSUME StoreInv, NEW q \in Queries, NEW s, NEW keyed \in BOOLEAN,
         mode[q].async /\ keyed => row[q].key
  PROVE  \A p \in Queries : QuerySuccess(q, s, keyed)[p] \in Entries
                            /\ EntryOK(p, QuerySuccess(q, s, keyed)[p])
<1> DEFINE x == [query[q] EXCEPT !.state = "success", !.results = "data", !.key = @ \/ keyed]
<1>1. CASE s = "stopped"
  BY <1>1, StoreTyped DEF QuerySuccess
<1>2. CASE s /= "stopped"
  <2>1. QuerySuccess(q, s, keyed) = [query EXCEPT ![q] = x]
    BY <1>2, StoreTyped DEF QuerySuccess
  <2>2. x \in Entries /\ EntryOK(q, x)
    <3>1. query[q] \in Entries /\ EntryOK(q, query[q])
      BY StoreTyped
    <3>2. (query[q].key \/ keyed) \in BOOLEAN
      OBVIOUS
    <3>3. x \in Entries
      BY <3>1, <3>2 DEF Entries, States
    <3>4. x.state = "success" /\ x.results = "data" /\ (x.key => query[q].key \/ keyed)
      BY <3>1 DEF Entries
    <3> QED
      BY <3>1, <3>3, <3>4 DEF EntryOK
  <2> HIDE DEF x
  <2> QED
    BY <2>1, <2>2, OneEntry
<1> QED
  BY <1>1, <1>2

LEMMA FailedOK ==
  ASSUME NEW q \in Queries, NEW x \in Entries, NEW s, EntryOK(q, x)
  PROVE  Failed(x, s) \in Entries /\ EntryOK(q, Failed(x, s))
BY DEF Failed, Entries, States, EntryOK

LEMMA QueryFailedOK ==
  ASSUME StoreInv, NEW q \in Queries, NEW s
  PROVE  \A p \in Queries : QueryFailed(q, s)[p] \in Entries /\ EntryOK(p, QueryFailed(q, s)[p])
<1>1. QueryFailed(q, s) = [query EXCEPT ![q] = Failed(query[q], s)]
  BY DEF QueryFailed
<1>2. Failed(query[q], s) \in Entries /\ EntryOK(q, Failed(query[q], s))
  BY FailedOK, StoreTyped
<1> QED
  BY <1>1, <1>2, OneEntry

\* The guard on a synchronous query without results is what keeps EntryOK.
LEMMA RefreshedOK ==
  ASSUME NEW q \in Queries, NEW x \in Entries, EntryOK(q, x), NEW r \in RowAnswers, RowOK(q, r)
  PROVE  Refreshed(x, r) \in Entries /\ EntryOK(q, Refreshed(x, r))
<1> DEFINE s == IF r.status = "success" /\ x.state \in {"fetching", "success", "running"}
                THEN x.state ELSE r.status
           t == IF s = "success" /\ x.sync /\ x.results = "none" THEN "fetching" ELSE s
           y == [x EXCEPT !.key = r.key, !.state = t]
<1>1. CASE x.state \in {"stopped", "failed"}
  BY <1>1 DEF Refreshed
<1>2. CASE x.state \notin {"stopped", "failed"}
  <2>1. Refreshed(x, r) = y
    BY <1>2 DEF Refreshed
  <2>2. /\ t \in States \ {"absent"}
        /\ t = "success" /\ x.sync => x.results /= "none"
        /\ t = "stopped" => r.status = "stopped"
    BY <1>2 DEF States, RowAnswers, Entries
  <2> HIDE DEF t
  <2>3. y \in Entries
    BY <2>2 DEF Entries, RowAnswers
  <2>4. y.state = t /\ y.key = r.key /\ y.sync = x.sync /\ y.results = x.results
    BY DEF Entries
  <2> HIDE DEF y
  <2>5. EntryOK(q, y)
    BY <2>2, <2>4 DEF EntryOK, RowOK
  <2> QED
    BY <2>1, <2>3, <2>5
<1> QED
  BY <1>1, <1>2

LEMMA AbsentOK ==
  Absent \in Entries /\ \A q \in Queries : EntryOK(q, Absent)
BY DEF Absent, Entries, States, EntryOK

LEMMA ClearInactiveOK ==
  ASSUME StoreInv, NEW old
  PROVE  \A q \in Queries : ClearInactive(old)[q] \in Entries /\ EntryOK(q, ClearInactive(old)[q])
<1> SUFFICES ASSUME NEW q \in Queries
             PROVE  ClearInactive(old)[q] \in Entries /\ EntryOK(q, ClearInactive(old)[q])
  OBVIOUS
<1>1. query[q] \in Entries /\ EntryOK(q, query[q])
  BY StoreTyped
<1> DEFINE x == [query[q] EXCEPT !.state = "success"]
<1>2. ASSUME query[q].results = "data"
      PROVE  x \in Entries /\ EntryOK(q, x)
  BY <1>1, <1>2 DEF Entries, States, EntryOK
<1>3. \/ ClearInactive(old)[q] = Absent
      \/ query[q].results = "data" /\ ClearInactive(old)[q] = x
      \/ ClearInactive(old)[q] = query[q]
  BY DEF ClearInactive
<1> HIDE DEF x
<1> QED
  BY <1>1, <1>2, <1>3, AbsentOK
-----------------------------------------------------------------------------
(***************************************************************************)
(* The steps they take together.                                           *)
(***************************************************************************)
LEMMA RunQueryInv ==
  ASSUME IInv, NEW q \in Queries, RunQuery(q)
  PROVE  IInv'
<1>0. ServerInv /\ StoreInv
  BY DEF IInv
<1>1. ServerInv' /\ Grows
  BY <1>0, PostInv DEF RunQuery
<1> DEFINE x == [Absent EXCEPT !.state = "pending", !.sync = ~mode[q].async]
<1>2. Dispatch([query EXCEPT ![q] = x])
  BY DEF RunQuery, StartQuery
<1>3. x \in Entries /\ EntryOK(q, x)
  BY DEF Absent, Entries, States, EntryOK
<1> HIDE DEF x
<1>4. StoreInv'
  BY <1>0, <1>1, <1>2, <1>3, OneEntry, DispatchInv
<1> QED
  BY <1>1, <1>4 DEF IInv

LEMMA PostReturnsInv ==
  ASSUME IInv, NEW q \in Queries, PostReturns(q)
  PROVE  IInv'
<1>0. ServerInv /\ StoreInv
  BY DEF IInv
<1>1. ServerInv' /\ Grows
  BY <1>0, PostInv DEF PostReturns, Answers
<1>2. CASE post[q] = "success"
  <2>1. ~mode[q].async /\ mode[q].keeps \in BOOLEAN
    BY <1>0, <1>2, ServerTyped DEF ServerInv, ServerOK, KeyBacked
  <2>2. Dispatch(QuerySuccess(q, "pending", mode[q].keeps))
    BY <1>2 DEF PostReturns
  <2> QED
    BY <1>0, <1>1, <2>1, <2>2, QuerySuccessOK, DispatchInv DEF IInv
<1>3. CASE post[q] = "error"
  <2>1. Dispatch(QueryFailed(q, "pending"))
    BY <1>3 DEF PostReturns
  <2> QED
    BY <1>0, <1>1, <2>1, QueryFailedOK, DispatchInv DEF IInv
<1>4. CASE post[q] \in {"stopped", "running"}
  BY <1>0, <1>1, <1>4, StoreStays DEF PostReturns, IInv
<1> QED
  BY <1>2, <1>3, <1>4 DEF PostReturns

LEMMA StopInv ==
  ASSUME IInv, NEW q \in Queries, UserStops(q) \/ StopReturns(q) \/ StopUnheard(q)
  PROVE  IInv'
<1> DEFINE None == [at |-> "none", loaded |-> "none"]
<1>0. ServerInv /\ StoreInv /\ stops \in [Queries -> 0 .. MaxStops] /\ MaxStops \in Nat
  BY BlocksAssumption DEF IInv, ServerInv, ExecutionTypeOK, BlocksAssumption
<1>1. None \in StopStates /\ None.at = "none"
  BY DEF StopStates, Statuses
<1>2. CASE UserStops(q)
  <2> DEFINE s == [stop[q] EXCEPT !.at = "sent"]
  <2>1. s \in StopStates /\ s.at = "sent"
    BY <1>0, ServerTyped DEF StopStates
  <2>2. stop' = [stop EXCEPT ![q] = s] /\ UNCHANGED <<mode, row, worker, killed, stored, late, post>>
        /\ UNCHANGED storeVars
    BY <1>2 DEF UserStops
  <2> HIDE DEF s
  <2>3. stops' \in [Queries -> 0 .. MaxStops]
    <3>1. stops[q] + 1 \in 0 .. MaxStops
      BY <1>0, <1>2 DEF UserStops
    <3> QED
      BY <1>0, <1>2, <3>1 DEF UserStops
  <2> QED
    BY <1>0, <2>1, <2>2, <2>3, StopSentInv, StoreStays DEF IInv
<1> HIDE DEF None
<1>3. ASSUME StopReturns(q) \/ StopUnheard(q)
      PROVE  ServerInv' /\ Grows
  <2>1. /\ stop' = [stop EXCEPT ![q] = None] /\ stops' = stops
        /\ UNCHANGED <<mode, row, worker, killed, stored, late, post>>
    BY <1>3 DEF StopReturns, StopUnheard, None
  <2> QED
    BY <1>0, <1>1, <2>1, StopSentInv
<1>4. CASE StopReturns(q) /\ stop[q].at = "ok"
  <2>1. mode[q].implicit \/ Ended(q)
    BY <1>0, <1>4 DEF ServerInv, ServerOK, StopBacked
  <2>2. Dispatch(StopQuery(q))
    BY <1>4 DEF StopReturns
  <2> QED
    BY <1>0, <1>3, <1>4, <2>1, <2>2, StopQueryOK, DispatchInv DEF IInv
<1>5. CASE StopUnheard(q) \/ (StopReturns(q) /\ stop[q].at /= "ok")
  BY <1>0, <1>3, <1>5, StoreStays DEF StopReturns, StopUnheard, IInv
<1> QED
  BY <1>2, <1>4, <1>5

LEMMA FetchInv ==
  ASSUME IInv, NEW q \in Queries, Fetching(q)
  PROVE  IInv'
<1>0. ServerInv /\ StoreInv /\ told \subseteq Queries /\ cleaned \in BOOLEAN
  BY DEF IInv, StoreInv, StoreTypeOK
<1>1. PICK s \in fetch[q] : Fetched(q, s) \/ NotFetched(q, s)
  BY DEF Fetching
<1>2. ServerInv' /\ Grows
  BY <1>0, <1>1, ServerStays DEF Fetched, NotFetched
<1> DEFINE open == [fetch EXCEPT ![q] = @ \ {s}]
<1>3. open \in Requests
  BY <1>0, StoreTyped DEF Requests
<1>4. UNCHANGED <<poll, told, cleaned>>
  BY <1>1 DEF Fetched, NotFetched, FetchReturns, FetchFails, FetchEnds
<1>5. CASE Fetched(q, s)
  <2>1. row[q].key /\ Show(QuerySuccess(q, s, TRUE), open)
    BY <1>5 DEF Fetched, FetchReturns, FetchEnds
  <2> HIDE DEF open
  <2> QED
    BY <1>0, <1>2, <1>3, <1>4, <2>1, QuerySuccessOK, ShowInv DEF IInv
<1>6. CASE NotFetched(q, s)
  <2>1. Show(QueryFailed(q, s), open)
    BY <1>6 DEF NotFetched, FetchFails, FetchEnds
  <2> HIDE DEF open
  <2> QED
    BY <1>0, <1>2, <1>3, <1>4, <2>1, QueryFailedOK, ShowInv DEF IInv
<1> QED
  BY <1>1, <1>5, <1>6

LEMMA PollInv ==
  ASSUME IInv, Poll
  PROVE  IInv'
<1> DEFINE answer(q) == [status |-> row[q].status, key |-> row[q].key]
           rows == [q \in Created |-> answer(q)]
<1>0. ServerInv /\ StoreInv
  BY DEF IInv
<1>1. ServerInv' /\ Grows
  BY <1>0, ServerStays DEF Poll
<1>2. poll' = [at |-> "answered", rows |-> rows] /\ UNCHANGED <<query, fetch, told, cleaned>>
  BY DEF Poll, PollAnswered
<1>3. ASSUME NEW q \in Created
      PROVE  answer(q) \in RowAnswers /\ RowOK(q, answer(q))
  <2>1. q \in Queries /\ row[q].status /= "none"
    BY DEF Created
  <2>2. row[q].status \in Statuses /\ row[q].key \in BOOLEAN
    BY <1>0, <2>1, ServerTyped
  <2>3. answer(q) \in RowAnswers
    BY <2>1, <2>2 DEF RowAnswers, Statuses
  <2>4. RowOK(q, answer(q))
    BY <1>0, <2>1 DEF RowOK, ServerInv, ServerOK, StopBacked, Ended
  <2> QED
    BY <2>3, <2>4
<1> HIDE DEF answer
<1>4. rows \in [Created -> RowAnswers] /\ Created \subseteq Queries
  BY <1>3 DEF Created
<1>5. rows \in Rows
  BY <1>4 DEF Rows, RowAnswers
<1>6. poll'.rows = rows /\ poll'.at = "answered" /\ DOMAIN rows = Created
  BY <1>2
<1>7. \A q \in DOMAIN poll'.rows : RowOK(q, poll'.rows[q])
  BY <1>3, <1>6
<1> HIDE DEF rows
<1>8. StoreTypeOK' /\ \A q \in Queries : EntryOK(q, query'[q])
  BY <1>0, <1>2, <1>5, <1>6 DEF StoreInv, StoreTypeOK
<1> QED
  BY <1>1, <1>7, <1>8, StoreStep DEF IInv

LEMMA RefreshInv ==
  ASSUME IInv, Refresh
  PROVE  IInv'
<1> DEFINE rows == poll.rows
           Reported == {q \in DOMAIN rows \ told : mode[q].async /\ rows[q].status = "failed"}
           entry(q) == IF q \in Reported THEN Failed(Refreshed(query[q], rows[q]), "failed")
                       ELSE IF q \in DOMAIN rows THEN Refreshed(query[q], rows[q])
                       ELSE query[q]
           new == [q \in Queries |-> entry(q)]
<1>0. ServerInv /\ StoreInv /\ told \subseteq Queries /\ cleaned \in BOOLEAN
  BY DEF IInv, StoreInv, StoreTypeOK
<1>1. ServerInv' /\ Grows
  BY <1>0, ServerStays DEF Refresh
<1>2. DOMAIN rows \subseteq Queries
      /\ \A q \in DOMAIN rows : rows[q] \in RowAnswers /\ RowOK(q, rows[q])
  BY <1>0 DEF StoreInv, StoreTypeOK, Rows, RowAnswers
<1>3. Show(new, fetch) /\ told' = told \cup Reported /\ poll' = Idle /\ cleaned' = cleaned
  <2> DEFINE async == [q \in Queries |-> mode[q].async]
  <2>1. Reported = {q \in DOMAIN rows \ told : async[q] /\ rows[q].status = "failed"}
    BY <1>2
  <2> QED
    BY <2>1 DEF Refresh, PollRefreshes
<1>4. ASSUME NEW q \in Queries
      PROVE  entry(q) \in Entries /\ EntryOK(q, entry(q))
  <2>1. query[q] \in Entries /\ EntryOK(q, query[q])
    BY <1>0, StoreTyped
  <2>2. ASSUME q \in DOMAIN rows
        PROVE  /\ Refreshed(query[q], rows[q]) \in Entries
               /\ EntryOK(q, Refreshed(query[q], rows[q]))
    BY <1>2, <2>1, <2>2, RefreshedOK
  <2>3. ASSUME q \in DOMAIN rows
        PROVE  /\ Failed(Refreshed(query[q], rows[q]), "failed") \in Entries
               /\ EntryOK(q, Failed(Refreshed(query[q], rows[q]), "failed"))
    BY <2>2, <2>3, FailedOK
  <2> QED
    BY <2>1, <2>2, <2>3
<1>5. Reported \subseteq Queries
  BY <1>2
<1> HIDE DEF entry, Reported
<1>6. \A q \in Queries : new[q] \in Entries /\ EntryOK(q, new[q])
  BY <1>4
<1> HIDE DEF new
<1>7. StoreInv'
  BY <1>0, <1>1, <1>3, <1>5, <1>6, ShowInv, StoreTyped
<1> QED
  BY <1>1, <1>7 DEF IInv

LEMMA PollerInv ==
  ASSUME IInv, Ask \/ Forget \/ PollError \/ Clean
  PROVE  IInv'
<1>0. ServerInv /\ StoreInv /\ told \subseteq Queries /\ cleaned \in BOOLEAN
  BY DEF IInv, StoreInv, StoreTypeOK
<1>1. ServerInv' /\ Grows
  BY <1>0, ServerStays DEF Ask, Forget, PollError, Clean
<1>2. CASE Ask \/ PollError
  <2>1. poll'.at \in {"asked", "idle"} /\ poll'.rows = Idle.rows
        /\ UNCHANGED <<query, fetch, told, cleaned>>
    BY <1>2 DEF Ask, PollError, PollAsks, PollFails, Idle
  <2>2. StoreTypeOK' /\ \A q \in Queries : EntryOK(q, query'[q])
    BY <1>0, <2>1, IdleTyped DEF StoreInv, StoreTypeOK
  <2> QED
    BY <1>1, <2>1, <2>2, IdleTyped, StoreStep DEF IInv
<1>3. CASE Forget
  <2>1. PICK old \in SUBSET Queries : PollFindsNone(old)
    BY <1>3 DEF Forget
  <2> QED
    BY <1>0, <1>1, <2>1, ClearInactiveOK, ShowInv, StoreTyped DEF PollFindsNone, IInv
<1>4. CASE Clean
  BY <1>0, <1>1, <1>4, ClearInactiveOK, ShowInv, StoreTyped DEF Clean, CleanOnce, IInv
<1> QED
  BY <1>2, <1>3, <1>4

LEMMA InitInv ==
  ASSUME Init
  PROVE  IInv
<1> USE DEF Init, ExecutionInit, StoreInit
<1>1. ExecutionTypeOK
  <2>1. 1 \in 1 .. Blocks /\ 0 \in 0 .. Blocks /\ 0 \in 0 .. MaxStops
    BY BlocksAssumption DEF BlocksAssumption
  <2> QED
    BY <2>1 DEF ExecutionTypeOK, Statuses, Stages
<1>2. ASSUME NEW q \in Queries
      PROVE  ServerOK(q)
  <2>1. /\ row[q].status = "none" /\ ~row[q].key /\ stop[q].at = "none" /\ late[q] = 0
        /\ worker[q].at = "none" /\ worker[q].block = 1 /\ ~worker[q].wrote /\ post[q] = "none"
    OBVIOUS
  <2>2. KeyBacked(q) /\ StopBacked(q)
    BY <2>1 DEF KeyBacked, StopBacked
  <2>3. LateBounded(q)
    BY <2>1 DEF LateBounded, Begun, BeforeBlock
  <2> QED
    BY <2>2, <2>3 DEF ServerOK
<1>3. \A q \in Queries : query[q] \in Entries /\ EntryOK(q, query[q])
  BY AbsentOK
<1>4. StoreTypeOK
  BY <1>3, IdleTyped DEF StoreTypeOK, Entries
<1>5. \A q \in DOMAIN poll.rows : RowOK(q, poll.rows[q])
  BY IdleTyped
<1> QED
  BY <1>1, <1>2, <1>3, <1>4, <1>5 DEF IInv, ServerInv, StoreInv

LEMMA NextInv ==
  ASSUME IInv, [Next]_vars
  PROVE  IInv'
<1>0. ServerInv /\ StoreInv
  BY DEF IInv
<1>1. ASSUME NEW q \in Queries,
             \/ RunQuery(q) \/ PostReturns(q) \/ PostLost(q) \/ Server(q)
             \/ UserStops(q) \/ StopReturns(q) \/ StopUnheard(q)
             \/ Fetching(q)
      PROVE  IInv'
  <2>1. CASE PostLost(q)
    BY <1>0, <2>1, PostInv, StoreStays DEF PostLost, IInv
  <2>2. CASE Server(q)
    BY <1>0, <2>2, ServerStepInv, StoreStays DEF Server, IInv
  <2> QED
    BY <1>1, <2>1, <2>2, RunQueryInv, PostReturnsInv, StopInv, FetchInv
<1>2. CASE UNCHANGED vars
  BY <1>0, <1>2, ServerStays, StoreStays DEF vars, IInv
<1> QED
  BY <1>1, <1>2, PollInv, RefreshInv, PollerInv DEF Next

LEMMA Invariance == Spec => []IInv
BY InitInv, NextInv, PTL DEF Spec
-----------------------------------------------------------------------------
\* Type correctness of the rows, the workers, the requests and the store.
THEOREM SqlLabTypeCorrect == Spec => []TypeOK
<1>1. IInv => TypeOK
  BY DEF IInv, ServerInv, StoreInv, TypeOK
<1> QED
  BY <1>1, Invariance, PTL

\* execute_sql_statements begins at most one block after the row says
\* stopped, however long the script and however often it is stopped.
THEOREM StopBoundsTheWork == Spec => []OneBlockAfterStop
<1>1. IInv => OneBlockAfterStop
  BY DEF IInv, ServerInv, ServerOK, LateBounded, OneBlockAfterStop
<1> QED
  BY <1>1, Invariance, PTL

\* A results key in a row, and the key of an asynchronous query in the store
\* of the tab, lead to results in the backend.
THEOREM KeysAreBacked == Spec => []KeyLeadsToResults
<1>1. IInv => KeyLeadsToResults
  BY DEF IInv, ServerInv, ServerOK, KeyBacked, StoreInv, EntryOK, KeyLeadsToResults
<1> QED
  BY <1>1, Invariance, PTL

\* However polls and answers cross, the reducer shows no synchronous query as
\* a success before it has results.
THEOREM SyncSuccessIsShownWithResults == Spec => []SyncSuccessHasResults
<1>1. IInv => SyncSuccessHasResults
  BY DEF IInv, StoreInv, EntryOK, SyncSuccessHasResults
<1> QED
  BY <1>1, Invariance, PTL

\* What the tab shows as stopped is over or has lost its session, unless the
\* engine cancels implicitly.
THEOREM StoppedIsOver == Spec => []StopEndsTheWork
<1>1. IInv => StopEndsTheWork
  BY DEF IInv, StoreInv, EntryOK, Ended, Over, StopEndsTheWork
<1> QED
  BY <1>1, Invariance, PTL
=============================================================================
