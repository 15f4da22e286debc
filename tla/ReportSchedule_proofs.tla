----------------------- MODULE ReportSchedule_proofs -----------------------
(***************************************************************************)
(* The alerts and reports, for every number of executions, grace period    *)
(* and working timeout: the state machine is type correct, WORKING keeps   *)
(* the bodies of an alert apart, and the grace period is kept.             *)
(*                                                                         *)
(* Nothing but last_state coordinates two executions, and each of them     *)
(* acts on a copy.  The argument is about who may believe what: as long as *)
(* no execution has concluded on a state it had not seen, an execution     *)
(* that has missed nothing knows the state, and the body that is not too   *)
(* old is the only one that has missed nothing.                            *)
(***************************************************************************)
EXTENDS ReportSchedule, TLAPS

Calm == kind = "alert" /\ ~raced

\* Only the time spent in a body counts.
AgesCount == \A e \in Executions : exec[e].at \notin Body => exec[e].age = 0

\* What an execution knows that has missed nothing: the state it has loaded
\* is the state; once it has begun, the state is one that it has written.
Knows(e) ==
  exec[e].missed = {} =>
    /\ exec[e].at = "loaded" => exec[e].loaded = state
    /\ kind = "alert" /\ exec[e].at \notin {"idle", "loaded"} => state \in {"working", "error"}

KnowsAll == \A e \in Executions : Knows(e)

\* A body that has not outlived the working timeout.
Young(e) == exec[e].at \in Body /\ exec[e].age <= Timeout

\* Beside a young body there are only executions that know less, or that are
\* going to be refused.
Outsider(e) ==
  \/ exec[e].at = "idle"
  \/ exec[e].missed /= {}
  \/ exec[e].at = "loaded" /\ exec[e].loaded = "working"

\* A young body has missed nothing and is as old as the log that says so.
Alone(e) ==
  Young(e) =>
    /\ state = "working"
    /\ workingAge = exec[e].age
    /\ exec[e].missed = {}
    /\ \A f \in Executions \ {e} : Outsider(f)

YoungAlone == Calm => \A e \in Executions : Alone(e)

\* A recent success is remembered by the state.
SuccessRemembered == Calm => state \in {"success", "grace"} \/ successAge = Grace

IInv == TypeOK /\ AgesCount /\ KnowsAll /\ YoungAlone /\ SuccessRemembered
-----------------------------------------------------------------------------
(***************************************************************************)
(* What the operators on an execution do.                                  *)
(***************************************************************************)
Execution == [at : Stages, loaded : ReportStates, missed : SUBSET ReportStates,
              age : 0 .. Timeout + 1]

LEMMA ExecTyped ==
  ASSUME TypeOK, NEW e \in Executions
  PROVE  /\ exec[e] \in Execution
         /\ exec[e].at \in Stages /\ exec[e].loaded \in ReportStates
         /\ exec[e].missed \subseteq ReportStates
         /\ exec[e].age \in 0 .. Timeout + 1 /\ exec[e].age \in Nat
<1>1. exec[e] \in Execution
  BY DEF TypeOK, Execution
<1> QED
  BY <1>1, ReportAssumption DEF Execution, ReportAssumption

LEMMA IdleTyped == Idle \in Execution /\ Idle.at = "idle" /\ Idle.age = 0 /\ Idle.missed = {}
BY ReportAssumption DEF Idle, Execution, Stages, ReportStates, ReportAssumption

\* Moving on keeps what an execution has loaded and missed, and its age
\* inside the body.
LEMMA MovedFacts ==
  ASSUME NEW x \in Execution, NEW next \in Stages
  PROVE  /\ Moved(x, next) \in Execution
         /\ Moved(x, next).at = next
         /\ next \notin Body => Moved(x, next).age = 0
         /\ next \in Body => Moved(x, next).age = x.age
         /\ next /= "idle" => /\ Moved(x, next).loaded = x.loaded
                              /\ Moved(x, next).missed = x.missed
<1>1. CASE next = "idle"
  BY <1>1, IdleTyped DEF Moved, Body
<1>2. CASE next /= "idle"
  <2>1. Moved(x, next) = [x EXCEPT !.at = next, !.age = IF next \in Body THEN @ ELSE 0]
    BY <1>2 DEF Moved
  <2>2. 0 \in 0 .. Timeout + 1
    BY ReportAssumption DEF ReportAssumption
  <2> QED
    BY <1>2, <2>1, <2>2 DEF Execution
<1> QED
  BY <1>1, <1>2

\* A write: the writer knows the state, and whoever is under way has missed
\* it, unless it changes nothing.
LEMMA WrittenFacts ==
  ASSUME TypeOK, NEW e \in Executions, NEW s \in ReportStates, NEW next \in Stages,
         Written(e, s, next)
  PROVE  /\ exec' \in [Executions -> Execution]
         /\ state' = s
         /\ raced' = (raced \/ exec[e].missed /= {})
         /\ exec[e].at = "loaded" => exec[e].loaded /= s
         /\ exec'[e].at = next /\ exec'[e].missed = {}
         /\ next \in Body => exec'[e].age = exec[e].age
         /\ next \notin Body => exec'[e].age = 0
         /\ next /= "idle" => exec'[e].loaded = exec[e].loaded
         /\ \A f \in Executions \ {e} :
              /\ exec'[f].at = exec[f].at /\ exec'[f].loaded = exec[f].loaded
              /\ exec'[f].age = exec[f].age
              /\ exec[f].missed /= {} => exec'[f].missed /= {}
              /\ s = state => exec'[f].missed = exec[f].missed
              /\ s /= state => exec[f].at = "idle" \/ exec'[f].missed /= {}
<1> DEFINE x == [exec[e] EXCEPT !.missed = {}]
           y(f) == [exec[f] EXCEPT !.missed = @ \cup {s}]
           Same(f) == exec[f] = Idle \/ s = state
<1>1. x \in Execution /\ x.missed = {} /\ x.age = exec[e].age /\ x.loaded = exec[e].loaded
  BY ExecTyped DEF Execution
<1>2. /\ Moved(x, next) \in Execution /\ Moved(x, next).at = next
      /\ Moved(x, next).missed = {}
      /\ next \in Body => Moved(x, next).age = exec[e].age
      /\ next \notin Body => Moved(x, next).age = 0
      /\ next /= "idle" => Moved(x, next).loaded = exec[e].loaded
  <2>1. CASE next = "idle"
    <3>1. Moved(x, next) = Idle
      BY <2>1 DEF Moved
    <3> QED
      BY <2>1, <3>1, IdleTyped, <1>1, MovedFacts DEF Body
  <2>2. CASE next /= "idle"
    <3> HIDE DEF x
    <3> QED
      BY <2>2, <1>1, MovedFacts
  <2> QED
    BY <2>1, <2>2
<1>3. ASSUME NEW f \in Executions
      PROVE  /\ y(f) \in Execution /\ y(f).at = exec[f].at /\ y(f).loaded = exec[f].loaded
             /\ y(f).age = exec[f].age /\ s \in y(f).missed
  BY ExecTyped DEF Execution
<1>4. exec' = [f \in Executions |-> IF f = e THEN Moved(x, next)
                                    ELSE IF Same(f) THEN exec[f] ELSE y(f)]
  BY DEF Written
<1> HIDE DEF x, y
<1>5. exec' \in [Executions -> Execution]
  BY <1>2, <1>3, <1>4, ExecTyped
<1>6. exec'[e] = Moved(x, next)
  BY <1>4
<1>7. ASSUME NEW f \in Executions \ {e}
      PROVE  /\ exec'[f].at = exec[f].at /\ exec'[f].loaded = exec[f].loaded
             /\ exec'[f].age = exec[f].age
             /\ exec[f].missed /= {} => exec'[f].missed /= {}
             /\ s = state => exec'[f].missed = exec[f].missed
             /\ s /= state => exec[f].at = "idle" \/ exec'[f].missed /= {}
  <2>1. CASE Same(f)
    BY <1>4, <2>1, IdleTyped
  <2>2. CASE ~Same(f)
    BY <1>3, <1>4, <2>2
  <2> QED
    BY <2>1, <2>2
<1>8. state' = s /\ raced' = (raced \/ exec[e].missed /= {})
      /\ (exec[e].at = "loaded" => exec[e].loaded /= s)
  BY DEF Written
<1> QED
  BY <1>2, <1>5, <1>6, <1>7, <1>8

\* Replacing one execution leaves the others alone.
LEMMA OneMoves ==
  ASSUME TypeOK, NEW e \in Executions, NEW next \in Stages,
         exec' = [exec EXCEPT ![e] = Moved(@, next)]
  PROVE  /\ exec' \in [Executions -> Execution]
         /\ exec'[e].at = next
         /\ next \in Body => exec'[e].age = exec[e].age
         /\ next \notin Body => exec'[e].age = 0
         /\ next /= "idle" => /\ exec'[e].loaded = exec[e].loaded
                              /\ exec'[e].missed = exec[e].missed
         /\ \A f \in Executions \ {e} : exec'[f] = exec[f]
<1>1. exec \in [Executions -> Execution]
  BY DEF TypeOK, Execution
<1>2. exec'[e] = Moved(exec[e], next) /\ \A f \in Executions \ {e} : exec'[f] = exec[f]
  BY <1>1
<1>3. exec' \in [Executions -> Execution]
  BY <1>1, MovedFacts
<1> QED
  BY <1>1, <1>2, <1>3, MovedFacts

\* A log keeps the ages within their bounds.
LEMMA LogFacts ==
  ASSUME TypeOK, NEW s \in ReportStates, NEW message, CreateLog(s, message)
  PROVE  /\ successAge' \in 0 .. Grace /\ workingAge' \in 0 .. Timeout + 1
         /\ quiet' \in BOOLEAN
         /\ notice' \in [age : 0 .. Grace, before : BOOLEAN, since : BOOLEAN]
         /\ s /= "success" => successAge' = successAge
         /\ s /= "working" \/ message /= "none" => workingAge' = workingAge
         /\ s = "working" /\ message = "none" => workingAge' = 0
<1>1. 0 \in 0 .. Grace /\ 0 \in 0 .. Timeout + 1
  BY ReportAssumption DEF ReportAssumption
<1>2. quiet' \in BOOLEAN
  BY DEF CreateLog
<1>3. notice' \in [age : 0 .. Grace, before : BOOLEAN, since : BOOLEAN]
  <2>1. notice \in [age : 0 .. Grace, before : BOOLEAN, since : BOOLEAN] /\ quiet \in BOOLEAN
    BY DEF TypeOK
  <2>2. CASE message = "notified"
    BY <1>1, <2>1, <2>2 DEF CreateLog
  <2>3. CASE message /= "notified"
    <3>1. (notice.since \/ s \in Others) \in BOOLEAN
      OBVIOUS
    <3> QED
      BY <2>1, <2>3, <3>1 DEF CreateLog
  <2> QED
    BY <2>2, <2>3
<1> QED
  BY <1>1, <1>2, <1>3 DEF CreateLog, TypeOK
-----------------------------------------------------------------------------
(***************************************************************************)
(* The initial states, and the steps: an execution enters its body,        *)
(* concludes with a write, or goes on without one.                         *)
(***************************************************************************)
LEMMA InitInv == Init => IInv
<1> SUFFICES ASSUME Init
             PROVE  IInv
  OBVIOUS
<1>1. \A e \in Executions : exec[e] = Idle
  BY DEF Init
<1>2. TypeOK
  <2>1. exec \in [Executions -> Execution]
    BY IdleTyped DEF Init
  <2>2. 0 \in 0 .. MaxCrashes /\ Grace \in 0 .. Grace /\ Timeout + 1 \in 0 .. Timeout + 1
    BY ReportAssumption DEF ReportAssumption
  <2> QED
    BY <1>1, <2>1, <2>2, IdleTyped DEF TypeOK, Init, Execution, ReportStates
<1>3. AgesCount /\ KnowsAll /\ YoungAlone
  BY <1>1, IdleTyped DEF AgesCount, KnowsAll, Knows, YoungAlone, Alone, Young, Body
<1>4. SuccessRemembered
  BY DEF SuccessRemembered, Init
<1> QED
  BY <1>2, <1>3, <1>4 DEF IInv

\* An execution that may enter its body: it does not know of another one.
MayEnter(e) ==
  /\ exec[e].at = "loaded"
  /\ exec[e].loaded /= "working"
  /\ kind = "alert" /\ exec[e].loaded \in {"success", "grace"} => ~InGracePeriod

LEMMA EnterInv ==
  ASSUME IInv, NEW e \in Executions, MayEnter(e), Enter(e)
  PROVE  IInv'
<1> DEFINE next == IF kind = "alert" THEN "alert" ELSE "send"
<1>0. next \in Stages /\ next \in Body /\ next \notin {"idle", "loaded"}
      /\ (next = "alert" => kind = "alert") /\ "working" \in ReportStates
  BY DEF Stages, Body, ReportStates
<1> HIDE DEF next
<1>1. TypeOK /\ kind' = kind /\ crashes' = crashes
  BY DEF IInv, Enter, Update
<1>2. Written(e, "working", next)
  BY DEF Enter, Update, Kept, MayEnter, next
<1>3. CreateLog("working", "none")
  BY DEF Enter, Update
<1>4. state' = "working" /\ workingAge' = 0 /\ successAge' = successAge
  BY <1>0, <1>1, <1>2, <1>3, WrittenFacts, LogFacts
<1>5. exec'[e].at = next /\ exec'[e].missed = {} /\ exec'[e].age = 0
  <2>1. exec[e].age = 0
    BY DEF IInv, AgesCount, MayEnter, Body
  <2> QED
    BY <2>1, <1>0, <1>1, <1>2, WrittenFacts
<1>6. ASSUME NEW f \in Executions \ {e}
      PROVE  /\ exec'[f].at = exec[f].at /\ exec'[f].loaded = exec[f].loaded
             /\ exec'[f].age = exec[f].age
             /\ exec[f].missed /= {} => exec'[f].missed /= {}
             /\ "working" = state => exec'[f].missed = exec[f].missed
             /\ "working" /= state => exec[f].at = "idle" \/ exec'[f].missed /= {}
  BY <1>0, <1>1, <1>2, WrittenFacts
<1>7. TypeOK'
  <2>1. exec' \in [Executions -> Execution] /\ raced' \in BOOLEAN
    BY <1>0, <1>1, <1>2, WrittenFacts
  <2>2. \A f \in Executions : exec'[f].at = "alert" => kind' = "alert"
    BY <1>0, <1>1, <1>5, <1>6 DEF TypeOK
  <2> QED
    BY <1>0, <1>1, <1>3, <1>4, <2>1, <2>2, LogFacts DEF TypeOK, Execution
<1>8. AgesCount'
  BY <1>0, <1>5, <1>6 DEF IInv, AgesCount
<1>9. KnowsAll'
  <2>1. SUFFICES ASSUME NEW f \in Executions
                 PROVE  Knows(f)'
    BY DEF KnowsAll
  <2>2. CASE f = e
    BY <2>2, <1>0, <1>4, <1>5 DEF Knows
  <2>3. CASE f /= e
    BY <2>3, <1>1, <1>4, <1>6 DEF IInv, KnowsAll, Knows
  <2> QED
    BY <2>2, <2>3
<1>10. ASSUME Calm'
       PROVE  Calm /\ exec[e].missed = {} /\ state = exec[e].loaded /\ state /= "working"
  <2>1. ~raced /\ exec[e].missed = {} /\ kind = "alert"
    BY <1>10, <1>0, <1>1, <1>2, WrittenFacts DEF Calm
  <2> QED
    BY <2>1 DEF Calm, IInv, KnowsAll, Knows, MayEnter
<1>11. YoungAlone'
  <2>1. SUFFICES ASSUME Calm', NEW f \in Executions, Young(f)'
                 PROVE  Alone(f)'
    BY DEF YoungAlone, Alone
  <2>2. CASE f = e
    <3>1. \A g \in Executions \ {e} : Outsider(g)'
      BY <2>1, <1>6, <1>10 DEF Outsider
    <3> QED
      BY <2>2, <3>1, <1>4, <1>5 DEF Alone
  <2>3. CASE f /= e
    <3>1. Young(f)
      BY <2>1, <2>3, <1>6 DEF Young
    <3> QED
      BY <2>1, <3>1, <1>10 DEF IInv, YoungAlone, Alone
  <2> QED
    BY <2>2, <2>3
<1>12. SuccessRemembered'
  <2>1. SUFFICES ASSUME Calm'
                 PROVE  successAge = Grace
    BY <1>4 DEF SuccessRemembered
  <2>2. CASE state \in {"success", "grace"}
    <3>1. ~InGracePeriod
      BY <2>1, <2>2, <1>10 DEF MayEnter, Calm
    <3> QED
      BY <3>1, <1>1, ReportAssumption DEF TypeOK, InGracePeriod, ReportAssumption
  <2>3. CASE state \notin {"success", "grace"}
    BY <2>1, <2>3, <1>10 DEF IInv, SuccessRemembered
  <2> QED
    BY <2>2, <2>3
<1> QED
  BY <1>7, <1>8, <1>9, <1>11, <1>12 DEF IInv

\* An execution that concludes: it is refused, or it stores a result.
Concludes(e, s, next) ==
  /\ exec[e].at /= "idle"
  /\ exec[e].at = "loaded" =>
       /\ next = "idle"
       /\ \/ /\ exec[e].loaded = "working"
             /\ s = IF OnWorkingTimeout THEN "error" ELSE "working"
          \/ exec[e].loaded \in {"success", "grace"} /\ s = "grace"
  /\ exec[e].at /= "loaded" => s \in {"noop", "error", "success"}
  /\ next \in {"idle", "ask"}
  /\ next = "ask" => s = "error"

LEMMA ConcludeInv ==
  ASSUME IInv, NEW e \in Executions, NEW s, NEW next, NEW message,
         Concludes(e, s, next),
         s = "working" => message /= "none",
         Update(e, s, message, next)
  PROVE  IInv'
<1>0. s \in ReportStates /\ next \in Stages /\ next \notin Body /\ next \notin {"loaded", "alert"}
  BY DEF Concludes, ReportStates, Stages, Body
<1>1. TypeOK /\ kind' = kind /\ crashes' = crashes
  BY DEF IInv, Update
<1>2. CreateLog(s, message)
  BY DEF Update
<1>3. workingAge' = workingAge /\ (s /= "success" => successAge' = successAge)
  BY <1>0, <1>1, <1>2, LogFacts
<1>4. CASE Written(e, s, next)
  <2>1. /\ exec' \in [Executions -> Execution]
        /\ state' = s
        /\ exec[e].at = "loaded" => exec[e].loaded /= s
        /\ exec'[e].at = next /\ exec'[e].missed = {} /\ exec'[e].age = 0
    BY <1>0, <1>1, <1>4, WrittenFacts
  <2>2. ASSUME NEW f \in Executions \ {e}
        PROVE  /\ exec'[f].at = exec[f].at /\ exec'[f].loaded = exec[f].loaded
               /\ exec'[f].age = exec[f].age
               /\ s = state => exec'[f].missed = exec[f].missed
               /\ s /= state => exec[f].at = "idle" \/ exec'[f].missed /= {}
    BY <1>0, <1>1, <1>4, WrittenFacts
  <2>3. TypeOK'
    <3>1. \A f \in Executions : exec'[f].at = "alert" => kind' = "alert"
      BY <1>0, <1>1, <2>1, <2>2 DEF TypeOK
    <3>2. raced' \in BOOLEAN
      BY <1>4 DEF Written
    <3> QED
      BY <1>0, <1>1, <1>2, <2>1, <3>1, <3>2, LogFacts DEF TypeOK, Execution
  <2>4. AgesCount'
    BY <2>1, <2>2 DEF IInv, AgesCount
  <2>5. KnowsAll'
    <3>1. SUFFICES ASSUME NEW f \in Executions
                   PROVE  Knows(f)'
      BY DEF KnowsAll
    <3>2. CASE f = e
      BY <3>2, <1>0, <2>1 DEF Knows, Concludes
    <3>3. CASE f /= e
      BY <3>3, <1>1, <2>1, <2>2 DEF IInv, KnowsAll, Knows
    <3> QED
      BY <3>2, <3>3
  <2>6. ASSUME Calm'
        PROVE  Calm /\ exec[e].missed = {}
    BY <2>6, <1>0, <1>1, <1>4, WrittenFacts DEF Calm
  <2>7. YoungAlone'
    <3>1. SUFFICES ASSUME Calm', NEW f \in Executions, Young(f)'
                   PROVE  FALSE
      BY DEF YoungAlone, Alone
    <3>2. f /= e
      BY <3>1, <1>0, <2>1 DEF Young
    <3>3. Young(f) /\ Calm /\ exec[e].missed = {}
      BY <3>1, <3>2, <2>2, <2>6 DEF Young
    <3>4. Outsider(e) /\ workingAge <= Timeout
      BY <3>2, <3>3 DEF IInv, YoungAlone, Alone, Young
    <3>5. exec[e].at = "loaded" /\ exec[e].loaded = "working"
      BY <3>3, <3>4 DEF Outsider, Concludes
    <3>6. ~OnWorkingTimeout
      BY <3>4, <1>1, ReportAssumption DEF OnWorkingTimeout, TypeOK, ReportAssumption
    <3> QED
      BY <3>5, <3>6, <2>1 DEF Concludes
  <2>8. SuccessRemembered'
    <3>1. SUFFICES ASSUME Calm', s \notin {"success", "grace"}
                   PROVE  successAge = Grace
      BY <2>1, <1>3 DEF SuccessRemembered
    <3>2. Calm /\ exec[e].missed = {}
      BY <3>1, <2>6
    <3>3. state \in {"working", "error"}
      BY <3>1, <3>2 DEF IInv, KnowsAll, Knows, Concludes, Calm
    <3> QED
      BY <3>2, <3>3 DEF IInv, SuccessRemembered
  <2> QED
    BY <2>3, <2>4, <2>5, <2>7, <2>8 DEF IInv
<1>5. CASE Kept(e, s, next)
  <2>1. /\ exec' = [exec EXCEPT ![e] = Moved(@, next)]
        /\ state' = state
        /\ raced' = (raced \/ exec[e].at /= "loaded")
        /\ exec[e].at /= "loaded" => exec[e].missed /= {}
    BY <1>5 DEF Kept
  <2>2. /\ exec' \in [Executions -> Execution]
        /\ exec'[e].at = next /\ exec'[e].age = 0
        /\ next /= "idle" => exec'[e].missed = exec[e].missed
        /\ \A f \in Executions \ {e} : exec'[f] = exec[f]
    BY <1>0, <1>1, <2>1, OneMoves
  <2>3. TypeOK'
    <3>1. \A f \in Executions : exec'[f].at = "alert" => kind' = "alert"
      BY <1>0, <1>1, <2>2 DEF TypeOK
    <3> QED
      BY <1>0, <1>1, <1>2, <2>1, <2>2, <3>1, LogFacts DEF TypeOK, Execution
  <2>4. AgesCount'
    BY <2>2 DEF IInv, AgesCount
  <2>5. KnowsAll'
    <3>1. SUFFICES ASSUME NEW f \in Executions
                   PROVE  Knows(f)'
      BY DEF KnowsAll
    <3>2. CASE f = e
      BY <3>2, <1>0, <2>1, <2>2 DEF Knows, Concludes
    <3>3. CASE f /= e
      BY <3>3, <1>1, <2>1, <2>2 DEF IInv, KnowsAll, Knows
    <3> QED
      BY <3>2, <3>3
  <2>6. ASSUME Calm'
        PROVE  Calm /\ exec[e].at = "loaded" /\ s /= "success" /\ exec'[e].at = "idle"
    BY <2>6, <1>1, <2>1, <2>2 DEF Calm, Concludes
  <2>7. YoungAlone'
    <3>1. SUFFICES ASSUME Calm', NEW f \in Executions, Young(f)'
                   PROVE  Alone(f)'
      BY DEF YoungAlone, Alone
    <3>2. f /= e /\ exec'[f] = exec[f]
      BY <3>1, <2>2, <2>6 DEF Young, Body
    <3>3. Young(f)
      BY <3>1, <3>2 DEF Young
    <3>4. /\ state = "working" /\ workingAge = exec[f].age /\ exec[f].missed = {}
          /\ \A g \in Executions \ {f} : Outsider(g)
      BY <3>1, <3>3, <2>6 DEF IInv, YoungAlone, Alone
    <3>5. \A g \in Executions \ {f} : Outsider(g)'
      BY <3>1, <3>4, <2>2, <2>6 DEF Outsider
    <3> QED
      BY <3>2, <3>4, <3>5, <1>3, <2>1 DEF Alone
  <2>8. SuccessRemembered'
    BY <1>3, <2>1, <2>6 DEF IInv, SuccessRemembered
  <2> QED
    BY <2>3, <2>4, <2>5, <2>7, <2>8 DEF IInv
<1> QED
  BY <1>4, <1>5 DEF Update

\* A step without a write never enters the body of an alert.
GoesOn(e, next) ==
  /\ exec[e].at /= "idle"
  /\ exec[e].at = "loaded" => kind = "report"
  /\ next \in Stages \ {"loaded", "alert"}
  /\ next \in Body => exec[e].at \in Body \cup {"loaded"}

LEMMA GoInv ==
  ASSUME IInv, NEW e \in Executions, NEW next, GoesOn(e, next), Go(e, next)
  PROVE  IInv'
<1>0. next \in Stages
  BY DEF GoesOn
<1>1. TypeOK /\ UNCHANGED <<kind, state, logVars, raced, crashes>>
      /\ exec' = [exec EXCEPT ![e] = Moved(@, next)]
  BY DEF IInv, Go
<1>2. /\ exec' \in [Executions -> Execution]
      /\ exec'[e].at = next
      /\ next \in Body => exec'[e].age = exec[e].age
      /\ next \notin Body => exec'[e].age = 0
      /\ next /= "idle" => exec'[e].loaded = exec[e].loaded /\ exec'[e].missed = exec[e].missed
      /\ \A f \in Executions \ {e} : exec'[f] = exec[f]
  BY <1>0, <1>1, OneMoves
<1>3. TypeOK'
  <2>1. \A f \in Executions : exec'[f].at = "alert" => kind' = "alert"
    BY <1>1, <1>2 DEF TypeOK, GoesOn
  <2> QED
    BY <1>1, <1>2, <2>1 DEF TypeOK, Execution, logVars
<1>4. AgesCount'
  BY <1>2 DEF IInv, AgesCount
<1>5. KnowsAll'
  <2>1. SUFFICES ASSUME NEW f \in Executions
                 PROVE  Knows(f)'
    BY DEF KnowsAll
  <2>2. CASE f = e
    BY <2>2, <1>1, <1>2 DEF IInv, KnowsAll, Knows, GoesOn
  <2>3. CASE f /= e
    BY <2>3, <1>1, <1>2 DEF IInv, KnowsAll, Knows
  <2> QED
    BY <2>2, <2>3
<1>6. YoungAlone'
  <2>1. SUFFICES ASSUME Calm', NEW f \in Executions, Young(f)'
                 PROVE  Alone(f)'
    BY DEF YoungAlone, Alone
  <2>2. Calm /\ exec[e].at /= "loaded"
    BY <2>1, <1>1 DEF Calm, GoesOn
  <2>3. Young(f) /\ exec'[f].age = exec[f].age /\ exec'[f].missed = exec[f].missed
    BY <2>1, <2>2, <1>2 DEF Young, GoesOn, Body
  <2>4. /\ state = "working" /\ workingAge = exec[f].age /\ exec[f].missed = {}
        /\ \A g \in Executions \ {f} : Outsider(g)
    BY <2>2, <2>3 DEF IInv, YoungAlone, Alone
  <2>5. \A g \in Executions \ {f} : Outsider(g)'
    BY <2>2, <2>4, <1>2 DEF Outsider, GoesOn
  <2> QED
    BY <2>3, <2>4, <2>5, <1>1 DEF Alone, logVars
<1>7. SuccessRemembered'
  BY <1>1 DEF IInv, SuccessRemembered, Calm, logVars
<1> QED
  BY <1>3, <1>4, <1>5, <1>6, <1>7 DEF IInv

LEMMA LoadInv ==
  ASSUME IInv, NEW e \in Executions, Load(e)
  PROVE  IInv'
<1> DEFINE x == [at |-> "loaded", loaded |-> state, missed |-> {}, age |-> 0]
<1>1. TypeOK /\ UNCHANGED <<kind, state, logVars, raced, crashes>>
      /\ exec[e].at = "idle" /\ exec' = [exec EXCEPT ![e] = x]
  BY DEF IInv, Load
<1>2. x \in Execution /\ x.at = "loaded" /\ x.loaded = state /\ x.missed = {} /\ x.age = 0
  BY <1>1, ReportAssumption DEF TypeOK, Execution, Stages, ReportAssumption
<1> HIDE DEF x
<1>3. /\ exec' \in [Executions -> Execution] /\ exec'[e] = x
      /\ \A f \in Executions \ {e} : exec'[f] = exec[f]
  BY <1>1, <1>2 DEF TypeOK, Execution
<1>4. TypeOK'
  <2>1. \A f \in Executions : exec'[f].at = "alert" => kind' = "alert"
    BY <1>1, <1>2, <1>3 DEF TypeOK
  <2> QED
    BY <1>1, <1>3, <2>1 DEF TypeOK, Execution, logVars
<1>5. AgesCount' /\ KnowsAll'
  BY <1>1, <1>2, <1>3 DEF IInv, AgesCount, KnowsAll, Knows
<1>6. YoungAlone'
  <2>1. SUFFICES ASSUME Calm', NEW f \in Executions, Young(f)'
                 PROVE  Alone(f)'
    BY DEF YoungAlone, Alone
  <2>2. f /= e /\ exec'[f] = exec[f] /\ Young(f) /\ Calm
    BY <2>1, <1>1, <1>2, <1>3 DEF Young, Body, Calm
  <2>3. /\ state = "working" /\ workingAge = exec[f].age /\ exec[f].missed = {}
        /\ \A g \in Executions \ {f} : Outsider(g)
    BY <2>2 DEF IInv, YoungAlone, Alone
  <2>4. \A g \in Executions \ {f} : Outsider(g)'
    BY <2>3, <1>2, <1>3 DEF Outsider
  <2> QED
    BY <2>2, <2>3, <2>4, <1>1 DEF Alone, logVars
<1>7. SuccessRemembered'
  BY <1>1 DEF IInv, SuccessRemembered, Calm, logVars
<1> QED
  BY <1>4, <1>5, <1>6, <1>7 DEF IInv

LEMMA CrashInv ==
  ASSUME IInv, NEW e \in Executions, Crash(e)
  PROVE  IInv'
<1>1. TypeOK /\ UNCHANGED <<kind, state, logVars, raced>>
      /\ exec' = [exec EXCEPT ![e] = Idle]
  BY DEF IInv, Crash
<1>2. /\ exec' \in [Executions -> Execution] /\ exec'[e] = Idle
      /\ \A f \in Executions \ {e} : exec'[f] = exec[f]
  BY <1>1, IdleTyped DEF TypeOK, Execution
<1>3. TypeOK'
  <2>1. \A f \in Executions : exec'[f].at = "alert" => kind' = "alert"
    BY <1>1, <1>2, IdleTyped DEF TypeOK
  <2>2. crashes' \in 0 .. MaxCrashes
    BY <1>1, ReportAssumption DEF Crash, TypeOK, ReportAssumption
  <2> QED
    BY <1>1, <1>2, <2>1, <2>2 DEF TypeOK, Execution, logVars
<1>4. AgesCount' /\ KnowsAll'
  BY <1>1, <1>2, IdleTyped DEF IInv, AgesCount, KnowsAll, Knows
<1>5. YoungAlone'
  <2>1. SUFFICES ASSUME Calm', NEW f \in Executions, Young(f)'
                 PROVE  Alone(f)'
    BY DEF YoungAlone, Alone
  <2>2. f /= e /\ exec'[f] = exec[f] /\ Young(f) /\ Calm
    BY <2>1, <1>1, <1>2, IdleTyped DEF Young, Body, Calm
  <2>3. /\ state = "working" /\ workingAge = exec[f].age /\ exec[f].missed = {}
        /\ \A g \in Executions \ {f} : Outsider(g)
    BY <2>2 DEF IInv, YoungAlone, Alone
  <2>4. \A g \in Executions \ {f} : Outsider(g)'
    BY <2>3, <1>2, IdleTyped DEF Outsider
  <2> QED
    BY <2>2, <2>3, <2>4, <1>1 DEF Alone, logVars
<1>6. SuccessRemembered'
  BY <1>1 DEF IInv, SuccessRemembered, Calm, logVars
<1> QED
  BY <1>3, <1>4, <1>5, <1>6 DEF IInv

LEMMA OlderFacts ==
  ASSUME NEW most \in Nat, NEW age \in 0 .. most
  PROVE  /\ Older(age, most) \in 0 .. most
         /\ age < most => Older(age, most) = age + 1
         /\ age = most => Older(age, most) = age
BY DEF Older

\* Time ages a young body and the log that it has entered WORKING alike.
LEMMA TickInv ==
  ASSUME IInv, Tick
  PROVE  IInv'
<1> DEFINE x(e) == [exec[e] EXCEPT !.age = Older(@, Timeout + 1)]
<1>1. TypeOK /\ UNCHANGED <<kind, state, quiet, raced, crashes>>
  BY DEF IInv, Tick
<1>2. Grace \in Nat /\ Timeout \in Nat /\ Timeout + 1 \in Nat
  BY ReportAssumption DEF ReportAssumption
<1>3. ASSUME NEW e \in Executions
      PROVE  /\ x(e) \in Execution /\ x(e).at = exec[e].at /\ x(e).loaded = exec[e].loaded
             /\ x(e).missed = exec[e].missed
             /\ exec[e].age <= Timeout => x(e).age = exec[e].age + 1
             /\ exec[e].age > Timeout => x(e).age > Timeout
  <2>1. exec[e] \in Execution /\ exec[e].age \in 0 .. Timeout + 1
    BY <1>1, ExecTyped
  <2>2. x(e) \in Execution /\ x(e).at = exec[e].at /\ x(e).loaded = exec[e].loaded
        /\ x(e).missed = exec[e].missed /\ x(e).age = Older(exec[e].age, Timeout + 1)
    BY <1>2, <2>1, OlderFacts DEF Execution
  <2> HIDE DEF x
  <2> QED
    BY <1>2, <2>1, <2>2, OlderFacts
<1>4. exec' = [e \in Executions |-> IF exec[e].at \in Body THEN x(e) ELSE exec[e]]
  BY DEF Tick
<1> HIDE DEF x
<1>5. ASSUME NEW e \in Executions
      PROVE  /\ exec'[e] \in Execution /\ exec'[e].at = exec[e].at
             /\ exec'[e].loaded = exec[e].loaded /\ exec'[e].missed = exec[e].missed
             /\ exec[e].at \notin Body => exec'[e].age = exec[e].age
             /\ exec[e].at \in Body /\ exec[e].age <= Timeout => exec'[e].age = exec[e].age + 1
             /\ exec[e].at \in Body /\ exec[e].age > Timeout => exec'[e].age > Timeout
  BY <1>1, <1>3, <1>4, ExecTyped
<1>6. /\ successAge' \in 0 .. Grace /\ workingAge' \in 0 .. Timeout + 1
      /\ successAge = Grace => successAge' = Grace
      /\ workingAge <= Timeout => workingAge' = workingAge + 1
  <2>1. successAge \in 0 .. Grace /\ workingAge \in 0 .. Timeout + 1
        /\ successAge' = Older(successAge, Grace) /\ workingAge' = Older(workingAge, Timeout + 1)
    BY <1>1 DEF Tick, TypeOK
  <2> QED
    BY <1>2, <2>1, OlderFacts
<1>7. TypeOK'
  <2>1. exec' \in [Executions -> Execution]
    BY <1>4, <1>5
  <2>2. \A f \in Executions : exec'[f].at = "alert" => kind' = "alert"
    BY <1>1, <1>5 DEF TypeOK
  <2>3. notice' \in [age : 0 .. Grace, before : BOOLEAN, since : BOOLEAN]
    <3>1. notice \in [age : 0 .. Grace, before : BOOLEAN, since : BOOLEAN]
          /\ Older(notice.age, Grace) \in 0 .. Grace
      BY <1>1, <1>2, OlderFacts DEF TypeOK
    <3> QED
      BY <3>1 DEF Tick
  <2> QED
    BY <1>1, <1>6, <2>1, <2>2, <2>3 DEF TypeOK, Execution
<1>8. AgesCount' /\ KnowsAll'
  BY <1>1, <1>5 DEF IInv, AgesCount, KnowsAll, Knows
<1>9. YoungAlone'
  <2>1. SUFFICES ASSUME Calm', NEW f \in Executions, Young(f)'
                 PROVE  Alone(f)'
    BY DEF YoungAlone, Alone
  <2>2. exec[f].age \in Nat /\ exec'[f].age \in Nat
    BY <1>1, <1>5, <1>2, ExecTyped DEF Execution
  <2>3. Young(f) /\ Calm
    BY <2>1, <2>2, <1>1, <1>2, <1>5 DEF Young, Calm
  <2>4. /\ state = "working" /\ workingAge = exec[f].age /\ exec[f].missed = {}
        /\ \A g \in Executions \ {f} : Outsider(g)
    BY <2>3 DEF IInv, YoungAlone, Alone
  <2>5. workingAge' = exec'[f].age
    BY <2>3, <2>4, <1>5, <1>6 DEF Young
  <2>6. \A g \in Executions \ {f} : Outsider(g)'
    BY <2>4, <1>5 DEF Outsider
  <2> QED
    BY <2>4, <2>5, <2>6, <1>1, <1>5 DEF Alone
<1>10. SuccessRemembered'
  BY <1>1, <1>6 DEF IInv, SuccessRemembered, Calm
<1> QED
  BY <1>7, <1>8, <1>9, <1>10 DEF IInv

LEMMA StutterInv ==
  ASSUME IInv, UNCHANGED vars
  PROVE  IInv'
BY DEF IInv, TypeOK, AgesCount, KnowsAll, Knows, YoungAlone, Alone, Young, Outsider, Calm,
       SuccessRemembered, vars
-----------------------------------------------------------------------------
(***************************************************************************)
(* Every step of an execution is of one of the three kinds.                *)
(***************************************************************************)
LEMMA NextStatesInv ==
  ASSUME IInv, NEW e \in Executions,
         NextNotTriggered(e) \/ NextWorking(e) \/ NextSuccess(e)
  PROVE  IInv'
<1>1. CASE NextNotTriggered(e)
  <2>1. MayEnter(e) /\ Enter(e)
    BY <1>1 DEF NextNotTriggered, NotTriggered, At, MayEnter
  <2> QED
    BY <2>1, EnterInv
<1>2. CASE NextWorking(e)
  <2> DEFINE s == IF OnWorkingTimeout THEN "error" ELSE "working"
  <2>1. Concludes(e, s, "idle") /\ Update(e, s, "error", "idle")
    BY <1>2 DEF NextWorking, At, Concludes
  <2> HIDE DEF s
  <2> QED
    BY <2>1, ConcludeInv
<1>3. CASE NextSuccess(e)
  <2>1. exec[e].at = "loaded" /\ exec[e].loaded \in {"success", "grace"}
    BY <1>3 DEF NextSuccess, At
  <2>2. CASE kind = "alert" /\ InGracePeriod /\ Update(e, "grace", "error", "idle")
    <3>1. Concludes(e, "grace", "idle")
      BY <2>1 DEF Concludes
    <3> QED
      BY <2>2, <3>1, ConcludeInv
  <2>3. CASE kind = "alert" /\ ~InGracePeriod /\ Enter(e)
    BY <2>1, <2>3, EnterInv DEF MayEnter
  <2>4. CASE kind = "report" /\ Go(e, "send")
    <3>1. GoesOn(e, "send")
      BY <2>1, <2>4 DEF GoesOn, Stages, Body
    <3> QED
      BY <2>4, <3>1, GoInv
  <2> QED
    BY <1>3, <2>2, <2>3, <2>4 DEF NextSuccess
<1> QED
  BY <1>1, <1>2, <1>3

LEMMA StoreInv ==
  ASSUME IInv, NEW e \in Executions,
         NotTriggers(e) \/ Succeed(e) \/ Fail(e) \/ LogNotified(e) \/ LogUnnotified(e)
  PROVE  IInv'
<1> USE DEF At, Concludes
<1>1. CASE NotTriggers(e)
  <2>1. Concludes(e, "noop", "idle") /\ Update(e, "noop", "none", "idle")
    BY <1>1 DEF NotTriggers
  <2> QED
    BY <2>1, ConcludeInv
<1>2. CASE Succeed(e)
  <2>1. Concludes(e, "success", "idle") /\ Update(e, "success", "none", "idle")
    BY <1>2 DEF Succeed
  <2> QED
    BY <2>1, ConcludeInv
<1>3. CASE Fail(e)
  <2> DEFINE next == IF NotTriggered(e) THEN "ask" ELSE "idle"
  <2>1. Concludes(e, "error", next) /\ Update(e, "error", "error", next)
    BY <1>3 DEF Fail
  <2> HIDE DEF next
  <2> QED
    BY <2>1, ConcludeInv
<1>4. CASE LogNotified(e)
  <2>1. Concludes(e, "error", "idle") /\ Update(e, "error", "notified", "idle")
    BY <1>4 DEF LogNotified
  <2> QED
    BY <2>1, ConcludeInv
<1>5. CASE LogUnnotified(e)
  <2>1. Concludes(e, "error", "idle") /\ Update(e, "error", "error", "idle")
    BY <1>5 DEF LogUnnotified
  <2> QED
    BY <2>1, ConcludeInv
<1> QED
  BY <1>1, <1>2, <1>3, <1>4, <1>5

LEMMA SilentInv ==
  ASSUME IInv, NEW e \in Executions,
         \/ Triggers(e) \/ AlertFails(e) \/ Send(e) \/ SendFails(e)
         \/ AskErrorGrace(e) \/ Notify(e) \/ NotifyFails(e)
  PROVE  IInv'
<1>1. PICK next : GoesOn(e, next) /\ Go(e, next)
  BY DEF Triggers, AlertFails, Send, SendFails, AskErrorGrace, Notify, NotifyFails,
         At, GoesOn, Stages, Body
<1> QED
  BY <1>1, GoInv

LEMMA NextInv == IInv /\ [Next]_vars => IInv'
<1> SUFFICES ASSUME IInv, [Next]_vars
             PROVE  IInv'
  OBVIOUS
<1>1. ASSUME NEW e \in Executions, Load(e) \/ Step(e) \/ Crash(e)
      PROVE  IInv'
  BY <1>1, LoadInv, CrashInv, NextStatesInv, StoreInv, SilentInv DEF Step
<1>2. CASE Tick
  BY <1>2, TickInv
<1>3. CASE UNCHANGED vars
  BY <1>3, StutterInv
<1> QED
  BY <1>1, <1>2, <1>3 DEF Next

\* The inductive invariant holds in every reachable state.
LEMMA Invariance == Spec => []IInv
<1> QED
  BY InitInv, NextInv, PTL DEF Spec
-----------------------------------------------------------------------------
\* Every reachable state of a report schedule is well typed: ages stay within
\* what the code compares them with, and only an alert looks for a trigger.
THEOREM ReportTypeCorrect == Spec => []TypeOK
<1>1. IInv => TypeOK
  BY DEF IInv
<1> QED
  BY <1>1, Invariance, PTL

\* ReportWorkingState keeps the bodies of an alert apart, whatever number of
\* executions overlap, crash and time out.  Of two young bodies each would
\* have missed something, and neither can have.
THEOREM WorkingKeepsBodiesApart == Spec => []BodiesStayApart
<1>1. IInv => BodiesStayApart
  <2> SUFFICES ASSUME IInv, Calm, NEW e \in Executions, NEW f \in Executions, e /= f,
                      exec[e].at \in Body, exec[f].at \in Body
               PROVE  exec[e].age > Timeout \/ exec[f].age > Timeout
    BY DEF BodiesStayApart, Calm
  <2>1. exec[e].age \in Nat /\ exec[f].age \in Nat /\ Timeout \in Nat
    BY ExecTyped, ReportAssumption DEF IInv, ReportAssumption
  <2>2. ~(Young(e) /\ Young(f))
    BY DEF IInv, YoungAlone, Alone, Outsider, Body
  <2> QED
    BY <2>1, <2>2 DEF Young
<1> QED
  BY <1>1, Invariance, PTL

\* is_in_grace_period: an alert whose execution has missed nothing is not
\* sent again within the grace period of its last success.
THEOREM GracePeriodIsKept == Spec => []GraceIsKept
<1>1. IInv => GraceIsKept
  <2> SUFFICES ASSUME IInv, Calm, NEW e \in Executions,
                      exec[e].at = "sent", exec[e].missed = {}
               PROVE  ~InGracePeriod
    BY DEF GraceIsKept, Calm
  <2>1. state \in {"working", "error"}
    BY DEF IInv, KnowsAll, Knows, Calm
  <2>2. successAge = Grace /\ Grace \in Nat
    BY <2>1, ReportAssumption DEF IInv, SuccessRemembered, ReportAssumption
  <2> QED
    BY <2>2 DEF InGracePeriod
<1> QED
  BY <1>1, Invariance, PTL
=============================================================================
