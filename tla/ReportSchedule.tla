--------------------------- MODULE ReportSchedule ---------------------------
(***************************************************************************)
(* The executions of one alert or report (commands/report/execute.py): the *)
(* state machine over last_state, and the execution log from which the     *)
(* grace period, the grace period of errors and the working timeout are    *)
(* read.  Every change of the state is committed together with a log.      *)
(*                                                                         *)
(* Executions are Celery tasks the beat scheduler starts at the times of   *)
(* the crontab.  Nothing keeps two of them apart but the state WORKING,    *)
(* which is read when an execution begins and written later; an execution  *)
(* that dies leaves the state as it is.                                    *)
(*                                                                         *)
(* Of the log only what the queries of ReportScheduleDAO look at is kept,  *)
(* with ages that stop counting where they make no more difference.        *)
(***************************************************************************)
EXTENDS Naturals

CONSTANTS
  Executions,
  Grace,          \* grace_period
  Timeout,        \* working_timeout
  MaxCrashes

ASSUME ReportAssumption ==
  /\ Grace \in Nat \ {0}
  /\ Timeout \in Nat \ {0}
  /\ MaxCrashes \in Nat

VARIABLES
  kind,           \* alert or report
  state,          \* last_state
  successAge,     \* age of the last log with SUCCESS
  workingAge,     \* age of the last log that entered WORKING
  quiet,          \* the log has neither NOOP, SUCCESS nor GRACE
  notice,         \* the last log of an error notification
  exec,           \* the executions
  raced,          \* an execution has concluded on a state it had not seen
  crashes

vars == <<kind, state, successAge, workingAge, quiet, notice, exec, raced, crashes>>
logVars == <<successAge, workingAge, quiet, notice>>

ReportStates == {"noop", "working", "success", "grace", "error"}
Others == {"noop", "success", "grace"}

\* loaded is the state the execution began with; missed are the states that
\* others have written since the execution has loaded or written the state;
\* age is how long it has been in its body.
Stages == {"idle", "loaded", "alert", "send", "sent", "failed", "ask",
           "notify", "notified", "unnotified"}

Body == {"alert", "send", "sent"}

Idle == [at |-> "idle", loaded |-> "noop", missed |-> {}, age |-> 0]

TypeOK ==
  /\ kind \in {"alert", "report"}
  /\ state \in ReportStates
  /\ successAge \in 0 .. Grace
  /\ workingAge \in 0 .. Timeout + 1
  /\ quiet \in BOOLEAN
  /\ notice \in [age : 0 .. Grace, before : BOOLEAN, since : BOOLEAN]
  /\ exec \in [Executions -> [at : Stages, loaded : ReportStates, missed : SUBSET ReportStates,
                              age : 0 .. Timeout + 1]]
  /\ \A e \in Executions : exec[e].at = "alert" => kind = "alert"
  /\ raced \in BOOLEAN
  /\ crashes \in 0 .. MaxCrashes

Init ==
  /\ kind \in {"alert", "report"}
  /\ state = "noop"
  /\ successAge = Grace
  /\ workingAge = Timeout + 1
  /\ quiet = TRUE
  /\ notice = [age |-> Grace, before |-> FALSE, since |-> FALSE]
  /\ exec = [e \in Executions |-> Idle]
  /\ raced = FALSE
  /\ crashes = 0
-----------------------------------------------------------------------------
\* The log.

\* Mutant: a refusal counts as entering WORKING.
CreateLogForAny(s, message) ==
  /\ successAge' = IF s = "success" THEN 0 ELSE successAge
  /\ workingAge' = IF s = "working" THEN 0 ELSE workingAge
  /\ quiet' = (quiet /\ s \notin Others)
  /\ notice' = IF message = "notified" THEN [age |-> 0, before |-> ~quiet, since |-> FALSE]
               ELSE [notice EXCEPT !.since = @ \/ s \in Others]

\* create_log.  A log enters WORKING when it has no error message.
CreateLog(s, message) ==
  /\ successAge' = IF s = "success" THEN 0 ELSE successAge
  /\ workingAge' = IF s = "working" /\ message = "none" THEN 0 ELSE workingAge
  /\ quiet' = (quiet /\ s \notin Others)
  /\ notice' = IF message = "notified" THEN [age |-> 0, before |-> ~quiet, since |-> FALSE]
               ELSE [notice EXCEPT !.since = @ \/ s \in Others]

\* x is at stage next.
Moved(x, next) ==
  IF next = "idle" THEN Idle
  ELSE [x EXCEPT !.at = next, !.age = IF next \in Body THEN @ ELSE 0]

\* The execution writes the state s.
Written(e, s, next) ==
  /\ exec[e].at = "loaded" => exec[e].loaded /= s
  /\ state' = s
  /\ exec' = [f \in Executions |->
       IF f = e THEN Moved([exec[e] EXCEPT !.missed = {}], next)
       ELSE IF exec[f] = Idle \/ s = state THEN exec[f]
       ELSE [exec[f] EXCEPT !.missed = @ \cup {s}]]
  /\ raced' = (raced \/ exec[e].missed /= {})

\* The state is left out of the UPDATE when the ORM has loaded s: in the
\* beginning, or again after a commit, when another execution had written it.
Kept(e, s, next) ==
  /\ IF exec[e].at = "loaded" THEN exec[e].loaded = s ELSE s \in exec[e].missed
  /\ exec' = [exec EXCEPT ![e] = Moved(@, next)]
  /\ raced' = (raced \/ exec[e].at /= "loaded")
  /\ UNCHANGED state

\* update_report_schedule_and_log, after which the execution is at stage next.
Update(e, s, message, next) ==
  /\ Written(e, s, next) \/ Kept(e, s, next)
  /\ CreateLog(s, message)
  /\ UNCHANGED <<kind, crashes>>

Go(e, next) ==
  /\ exec' = [exec EXCEPT ![e] = Moved(@, next)]
  /\ UNCHANGED <<kind, state, logVars, raced, crashes>>

\* is_in_grace_period.
InGracePeriod == successAge < Grace

\* is_in_error_grace_period with find_last_error_notification: the last
\* notification counts only when no other log is older than it.
InErrorGracePeriod == notice.age < Grace /\ ~notice.before

\* is_on_working_timeout.
OnWorkingTimeout == workingAge > Timeout
-----------------------------------------------------------------------------
\* AsyncExecuteReportScheduleCommand.run loads the report schedule.
Load(e) ==
  /\ exec[e].at = "idle"
  /\ exec' = [exec EXCEPT ![e] =
       [at |-> "loaded", loaded |-> state, missed |-> {}, age |-> 0]]
  /\ UNCHANGED <<kind, state, logVars, raced, crashes>>

At(e, stage) == exec[e].at = stage
NotTriggered(e) == exec[e].loaded \in {"noop", "error"}

\* Mutant: a report looks for a trigger too.
EnterAlert(e) == Update(e, "working", "none", "alert")

Enter(e) == Update(e, "working", "none", IF kind = "alert" THEN "alert" ELSE "send")

\* ReportNotTriggeredErrorState.next.
NextNotTriggered(e) == At(e, "loaded") /\ NotTriggered(e) /\ Enter(e)

\* Mutant: the state is left to the next execution at once.
NextWorkingImpatient(e) ==
  /\ At(e, "loaded")
  /\ exec[e].loaded = "working"
  /\ Update(e, "error", "error", "idle")

\* ReportWorkingState.next: given up after the timeout, refused before.
NextWorking(e) ==
  /\ At(e, "loaded")
  /\ exec[e].loaded = "working"
  /\ Update(e, IF OnWorkingTimeout THEN "error" ELSE "working", "error", "idle")

\* Mutant: the grace period is asked for after a success only.
NextSuccessUngraced(e) ==
  /\ At(e, "loaded")
  /\ exec[e].loaded \in {"success", "grace"}
  /\ \/ kind = "alert" /\ InGracePeriod /\ exec[e].loaded = "success"
          /\ Update(e, "grace", "error", "idle")
     \/ kind = "alert" /\ ~(InGracePeriod /\ exec[e].loaded = "success") /\ Enter(e)
     \/ kind = "report" /\ Go(e, "send")

\* ReportSuccessState.next.  A report is sent without entering WORKING.
NextSuccess(e) ==
  /\ At(e, "loaded")
  /\ exec[e].loaded \in {"success", "grace"}
  /\ \/ kind = "alert" /\ InGracePeriod /\ Update(e, "grace", "error", "idle")
     \/ kind = "alert" /\ ~InGracePeriod /\ Enter(e)
     \/ kind = "report" /\ Go(e, "send")

\* AlertCommand.run.
NotTriggers(e) == At(e, "alert") /\ Update(e, "noop", "none", "idle")
Triggers(e) == At(e, "alert") /\ Go(e, "send")
AlertFails(e) == At(e, "alert") /\ Go(e, IF NotTriggered(e) THEN "failed" ELSE "notify")

\* send, to all recipients, and the log.
Send(e) == At(e, "send") /\ Go(e, "sent")
SendFails(e) == At(e, "send") /\ Go(e, "failed")
Succeed(e) == At(e, "sent") /\ Update(e, "success", "none", "idle")

\* The error is logged; only ReportNotTriggeredErrorState notifies of it.
Fail(e) ==
  At(e, "failed") /\ Update(e, "error", "error", IF NotTriggered(e) THEN "ask" ELSE "idle")

AskErrorGrace(e) ==
  At(e, "ask") /\ Go(e, IF InErrorGracePeriod THEN "idle" ELSE "notify")

\* send_error.  When it fails, ReportSuccessState logs nothing and stays
\* WORKING.
Notify(e) == At(e, "notify") /\ Go(e, "notified")
NotifyFails(e) ==
  At(e, "notify") /\ Go(e, IF NotTriggered(e) THEN "unnotified" ELSE "idle")
LogNotified(e) == At(e, "notified") /\ Update(e, "error", "notified", "idle")
LogUnnotified(e) == At(e, "unnotified") /\ Update(e, "error", "error", "idle")

Step(e) ==
  \/ NextNotTriggered(e) \/ NextWorking(e) \/ NextSuccess(e)
  \/ NotTriggers(e) \/ Triggers(e) \/ AlertFails(e)
  \/ Send(e) \/ SendFails(e) \/ Succeed(e)
  \/ Fail(e) \/ AskErrorGrace(e) \/ Notify(e) \/ NotifyFails(e)
  \/ LogNotified(e) \/ LogUnnotified(e)

\* The worker is killed, or its hard time limit has passed.
Crash(e) ==
  /\ exec[e].at /= "idle"
  /\ crashes < MaxCrashes
  /\ crashes' = crashes + 1
  /\ exec' = [exec EXCEPT ![e] = Idle]
  /\ UNCHANGED <<kind, state, logVars, raced>>

Older(age, most) == IF age < most THEN age + 1 ELSE age

Tick ==
  /\ successAge' = Older(successAge, Grace)
  /\ workingAge' = Older(workingAge, Timeout + 1)
  /\ notice' = [notice EXCEPT !.age = Older(@, Grace)]
  /\ exec' = [e \in Executions |->
       IF exec[e].at \in Body THEN [exec[e] EXCEPT !.age = Older(@, Timeout + 1)]
       ELSE exec[e]]
  /\ UNCHANGED <<kind, state, quiet, raced, crashes>>

Next ==
  \/ \E e \in Executions : Load(e) \/ Step(e) \/ Crash(e)
  \/ Tick

Spec == Init /\ [][Next]_vars

\* The schedule goes on, executions end, time passes.
Fairness ==
  /\ WF_vars(Tick)
  /\ \A e \in Executions : WF_vars(Load(e)) /\ WF_vars(Step(e))

FairSpec == Spec /\ Fairness
-----------------------------------------------------------------------------
\* ReportWorkingState: as long as no execution has concluded on a state it had
\* not seen, WORKING keeps the bodies of an alert apart; two overlap only when
\* one of them has outlived the working timeout.
BodiesStayApart ==
  kind = "alert" /\ ~raced =>
    \A e, f \in Executions :
      e /= f /\ exec[e].at \in Body /\ exec[f].at \in Body
        => exec[e].age > Timeout \/ exec[f].age > Timeout

\* is_in_grace_period: an alert is not sent again within its grace period,
\* through any sequence of states, crashes and timeouts, by an execution
\* under which nobody has changed the state, and as long as no execution has
\* concluded on a state it had not seen.
GraceIsKept ==
  kind = "alert" /\ ~raced =>
    \A e \in Executions :
      exec[e].at = "sent" /\ exec[e].missed = {} => ~InGracePeriod

\* A WORKING state is left, also after its execution has died: a later
\* execution finds that the timeout has passed, and the refusals in between
\* do not postpone it (find_last_entered_working_log).
WorkingIsLeft == (state = "working") ~> (state /= "working")

\* find_last_error_notification, "Checks that only errors have occurred
\* since the last email": within the grace period of a notification, and
\* with only errors since, there is no other.
ErrorGraceIsKept ==
  \A e \in Executions :
    exec[e].at = "notify" /\ NotTriggered(e) => notice.age = Grace \/ notice.since
=============================================================================
