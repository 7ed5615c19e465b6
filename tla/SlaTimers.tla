----------------------------- MODULE SlaTimers -----------------------------
(***************************************************************************)
(* A grievance and the SLA timer that runs for it:                         *)
(*   case-service/src/services/grievance.service.js                        *)
(*   notification-service/src/services/sla-monitoring.service.js           *)
(*   notification-service/src/services/escalation.service.js               *)
(*   orchestration-service/src/services/sla-orchestration.service.js       *)
(*   orchestration-service/src/services/orchestration.service.js           *)
(*   case-service/src/repositories/sla-timer.repository.js                 *)
(* Three services write one SlaTimer document: the grievance requests that *)
(* start and complete it, the scheduler ticks of the notification service  *)
(* (one in each replica), and, in the orchestration service, the           *)
(* evaluation it offers and the transitions of the case that the grievance *)
(* is about.  Each step is one await.  Dates are three phases of a clock:  *)
(* before warningAt, before dueAt, after it.  Events and audit entries,    *)
(* whose failures end a request at most, and pauseHistory are left out;    *)
(* the version check of pauseHistory, which refuses a resume that crossed  *)
(* a second pause, is left out with it.                                    *)
(***************************************************************************)
EXTENDS Integers, Sequences

CONSTANTS
  Grievances,
  None,         \* no grievance
  Ticks,        \* evaluateAll: the schedulers, or POST sla/evaluate
  Evaluators,   \* evaluateSlaTimers of the orchestration service
  Users,        \* requests about grievances and timers
  Asked,        \* statuses that changeStatus is asked for
  Policy,       \* the levels of the escalation policy, as it lists them
  MaxLevel,     \* bound: escalationLevel
  MaxRequests,  \* bound: requests that follow the creation
  MaxFaults     \* bound: failing calls and crashes

ASSUME SlaAssumption ==
  /\ None \notin Grievances
  /\ Ticks \cap Evaluators = {} /\ Ticks \cap Users = {} /\ Evaluators \cap Users = {}
  /\ Asked \subseteq {"acknowledged", "resolved", "closed", "reopened"}
  /\ MaxLevel \in Nat /\ Policy \in Seq(1..MaxLevel)
  /\ MaxRequests \in Nat /\ MaxFaults \in Nat

Actors == Ticks \cup Evaluators \cup Users

Settled == {"resolved", "closed"}
\* The statuses under review or awaiting an answer are as "acknowledged".
GrievanceStatuses ==
  {"none", "open", "acknowledged", "reopened", "escalated"} \cup Settled

Ended == {"completed", "cancelled"}
Active == {"running", "paused", "warning", "breached", "escalated"}
TimerStatuses == {"none"} \cup Active \cup Ended

VARIABLES
  clock,       \* "early", "warn" or "due"
  status,      \* of the timer
  warned,      \* timers whose warningSentAt is set
  breached,    \* timers whose breachedAt is set
  level,       \* escalationLevel of the timer
  grievance,   \* status of the grievance
  told,        \* toStatus of the last entry of its statusHistory
  pc,          \* the await each actor is at
  todo,        \* the timers a tick or an evaluation found
  at,          \* the timer or grievance an actor works on
  held,        \* what it read of it
  carried,     \* history: the levels that escalations carried out
  raised,      \* history: the highest level that a breach mark gave, which escalates nothing
  warnings,    \* history: warning reminders scheduled before two ticks overlapped
  overlapped,  \* history: timers two ticks found at once for a warning
  crossed,     \* history: grievances that two requests worked on at once
  late,        \* history: actors that had a timer in hand when it ended
  requests, faults

timers == <<status, warned, breached, level>>
grievances == <<grievance, told>>
actors == <<pc, todo, at, held>>
history == <<carried, raised, warnings, overlapped, crossed, late>>
vars == <<clock, timers, grievances, actors, history, requests, faults>>

Nothing == [status |-> "none", level |-> 0, op |-> "none"]

\* Transitions of a case: a query, a response to it, its end, its withdrawal.
CaseOps == {"query", "response", "end", "withdraw"}

Ops == {"none", "warn", "breach", "escalate", "pause", "resume", "assign"}
         \cup GrievanceStatuses \cup CaseOps

\* What an actor may have read of a grievance or a timer.
Readings == [status : GrievanceStatuses \cup TimerStatuses, level : 0..MaxLevel, op : Ops]

Steps == {"idle", "warn", "remind", "breach", "escalate", "notify", "mark", "save",
          "start", "push", "findTimer", "complete", "saveTimer", "saveCase"}

\* Mutant: an assignment is entered as a status.
EntryAsAsked(read) == read.op

\* The status that the next entry of a grievance's history names.
EntryOf(read) == IF read.op = "assign" THEN read.status ELSE read.op

TypeOK ==
  /\ clock \in [Grievances -> {"early", "warn", "due"}]
  /\ status \in [Grievances -> TimerStatuses]
  /\ warned \subseteq Grievances /\ breached \subseteq Grievances
  /\ level \in [Grievances -> 0..MaxLevel]
  /\ grievance \in [Grievances -> GrievanceStatuses]
  /\ told \in [Grievances -> GrievanceStatuses]
  /\ pc \in [Actors -> Steps]
  /\ todo \in [Actors -> SUBSET Grievances]
  /\ at \in [Actors -> Grievances \cup {None}]
  /\ \A a \in Actors :
       pc[a] \in {"idle", "warn", "breach", "escalate", "mark"} \/ at[a] \in Grievances
  /\ held \in [Actors -> Readings]
  /\ \A a \in Actors : pc[a] = "push" => EntryOf(held[a]) \in GrievanceStatuses
  /\ carried \in [Grievances -> SUBSET (1..MaxLevel)]
  /\ raised \in [Grievances -> 0..MaxLevel]
  /\ warnings \in [Grievances -> Nat]
  /\ overlapped \subseteq Grievances /\ crossed \subseteq Grievances
  /\ late \in [Grievances -> SUBSET Actors]
  /\ requests \in 0..MaxRequests
  /\ faults \in 0..MaxFaults

Init ==
  /\ clock = [g \in Grievances |-> "early"]
  /\ status = [g \in Grievances |-> "none"]
  /\ warned = {} /\ breached = {}
  /\ level = [g \in Grievances |-> 0]
  /\ grievance = [g \in Grievances |-> "none"]
  /\ told = [g \in Grievances |-> "none"]
  /\ pc = [a \in Actors |-> "idle"]
  /\ todo = [a \in Actors |-> {}]
  /\ at = [a \in Actors |-> None]
  /\ held = [a \in Actors |-> Nothing]
  /\ carried = [g \in Grievances |-> {}]
  /\ raised = [g \in Grievances |-> 0]
  /\ warnings = [g \in Grievances |-> 0]
  /\ overlapped = {} /\ crossed = {}
  /\ late = [g \in Grievances |-> {}]
  /\ requests = 0 /\ faults = 0

-----------------------------------------------------------------------------

Fault == faults < MaxFaults /\ faults' = faults + 1

\* The actor is at step, with what it found and read.
Now(a, step, found, g, read) ==
  /\ pc' = [pc EXCEPT ![a] = step]
  /\ todo' = [todo EXCEPT ![a] = found]
  /\ at' = [at EXCEPT ![a] = g]
  /\ held' = [held EXCEPT ![a] = read]

\* The call returned, or threw.
Rest(a) == Now(a, "idle", {}, None, Nothing)

\* The next of the timers that were found.
Proceed(a, step) == Now(a, step, todo[a] \ {at[a]}, None, Nothing)

InHand(g) == {a \in Actors : g \in todo[a] \/ at[a] = g}

\* updateById and save write what they are told, whatever the document says.
SetStatus(g, s) ==
  /\ status' = [status EXCEPT ![g] = s]
  /\ late' = IF s \in Ended THEN [late EXCEPT ![g] = InHand(g)] ELSE [late EXCEPT ![g] = {}]

\* warningAt, then dueAt, passes.
Pass(g) ==
  /\ grievance[g] # "none" /\ clock[g] # "due"
  /\ clock' = [clock EXCEPT ![g] = IF @ = "early" THEN "warn" ELSE "due"]
  /\ UNCHANGED <<timers, grievances, actors, history, requests, faults>>

-----------------------------------------------------------------------------
(* evaluateAll: a tick of the notification service                         *)

WarningCandidates ==
  {g \in Grievances : status[g] = "running" /\ clock[g] # "early" /\ g \notin warned}

\* Mutant: timers escalated by hand before they are due are forgotten.
UnescalatedCandidates ==
  {g \in Grievances : status[g] \in {"running", "warning"} /\ clock[g] = "due" /\ g \notin breached}

\* Mutant: the status is not asked for.
OverdueCandidates ==
  {g \in Grievances : status[g] # "none" /\ clock[g] = "due" /\ g \notin breached}

BreachCandidates ==
  {g \in Grievances :
     status[g] \in {"running", "warning", "escalated"} /\ clock[g] = "due" /\ g \notin breached}

\* findBreached: a timer that evaluateBreaches has marked is not among them.
EscalationCandidates ==
  {g \in Grievances : status[g] \in {"running", "warning", "escalated"} /\ clock[g] = "due"}

\* evaluateWarnings is at work.
Warns(k) == pc[k] \in {"warn", "remind"}

FindWarnings(k) ==
  /\ pc[k] = "idle"
  /\ Now(k, "warn", WarningCandidates, None, Nothing)
  /\ overlapped' = overlapped \cup
       {g \in WarningCandidates : \E o \in Ticks \ {k} : Warns(o) /\ g \in todo[o]}
  /\ UNCHANGED <<clock, timers, grievances, carried, raised, warnings, crossed, late,
                 requests, faults>>

\* Mutant: warningSentAt is not set.
WarnUnstamped(k, g) ==
  /\ pc[k] = "warn" /\ g \in todo[k]
  /\ SetStatus(g, "warning")
  /\ Now(k, "remind", todo[k], g, Nothing)
  /\ UNCHANGED <<clock, warned, breached, level, grievances, carried, raised, warnings,
                 overlapped, crossed, requests, faults>>

Warn(k, g) ==
  /\ pc[k] = "warn" /\ g \in todo[k]
  /\ SetStatus(g, "warning")
  /\ warned' = warned \cup {g}
  /\ Now(k, "remind", todo[k], g, Nothing)
  /\ UNCHANGED <<clock, breached, level, grievances, carried, raised, warnings,
                 overlapped, crossed, requests, faults>>

\* scheduleReminder
Remind(k) ==
  /\ pc[k] = "remind"
  /\ warnings' = IF at[k] \in overlapped THEN warnings ELSE [warnings EXCEPT ![at[k]] = @ + 1]
  /\ Proceed(k, "warn")
  /\ UNCHANGED <<clock, timers, grievances, carried, raised, overlapped, crossed,
                 late, requests, faults>>

FindBreaches(k) ==
  /\ pc[k] = "warn" /\ todo[k] = {}
  /\ Now(k, "breach", BreachCandidates, None, Nothing)
  /\ UNCHANGED <<clock, timers, grievances, history, requests, faults>>

Breach(k, g) ==
  /\ pc[k] = "breach" /\ g \in todo[k]
  /\ SetStatus(g, "breached")
  /\ breached' = breached \cup {g}
  /\ Now(k, "breach", todo[k] \ {g}, None, Nothing)
  /\ UNCHANGED <<clock, warned, level, grievances, carried, raised, warnings,
                 overlapped, crossed, requests, faults>>

FindOverdue(k) ==
  /\ pc[k] = "breach" /\ todo[k] = {}
  /\ Now(k, "escalate", EscalationCandidates, None, Nothing)
  /\ UNCHANGED <<clock, timers, grievances, history, requests, faults>>

Finish(a) ==
  /\ pc[a] = "escalate" /\ todo[a] = {}
  /\ Rest(a)
  /\ UNCHANGED <<clock, timers, grievances, history, requests, faults>>

-----------------------------------------------------------------------------
(* escalateEntity                                                          *)

\* Mutant: the last level at once.
FollowsLast(l, i) == i = Len(Policy)

\* Policy[i] is the first listed above l, or the last of all if none is.
Follows(l, i) ==
  \/ Policy[i] > l /\ \A j \in 1..(i - 1) : Policy[j] <= l
  \/ i = Len(Policy) /\ \A j \in DOMAIN Policy : Policy[j] <= l

\* findActiveByEntity and the policy.  A timer that has ended meanwhile and a
\* policy without levels are errors, which end the tick.
FindActive(a, g) ==
  /\ pc[a] = "escalate" /\ g \in todo[a]
  /\ IF status[g] \in Active /\ Policy # << >>
     THEN Now(a, "notify", todo[a], g, [Nothing EXCEPT !.level = level[g]])
     ELSE Rest(a)
  /\ UNCHANGED <<clock, timers, grievances, history, requests, faults>>

\* notifyEscalationOwners, then recordEscalationHistory.
Escalate(a) ==
  /\ pc[a] = "notify"
  /\ SetStatus(at[a], "escalated")
  /\ \E i \in DOMAIN Policy :
       /\ Follows(held[a].level, i)
       /\ level' = [level EXCEPT ![at[a]] = Policy[i]]
       /\ carried' = [carried EXCEPT ![at[a]] = @ \cup {Policy[i]}]
  /\ Proceed(a, "escalate")
  /\ UNCHANGED <<clock, warned, breached, grievances, raised, warnings, overlapped,
                 crossed, requests, faults>>

-----------------------------------------------------------------------------
(* evaluateSlaTimers: the orchestration service                            *)

\* findWarnings or findBreached, at the time that the request names: whatever the
\* clock says, it may lie between the two dates of a timer or past them.  An
\* evaluation marks what both found, which is here an evaluation of each.
FindMarks(e, op) ==
  /\ pc[e] = "idle"
  /\ \E found \in SUBSET {g \in Grievances :
                          status[g] = "running" \/ (op = "breach" /\ status[g] = "warning")} :
       Now(e, "mark", found, None, [Nothing EXCEPT !.op = op])
  /\ UNCHANGED <<clock, timers, grievances, history, requests, faults>>

\* The next of the timers to mark.
NextMark(e, done) == Now(e, "mark", todo[e] \ done, None, [Nothing EXCEPT !.op = held[e].op])

\* markWarning and markBreached load the timer again.
LoadMark(e, g) ==
  LET op == held[e].op
      refused == {"breached"} \cup Ended \cup (IF op = "warn" THEN {"warning"} ELSE {})
  IN /\ pc[e] = "mark" /\ g \in todo[e]
     /\ IF status[g] \in refused
        THEN NextMark(e, {g})
        ELSE Now(e, "save", todo[e], g, [status |-> status[g], level |-> level[g], op |-> op])
     /\ UNCHANGED <<clock, timers, grievances, history, requests, faults>>

MarkWarning(e) ==
  /\ pc[e] = "save" /\ held[e].op = "warn"
  /\ SetStatus(at[e], "warning")
  /\ NextMark(e, {at[e]})
  /\ UNCHANGED <<clock, warned, breached, level, grievances, carried, raised, warnings,
                 overlapped, crossed, requests, faults>>

MarkBreached(e) ==
  LET g == at[e]
      next == held[e].level + 1
  IN /\ pc[e] = "save" /\ held[e].op = "breach"
     /\ next <= MaxLevel
     /\ SetStatus(g, "breached")
     /\ breached' = breached \cup {g}
     /\ level' = [level EXCEPT ![g] = next]
     /\ raised' = [raised EXCEPT ![g] = IF @ < next THEN next ELSE @]
     /\ NextMark(e, {at[e]})
     /\ UNCHANGED <<clock, warned, grievances, carried, warnings, overlapped,
                    crossed, requests, faults>>

EvaluationEnds(e) ==
  /\ pc[e] = "mark" /\ todo[e] = {}
  /\ Rest(e)
  /\ UNCHANGED <<clock, timers, grievances, history, requests, faults>>

-----------------------------------------------------------------------------
(* Requests about grievances                                               *)

Ask == requests < MaxRequests /\ requests' = requests + 1

\* A request about g begins while another one is between its read and its update.
Cross(g) ==
  crossed' = IF \E u \in Users : pc[u] = "push" /\ at[u] = g THEN crossed \cup {g} ELSE crossed

\* createGrievance: the timer is started after the grievance is stored.
Create(u, g) ==
  /\ pc[u] = "idle" /\ grievance[g] = "none"
  /\ grievance' = [grievance EXCEPT ![g] = "open"]
  /\ told' = [told EXCEPT ![g] = "open"]
  /\ Now(u, "start", {}, g, Nothing)
  /\ UNCHANGED <<clock, timers, history, requests, faults>>

StartTimer(u) ==
  /\ pc[u] = "start"
  /\ SetStatus(at[u], "running")
  /\ Rest(u)
  /\ UNCHANGED <<clock, warned, breached, level, grievances, carried, raised, warnings,
                 overlapped, crossed, requests, faults>>

\* acknowledge, assign, resolve, close, reopen, escalate: the grievance is read
LoadGrievance(u, g, op) ==
  /\ pc[u] = "idle" /\ grievance[g] # "none" /\ Ask
  /\ Now(u, "push", {}, g, [Nothing EXCEPT !.status = grievance[g], !.op = op])
  /\ Cross(g)
  /\ UNCHANGED <<clock, timers, grievances, carried, raised, warnings, overlapped, late,
                 faults>>

\* Mutant: the patch of escalateGrievance lacks the status.
PushHistoryOnly(u) ==
  LET g == at[u]
      to == EntryOf(held[u])
  IN /\ pc[u] = "push"
     /\ told' = [told EXCEPT ![g] = to]
     /\ grievance' = IF held[u].op \in {"assign", "escalated"} THEN grievance
                     ELSE [grievance EXCEPT ![g] = to]
     /\ IF held[u].op \in Settled THEN Now(u, "findTimer", {}, g, Nothing) ELSE Rest(u)
     /\ UNCHANGED <<clock, timers, history, requests, faults>>

\* and one update writes the status with its history entry; assignGrievance
\* writes an entry for the status that it read.
PushHistory(u) ==
  LET g == at[u]
      to == EntryOf(held[u])
  IN /\ pc[u] = "push"
     /\ told' = [told EXCEPT ![g] = to]
     /\ grievance' = IF held[u].op = "assign" THEN grievance
                     ELSE [grievance EXCEPT ![g] = to]
     /\ IF held[u].op \in Settled THEN Now(u, "findTimer", {}, g, Nothing) ELSE Rest(u)
     /\ UNCHANGED <<clock, timers, history, requests, faults>>

FindTimer(u) ==
  /\ pc[u] = "findTimer"
  /\ IF status[at[u]] \in Active THEN Now(u, "complete", {}, at[u], Nothing) ELSE Rest(u)
  /\ UNCHANGED <<clock, timers, grievances, history, requests, faults>>

CompleteTimer(u) ==
  /\ pc[u] = "complete"
  /\ SetStatus(at[u], "completed")
  /\ Rest(u)
  /\ UNCHANGED <<clock, warned, breached, level, grievances, carried, raised, warnings,
                 overlapped, crossed, requests, faults>>

-----------------------------------------------------------------------------
(* Requests about timers                                                   *)

\* pauseTimer and resumeTimer
LoadTimer(u, g, op) ==
  /\ pc[u] = "idle" /\ status[g] # "none" /\ Ask
  /\ Now(u, "saveTimer", {}, g, [Nothing EXCEPT !.status = status[g], !.op = op])
  /\ UNCHANGED <<clock, timers, grievances, history, faults>>

\* save writes what was assigned a new value.
SaveTimer(u) ==
  LET to == IF held[u].op = "pause" THEN "paused" ELSE "running"
  IN /\ pc[u] = "saveTimer"
     /\ IF to = held[u].status THEN UNCHANGED <<status, late>> ELSE SetStatus(at[u], to)
     /\ Rest(u)
     /\ UNCHANGED <<clock, warned, breached, level, grievances, carried, raised,
                    warnings, overlapped, crossed, requests, faults>>

\* The controller completes a timer by its id, whatever its status.
CompleteRequest(u, g) ==
  /\ pc[u] = "idle" /\ status[g] # "none" /\ Ask
  /\ SetStatus(g, "completed")
  /\ UNCHANGED <<clock, warned, breached, level, grievances, actors, carried, raised,
                 warnings, overlapped, crossed, faults>>

\* The statuses in which the transition of a case finds a timer,
Sought(op) ==
  CASE op = "query" -> {"running", "warning"}
    [] op = "response" -> {"paused"}
    [] OTHER -> Active

\* and the status that it gives it.
Given(op) ==
  CASE op = "query" -> "paused"
    [] op = "response" -> "running"
    [] op = "withdraw" -> "cancelled"
    [] OTHER -> "completed"

\* pauseSla, resumeSla, completeSla and cancelSla of a case look for any timer with
\* its caseId, which the timers of the grievances about it carry: those of the
\* case itself are of a type that no timer may have.
FindCaseTimer(u, g, op) ==
  /\ pc[u] = "idle" /\ status[g] \in Sought(op) /\ Ask
  /\ Now(u, "saveCase", {}, g, [Nothing EXCEPT !.op = op])
  /\ UNCHANGED <<clock, timers, grievances, history, faults>>

SaveCaseTimer(u) ==
  /\ pc[u] = "saveCase"
  /\ SetStatus(at[u], Given(held[u].op))
  /\ Rest(u)
  /\ UNCHANGED <<clock, warned, breached, level, grievances, carried, raised,
                 warnings, overlapped, crossed, requests, faults>>

\* escalateEntity on request
EscalateRequest(u, g) ==
  /\ pc[u] = "idle" /\ Ask
  /\ Now(u, "escalate", {g}, None, Nothing)
  /\ UNCHANGED <<clock, timers, grievances, history, faults>>

-----------------------------------------------------------------------------

\* A call throws before it writes, or the process dies: the tick, the
\* evaluation or the request ends there.  The failures of startTimer and
\* completeTimer are ignored by the request, which ends there too.
Fail(a) ==
  /\ pc[a] # "idle" /\ Fault
  /\ Rest(a)
  /\ UNCHANGED <<clock, timers, grievances, history, requests>>

Tick(k) ==
  \/ FindWarnings(k) \/ Remind(k) \/ FindBreaches(k) \/ FindOverdue(k)
  \/ Escalate(k) \/ Finish(k)
  \/ \E g \in Grievances : Warn(k, g) \/ Breach(k, g) \/ FindActive(k, g)

Evaluate(e) ==
  \/ MarkWarning(e) \/ MarkBreached(e) \/ EvaluationEnds(e)
  \/ \E op \in {"warn", "breach"} : FindMarks(e, op)
  \/ \E g \in Grievances : LoadMark(e, g)

Request(u) ==
  \/ StartTimer(u) \/ PushHistory(u) \/ FindTimer(u) \/ CompleteTimer(u) \/ SaveTimer(u)
  \/ SaveCaseTimer(u) \/ Escalate(u) \/ Finish(u)
  \/ \E g \in Grievances :
       \/ Create(u, g) \/ CompleteRequest(u, g) \/ EscalateRequest(u, g) \/ FindActive(u, g)
       \/ \E op \in Asked \cup {"assign", "escalated"} : LoadGrievance(u, g, op)
       \/ \E op \in {"pause", "resume"} : LoadTimer(u, g, op)
       \/ \E op \in CaseOps : FindCaseTimer(u, g, op)

Next ==
  \/ \E g \in Grievances : Pass(g)
  \/ \E k \in Ticks : Tick(k)
  \/ \E e \in Evaluators : Evaluate(e)
  \/ \E u \in Users : Request(u)
  \/ \E a \in Actors : Fail(a)

Spec == Init /\ [][Next]_vars

\* setInterval runs the ticks, and the awaits of a tick return.
FairSpec == Spec /\ \A k \in Ticks : WF_vars(Tick(k))

-----------------------------------------------------------------------------

\* The levels that a policy leads to: one listed after a higher one is never
\* the first above a timer's.
Milestones ==
  {Policy[i] : i \in {k \in DOMAIN Policy : \A j \in 1..(k - 1) : Policy[j] < Policy[k]}}

\* An escalation passes over no level of its policy, whatever the ticks and
\* requests that escalate from what they had read before: the levels up to
\* the one a timer is at were carried out, except those that a breach mark of the
\* orchestration service had already put it at or beyond.
LevelsAreCarriedOut ==
  \A g \in Grievances : \A m \in Milestones :
    raised[g] < m /\ m <= level[g] => m \in carried[g]

\* The officer is reminded once that the time is running out, also when the timer
\* is paused and resumed, marked and warned again, unless two ticks found
\* the timer at the same time (evaluateWarnings finds, then updates).
WarnedOnceUnlessOverlapping ==
  \A g \in Grievances \ overlapped : warnings[g] <= 1

\* The last entry of a grievance's statusHistory names its status, unless a
\* request began between another's read and its update (assignGrievance writes
\* the status it read).
HistoryTellsStatus ==
  \A g \in Grievances \ crossed : told[g] = grievance[g]

\* A timer that was completed or cancelled runs again only by a pause or a resume
\* of that timer on request, which ask for no status, or by somebody who had it in
\* hand when it ended: a tick, an evaluation, an escalation, the transition
\* of a case.  Nobody who looks for it afterwards takes it up.
EndedStaysEnded ==
  [][\A g \in Grievances :
       status[g] \in Ended /\ status'[g] \notin Ended =>
         \E a \in Actors :
           /\ <<pc[a], todo[a], at[a]>> # <<pc'[a], todo'[a], at'[a]>>
           /\ a \in late[g] \/ held[a].op \in {"pause", "resume"}]_vars

\* A timer that is due is marked breached, unless it ends or is paused first:
\* warnings, marks, escalations and failing ticks do not take it out of sight.
OverdueIsBreached ==
  \A g \in Grievances :
    clock[g] = "due" /\ status[g] \in {"running", "warning", "escalated"} ~>
      g \in breached \/ status[g] \in {"paused"} \cup Ended

=============================================================================
