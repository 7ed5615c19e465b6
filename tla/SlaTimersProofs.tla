-------------------------- MODULE SlaTimersProofs --------------------------
(***************************************************************************)
(* For any number of grievances, ticks, evaluations and requests, and any  *)
(* escalation policy: types, that escalations pass over no level, that a   *)
(* timer is warned of once, that a history names the status it led to, and *)
(* who may take up a timer that has ended.                                 *)
(***************************************************************************)
EXTENDS SlaTimers, TLAPS

-----------------------------------------------------------------------------
(* Types                                                                   *)

ActorsTyped ==
  /\ pc \in [Actors -> Steps]
  /\ todo \in [Actors -> SUBSET Grievances]
  /\ at \in [Actors -> Grievances \cup {None}]
  /\ \A a \in Actors :
       pc[a] \in {"idle", "warn", "breach", "escalate", "mark"} \/ at[a] \in Grievances
  /\ held \in [Actors -> Readings]
  /\ \A a \in Actors : pc[a] = "push" => EntryOf(held[a]) \in GrievanceStatuses

TimersTyped ==
  /\ status \in [Grievances -> TimerStatuses]
  /\ warned \subseteq Grievances /\ breached \subseteq Grievances
  /\ level \in [Grievances -> 0..MaxLevel]
  /\ late \in [Grievances -> SUBSET Actors]

RestTyped ==
  /\ clock \in [Grievances -> {"early", "warn", "due"}]
  /\ grievance \in [Grievances -> GrievanceStatuses]
  /\ told \in [Grievances -> GrievanceStatuses]
  /\ carried \in [Grievances -> SUBSET (1..MaxLevel)]
  /\ raised \in [Grievances -> 0..MaxLevel]
  /\ warnings \in [Grievances -> Nat]
  /\ overlapped \subseteq Grievances /\ crossed \subseteq Grievances
  /\ requests \in 0..MaxRequests
  /\ faults \in 0..MaxFaults

LEMMA TypeParts == TypeOK <=> ActorsTyped /\ TimersTyped /\ RestTyped
BY DEF TypeOK, ActorsTyped, TimersTyped, RestTyped

LEMMA TypePartsNext == TypeOK' <=> ActorsTyped' /\ TimersTyped' /\ RestTyped'
BY DEF TypeOK, ActorsTyped, TimersTyped, RestTyped

\* An actor that moves on keeps the types.
LEMMA NowTyped ==
  ASSUME ActorsTyped, NEW a \in Actors, NEW step \in Steps, NEW found \in SUBSET Grievances,
         NEW g \in Grievances \cup {None}, NEW read \in Readings,
         step \in {"idle", "warn", "breach", "escalate", "mark"} \/ g \in Grievances,
         step # "push" \/ EntryOf(read) \in GrievanceStatuses,
         Now(a, step, found, g, read)
  PROVE  ActorsTyped'
BY DEF ActorsTyped, Now

\* What an actor reads is typed, whatever it does with it.
LEMMA ReadingsTyped ==
  /\ Nothing \in Readings
  /\ \A l \in 0..MaxLevel : [Nothing EXCEPT !.level = l] \in Readings
  /\ \A op \in Ops : [Nothing EXCEPT !.op = op] \in Readings
  /\ \A s \in GrievanceStatuses \cup TimerStatuses, op \in Ops :
       [Nothing EXCEPT !.status = s, !.op = op] \in Readings
  /\ \A s \in TimerStatuses, l \in 0..MaxLevel, op \in Ops :
       [status |-> s, level |-> l, op |-> op] \in Readings
<1>1. 0 \in 0..MaxLevel /\ "none" \in GrievanceStatuses /\ "none" \in Ops
  BY SlaAssumption DEF GrievanceStatuses, Ops
<1>2. Nothing \in Readings
  BY <1>1 DEF Nothing, Readings
<1>3. ASSUME NEW l \in 0..MaxLevel PROVE [Nothing EXCEPT !.level = l] \in Readings
  BY <1>2 DEF Readings
<1>4. ASSUME NEW op \in Ops PROVE [Nothing EXCEPT !.op = op] \in Readings
  BY <1>2 DEF Readings
<1>5. ASSUME NEW s \in GrievanceStatuses \cup TimerStatuses, NEW op \in Ops
      PROVE  [Nothing EXCEPT !.status = s, !.op = op] \in Readings
  BY <1>2 DEF Readings
<1>6. ASSUME NEW s \in TimerStatuses, NEW l \in 0..MaxLevel, NEW op \in Ops
      PROVE  [status |-> s, level |-> l, op |-> op] \in Readings
  BY DEF Readings
<1> QED
  BY <1>2, <1>3, <1>4, <1>5, <1>6

LEMMA RestingTyped ==
  ASSUME ActorsTyped, NEW a \in Actors, Rest(a)
  PROVE  ActorsTyped'
BY NowTyped, ReadingsTyped DEF Rest, Steps

LEMMA ProceedTyped ==
  ASSUME ActorsTyped, NEW a \in Actors, NEW step \in {"warn", "escalate"}, Proceed(a, step)
  PROVE  ActorsTyped'
<1>1. todo[a] \ {at[a]} \in SUBSET Grievances
  BY DEF ActorsTyped
<1> QED
  BY <1>1, NowTyped, ReadingsTyped DEF Proceed, Steps

LEMMA NextMarkTyped ==
  ASSUME ActorsTyped, NEW a \in Actors, NEW done, NextMark(a, done)
  PROVE  ActorsTyped'
<1>1. todo[a] \ done \in SUBSET Grievances /\ held[a].op \in Ops
  BY DEF ActorsTyped, Readings
<1> QED
  BY <1>1, NowTyped, ReadingsTyped DEF NextMark, Steps

\* A status that is written keeps the types.
LEMMA SetStatusTyped ==
  ASSUME TimersTyped, NEW g \in Grievances, NEW s \in TimerStatuses, SetStatus(g, s)
  PROVE  status' \in [Grievances -> TimerStatuses] /\ late' \in [Grievances -> SUBSET Actors]
<1>1. InHand(g) \in SUBSET Actors
  BY DEF InHand
<1> QED
  BY <1>1 DEF TimersTyped, SetStatus

LEMMA SlaTypeInit == Init => TypeOK
<1> SUFFICES ASSUME Init PROVE TypeOK
  OBVIOUS
<1>1. ActorsTyped
  BY ReadingsTyped DEF Init, ActorsTyped, Steps
<1>2. "none" \in TimerStatuses /\ "none" \in GrievanceStatuses
  BY DEF TimerStatuses, GrievanceStatuses
<1>3. TimersTyped
  BY <1>2, SlaAssumption DEF Init, TimersTyped
<1>4. RestTyped
  BY <1>2, SlaAssumption DEF Init, RestTyped
<1> QED
  BY <1>1, <1>3, <1>4, TypeParts

\* Every step keeps the types.
LEMMA SlaTypeStep == TypeOK /\ [Next]_vars => TypeOK'
<1> SUFFICES ASSUME TypeOK, [Next]_vars PROVE TypeOK'
  OBVIOUS
<1> ActorsTyped /\ TimersTyped /\ RestTyped
  BY TypeParts
<1>1. ASSUME NEW k \in Ticks, FindWarnings(k) PROVE TypeOK'
  <2> k \in Actors
    BY DEF Actors
  <2>1. ActorsTyped'
    BY <1>1, NowTyped, ReadingsTyped DEF FindWarnings, Steps, WarningCandidates
  <2>2. TimersTyped'
    BY <1>1 DEF FindWarnings, timers, history, TimersTyped
  <2>3. RestTyped'
    BY <1>1 DEF FindWarnings, grievances, WarningCandidates, RestTyped
  <2> QED
    BY <2>1, <2>2, <2>3, TypePartsNext
<1>2. ASSUME NEW k \in Ticks, NEW g \in Grievances, Warn(k, g) PROVE TypeOK'
  <2> k \in Actors
    BY DEF Actors
  <2>1. status' \in [Grievances -> TimerStatuses] /\ late' \in [Grievances -> SUBSET Actors]
    BY <1>2, SetStatusTyped DEF Warn, TimerStatuses, Active, Ended, ActorsTyped
  <2>2. ActorsTyped'
    BY <1>2, NowTyped, ReadingsTyped DEF Warn, Steps, ActorsTyped
  <2>3. TimersTyped'
    BY <1>2, <2>1 DEF Warn, TimersTyped
  <2>4. RestTyped'
    BY <1>2 DEF Warn, grievances, history, RestTyped
  <2> QED
    BY <2>2, <2>3, <2>4, TypePartsNext
<1>3. ASSUME NEW k \in Ticks, Remind(k) PROVE TypeOK'
  <2> k \in Actors
    BY DEF Actors
  <2>1. ActorsTyped'
    BY <1>3, ProceedTyped DEF Remind
  <2>2. TimersTyped'
    BY <1>3 DEF Remind, timers, history, TimersTyped
  <2>3. RestTyped'
    BY <1>3 DEF Remind, grievances, RestTyped, ActorsTyped
  <2> QED
    BY <2>1, <2>2, <2>3, TypePartsNext
<1>4. ASSUME NEW k \in Ticks, FindBreaches(k) PROVE TypeOK'
  <2> k \in Actors
    BY DEF Actors
  <2>1. ActorsTyped'
    BY <1>4, NowTyped, ReadingsTyped DEF FindBreaches, Steps, BreachCandidates
  <2>2. TimersTyped'
    BY <1>4 DEF FindBreaches, timers, history, TimersTyped
  <2>3. RestTyped'
    BY <1>4 DEF FindBreaches, grievances, history, RestTyped
  <2> QED
    BY <2>1, <2>2, <2>3, TypePartsNext
<1>5. ASSUME NEW k \in Ticks, NEW g \in Grievances, Breach(k, g) PROVE TypeOK'
  <2> k \in Actors
    BY DEF Actors
  <2>1. status' \in [Grievances -> TimerStatuses] /\ late' \in [Grievances -> SUBSET Actors]
    BY <1>5, SetStatusTyped DEF Breach, TimerStatuses, Active, Ended, ActorsTyped
  <2>2. todo[k] \ {g} \in SUBSET Grievances
    BY DEF ActorsTyped
  <2>3. ActorsTyped'
    BY <1>5, <2>2, NowTyped, ReadingsTyped DEF Breach, Steps
  <2>4. TimersTyped'
    BY <1>5, <2>1 DEF Breach, TimersTyped
  <2>5. RestTyped'
    BY <1>5 DEF Breach, grievances, history, RestTyped
  <2> QED
    BY <2>3, <2>4, <2>5, TypePartsNext
<1>6. ASSUME NEW k \in Ticks, FindOverdue(k) PROVE TypeOK'
  <2> k \in Actors
    BY DEF Actors
  <2>1. ActorsTyped'
    BY <1>6, NowTyped, ReadingsTyped DEF FindOverdue, Steps, EscalationCandidates
  <2>2. TimersTyped'
    BY <1>6 DEF FindOverdue, timers, history, TimersTyped
  <2>3. RestTyped'
    BY <1>6 DEF FindOverdue, grievances, history, RestTyped
  <2> QED
    BY <2>1, <2>2, <2>3, TypePartsNext
<1>7. ASSUME NEW a \in Actors, Finish(a) PROVE TypeOK'
  <2>1. ActorsTyped'
    BY <1>7, RestingTyped DEF Finish
  <2>2. TimersTyped'
    BY <1>7 DEF Finish, timers, history, TimersTyped
  <2>3. RestTyped'
    BY <1>7 DEF Finish, grievances, history, RestTyped
  <2> QED
    BY <2>1, <2>2, <2>3, TypePartsNext
<1>8. ASSUME NEW a \in Actors, NEW g \in Grievances, FindActive(a, g) PROVE TypeOK'
  <2>1. todo[a] \in SUBSET Grievances /\ level[g] \in 0..MaxLevel
    BY DEF ActorsTyped, TimersTyped
  <2>2. ActorsTyped'
    <3>1. CASE Now(a, "notify", todo[a], g, [Nothing EXCEPT !.level = level[g]])
      BY <3>1, <2>1, NowTyped, ReadingsTyped DEF Steps
    <3>2. CASE Rest(a)
      BY <3>2, RestingTyped
    <3> QED
      BY <1>8, <3>1, <3>2 DEF FindActive
  <2>3. TimersTyped'
    BY <1>8 DEF FindActive, timers, history, TimersTyped
  <2>4. RestTyped'
    BY <1>8 DEF FindActive, grievances, history, RestTyped
  <2> QED
    BY <2>2, <2>3, <2>4, TypePartsNext
<1>9. ASSUME NEW a \in Actors, Escalate(a) PROVE TypeOK'
  <2>1. at[a] \in Grievances
    BY <1>9 DEF Escalate, ActorsTyped
  <2>2. PICK i \in DOMAIN Policy :
          /\ level' = [level EXCEPT ![at[a]] = Policy[i]]
          /\ carried' = [carried EXCEPT ![at[a]] = @ \cup {Policy[i]}]
    BY <1>9 DEF Escalate
  <2>3. Policy[i] \in 1..MaxLevel /\ Policy[i] \in 0..MaxLevel
    BY SlaAssumption
  <2>4. status' \in [Grievances -> TimerStatuses] /\ late' \in [Grievances -> SUBSET Actors]
    BY <1>9, <2>1, SetStatusTyped DEF Escalate, TimerStatuses, Active
  <2>5. ActorsTyped'
    BY <1>9, ProceedTyped DEF Escalate
  <2>6. TimersTyped'
    BY <1>9, <2>1, <2>2, <2>3, <2>4 DEF Escalate, TimersTyped
  <2>7. RestTyped'
    BY <1>9, <2>2, <2>3 DEF Escalate, grievances, RestTyped
  <2> QED
    BY <2>5, <2>6, <2>7, TypePartsNext
<1>10. ASSUME NEW e \in Evaluators, NEW op \in {"warn", "breach"}, FindMarks(e, op) PROVE TypeOK'
  <2> e \in Actors
    BY DEF Actors
  <2>1. PICK found \in SUBSET Grievances : Now(e, "mark", found, None, [Nothing EXCEPT !.op = op])
    BY <1>10 DEF FindMarks
  <2>4. ActorsTyped'
    BY <2>1, NowTyped, ReadingsTyped DEF Steps, Ops
  <2>2. TimersTyped'
    BY <1>10 DEF FindMarks, timers, history, TimersTyped
  <2>3. RestTyped'
    BY <1>10 DEF FindMarks, grievances, history, RestTyped
  <2> QED
    BY <2>2, <2>3, <2>4, TypePartsNext
<1>11. ASSUME NEW e \in Evaluators, NEW g \in Grievances, LoadMark(e, g) PROVE TypeOK'
  <2> e \in Actors
    BY DEF Actors
  <2>1. todo[e] \in SUBSET Grievances /\ status[g] \in TimerStatuses /\ level[g] \in 0..MaxLevel /\ held[e].op \in Ops
    BY DEF ActorsTyped, TimersTyped, Readings
  <2>2. ActorsTyped'
    <3>1. CASE NextMark(e, {g})
      BY <3>1, NextMarkTyped
    <3>2. CASE Now(e, "save", todo[e], g, [status |-> status[g], level |-> level[g], op |-> held[e].op])
      BY <3>2, <2>1, NowTyped, ReadingsTyped DEF Steps
    <3> QED
      BY <1>11, <3>1, <3>2 DEF LoadMark
  <2>3. TimersTyped'
    BY <1>11 DEF LoadMark, timers, history, TimersTyped
  <2>4. RestTyped'
    BY <1>11 DEF LoadMark, grievances, history, RestTyped
  <2> QED
    BY <2>2, <2>3, <2>4, TypePartsNext
<1>12. ASSUME NEW e \in Evaluators, MarkWarning(e) PROVE TypeOK'
  <2> e \in Actors
    BY DEF Actors
  <2>1. status' \in [Grievances -> TimerStatuses] /\ late' \in [Grievances -> SUBSET Actors]
    BY <1>12, SetStatusTyped DEF MarkWarning, TimerStatuses, Active, Ended, ActorsTyped
  <2>2. ActorsTyped'
    BY <1>12, NextMarkTyped DEF MarkWarning
  <2>3. TimersTyped'
    BY <1>12, <2>1 DEF MarkWarning, TimersTyped
  <2>4. RestTyped'
    BY <1>12 DEF MarkWarning, grievances, history, RestTyped
  <2> QED
    BY <2>2, <2>3, <2>4, TypePartsNext
<1>13. ASSUME NEW e \in Evaluators, MarkBreached(e) PROVE TypeOK'
  <2> e \in Actors
    BY DEF Actors
  <2>1. at[e] \in Grievances
    BY <1>13 DEF MarkBreached, ActorsTyped
  <2>2. held[e].level + 1 \in 1..MaxLevel /\ held[e].level + 1 \in 0..MaxLevel
    <3>1. held[e].level \in 0..MaxLevel
      BY DEF ActorsTyped, Readings
    <3> QED
      BY <1>13, <3>1, SlaAssumption DEF MarkBreached
  <2>3. status' \in [Grievances -> TimerStatuses] /\ late' \in [Grievances -> SUBSET Actors]
    BY <1>13, <2>1, SetStatusTyped DEF MarkBreached, TimerStatuses, Active
  <2>4. ActorsTyped'
    BY <1>13, NextMarkTyped DEF MarkBreached
  <2>5. TimersTyped'
    BY <1>13, <2>1, <2>2, <2>3 DEF MarkBreached, TimersTyped
  <2>6. RestTyped'
    BY <1>13, <2>2, <2>3 DEF MarkBreached, grievances, RestTyped
  <2> QED
    BY <2>4, <2>5, <2>6, TypePartsNext
<1>14. ASSUME NEW e \in Evaluators, EvaluationEnds(e) PROVE TypeOK'
  <2> e \in Actors
    BY DEF Actors
  <2>1. ActorsTyped'
    BY <1>14, RestingTyped DEF EvaluationEnds
  <2>2. TimersTyped'
    BY <1>14 DEF EvaluationEnds, timers, history, TimersTyped
  <2>3. RestTyped'
    BY <1>14 DEF EvaluationEnds, grievances, history, RestTyped
  <2> QED
    BY <2>1, <2>2, <2>3, TypePartsNext
<1>15. ASSUME NEW u \in Users, NEW g \in Grievances, Create(u, g) PROVE TypeOK'
  <2> u \in Actors
    BY DEF Actors
  <2>1. ActorsTyped'
    BY <1>15, NowTyped, ReadingsTyped DEF Create, Steps
  <2>2. TimersTyped'
    BY <1>15 DEF Create, timers, history, TimersTyped
  <2>3. RestTyped'
    BY <1>15 DEF Create, grievances, history, RestTyped, GrievanceStatuses
  <2> QED
    BY <2>1, <2>2, <2>3, TypePartsNext
<1>16. ASSUME NEW u \in Users, StartTimer(u) PROVE TypeOK'
  <2> u \in Actors
    BY DEF Actors
  <2>1. status' \in [Grievances -> TimerStatuses] /\ late' \in [Grievances -> SUBSET Actors]
    BY <1>16, SetStatusTyped DEF StartTimer, TimerStatuses, Active, Ended, ActorsTyped
  <2>2. ActorsTyped'
    BY <1>16, RestingTyped DEF StartTimer
  <2>3. TimersTyped'
    BY <1>16, <2>1 DEF StartTimer, TimersTyped
  <2>4. RestTyped'
    BY <1>16 DEF StartTimer, grievances, history, RestTyped
  <2> QED
    BY <2>2, <2>3, <2>4, TypePartsNext
<1>17. ASSUME NEW u \in Users, NEW g \in Grievances, NEW op \in Asked \cup {"assign", "escalated"}, LoadGrievance(u, g, op) PROVE TypeOK'
  <2> u \in Actors
    BY DEF Actors
  <2>1. grievance[g] \in GrievanceStatuses /\ op \in Ops /\ op \in GrievanceStatuses \cup {"assign"}
    BY SlaAssumption DEF RestTyped, Ops, GrievanceStatuses, Settled
  <2>2. /\ [Nothing EXCEPT !.status = grievance[g], !.op = op] \in Readings
        /\ EntryOf([Nothing EXCEPT !.status = grievance[g], !.op = op]) \in GrievanceStatuses
    BY <2>1, ReadingsTyped DEF EntryOf, Nothing
  <2>3. ActorsTyped'
    BY <1>17, <2>1, <2>2, NowTyped DEF LoadGrievance, Steps
  <2>4. TimersTyped'
    BY <1>17 DEF LoadGrievance, timers, TimersTyped
  <2>5. RestTyped'
    BY <1>17, SlaAssumption DEF LoadGrievance, grievances, Ask, Cross, RestTyped
  <2> QED
    BY <2>3, <2>4, <2>5, TypePartsNext
<1>18. ASSUME NEW u \in Users, PushHistory(u) PROVE TypeOK'
  <2> u \in Actors
    BY DEF Actors
  <2>1. at[u] \in Grievances
    BY <1>18 DEF PushHistory, ActorsTyped
  <2>2. EntryOf(held[u]) \in GrievanceStatuses
    BY <1>18 DEF PushHistory, ActorsTyped
  <2>3. ActorsTyped'
    <3>1. CASE Now(u, "findTimer", {}, at[u], Nothing)
      BY <3>1, <2>1, NowTyped, ReadingsTyped DEF Steps
    <3> QED
      BY <1>18, <3>1, RestingTyped DEF PushHistory
  <2>4. TimersTyped'
    BY <1>18 DEF PushHistory, timers, history, TimersTyped
  <2>5. RestTyped'
    BY <1>18, <2>1, <2>2 DEF PushHistory, history, RestTyped
  <2> QED
    BY <2>3, <2>4, <2>5, TypePartsNext
<1>19. ASSUME NEW u \in Users, FindTimer(u) PROVE TypeOK'
  <2> u \in Actors
    BY DEF Actors
  <2>1. at[u] \in Grievances
    BY <1>19 DEF FindTimer, ActorsTyped
  <2>2. ActorsTyped'
    <3>1. CASE Now(u, "complete", {}, at[u], Nothing)
      BY <3>1, <2>1, NowTyped, ReadingsTyped DEF Steps
    <3> QED
      BY <1>19, <3>1, RestingTyped DEF FindTimer
  <2>3. TimersTyped'
    BY <1>19 DEF FindTimer, timers, history, TimersTyped
  <2>4. RestTyped'
    BY <1>19 DEF FindTimer, grievances, history, RestTyped
  <2> QED
    BY <2>2, <2>3, <2>4, TypePartsNext
<1>20. ASSUME NEW u \in Users, CompleteTimer(u) PROVE TypeOK'
  <2> u \in Actors
    BY DEF Actors
  <2>1. status' \in [Grievances -> TimerStatuses] /\ late' \in [Grievances -> SUBSET Actors]
    BY <1>20, SetStatusTyped DEF CompleteTimer, TimerStatuses, Active, Ended, ActorsTyped
  <2>2. ActorsTyped'
    BY <1>20, RestingTyped DEF CompleteTimer
  <2>3. TimersTyped'
    BY <1>20, <2>1 DEF CompleteTimer, TimersTyped
  <2>4. RestTyped'
    BY <1>20 DEF CompleteTimer, grievances, history, RestTyped
  <2> QED
    BY <2>2, <2>3, <2>4, TypePartsNext
<1>21. ASSUME NEW u \in Users, NEW g \in Grievances, NEW op \in {"pause", "resume"}, LoadTimer(u, g, op) PROVE TypeOK'
  <2> u \in Actors
    BY DEF Actors
  <2>1. status[g] \in TimerStatuses /\ op \in Ops
    BY DEF TimersTyped, Ops
  <2>2. ActorsTyped'
    BY <1>21, <2>1, NowTyped, ReadingsTyped DEF LoadTimer, Steps
  <2>3. TimersTyped'
    BY <1>21 DEF LoadTimer, timers, history, TimersTyped
  <2>4. RestTyped'
    BY <1>21, SlaAssumption DEF LoadTimer, grievances, history, Ask, RestTyped
  <2> QED
    BY <2>2, <2>3, <2>4, TypePartsNext
<1>22. ASSUME NEW u \in Users, SaveTimer(u) PROVE TypeOK'
  <2> u \in Actors
    BY DEF Actors
  <2>1. status' \in [Grievances -> TimerStatuses] /\ late' \in [Grievances -> SUBSET Actors]
    <3>1. at[u] \in Grievances
      BY <1>22 DEF SaveTimer, ActorsTyped
    <3>2. CASE UNCHANGED <<status, late>>
      BY <3>2 DEF TimersTyped
    <3>3. CASE \E s \in {"paused", "running"} : SetStatus(at[u], s)
      BY <3>1, <3>3, SetStatusTyped DEF TimerStatuses, Active
    <3> QED
      BY <1>22, <3>2, <3>3 DEF SaveTimer
  <2>2. ActorsTyped'
    BY <1>22, RestingTyped DEF SaveTimer
  <2>3. TimersTyped'
    BY <1>22, <2>1 DEF SaveTimer, TimersTyped
  <2>4. RestTyped'
    BY <1>22 DEF SaveTimer, grievances, history, RestTyped
  <2> QED
    BY <2>2, <2>3, <2>4, TypePartsNext
<1>23. ASSUME NEW u \in Users, NEW g \in Grievances, CompleteRequest(u, g) PROVE TypeOK'
  <2> u \in Actors
    BY DEF Actors
  <2>1. status' \in [Grievances -> TimerStatuses] /\ late' \in [Grievances -> SUBSET Actors]
    BY <1>23, SetStatusTyped DEF CompleteRequest, TimerStatuses, Active, Ended, ActorsTyped
  <2>2. ActorsTyped'
    BY <1>23 DEF CompleteRequest, actors, ActorsTyped
  <2>3. TimersTyped'
    BY <1>23, <2>1 DEF CompleteRequest, TimersTyped
  <2>4. RestTyped'
    BY <1>23, SlaAssumption DEF CompleteRequest, grievances, Ask, RestTyped
  <2> QED
    BY <2>2, <2>3, <2>4, TypePartsNext
<1>24. ASSUME NEW u \in Users, NEW g \in Grievances, EscalateRequest(u, g) PROVE TypeOK'
  <2> u \in Actors
    BY DEF Actors
  <2>1. ActorsTyped'
    BY <1>24, NowTyped, ReadingsTyped DEF EscalateRequest, Steps
  <2>2. TimersTyped'
    BY <1>24 DEF EscalateRequest, timers, history, TimersTyped
  <2>3. RestTyped'
    BY <1>24, SlaAssumption DEF EscalateRequest, grievances, history, Ask, RestTyped
  <2> QED
    BY <2>1, <2>2, <2>3, TypePartsNext
<1>25. ASSUME NEW a \in Actors, Fail(a) PROVE TypeOK'
  <2>1. ActorsTyped'
    BY <1>25, RestingTyped DEF Fail
  <2>2. TimersTyped'
    BY <1>25 DEF Fail, timers, history, TimersTyped
  <2>3. RestTyped'
    BY <1>25, SlaAssumption DEF Fail, grievances, history, Fault, RestTyped
  <2> QED
    BY <2>1, <2>2, <2>3, TypePartsNext
<1>31. ASSUME NEW u \in Users, NEW g \in Grievances, NEW op \in CaseOps, FindCaseTimer(u, g, op) PROVE TypeOK'
  <2> u \in Actors
    BY DEF Actors
  <2>1. op \in Ops
    BY DEF Ops
  <2>2. ActorsTyped'
    BY <1>31, <2>1, NowTyped, ReadingsTyped DEF FindCaseTimer, Steps
  <2>3. TimersTyped'
    BY <1>31 DEF FindCaseTimer, timers, history, TimersTyped
  <2>4. RestTyped'
    BY <1>31, SlaAssumption DEF FindCaseTimer, grievances, history, Ask, RestTyped
  <2> QED
    BY <2>2, <2>3, <2>4, TypePartsNext
<1>32. ASSUME NEW u \in Users, SaveCaseTimer(u) PROVE TypeOK'
  <2> u \in Actors
    BY DEF Actors
  <2>1. Given(held[u].op) \in TimerStatuses /\ at[u] \in Grievances
    BY <1>32 DEF Given, TimerStatuses, Active, Ended, SaveCaseTimer, ActorsTyped
  <2>2. status' \in [Grievances -> TimerStatuses] /\ late' \in [Grievances -> SUBSET Actors]
    BY <1>32, <2>1, SetStatusTyped DEF SaveCaseTimer
  <2>3. ActorsTyped'
    BY <1>32, RestingTyped DEF SaveCaseTimer
  <2>4. TimersTyped'
    BY <1>32, <2>2 DEF SaveCaseTimer, TimersTyped
  <2>5. RestTyped'
    BY <1>32 DEF SaveCaseTimer, grievances, RestTyped
  <2> QED
    BY <2>3, <2>4, <2>5, TypePartsNext
<1>26. ASSUME NEW g \in Grievances, Pass(g) PROVE TypeOK'
  BY <1>26, TypePartsNext DEF Pass, actors, timers, grievances, history, ActorsTyped, TimersTyped, RestTyped
<1>27. ASSUME NEW k \in Ticks, Tick(k) PROVE TypeOK'
  BY <1>27, <1>1, <1>3, <1>4, <1>6, <1>9, <1>7, <1>2, <1>5, <1>8 DEF Tick, Actors
<1>28. ASSUME NEW e \in Evaluators, Evaluate(e) PROVE TypeOK'
  BY <1>28, <1>12, <1>13, <1>14, <1>10, <1>11 DEF Evaluate
<1>29. ASSUME NEW u \in Users, Request(u) PROVE TypeOK'
  BY <1>29, <1>31, <1>32, <1>16, <1>18, <1>19, <1>20, <1>22, <1>9, <1>7, <1>15, <1>23, <1>24, <1>8, <1>17, <1>21 DEF Request, Actors
<1>30. CASE UNCHANGED vars
  BY <1>30, TypePartsNext DEF vars, actors, timers, grievances, history, ActorsTyped, TimersTyped, RestTyped
<1> QED
  BY <1>26, <1>27, <1>28, <1>29, <1>30, <1>25 DEF Next

\* Every value has its type, also while a sweep works from an earlier reading.
THEOREM SlaTypeCorrect == Spec => []TypeOK
BY SlaTypeInit, SlaTypeStep, PTL DEF Spec

-----------------------------------------------------------------------------
(* Escalation levels                                                       *)

\* The levels of the policy up to l were carried out for g, or a breach mark gave
\* them or higher ones.
Carried(g, l) == \A m \in Milestones : raised[g] < m /\ m <= l => m \in carried[g]

\* So were those up to the level that an actor counts from.
LevelInv ==
  /\ \A g \in Grievances : Carried(g, level[g])
  /\ \A a \in Actors : pc[a] \in {"notify", "save"} => Carried(at[a], held[a].level)

LEMMA LevelsKept ==
  ASSUME ActorsTyped, LevelInv, NEW a \in Actors, NEW step, NEW found, NEW g, NEW read,
         Now(a, step, found, g, read), UNCHANGED <<level, carried, raised>>,
         step \in {"notify", "save"} => Carried(g, read.level)
  PROVE  LevelInv'
BY DEF ActorsTyped, LevelInv, Now, Carried

LEMMA LevelsUnchanged ==
  ASSUME LevelInv, UNCHANGED <<level, carried, raised, pc, at, held>>
  PROVE  LevelInv'
BY DEF LevelInv, Carried

\* What the next escalation from l carries out is all that is left up to there.
LEMMA NextMilestone ==
  ASSUME NEW l \in 0..MaxLevel, NEW i \in DOMAIN Policy, Follows(l, i)
  PROVE  \A m \in Milestones : m <= Policy[i] => m <= l \/ m = Policy[i]
<1>0. Milestones \subseteq Int /\ Policy \in Seq(1..MaxLevel)
  BY SlaAssumption DEF Milestones
<1>1. SUFFICES ASSUME NEW k \in DOMAIN Policy, \A j \in 1..(k - 1) : Policy[j] < Policy[k],
                      Policy[k] <= Policy[i]
               PROVE  Policy[k] <= l \/ Policy[k] = Policy[i]
  BY DEF Milestones
<1>2. /\ DOMAIN Policy = 1..Len(Policy) /\ Len(Policy) \in Nat
      /\ \A j \in DOMAIN Policy : Policy[j] \in Int
  <2>1. ASSUME NEW j \in DOMAIN Policy PROVE Policy[j] \in 1..MaxLevel
    BY SlaAssumption
  <2>2. ASSUME NEW j \in DOMAIN Policy PROVE Policy[j] \in Int
    BY <2>1, SlaAssumption
  <2> QED
    BY <1>0, <2>2
<1>3. CASE k < i
  BY <1>2, <1>3 DEF Follows
<1>4. CASE k = i
  BY <1>4
<1>5. CASE i < k
  BY <1>1, <1>2, <1>5
<1> QED
  BY <1>2, <1>3, <1>4, <1>5

\* A level that an escalation or a mark gives, with what it carries out of it.
LEMMA LevelGiven ==
  ASSUME ActorsTyped, TimersTyped, RestTyped, LevelInv, NEW a \in Actors, NEW l \in 0..MaxLevel,
         pc'[a] \notin {"notify", "save"}, at[a] \in Grievances,
         \A o \in Actors \ {a} : pc'[o] = pc[o] /\ at'[o] = at[o] /\ held'[o] = held[o],
         level' = [level EXCEPT ![at[a]] = l],
         raised' \in [Grievances -> 0..MaxLevel],
         \A g \in Grievances : carried[g] \subseteq carried'[g] /\ raised[g] <= raised'[g],
         \A m \in Milestones : raised'[at[a]] < m /\ m <= l => m \in carried'[at[a]]
  PROVE  LevelInv'
<1>0. Milestones \subseteq Int
  BY SlaAssumption DEF Milestones
<1>1. ASSUME NEW g \in Grievances, NEW k, Carried(g, k)
      PROVE  \A m \in Milestones : raised'[g] < m /\ m <= k => m \in carried'[g]
  <2>1. raised[g] \in Int /\ raised'[g] \in Int /\ raised[g] <= raised'[g]
    BY SlaAssumption DEF RestTyped
  <2> QED
    BY <1>0, <1>1, <2>1 DEF Carried
<1>2. ASSUME NEW g \in Grievances PROVE Carried(g, level[g])'
  <2>1. CASE g = at[a]
    BY <2>1 DEF Carried, TimersTyped
  <2>2. CASE g # at[a]
    BY <1>1, <2>2 DEF Carried, LevelInv, TimersTyped
  <2> QED
    BY <2>1, <2>2
<1>3. ASSUME NEW o \in Actors, pc'[o] \in {"notify", "save"} PROVE Carried(at[o], held[o].level)'
  <2>1. o # a /\ pc[o] \in {"notify", "save"} /\ held'[o] = held[o] /\ at'[o] = at[o] /\ at[o] \in Grievances
    BY <1>3 DEF ActorsTyped
  <2> QED
    BY <1>1, <2>1 DEF LevelInv, Carried
<1> QED
  BY <1>2, <1>3 DEF LevelInv

\* Only an escalation and a breach mark give a level.
LEMMA LevelStep == TypeOK /\ LevelInv /\ [Next]_vars => LevelInv'
<1> SUFFICES ASSUME TypeOK, LevelInv, [Next]_vars PROVE LevelInv'
  OBVIOUS
<1> ActorsTyped /\ TimersTyped /\ RestTyped
  BY TypeParts
<1>1. ASSUME NEW k \in Ticks, FindWarnings(k) PROVE LevelInv'
  BY <1>1, LevelsKept DEF Actors, FindWarnings, timers
<1>2. ASSUME NEW k \in Ticks, NEW g \in Grievances, Warn(k, g) PROVE LevelInv'
  BY <1>2, LevelsKept DEF Actors, Warn
<1>3. ASSUME NEW k \in Ticks, Remind(k) PROVE LevelInv'
  BY <1>3, LevelsKept DEF Actors, Remind, timers, Proceed
<1>4. ASSUME NEW k \in Ticks, FindBreaches(k) PROVE LevelInv'
  BY <1>4, LevelsKept DEF Actors, FindBreaches, timers, history
<1>5. ASSUME NEW k \in Ticks, NEW g \in Grievances, Breach(k, g) PROVE LevelInv'
  BY <1>5, LevelsKept DEF Actors, Breach
<1>6. ASSUME NEW k \in Ticks, FindOverdue(k) PROVE LevelInv'
  BY <1>6, LevelsKept DEF Actors, FindOverdue, timers, history
<1>7. ASSUME NEW a \in Actors, Finish(a) PROVE LevelInv'
  BY <1>7, LevelsKept DEF Finish, timers, history, Rest
<1>8. ASSUME NEW a \in Actors, NEW g \in Grievances, FindActive(a, g) PROVE LevelInv'
  BY <1>8, LevelsKept DEF FindActive, timers, history, Rest, LevelInv, Nothing
<1>9. ASSUME NEW a \in Actors, Escalate(a) PROVE LevelInv'
  <2>1. at[a] \in Grievances /\ held[a].level \in 0..MaxLevel /\ Carried(at[a], held[a].level)
    BY <1>9 DEF Escalate, ActorsTyped, Readings, LevelInv
  <2>2. PICK i \in DOMAIN Policy :
          /\ Follows(held[a].level, i)
          /\ level' = [level EXCEPT ![at[a]] = Policy[i]]
          /\ carried' = [carried EXCEPT ![at[a]] = @ \cup {Policy[i]}]
    BY <1>9 DEF Escalate
  <2>3. Policy[i] \in 0..MaxLevel /\ raised' = raised
    BY <1>9, SlaAssumption DEF Escalate
  <2>4. /\ raised' \in [Grievances -> 0..MaxLevel]
        /\ \A g \in Grievances : carried[g] \subseteq carried'[g] /\ raised[g] <= raised'[g]
    BY <2>2, <2>3, SlaAssumption DEF RestTyped
  <2>5. \A m \in Milestones : raised'[at[a]] < m /\ m <= Policy[i] => m \in carried'[at[a]]
    BY <2>1, <2>2, <2>3, NextMilestone DEF Carried, RestTyped
  <2>6. /\ pc'[a] \notin {"notify", "save"}
        /\ \A o \in Actors \ {a} : pc'[o] = pc[o] /\ at'[o] = at[o] /\ held'[o] = held[o]
    BY <1>9 DEF Escalate, Proceed, Now, ActorsTyped
  <2> QED
    BY <2>1, <2>2, <2>3, <2>4, <2>5, <2>6, LevelGiven
<1>10. ASSUME NEW e \in Evaluators, NEW op \in {"warn", "breach"}, FindMarks(e, op) PROVE LevelInv'
  BY <1>10, LevelsKept DEF Actors, FindMarks, timers, history
<1>11. ASSUME NEW e \in Evaluators, NEW g \in Grievances, LoadMark(e, g) PROVE LevelInv'
  BY <1>11, LevelsKept DEF Actors, LoadMark, timers, history, NextMark, LevelInv, ActorsTyped
<1>12. ASSUME NEW e \in Evaluators, MarkWarning(e) PROVE LevelInv'
  BY <1>12, LevelsKept DEF Actors, MarkWarning, NextMark
<1>13. ASSUME NEW e \in Evaluators, MarkBreached(e) PROVE LevelInv'
  <2> e \in Actors
    BY DEF Actors
  <2> DEFINE next == held[e].level + 1
  <2>1. at[e] \in Grievances /\ held[e].level \in 0..MaxLevel
    BY <1>13 DEF MarkBreached, ActorsTyped, Readings
  <2>2. next \in 0..MaxLevel
    BY <1>13, <2>1, SlaAssumption DEF MarkBreached
  <2>3. /\ pc'[e] \notin {"notify", "save"}
        /\ \A o \in Actors \ {e} : pc'[o] = pc[o] /\ at'[o] = at[o] /\ held'[o] = held[o]
        /\ level' = [level EXCEPT ![at[e]] = next]
        /\ raised' = [raised EXCEPT ![at[e]] = IF @ < next THEN next ELSE @]
        /\ carried' = carried
    BY <1>13 DEF MarkBreached, NextMark, Now, ActorsTyped
  <2> HIDE DEF next
  <2>4. /\ raised' \in [Grievances -> 0..MaxLevel]
        /\ \A g \in Grievances : carried[g] \subseteq carried'[g] /\ raised[g] <= raised'[g]
        /\ next <= raised'[at[e]]
    BY <2>1, <2>2, <2>3, SlaAssumption DEF RestTyped
  <2>5. Milestones \subseteq Int /\ raised'[at[e]] \in Int
    BY <2>1, <2>4, SlaAssumption DEF Milestones
  <2>6. \A m \in Milestones : raised'[at[e]] < m /\ m <= next => m \in carried'[at[e]]
    BY <2>2, <2>4, <2>5
  <2> QED
    BY <2>1, <2>2, <2>3, <2>4, <2>6, LevelGiven
<1>14. ASSUME NEW e \in Evaluators, EvaluationEnds(e) PROVE LevelInv'
  BY <1>14, LevelsKept DEF Actors, EvaluationEnds, timers, history, Rest
<1>15. ASSUME NEW u \in Users, NEW g \in Grievances, Create(u, g) PROVE LevelInv'
  BY <1>15, LevelsKept DEF Actors, Create, timers, history
<1>16. ASSUME NEW u \in Users, StartTimer(u) PROVE LevelInv'
  BY <1>16, LevelsKept DEF Actors, StartTimer, Rest
<1>17. ASSUME NEW u \in Users, NEW g \in Grievances, NEW op \in Asked \cup {"assign", "escalated"}, LoadGrievance(u, g, op) PROVE LevelInv'
  BY <1>17, LevelsKept DEF Actors, LoadGrievance, timers
<1>18. ASSUME NEW u \in Users, PushHistory(u) PROVE LevelInv'
  BY <1>18, LevelsKept DEF Actors, PushHistory, timers, history, Rest
<1>19. ASSUME NEW u \in Users, FindTimer(u) PROVE LevelInv'
  BY <1>19, LevelsKept DEF Actors, FindTimer, timers, history, Rest
<1>20. ASSUME NEW u \in Users, CompleteTimer(u) PROVE LevelInv'
  BY <1>20, LevelsKept DEF Actors, CompleteTimer, Rest
<1>21. ASSUME NEW u \in Users, NEW g \in Grievances, NEW op \in {"pause", "resume"}, LoadTimer(u, g, op) PROVE LevelInv'
  BY <1>21, LevelsKept DEF Actors, LoadTimer, timers, history
<1>22. ASSUME NEW u \in Users, SaveTimer(u) PROVE LevelInv'
  BY <1>22, LevelsKept DEF Actors, SaveTimer, Rest
<1>23. ASSUME NEW u \in Users, NEW g \in Grievances, CompleteRequest(u, g) PROVE LevelInv'
  BY <1>23, LevelsUnchanged DEF CompleteRequest, actors
<1>24. ASSUME NEW u \in Users, NEW g \in Grievances, EscalateRequest(u, g) PROVE LevelInv'
  BY <1>24, LevelsKept DEF Actors, EscalateRequest, timers, history
<1>25. ASSUME NEW a \in Actors, Fail(a) PROVE LevelInv'
  BY <1>25, LevelsKept DEF Fail, timers, history, Rest
<1>31. ASSUME NEW u \in Users, NEW g \in Grievances, NEW op \in CaseOps, FindCaseTimer(u, g, op) PROVE LevelInv'
  BY <1>31, LevelsKept DEF Actors, FindCaseTimer, timers, history
<1>32. ASSUME NEW u \in Users, SaveCaseTimer(u) PROVE LevelInv'
  BY <1>32, LevelsKept DEF Actors, SaveCaseTimer, Rest
<1>26. ASSUME NEW g \in Grievances, Pass(g) PROVE LevelInv'
  BY <1>26, LevelsUnchanged DEF Pass, actors, timers, grievances, history
<1>27. ASSUME NEW k \in Ticks, Tick(k) PROVE LevelInv'
  BY <1>27, <1>1, <1>3, <1>4, <1>6, <1>9, <1>7, <1>2, <1>5, <1>8 DEF Tick, Actors
<1>28. ASSUME NEW e \in Evaluators, Evaluate(e) PROVE LevelInv'
  BY <1>28, <1>12, <1>13, <1>14, <1>10, <1>11 DEF Evaluate
<1>29. ASSUME NEW u \in Users, Request(u) PROVE LevelInv'
  BY <1>29, <1>31, <1>32, <1>16, <1>18, <1>19, <1>20, <1>22, <1>9, <1>7, <1>15, <1>23, <1>24, <1>8, <1>17, <1>21 DEF Request, Actors
<1>30. CASE UNCHANGED vars
  BY <1>30, LevelsUnchanged DEF vars, actors, timers, grievances, history
<1> QED
  BY <1>26, <1>27, <1>28, <1>29, <1>30, <1>25 DEF Next

\* An escalation passes over no level of any policy, with gaps or out of order,
\* whoever escalates from whatever reading, except what a breach mark gave.
THEOREM NoLevelIsPassedOver == Spec => []LevelsAreCarriedOut
<1>0. \A m \in Milestones : m \in 1..MaxLevel
  BY SlaAssumption DEF Milestones
<1>1. Init => LevelInv
  BY <1>0, SlaAssumption DEF Init, LevelInv, Carried
<1>2. LevelInv => LevelsAreCarriedOut
  BY DEF LevelInv, LevelsAreCarriedOut, Carried
<1> QED
  BY <1>1, <1>2, LevelStep, SlaTypeInit, SlaTypeStep, PTL DEF Spec

-----------------------------------------------------------------------------
(* Histories                                                               *)

\* A request that writes a history entry is the only one at its grievance, and
\* what it read still holds, unless two crossed.
HistoryInv ==
  /\ HistoryTellsStatus
  /\ \A a \in Actors : pc[a] = "push" =>
       /\ a \in Users /\ held[a].op # "none" /\ grievance[at[a]] # "none"
       /\ at[a] \notin crossed /\ held[a].op = "assign" => held[a].status = grievance[at[a]]
  /\ \A a, b \in Actors :
       pc[a] = "push" /\ pc[b] = "push" /\ at[a] = at[b] /\ at[a] \notin crossed => a = b

LEMMA HistoryKept ==
  ASSUME ActorsTyped, HistoryInv, NEW a \in Actors, NEW step, NEW found, NEW g, NEW read,
         Now(a, step, found, g, read), UNCHANGED <<grievance, told>>,
         crossed \subseteq crossed', step # "push"
  PROVE  HistoryInv'
BY DEF ActorsTyped, HistoryInv, HistoryTellsStatus, Now

LEMMA HistoryUnchanged ==
  ASSUME HistoryInv, UNCHANGED <<grievance, told, crossed, pc, at, held>>
  PROVE  HistoryInv'
BY DEF HistoryInv, HistoryTellsStatus

\* Only requests about grievances touch a history.
LEMMA HistoryStep == TypeOK /\ HistoryInv /\ [Next]_vars => HistoryInv'
<1> SUFFICES ASSUME TypeOK, HistoryInv, [Next]_vars PROVE HistoryInv'
  OBVIOUS
<1> ActorsTyped /\ TimersTyped /\ RestTyped
  BY TypeParts
<1>1. ASSUME NEW k \in Ticks, FindWarnings(k) PROVE HistoryInv'
  BY <1>1, HistoryKept DEF Actors, FindWarnings, timers, grievances
<1>2. ASSUME NEW k \in Ticks, NEW g \in Grievances, Warn(k, g) PROVE HistoryInv'
  BY <1>2, HistoryKept DEF Actors, Warn, grievances
<1>3. ASSUME NEW k \in Ticks, Remind(k) PROVE HistoryInv'
  BY <1>3, HistoryKept DEF Actors, Remind, timers, grievances, Proceed
<1>4. ASSUME NEW k \in Ticks, FindBreaches(k) PROVE HistoryInv'
  BY <1>4, HistoryKept DEF Actors, FindBreaches, timers, history, grievances
<1>5. ASSUME NEW k \in Ticks, NEW g \in Grievances, Breach(k, g) PROVE HistoryInv'
  BY <1>5, HistoryKept DEF Actors, Breach, grievances
<1>6. ASSUME NEW k \in Ticks, FindOverdue(k) PROVE HistoryInv'
  BY <1>6, HistoryKept DEF Actors, FindOverdue, timers, history, grievances
<1>7. ASSUME NEW a \in Actors, Finish(a) PROVE HistoryInv'
  BY <1>7, HistoryKept DEF Finish, timers, history, grievances, Rest
<1>8. ASSUME NEW a \in Actors, NEW g \in Grievances, FindActive(a, g) PROVE HistoryInv'
  BY <1>8, HistoryKept DEF FindActive, timers, history, grievances, Rest
<1>9. ASSUME NEW a \in Actors, Escalate(a) PROVE HistoryInv'
  BY <1>9, HistoryKept DEF Escalate, grievances, Proceed
<1>10. ASSUME NEW e \in Evaluators, NEW op \in {"warn", "breach"}, FindMarks(e, op) PROVE HistoryInv'
  BY <1>10, HistoryKept DEF Actors, FindMarks, timers, history, grievances
<1>11. ASSUME NEW e \in Evaluators, NEW g \in Grievances, LoadMark(e, g) PROVE HistoryInv'
  BY <1>11, HistoryKept DEF Actors, LoadMark, timers, history, grievances, NextMark
<1>12. ASSUME NEW e \in Evaluators, MarkWarning(e) PROVE HistoryInv'
  BY <1>12, HistoryKept DEF Actors, MarkWarning, grievances, NextMark
<1>13. ASSUME NEW e \in Evaluators, MarkBreached(e) PROVE HistoryInv'
  BY <1>13, HistoryKept DEF Actors, MarkBreached, grievances, NextMark
<1>14. ASSUME NEW e \in Evaluators, EvaluationEnds(e) PROVE HistoryInv'
  BY <1>14, HistoryKept DEF Actors, EvaluationEnds, timers, history, grievances, Rest
<1>15. ASSUME NEW u \in Users, NEW g \in Grievances, Create(u, g) PROVE HistoryInv'
  <2>1. \A a \in Actors : pc[a] = "push" => at[a] \in Grievances /\ at[a] # g
    BY <1>15 DEF Create, HistoryInv, ActorsTyped
  <2> QED
    BY <1>15, <2>1 DEF Actors, Create, Now, timers, history, HistoryInv, HistoryTellsStatus, ActorsTyped, RestTyped
<1>16. ASSUME NEW u \in Users, StartTimer(u) PROVE HistoryInv'
  BY <1>16, HistoryKept DEF Actors, StartTimer, grievances, Rest
<1>17. ASSUME NEW u \in Users, NEW g \in Grievances, NEW op \in Asked \cup {"assign", "escalated"}, LoadGrievance(u, g, op) PROVE HistoryInv'
  <2> u \in Actors
    BY DEF Actors
  <2>1. op # "none"
    BY SlaAssumption
  <2>2. /\ pc' = [pc EXCEPT ![u] = "push"] /\ at' = [at EXCEPT ![u] = g]
        /\ held' = [held EXCEPT ![u] = [Nothing EXCEPT !.status = grievance[g], !.op = op]]
        /\ UNCHANGED <<grievance, told>> /\ grievance[g] # "none"
    BY <1>17 DEF LoadGrievance, Now, grievances
  <2>3. crossed \subseteq crossed' /\ (g \notin crossed' => \A v \in Users : pc[v] = "push" => at[v] # g)
    BY <1>17 DEF LoadGrievance, Cross
  <2>4. HistoryTellsStatus'
    BY <2>2, <2>3 DEF HistoryInv, HistoryTellsStatus
  <2>5. held'[u].op = op /\ held'[u].status = grievance[g] /\ pc'[u] = "push" /\ at'[u] = g
    BY <2>2 DEF ActorsTyped, Nothing
  <2>6. \A a \in Actors \ {u} : pc'[a] = pc[a] /\ at'[a] = at[a] /\ held'[a] = held[a]
    BY <2>2 DEF ActorsTyped
  <2>7. ASSUME NEW a \in Actors, pc'[a] = "push"
        PROVE  /\ a \in Users /\ held'[a].op # "none" /\ grievance'[at'[a]] # "none"
               /\ at'[a] \notin crossed' /\ held'[a].op = "assign" => held'[a].status = grievance'[at'[a]]
    BY <2>1, <2>2, <2>3, <2>5, <2>6, <2>7 DEF HistoryInv
  <2>8. ASSUME NEW a \in Actors, NEW b \in Actors, pc'[a] = "push", pc'[b] = "push", at'[a] = at'[b], at'[a] \notin crossed'
        PROVE  a = b
    BY <2>3, <2>5, <2>6, <2>8 DEF HistoryInv
  <2> QED
    BY <2>4, <2>7, <2>8 DEF HistoryInv
<1>18. ASSUME NEW u \in Users, PushHistory(u) PROVE HistoryInv'
  <2> u \in Actors
    BY DEF Actors
  <2> DEFINE g == at[u]
             to == EntryOf(held[u])
  <2>1. g \in Grievances /\ held[u].op # "none" /\ pc[u] = "push"
    BY <1>18 DEF PushHistory, ActorsTyped, HistoryInv
  <2>2. /\ told' = [told EXCEPT ![g] = to]
        /\ grievance' = IF held[u].op = "assign" THEN grievance ELSE [grievance EXCEPT ![g] = to]
        /\ crossed' = crossed
    BY <1>18 DEF PushHistory, history
  <2>3. HistoryTellsStatus'
    BY <2>1, <2>2 DEF HistoryInv, HistoryTellsStatus, RestTyped, EntryOf
  <2>4. /\ pc'[u] # "push"
        /\ \A a \in Actors \ {u} : pc'[a] = pc[a] /\ at'[a] = at[a] /\ held'[a] = held[a]
    BY <1>18 DEF PushHistory, Rest, Now, ActorsTyped
  <2>5. \A a \in Actors \ {u} : pc[a] = "push" /\ at[a] \notin crossed => at[a] # g
    BY <2>1 DEF HistoryInv
  <2>6. ASSUME NEW a \in Actors, pc'[a] = "push"
        PROVE  /\ a \in Users /\ held'[a].op # "none" /\ grievance'[at'[a]] # "none"
               /\ at'[a] \notin crossed' /\ held'[a].op = "assign" => held'[a].status = grievance'[at'[a]]
    <3>1. a # u /\ pc[a] = "push" /\ at'[a] = at[a] /\ held'[a] = held[a] /\ at[a] \in Grievances
      BY <2>4, <2>6 DEF ActorsTyped
    <3>2. grievance'[at[a]] # "none"
      BY <2>1, <2>2, <3>1 DEF HistoryInv, RestTyped, EntryOf
    <3> QED
      BY <2>1, <2>2, <2>5, <3>1, <3>2 DEF HistoryInv, RestTyped
  <2>7. ASSUME NEW a \in Actors, NEW b \in Actors, pc'[a] = "push", pc'[b] = "push", at'[a] = at'[b], at'[a] \notin crossed'
        PROVE  a = b
    BY <2>2, <2>4, <2>7 DEF HistoryInv
  <2> QED
    BY <2>3, <2>6, <2>7 DEF HistoryInv
<1>19. ASSUME NEW u \in Users, FindTimer(u) PROVE HistoryInv'
  BY <1>19, HistoryKept DEF Actors, FindTimer, timers, history, grievances, Rest
<1>20. ASSUME NEW u \in Users, CompleteTimer(u) PROVE HistoryInv'
  BY <1>20, HistoryKept DEF Actors, CompleteTimer, grievances, Rest
<1>21. ASSUME NEW u \in Users, NEW g \in Grievances, NEW op \in {"pause", "resume"}, LoadTimer(u, g, op) PROVE HistoryInv'
  BY <1>21, HistoryKept DEF Actors, LoadTimer, timers, history, grievances
<1>22. ASSUME NEW u \in Users, SaveTimer(u) PROVE HistoryInv'
  BY <1>22, HistoryKept DEF Actors, SaveTimer, grievances, Rest
<1>23. ASSUME NEW u \in Users, NEW g \in Grievances, CompleteRequest(u, g) PROVE HistoryInv'
  BY <1>23, HistoryUnchanged DEF CompleteRequest, actors, grievances
<1>24. ASSUME NEW u \in Users, NEW g \in Grievances, EscalateRequest(u, g) PROVE HistoryInv'
  BY <1>24, HistoryKept DEF Actors, EscalateRequest, timers, history, grievances
<1>25. ASSUME NEW a \in Actors, Fail(a) PROVE HistoryInv'
  BY <1>25, HistoryKept DEF Fail, timers, history, grievances, Rest
<1>31. ASSUME NEW u \in Users, NEW g \in Grievances, NEW op \in CaseOps, FindCaseTimer(u, g, op) PROVE HistoryInv'
  BY <1>31, HistoryKept DEF Actors, FindCaseTimer, timers, history, grievances
<1>32. ASSUME NEW u \in Users, SaveCaseTimer(u) PROVE HistoryInv'
  BY <1>32, HistoryKept DEF Actors, SaveCaseTimer, Rest, grievances
<1>26. ASSUME NEW g \in Grievances, Pass(g) PROVE HistoryInv'
  BY <1>26, HistoryUnchanged DEF Pass, actors, timers, grievances, history
<1>27. ASSUME NEW k \in Ticks, Tick(k) PROVE HistoryInv'
  BY <1>27, <1>1, <1>3, <1>4, <1>6, <1>9, <1>7, <1>2, <1>5, <1>8 DEF Tick, Actors
<1>28. ASSUME NEW e \in Evaluators, Evaluate(e) PROVE HistoryInv'
  BY <1>28, <1>12, <1>13, <1>14, <1>10, <1>11 DEF Evaluate
<1>29. ASSUME NEW u \in Users, Request(u) PROVE HistoryInv'
  BY <1>29, <1>31, <1>32, <1>16, <1>18, <1>19, <1>20, <1>22, <1>9, <1>7, <1>15, <1>23, <1>24, <1>8, <1>17, <1>21 DEF Request, Actors
<1>30. CASE UNCHANGED vars
  BY <1>30, HistoryUnchanged DEF vars, actors, timers, grievances, history
<1> QED
  BY <1>26, <1>27, <1>28, <1>29, <1>30, <1>25 DEF Next

\* The last entry of a grievance's history names its status, unless requests crossed.
THEOREM HistoriesTell == Spec => []HistoryTellsStatus
<1>1. Init => HistoryInv
  BY SlaAssumption DEF Init, HistoryInv, HistoryTellsStatus
<1>2. HistoryInv => HistoryTellsStatus
  BY DEF HistoryInv, HistoryTellsStatus
<1> QED
  BY <1>1, <1>2, HistoryStep, SlaTypeInit, SlaTypeStep, PTL DEF Spec

-----------------------------------------------------------------------------
(* Warnings                                                                *)

\* A tick is about to warn of g.
Waits(k, g) == Warns(k) /\ g \in todo[k]

\* The warning that a tick is about to schedule is the first, unless two found it.
WarnInv ==
  /\ \A a \in Actors : Warns(a) => a \in Ticks
  /\ \A k \in Ticks : pc[k] = "remind" => at[k] \in todo[k] \cap warned
  /\ \A g \in Grievances \ overlapped :
       /\ \A k, o \in Ticks : Waits(k, g) /\ Waits(o, g) => k = o
       /\ (\E k \in Ticks : Waits(k, g)) \/ g \notin warned => warnings[g] = 0
       /\ warnings[g] <= 1

LEMMA WarningsKept ==
  ASSUME ActorsTyped, WarnInv, NEW a \in Actors, NEW step, NEW found, NEW g, NEW read,
         Now(a, step, found, g, read), UNCHANGED <<warned, warnings, overlapped>>,
         step \notin {"warn", "remind"}
  PROVE  WarnInv'
BY DEF ActorsTyped, WarnInv, Now, Waits, Warns

LEMMA WarningsUnchanged ==
  ASSUME WarnInv, UNCHANGED <<warned, warnings, overlapped, pc, todo, at>>
  PROVE  WarnInv'
BY DEF WarnInv, Waits, Warns

\* Only ticks warn.
LEMMA WarnStep == TypeOK /\ WarnInv /\ [Next]_vars => WarnInv'
<1> SUFFICES ASSUME TypeOK, WarnInv, [Next]_vars PROVE WarnInv'
  OBVIOUS
<1> ActorsTyped /\ TimersTyped /\ RestTyped
  BY TypeParts
<1>1. ASSUME NEW k \in Ticks, FindWarnings(k) PROVE WarnInv'
  <2> k \in Actors
    BY DEF Actors
  <2>1. /\ pc[k] = "idle" /\ UNCHANGED <<warned, warnings>>
        /\ pc' = [pc EXCEPT ![k] = "warn"] /\ todo' = [todo EXCEPT ![k] = WarningCandidates]
        /\ at' = [at EXCEPT ![k] = None]
        /\ overlapped' = overlapped \cup {g \in WarningCandidates : \E o \in Ticks \ {k} : Warns(o) /\ g \in todo[o]}
    BY <1>1 DEF FindWarnings, Now, timers
  <2>2. \A g \in Grievances : Waits(k, g)' <=> g \in WarningCandidates
    BY <2>1 DEF ActorsTyped, Waits, Warns
  <2>3. \A o \in Ticks \ {k}, g \in Grievances : Waits(o, g)' <=> Waits(o, g)
    BY <2>1 DEF ActorsTyped, Waits, Warns, Actors
  <2>4. ASSUME NEW g \in Grievances \ overlapped' 
        PROVE  /\ \A o, l \in Ticks : Waits(o, g)' /\ Waits(l, g)' => o = l
               /\ (\E o \in Ticks : Waits(o, g)') \/ g \notin warned' => warnings'[g] = 0
               /\ warnings'[g] <= 1
    <3>1. g \in WarningCandidates => g \notin warned /\ \A o \in Ticks \ {k} : ~Waits(o, g)
      BY <2>1 DEF WarningCandidates, Waits
    <3> QED
      BY <2>1, <2>2, <2>3, <3>1 DEF WarnInv
  <2>5. (\A a \in Actors : Warns(a) => a \in Ticks)' /\ (\A o \in Ticks : pc[o] = "remind" => at[o] \in todo[o] \cap warned)'
    BY <2>1 DEF ActorsTyped, WarnInv, Warns, Actors
  <2> QED
    BY <2>4, <2>5 DEF WarnInv
<1>2. ASSUME NEW k \in Ticks, NEW g \in Grievances, Warn(k, g) PROVE WarnInv'
  <2> k \in Actors
    BY DEF Actors
  <2>1. /\ pc[k] = "warn" /\ g \in todo[k] /\ warned' = warned \cup {g} /\ UNCHANGED <<warnings, overlapped>>
        /\ pc' = [pc EXCEPT ![k] = "remind"] /\ todo' = [todo EXCEPT ![k] = todo[k]] /\ at' = [at EXCEPT ![k] = g]
    BY <1>2 DEF Warn, Now
  <2>2. \A o \in Ticks, h \in Grievances : Waits(o, h)' <=> Waits(o, h)
    BY <2>1 DEF ActorsTyped, Waits, Warns, Actors
  <2>3. (\A a \in Actors : Warns(a) => a \in Ticks)' /\ (\A o \in Ticks : pc[o] = "remind" => at[o] \in todo[o] \cap warned)'
    BY <2>1 DEF ActorsTyped, WarnInv, Warns, Actors
  <2> QED
    BY <2>1, <2>2, <2>3 DEF WarnInv
<1>3. ASSUME NEW k \in Ticks, Remind(k) PROVE WarnInv'
  <2> k \in Actors
    BY DEF Actors
  <2>1. /\ pc[k] = "remind" /\ at[k] \in todo[k] \cap warned /\ at[k] \in Grievances /\ UNCHANGED <<warned, overlapped>>
        /\ pc' = [pc EXCEPT ![k] = "warn"] /\ todo' = [todo EXCEPT ![k] = todo[k] \ {at[k]}] /\ at' = [at EXCEPT ![k] = None]
        /\ warnings' = IF at[k] \in overlapped THEN warnings ELSE [warnings EXCEPT ![at[k]] = @ + 1]
    BY <1>3 DEF Remind, Proceed, Now, timers, WarnInv, ActorsTyped
  <2>2. \A o \in Ticks, h \in Grievances : Waits(o, h)' <=> Waits(o, h) /\ ~(o = k /\ h = at[k])
    BY <2>1 DEF ActorsTyped, Waits, Warns, Actors
  <2>3. Waits(k, at[k])
    BY <2>1 DEF Waits, Warns
  <2>4. ASSUME NEW g \in Grievances \ overlapped'
        PROVE  /\ \A o, l \in Ticks : Waits(o, g)' /\ Waits(l, g)' => o = l
               /\ (\E o \in Ticks : Waits(o, g)') \/ g \notin warned' => warnings'[g] = 0
               /\ warnings'[g] <= 1
    <3>1. CASE g = at[k]
      <4>1. warnings[g] = 0
        BY <2>1, <2>3, <3>1 DEF WarnInv
      <4>2. warnings'[g] = 1
        BY <2>1, <3>1, <4>1 DEF RestTyped
      <4>3. \A o \in Ticks : ~Waits(o, g)'
        BY <2>1, <2>2, <2>3, <3>1 DEF WarnInv
      <4> QED
        BY <2>1, <3>1, <4>2, <4>3
    <3>2. CASE g # at[k]
      BY <2>1, <2>2, <3>2 DEF WarnInv, RestTyped
    <3> QED
      BY <3>1, <3>2
  <2>5. (\A a \in Actors : Warns(a) => a \in Ticks)' /\ (\A o \in Ticks : pc[o] = "remind" => at[o] \in todo[o] \cap warned)'
    BY <2>1 DEF ActorsTyped, WarnInv, Warns, Actors
  <2> QED
    BY <2>4, <2>5 DEF WarnInv
<1>4. ASSUME NEW k \in Ticks, FindBreaches(k) PROVE WarnInv'
  BY <1>4, WarningsKept DEF Actors, FindBreaches, timers, history
<1>5. ASSUME NEW k \in Ticks, NEW g \in Grievances, Breach(k, g) PROVE WarnInv'
  BY <1>5, WarningsKept DEF Actors, Breach
<1>6. ASSUME NEW k \in Ticks, FindOverdue(k) PROVE WarnInv'
  BY <1>6, WarningsKept DEF Actors, FindOverdue, timers, history
<1>7. ASSUME NEW a \in Actors, Finish(a) PROVE WarnInv'
  BY <1>7, WarningsKept DEF Finish, timers, history, Rest
<1>8. ASSUME NEW a \in Actors, NEW g \in Grievances, FindActive(a, g) PROVE WarnInv'
  BY <1>8, WarningsKept DEF FindActive, timers, history, Rest
<1>9. ASSUME NEW a \in Actors, Escalate(a) PROVE WarnInv'
  BY <1>9, WarningsKept DEF Escalate, Proceed
<1>10. ASSUME NEW e \in Evaluators, NEW op \in {"warn", "breach"}, FindMarks(e, op) PROVE WarnInv'
  BY <1>10, WarningsKept DEF Actors, FindMarks, timers, history
<1>11. ASSUME NEW e \in Evaluators, NEW g \in Grievances, LoadMark(e, g) PROVE WarnInv'
  BY <1>11, WarningsKept DEF Actors, LoadMark, timers, history, NextMark
<1>12. ASSUME NEW e \in Evaluators, MarkWarning(e) PROVE WarnInv'
  BY <1>12, WarningsKept DEF Actors, MarkWarning, NextMark
<1>13. ASSUME NEW e \in Evaluators, MarkBreached(e) PROVE WarnInv'
  BY <1>13, WarningsKept DEF Actors, MarkBreached, NextMark
<1>14. ASSUME NEW e \in Evaluators, EvaluationEnds(e) PROVE WarnInv'
  BY <1>14, WarningsKept DEF Actors, EvaluationEnds, timers, history, Rest
<1>15. ASSUME NEW u \in Users, NEW g \in Grievances, Create(u, g) PROVE WarnInv'
  BY <1>15, WarningsKept DEF Actors, Create, timers, history
<1>16. ASSUME NEW u \in Users, StartTimer(u) PROVE WarnInv'
  BY <1>16, WarningsKept DEF Actors, StartTimer, Rest
<1>17. ASSUME NEW u \in Users, NEW g \in Grievances, NEW op \in Asked \cup {"assign", "escalated"}, LoadGrievance(u, g, op) PROVE WarnInv'
  BY <1>17, WarningsKept DEF Actors, LoadGrievance, timers
<1>18. ASSUME NEW u \in Users, PushHistory(u) PROVE WarnInv'
  BY <1>18, WarningsKept DEF Actors, PushHistory, timers, history, Rest
<1>19. ASSUME NEW u \in Users, FindTimer(u) PROVE WarnInv'
  BY <1>19, WarningsKept DEF Actors, FindTimer, timers, history, Rest
<1>20. ASSUME NEW u \in Users, CompleteTimer(u) PROVE WarnInv'
  BY <1>20, WarningsKept DEF Actors, CompleteTimer, Rest
<1>21. ASSUME NEW u \in Users, NEW g \in Grievances, NEW op \in {"pause", "resume"}, LoadTimer(u, g, op) PROVE WarnInv'
  BY <1>21, WarningsKept DEF Actors, LoadTimer, timers, history
<1>22. ASSUME NEW u \in Users, SaveTimer(u) PROVE WarnInv'
  BY <1>22, WarningsKept DEF Actors, SaveTimer, Rest
<1>23. ASSUME NEW u \in Users, NEW g \in Grievances, CompleteRequest(u, g) PROVE WarnInv'
  BY <1>23, WarningsUnchanged DEF CompleteRequest, actors
<1>24. ASSUME NEW u \in Users, NEW g \in Grievances, EscalateRequest(u, g) PROVE WarnInv'
  BY <1>24, WarningsKept DEF Actors, EscalateRequest, timers, history
<1>25. ASSUME NEW a \in Actors, Fail(a) PROVE WarnInv'
  BY <1>25, WarningsKept DEF Fail, timers, history, Rest
<1>31. ASSUME NEW u \in Users, NEW g \in Grievances, NEW op \in CaseOps, FindCaseTimer(u, g, op) PROVE WarnInv'
  BY <1>31, WarningsKept DEF Actors, FindCaseTimer, timers, history
<1>32. ASSUME NEW u \in Users, SaveCaseTimer(u) PROVE WarnInv'
  BY <1>32, WarningsKept DEF Actors, SaveCaseTimer, Rest
<1>26. ASSUME NEW g \in Grievances, Pass(g) PROVE WarnInv'
  BY <1>26, WarningsUnchanged DEF Pass, actors, timers, grievances, history
<1>27. ASSUME NEW k \in Ticks, Tick(k) PROVE WarnInv'
  BY <1>27, <1>1, <1>3, <1>4, <1>6, <1>9, <1>7, <1>2, <1>5, <1>8 DEF Tick, Actors
<1>28. ASSUME NEW e \in Evaluators, Evaluate(e) PROVE WarnInv'
  BY <1>28, <1>12, <1>13, <1>14, <1>10, <1>11 DEF Evaluate
<1>29. ASSUME NEW u \in Users, Request(u) PROVE WarnInv'
  BY <1>29, <1>31, <1>32, <1>16, <1>18, <1>19, <1>20, <1>22, <1>9, <1>7, <1>15, <1>23, <1>24, <1>8, <1>17, <1>21 DEF Request, Actors
<1>30. CASE UNCHANGED vars
  BY <1>30, WarningsUnchanged DEF vars, actors, timers, grievances, history
<1> QED
  BY <1>26, <1>27, <1>28, <1>29, <1>30, <1>25 DEF Next

\* The time limit is warned of once, unless two ticks found the timer at once.
THEOREM WarnedOnce == Spec => []WarnedOnceUnlessOverlapping
<1>1. Init => WarnInv
  BY SlaAssumption DEF Init, WarnInv, Waits, Warns, Actors
<1>2. WarnInv => WarnedOnceUnlessOverlapping
  BY DEF WarnInv, WarnedOnceUnlessOverlapping
<1> QED
  BY <1>1, <1>2, WarnStep, SlaTypeInit, SlaTypeStep, PTL DEF Spec

-----------------------------------------------------------------------------
(* Timers that have ended                                                  *)

\* An actor at step, with what it found and read, goes on to write the status
\* of h without looking at it again.
Writes(step, found, g, h) ==
  \/ step \in {"warn", "remind", "breach"} /\ h \in found
  \/ step \in {"notify", "save", "start", "saveCase"} /\ g = h

Touches(a, h) == Writes(pc[a], todo[a], at[a], h)

\* An evaluation has h to mark, or to look at again.
Marks(a, h) == pc[a] \in {"mark", "save"} /\ h \in todo[a]

\* Who is about to write the status of a timer that has ended had it in hand
\* when it ended; a grievance that was not created has no timer.
EndInv ==
  /\ \A h \in Grievances : grievance[h] = "none" => status[h] = "none"
  /\ \A a \in Actors, h \in Grievances : Touches(a, h) =>
       grievance[h] # "none" /\ (status[h] \in Ended => a \in late[h])
  /\ \A a \in Actors, h \in Grievances : Marks(a, h) => grievance[h] # "none"
  /\ \A a \in Actors : pc[a] \in {"complete", "saveTimer"} => grievance[at[a]] # "none"
  /\ \A a \in Actors : pc[a] = "saveTimer" => held[a].op \in {"pause", "resume"}

\* An actor that moves on and writes no status has read it, or already had the
\* timer in hand.
LEMMA EndKept ==
  ASSUME ActorsTyped, EndInv, NEW a \in Actors, NEW step, NEW found, NEW g, NEW read,
         Now(a, step, found, g, read), UNCHANGED <<status, late>>,
         \A h \in Grievances : grievance[h] # "none" => grievance'[h] # "none",
         \A h \in Grievances : Writes(step, found, g, h) =>
           Touches(a, h) \/ (grievance'[h] # "none" /\ status[h] \notin Ended),
         \A h \in Grievances : step \in {"mark", "save"} /\ h \in found => grievance'[h] # "none",
         step \in {"complete", "saveTimer"} => grievance'[g] # "none",
         step = "saveTimer" => read.op \in {"pause", "resume"}
  PROVE  EndInv'
<1>1. /\ pc'[a] = step /\ todo'[a] = found /\ at'[a] = g /\ held'[a] = read
      /\ \A b \in Actors \ {a} : pc'[b] = pc[b] /\ todo'[b] = todo[b] /\ at'[b] = at[b] /\ held'[b] = held[b]
  BY DEF ActorsTyped, Now
<1>2. \A h \in Grievances : Touches(a, h)' <=> Writes(step, found, g, h)
  BY <1>1 DEF Touches, Writes
<1>3. \A b \in Actors \ {a}, h \in Grievances : Touches(b, h)' <=> Touches(b, h)
  BY <1>1 DEF Touches, Writes
<1>4. (\A h \in Grievances : grievance[h] = "none" => status[h] = "none")'
  BY DEF EndInv
<1>5. ASSUME NEW b \in Actors, NEW h \in Grievances, Touches(b, h)'
      PROVE  grievance'[h] # "none" /\ (status'[h] \in Ended => b \in late'[h])
  <2>1. CASE b = a
    BY <1>2, <1>5, <2>1 DEF EndInv
  <2>2. CASE b # a
    BY <1>3, <1>5, <2>2 DEF EndInv
  <2> QED
    BY <2>1, <2>2
<1>6. ASSUME NEW b \in Actors, pc'[b] \in {"complete", "saveTimer"}
      PROVE  grievance'[at'[b]] # "none"
  <2>1. CASE b = a
    BY <1>1, <1>6, <2>1
  <2>2. CASE b # a
    BY <1>1, <1>6, <2>2 DEF EndInv, ActorsTyped
  <2> QED
    BY <2>1, <2>2
<1>7. (\A b \in Actors : pc[b] = "saveTimer" => held[b].op \in {"pause", "resume"})'
  BY <1>1 DEF EndInv
<1>8. (\A b \in Actors, h \in Grievances : Marks(b, h) => grievance[h] # "none")'
  BY <1>1 DEF EndInv, Marks
<1> QED
  BY <1>4, <1>5, <1>6, <1>7, <1>8 DEF EndInv

\* A status that is written: whoever touched the timer had it in hand.
LEMMA EndWritten ==
  ASSUME ActorsTyped, TimersTyped, EndInv, NEW t \in Grievances, NEW s \in Active \cup Ended,
         SetStatus(t, s), UNCHANGED grievance, grievance[t] # "none",
         \A b \in Actors, h \in Grievances :
           (Touches(b, h)' => Touches(b, h)) /\ (Marks(b, h)' => Marks(b, h)),
         \A b \in Actors : pc'[b] \in {"complete", "saveTimer"} =>
           pc'[b] = pc[b] /\ at'[b] = at[b] /\ held'[b] = held[b]
  PROVE  EndInv'
<1>1. /\ status'[t] = s /\ (s \in Ended => late'[t] = InHand(t))
      /\ \A h \in Grievances \ {t} : status'[h] = status[h] /\ late'[h] = late[h]
  BY DEF SetStatus, TimersTyped
<1>2. \A b \in Actors : Touches(b, t) => b \in InHand(t)
  BY DEF Touches, Writes, InHand
<1>3. ASSUME NEW b \in Actors, NEW h \in Grievances, Touches(b, h)'
      PROVE  grievance'[h] # "none" /\ (status'[h] \in Ended => b \in late'[h])
  BY <1>1, <1>2, <1>3 DEF EndInv
<1>4. (\A h \in Grievances : grievance[h] = "none" => status[h] = "none")'
  BY <1>1 DEF EndInv
<1>5. \A b \in Actors : pc'[b] \in {"complete", "saveTimer"} => grievance'[at'[b]] # "none"
  BY DEF EndInv
<1>6. (\A b \in Actors : pc[b] = "saveTimer" => held[b].op \in {"pause", "resume"})'
  BY DEF EndInv
<1>7. (\A b \in Actors, h \in Grievances : Marks(b, h) => grievance[h] # "none")'
  BY DEF EndInv
<1> QED
  BY <1>3, <1>4, <1>5, <1>6, <1>7 DEF EndInv

LEMMA EndUnchanged ==
  ASSUME EndInv, UNCHANGED <<status, late, grievance, pc, todo, at, held>>
  PROVE  EndInv'
BY DEF EndInv, Touches, Writes, Marks

\* The actor that writes is then at no timer but those it found.
LEMMA TouchesLess ==
  ASSUME ActorsTyped, NEW a \in Actors, NEW step \in {"idle", "remind", "breach", "escalate", "mark"},
         NEW found, NEW g, NEW read, Now(a, step, found, g, read),
         step \in {"remind", "breach"} => pc[a] \in {"warn", "breach"} /\ found \subseteq todo[a],
         step = "mark" => pc[a] \in {"mark", "save"} /\ found \subseteq todo[a]
  PROVE  /\ \A b \in Actors, h \in Grievances :
              (Touches(b, h)' => Touches(b, h)) /\ (Marks(b, h)' => Marks(b, h))
         /\ \A b \in Actors : pc'[b] \in {"complete", "saveTimer"} =>
              pc'[b] = pc[b] /\ at'[b] = at[b] /\ held'[b] = held[b]
BY DEF ActorsTyped, Now, Touches, Writes, Marks

\* Reading and waiting keep the invariant, and so does every write.
LEMMA EndStep == TypeOK /\ HistoryInv /\ EndInv /\ [Next]_vars => EndInv'
<1> SUFFICES ASSUME TypeOK, HistoryInv, EndInv, [Next]_vars PROVE EndInv'
  OBVIOUS
<1> ActorsTyped /\ TimersTyped /\ RestTyped
  BY TypeParts
<1> "none" \notin Active \cup Ended
  BY DEF Active, Ended
<1> \A h \in Grievances : status[h] \in Active => grievance[h] # "none" /\ status[h] \notin Ended
  BY DEF EndInv, Active, Ended
<1>1. ASSUME NEW k \in Ticks, FindWarnings(k) PROVE EndInv'
  <2>1. \A h \in WarningCandidates : status[h] \in Active
    BY DEF WarningCandidates, Active
  <2> QED
    BY <1>1, <2>1, EndKept DEF Actors, FindWarnings, timers, grievances, WarningCandidates, Writes
<1>2. ASSUME NEW k \in Ticks, NEW g \in Grievances, Warn(k, g) PROVE EndInv'
  <2> k \in Actors
    BY DEF Actors
  <2>1. Touches(k, g) /\ SetStatus(g, "warning") /\ UNCHANGED grievance
    BY <1>2 DEF Warn, Touches, Writes, grievances
  <2>2. /\ \A b \in Actors, h \in Grievances :
             (Touches(b, h)' => Touches(b, h)) /\ (Marks(b, h)' => Marks(b, h))
        /\ \A b \in Actors : pc'[b] \in {"complete", "saveTimer"} =>
             pc'[b] = pc[b] /\ at'[b] = at[b] /\ held'[b] = held[b]
    BY <1>2, TouchesLess DEF Warn
  <2> QED
    BY <2>1, <2>2, EndWritten DEF EndInv, Active
<1>3. ASSUME NEW k \in Ticks, Remind(k) PROVE EndInv'
  BY <1>3, EndKept DEF Actors, Remind, timers, grievances, Proceed, Writes, Touches
<1>4. ASSUME NEW k \in Ticks, FindBreaches(k) PROVE EndInv'
  <2>1. \A h \in BreachCandidates : status[h] \in Active
    BY DEF BreachCandidates, Active
  <2> QED
    BY <1>4, <2>1, EndKept DEF Actors, FindBreaches, timers, grievances, history, BreachCandidates, Writes
<1>5. ASSUME NEW k \in Ticks, NEW g \in Grievances, Breach(k, g) PROVE EndInv'
  <2> k \in Actors
    BY DEF Actors
  <2>1. Touches(k, g) /\ SetStatus(g, "breached") /\ UNCHANGED grievance
    BY <1>5 DEF Breach, Touches, Writes, grievances
  <2>2. /\ \A b \in Actors, h \in Grievances :
             (Touches(b, h)' => Touches(b, h)) /\ (Marks(b, h)' => Marks(b, h))
        /\ \A b \in Actors : pc'[b] \in {"complete", "saveTimer"} =>
             pc'[b] = pc[b] /\ at'[b] = at[b] /\ held'[b] = held[b]
    BY <1>5, TouchesLess DEF Breach
  <2> QED
    BY <2>1, <2>2, EndWritten DEF EndInv, Active
<1>6. ASSUME NEW k \in Ticks, FindOverdue(k) PROVE EndInv'
  BY <1>6, EndKept DEF Actors, FindOverdue, timers, history, grievances, Writes
<1>7. ASSUME NEW a \in Actors, Finish(a) PROVE EndInv'
  BY <1>7, EndKept DEF Finish, timers, history, grievances, Rest, Writes
<1>8. ASSUME NEW a \in Actors, NEW g \in Grievances, FindActive(a, g) PROVE EndInv'
  <2>1. CASE status[g] \in Active /\ Now(a, "notify", todo[a], g, [Nothing EXCEPT !.level = level[g]])
    BY <1>8, <2>1, EndKept DEF FindActive, timers, history, grievances, Writes
  <2>2. CASE Rest(a)
    BY <1>8, <2>2, EndKept DEF FindActive, timers, history, grievances, Rest, Writes
  <2> QED
    BY <1>8, <2>1, <2>2 DEF FindActive
<1>9. ASSUME NEW a \in Actors, Escalate(a) PROVE EndInv'
  <2>1. Touches(a, at[a]) /\ at[a] \in Grievances /\ SetStatus(at[a], "escalated") /\ UNCHANGED grievance
    BY <1>9 DEF Escalate, Touches, Writes, grievances, ActorsTyped
  <2>2. /\ \A b \in Actors, h \in Grievances :
             (Touches(b, h)' => Touches(b, h)) /\ (Marks(b, h)' => Marks(b, h))
        /\ \A b \in Actors : pc'[b] \in {"complete", "saveTimer"} =>
             pc'[b] = pc[b] /\ at'[b] = at[b] /\ held'[b] = held[b]
    BY <1>9, TouchesLess DEF Escalate, Proceed
  <2> QED
    BY <2>1, <2>2, EndWritten DEF EndInv, Active
<1>10. ASSUME NEW e \in Evaluators, NEW op \in {"warn", "breach"}, FindMarks(e, op) PROVE EndInv'
  <2> e \in Actors
    BY DEF Actors
  <2>1. PICK found \in SUBSET {g \in Grievances : status[g] \in Active} :
          Now(e, "mark", found, None, [Nothing EXCEPT !.op = op])
    BY <1>10 DEF FindMarks, Active
  <2>2. UNCHANGED <<status, late, grievance>>
    BY <1>10 DEF FindMarks, timers, history, grievances
  <2>3. \A h \in found : grievance'[h] # "none"
    BY <2>2
  <2> QED
    BY <2>1, <2>2, <2>3, EndKept DEF Writes
<1>11. ASSUME NEW e \in Evaluators, NEW g \in Grievances, LoadMark(e, g) PROVE EndInv'
  <2> e \in Actors
    BY DEF Actors
  <2>1. CASE NextMark(e, {g})
    BY <1>11, <2>1, EndKept DEF LoadMark, NextMark, timers, history, grievances, Writes, EndInv, Marks
  <2>2. CASE status[g] \notin Ended
             /\ Now(e, "save", todo[e], g, [status |-> status[g], level |-> level[g], op |-> held[e].op])
    BY <1>11, <2>2, EndKept DEF LoadMark, timers, history, grievances, Writes, EndInv, Marks
  <2> QED
    BY <1>11, <2>1, <2>2 DEF LoadMark
<1>12. ASSUME NEW e \in Evaluators, MarkWarning(e) PROVE EndInv'
  <2> e \in Actors
    BY DEF Actors
  <2>1. Touches(e, at[e]) /\ at[e] \in Grievances /\ SetStatus(at[e], "warning") /\ UNCHANGED grievance
    BY <1>12 DEF MarkWarning, Touches, Writes, grievances, ActorsTyped
  <2>2. /\ \A b \in Actors, h \in Grievances :
             (Touches(b, h)' => Touches(b, h)) /\ (Marks(b, h)' => Marks(b, h))
        /\ \A b \in Actors : pc'[b] \in {"complete", "saveTimer"} =>
             pc'[b] = pc[b] /\ at'[b] = at[b] /\ held'[b] = held[b]
    BY <1>12, TouchesLess DEF MarkWarning, NextMark
  <2> QED
    BY <2>1, <2>2, EndWritten DEF EndInv, Active
<1>13. ASSUME NEW e \in Evaluators, MarkBreached(e) PROVE EndInv'
  <2> e \in Actors
    BY DEF Actors
  <2>1. Touches(e, at[e]) /\ at[e] \in Grievances /\ SetStatus(at[e], "breached") /\ UNCHANGED grievance
    BY <1>13 DEF MarkBreached, Touches, Writes, grievances, ActorsTyped
  <2>2. /\ \A b \in Actors, h \in Grievances :
             (Touches(b, h)' => Touches(b, h)) /\ (Marks(b, h)' => Marks(b, h))
        /\ \A b \in Actors : pc'[b] \in {"complete", "saveTimer"} =>
             pc'[b] = pc[b] /\ at'[b] = at[b] /\ held'[b] = held[b]
    BY <1>13, TouchesLess DEF MarkBreached, NextMark
  <2> QED
    BY <2>1, <2>2, EndWritten DEF EndInv, Active
<1>14. ASSUME NEW e \in Evaluators, EvaluationEnds(e) PROVE EndInv'
  BY <1>14, EndKept DEF Actors, EvaluationEnds, timers, history, grievances, Rest, Writes
<1>15. ASSUME NEW u \in Users, NEW g \in Grievances, Create(u, g) PROVE EndInv'
  <2> u \in Actors
    BY DEF Actors
  <2>1. status[g] \notin Ended /\ grievance'[g] = "open" /\ \A h \in Grievances \ {g} : grievance'[h] = grievance[h]
    BY <1>15 DEF Create, EndInv, RestTyped, Ended
  <2> QED
    BY <1>15, <2>1, EndKept DEF Create, timers, history, Writes
<1>16. ASSUME NEW u \in Users, StartTimer(u) PROVE EndInv'
  <2> u \in Actors
    BY DEF Actors
  <2>1. Touches(u, at[u]) /\ at[u] \in Grievances /\ SetStatus(at[u], "running") /\ UNCHANGED grievance
    BY <1>16 DEF StartTimer, Touches, Writes, grievances, ActorsTyped
  <2>2. /\ \A b \in Actors, h \in Grievances :
             (Touches(b, h)' => Touches(b, h)) /\ (Marks(b, h)' => Marks(b, h))
        /\ \A b \in Actors : pc'[b] \in {"complete", "saveTimer"} =>
             pc'[b] = pc[b] /\ at'[b] = at[b] /\ held'[b] = held[b]
    BY <1>16, TouchesLess DEF StartTimer, Rest
  <2> QED
    BY <2>1, <2>2, EndWritten DEF EndInv, Active
<1>17. ASSUME NEW u \in Users, NEW g \in Grievances, NEW op \in Asked \cup {"assign", "escalated"}, LoadGrievance(u, g, op) PROVE EndInv'
  BY <1>17, EndKept DEF Actors, LoadGrievance, timers, grievances, Writes
<1>18. ASSUME NEW u \in Users, PushHistory(u) PROVE EndInv'
  <2> u \in Actors
    BY DEF Actors
  <2>1. held[u].op # "none"
    BY <1>18 DEF PushHistory, HistoryInv
  <2>2. \A h \in Grievances : grievance[h] # "none" => grievance'[h] # "none"
    BY <1>18, <2>1 DEF PushHistory, EntryOf, RestTyped
  <2> QED
    BY <1>18, <2>2, EndKept DEF PushHistory, timers, history, Rest, Writes
<1>19. ASSUME NEW u \in Users, FindTimer(u) PROVE EndInv'
  <2> u \in Actors
    BY DEF Actors
  <2>1. at[u] \in Grievances
    BY <1>19 DEF FindTimer, ActorsTyped
  <2>2. CASE status[at[u]] \in Active
    BY <1>19, <2>1, <2>2, EndKept DEF FindTimer, timers, history, grievances, Writes
  <2>3. CASE status[at[u]] \notin Active
    BY <1>19, <2>3, EndKept DEF FindTimer, timers, history, grievances, Rest, Writes
  <2> QED
    BY <2>2, <2>3
<1>20. ASSUME NEW u \in Users, CompleteTimer(u) PROVE EndInv'
  <2> u \in Actors
    BY DEF Actors
  <2>1. grievance[at[u]] # "none" /\ at[u] \in Grievances /\ SetStatus(at[u], "completed") /\ UNCHANGED grievance
    BY <1>20 DEF CompleteTimer, grievances, ActorsTyped, EndInv
  <2>2. /\ \A b \in Actors, h \in Grievances :
             (Touches(b, h)' => Touches(b, h)) /\ (Marks(b, h)' => Marks(b, h))
        /\ \A b \in Actors : pc'[b] \in {"complete", "saveTimer"} =>
             pc'[b] = pc[b] /\ at'[b] = at[b] /\ held'[b] = held[b]
    BY <1>20, TouchesLess DEF CompleteTimer, Rest
  <2> QED
    BY <2>1, <2>2, EndWritten DEF Ended
<1>21. ASSUME NEW u \in Users, NEW g \in Grievances, NEW op \in {"pause", "resume"}, LoadTimer(u, g, op) PROVE EndInv'
  <2> u \in Actors
    BY DEF Actors
  <2> DEFINE read == [Nothing EXCEPT !.status = status[g], !.op = op]
  <2>1. read.op = op
    BY DEF Nothing
  <2>2. grievance[g] # "none" /\ Now(u, "saveTimer", {}, g, read) /\ UNCHANGED <<status, late, grievance>>
    BY <1>21 DEF LoadTimer, timers, history, grievances, EndInv
  <2> HIDE DEF read
  <2> QED
    BY <2>1, <2>2, EndKept DEF Writes
<1>22. ASSUME NEW u \in Users, SaveTimer(u) PROVE EndInv'
  <2> u \in Actors
    BY DEF Actors
  <2> DEFINE to == IF held[u].op = "pause" THEN "paused" ELSE "running"
  <2>1. to \in Active /\ grievance[at[u]] # "none" /\ at[u] \in Grievances /\ UNCHANGED grievance
    BY <1>22 DEF SaveTimer, grievances, ActorsTyped, EndInv, Active
  <2>2. /\ \A b \in Actors, h \in Grievances :
             (Touches(b, h)' => Touches(b, h)) /\ (Marks(b, h)' => Marks(b, h))
        /\ \A b \in Actors : pc'[b] \in {"complete", "saveTimer"} =>
             pc'[b] = pc[b] /\ at'[b] = at[b] /\ held'[b] = held[b]
    BY <1>22, TouchesLess DEF SaveTimer, Rest
  <2>3. UNCHANGED <<status, late>> \/ SetStatus(at[u], to)
    BY <1>22 DEF SaveTimer
  <2> HIDE DEF to
  <2>4. CASE UNCHANGED <<status, late>>
    BY <1>22, <2>1, <2>4, EndKept DEF SaveTimer, Rest, Writes
  <2>5. CASE SetStatus(at[u], to)
    BY <2>1, <2>2, <2>5, EndWritten
  <2> QED
    BY <2>3, <2>4, <2>5
<1>23. ASSUME NEW u \in Users, NEW g \in Grievances, CompleteRequest(u, g) PROVE EndInv'
  <2>1. grievance[g] # "none" /\ SetStatus(g, "completed") /\ UNCHANGED <<grievance, pc, todo, at, held>>
    BY <1>23 DEF CompleteRequest, grievances, actors, EndInv
  <2>2. \A b \in Actors, h \in Grievances :
          (Touches(b, h)' => Touches(b, h)) /\ (Marks(b, h)' => Marks(b, h))
    BY <2>1 DEF Touches, Writes, Marks
  <2> QED
    BY <2>1, <2>2, EndWritten DEF Ended
<1>24. ASSUME NEW u \in Users, NEW g \in Grievances, EscalateRequest(u, g) PROVE EndInv'
  BY <1>24, EndKept DEF Actors, EscalateRequest, timers, history, grievances, Writes
<1>25. ASSUME NEW a \in Actors, Fail(a) PROVE EndInv'
  BY <1>25, EndKept DEF Fail, timers, history, grievances, Rest, Writes
<1>31. ASSUME NEW u \in Users, NEW g \in Grievances, NEW op \in CaseOps, FindCaseTimer(u, g, op) PROVE EndInv'
  <2> u \in Actors
    BY DEF Actors
  <2>1. status[g] \in Active
    BY <1>31 DEF FindCaseTimer, Sought, Active
  <2>2. UNCHANGED <<status, late, grievance>> /\ Now(u, "saveCase", {}, g, [Nothing EXCEPT !.op = op])
    BY <1>31 DEF FindCaseTimer, timers, history, grievances
  <2> QED
    BY <2>1, <2>2, EndKept DEF Writes
<1>32. ASSUME NEW u \in Users, SaveCaseTimer(u) PROVE EndInv'
  <2> u \in Actors
    BY DEF Actors
  <2> DEFINE to == Given(held[u].op)
  <2>1. /\ Touches(u, at[u]) /\ at[u] \in Grievances /\ SetStatus(at[u], to)
        /\ to \in Active \cup Ended /\ UNCHANGED grievance
    BY <1>32 DEF SaveCaseTimer, Given, Active, Ended, Touches, Writes, grievances, ActorsTyped
  <2>2. /\ \A b \in Actors, h \in Grievances :
             (Touches(b, h)' => Touches(b, h)) /\ (Marks(b, h)' => Marks(b, h))
        /\ \A b \in Actors : pc'[b] \in {"complete", "saveTimer"} =>
             pc'[b] = pc[b] /\ at'[b] = at[b] /\ held'[b] = held[b]
    BY <1>32, TouchesLess DEF SaveCaseTimer, Rest
  <2> HIDE DEF to
  <2>3. grievance[at[u]] # "none"
    BY <2>1 DEF EndInv
  <2> QED
    BY <2>1, <2>2, <2>3, EndWritten
<1>26. ASSUME NEW g \in Grievances, Pass(g) PROVE EndInv'
  BY <1>26, EndUnchanged DEF Pass, actors, timers, grievances, history
<1>27. ASSUME NEW k \in Ticks, Tick(k) PROVE EndInv'
  BY <1>27, <1>1, <1>3, <1>4, <1>6, <1>9, <1>7, <1>2, <1>5, <1>8 DEF Tick, Actors
<1>28. ASSUME NEW e \in Evaluators, Evaluate(e) PROVE EndInv'
  BY <1>28, <1>12, <1>13, <1>14, <1>10, <1>11 DEF Evaluate
<1>29. ASSUME NEW u \in Users, Request(u) PROVE EndInv'
  BY <1>29, <1>31, <1>32, <1>16, <1>18, <1>19, <1>20, <1>22, <1>9, <1>7, <1>15, <1>23, <1>24, <1>8, <1>17, <1>21 DEF Request, Actors
<1>30. CASE UNCHANGED vars
  BY <1>30, EndUnchanged DEF vars, actors, timers, grievances, history
<1> QED
  BY <1>26, <1>27, <1>28, <1>29, <1>30, <1>25 DEF Next

\* A timer that has ended runs again only by an actor that had it in hand then,
\* or by a pause or a resume.
Reopened ==
  \A g \in Grievances :
    status[g] \in Ended /\ status'[g] \notin Ended =>
      \E a \in Actors :
        /\ <<pc[a], todo[a], at[a]>> # <<pc'[a], todo'[a], at'[a]>>
        /\ a \in late[g] \/ held[a].op \in {"pause", "resume"}

\* The actor that writes a status moves, and had the timer in hand or was asked.
LEMMA ReopenedBy ==
  ASSUME TimersTyped, EndInv, NEW a \in Actors, NEW t \in Grievances, NEW s, SetStatus(t, s),
         <<pc[a], todo[a], at[a]>> # <<pc'[a], todo'[a], at'[a]>>,
         Touches(a, t) \/ held[a].op \in {"pause", "resume"}
  PROVE  Reopened
<1>1. \A h \in Grievances \ {t} : status'[h] = status[h]
  BY DEF SetStatus, TimersTyped
<1>2. status[t] \in Ended => a \in late[t] \/ held[a].op \in {"pause", "resume"}
  BY DEF EndInv
<1> QED
  BY <1>1, <1>2 DEF Reopened

\* The steps that write a status that is not an end are those of such actors.
LEMMA ReopenStep == TypeOK /\ EndInv /\ [Next]_vars => Reopened
<1> SUFFICES ASSUME TypeOK, EndInv, [Next]_vars PROVE Reopened
  OBVIOUS
<1> ActorsTyped /\ TimersTyped /\ RestTyped
  BY TypeParts
<1>1. ASSUME UNCHANGED status PROVE Reopened
  BY <1>1 DEF Reopened
<1>2. ASSUME NEW k \in Ticks, NEW g \in Grievances, Warn(k, g) PROVE Reopened
  <2>1. pc[k] = "warn" /\ pc'[k] = "remind" /\ Touches(k, g) /\ SetStatus(g, "warning")
    BY <1>2 DEF Warn, Now, Touches, Writes, ActorsTyped, Actors
  <2> QED
    BY <2>1, ReopenedBy DEF Actors
<1>3. ASSUME NEW k \in Ticks, NEW g \in Grievances, Breach(k, g) PROVE Reopened
  <2>1. g \in todo[k] /\ g \notin todo'[k] /\ Touches(k, g) /\ SetStatus(g, "breached")
    BY <1>3 DEF Breach, Now, Touches, Writes, ActorsTyped, Actors
  <2> QED
    BY <2>1, ReopenedBy DEF Actors
<1>4. ASSUME NEW a \in Actors, Escalate(a) PROVE Reopened
  <2>1. /\ pc[a] = "notify" /\ pc'[a] = "escalate" /\ Touches(a, at[a])
        /\ at[a] \in Grievances /\ SetStatus(at[a], "escalated")
    BY <1>4 DEF Escalate, Proceed, Now, Touches, Writes, ActorsTyped
  <2> QED
    BY <2>1, ReopenedBy
<1>5. ASSUME NEW e \in Evaluators, MarkWarning(e) PROVE Reopened
  <2>1. /\ pc[e] = "save" /\ pc'[e] = "mark" /\ Touches(e, at[e])
        /\ at[e] \in Grievances /\ SetStatus(at[e], "warning")
    BY <1>5 DEF MarkWarning, NextMark, Now, Touches, Writes, ActorsTyped, Actors
  <2> QED
    BY <2>1, ReopenedBy DEF Actors
<1>6. ASSUME NEW e \in Evaluators, MarkBreached(e) PROVE Reopened
  <2>1. /\ pc[e] = "save" /\ pc'[e] = "mark" /\ Touches(e, at[e])
        /\ at[e] \in Grievances /\ SetStatus(at[e], "breached")
    BY <1>6 DEF MarkBreached, NextMark, Now, Touches, Writes, ActorsTyped, Actors
  <2> QED
    BY <2>1, ReopenedBy DEF Actors
<1>7. ASSUME NEW u \in Users, StartTimer(u) PROVE Reopened
  <2>1. /\ pc[u] = "start" /\ pc'[u] = "idle" /\ Touches(u, at[u])
        /\ at[u] \in Grievances /\ SetStatus(at[u], "running")
    BY <1>7 DEF StartTimer, Rest, Now, Touches, Writes, ActorsTyped, Actors
  <2> QED
    BY <2>1, ReopenedBy DEF Actors
<1>8. ASSUME NEW u \in Users, SaveTimer(u) PROVE Reopened
  <2>1. /\ pc[u] = "saveTimer" /\ pc'[u] = "idle" /\ held[u].op \in {"pause", "resume"}
        /\ at[u] \in Grievances
        /\ UNCHANGED status \/ \E s \in Active : SetStatus(at[u], s)
    BY <1>8 DEF SaveTimer, Rest, Now, ActorsTyped, Actors, EndInv, Active
  <2> QED
    BY <2>1, <1>1, ReopenedBy DEF Actors
<1>9. ASSUME NEW u \in Users, CompleteTimer(u) PROVE Reopened
  BY <1>9 DEF CompleteTimer, SetStatus, Reopened, Ended, TimersTyped
<1>10. ASSUME NEW u \in Users, NEW g \in Grievances, CompleteRequest(u, g) PROVE Reopened
  BY <1>10 DEF CompleteRequest, SetStatus, Reopened, Ended, TimersTyped
<1>14. ASSUME NEW u \in Users, SaveCaseTimer(u) PROVE Reopened
  <2>1. /\ pc[u] = "saveCase" /\ pc'[u] = "idle" /\ Touches(u, at[u])
        /\ at[u] \in Grievances /\ SetStatus(at[u], Given(held[u].op))
    BY <1>14 DEF SaveCaseTimer, Rest, Now, Touches, Writes, ActorsTyped, Actors
  <2> QED
    BY <2>1, ReopenedBy DEF Actors
<1>11. ASSUME NEW k \in Ticks, Tick(k) PROVE Reopened
  <2>1. \/ \E g \in Grievances : Warn(k, g) \/ Breach(k, g)
        \/ Escalate(k)
        \/ UNCHANGED status
    BY <1>11 DEF Tick, FindWarnings, Remind, FindBreaches, FindOverdue, Finish, FindActive, timers
  <2> QED
    BY <2>1, <1>1, <1>2, <1>3, <1>4 DEF Actors
<1>12. ASSUME NEW e \in Evaluators, Evaluate(e) PROVE Reopened
  <2>1. MarkWarning(e) \/ MarkBreached(e) \/ UNCHANGED status
    BY <1>12 DEF Evaluate, EvaluationEnds, FindMarks, LoadMark, timers
  <2> QED
    BY <2>1, <1>1, <1>5, <1>6
<1>13. ASSUME NEW u \in Users, Request(u) PROVE Reopened
  <2>1. \/ StartTimer(u) \/ SaveTimer(u) \/ CompleteTimer(u) \/ SaveCaseTimer(u) \/ Escalate(u)
        \/ \E g \in Grievances : CompleteRequest(u, g)
        \/ UNCHANGED status
    BY <1>13 DEF Request, PushHistory, FindTimer, Finish, Create, EscalateRequest, FindActive,
                 LoadGrievance, LoadTimer, FindCaseTimer, timers
  <2> QED
    BY <2>1, <1>1, <1>4, <1>7, <1>8, <1>9, <1>10, <1>14 DEF Actors
<1> QED
  BY <1>1, <1>11, <1>12, <1>13 DEF Next, Pass, Fail, timers, vars

\* A timer that has ended is taken up only by who had it in hand when it ended,
\* or by a pause or a resume of it on request, for all who write timers.
THEOREM EndedTimersStayEnded == Spec => EndedStaysEnded
<1>1. Init => EndInv
  BY SlaAssumption DEF Init, EndInv, Touches, Writes, Marks
<1>2. Init => HistoryInv
  BY SlaAssumption DEF Init, HistoryInv, HistoryTellsStatus
<1>3. TypeOK /\ EndInv /\ [Next]_vars =>
        [\A g \in Grievances :
           status[g] \in Ended /\ status'[g] \notin Ended =>
             \E a \in Actors :
               /\ <<pc[a], todo[a], at[a]>> # <<pc'[a], todo'[a], at'[a]>>
               /\ a \in late[g] \/ held[a].op \in {"pause", "resume"}]_vars
  BY ReopenStep DEF Reopened
<1> QED
  BY <1>1, <1>2, <1>3, EndStep, HistoryStep, SlaTypeInit, SlaTypeStep, PTL DEF Spec, EndedStaysEnded

=============================================================================
