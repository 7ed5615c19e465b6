---------------------- MODULE CaseOrchestrationProofs ----------------------
(***************************************************************************)
(* Theorems about CaseOrchestration, for any set of departments and any    *)
(* number of requests that overlap and crash in any way; the later parts   *)
(* are about requests that come one at a time, and crash.                  *)
(***************************************************************************)
EXTENDS CaseOrchestration, TLAPS

-----------------------------------------------------------------------------
(* What the guards and the derivation give, whatever the documents are.    *)

LEMMA DerivedIsCaseStatus ==
  ASSUME NEW status \in CaseStatuses, NEW tasks
  PROVE  DeriveAggregateCaseStatus(status, tasks) \in CaseStatuses
BY DEF DeriveAggregateCaseStatus, CaseStatuses

LEMMA NextTaskStatusFollowsTable ==
  ASSUME NEW d, NEW caseSt, NEW status,
         NEW to \in NextTaskStatuses(d, caseSt, status)
  PROVE  to \in TaskStatuses /\ <<status, to>> \in TaskTransitions
BY DEF NextTaskStatuses, TaskTransitionAllowed

LEMMA NextCaseStatusIsCaseStatus ==
  ASSUME NEW status, NEW to \in NextCaseStatuses(status)
  PROVE  to \in CaseStatuses
BY DEF NextCaseStatuses

\* A certificate and a closure are reached from a decided status only.
LEMMA FinalityFollowsDecision ==
  ASSUME NEW status, NEW to \in {"certificate_issued", "closed"},
         <<status, to>> \in TaskTransitions
  PROVE  status \in {"approved", "rejected", "certificate_issued"}
BY DEF TaskTransitions

LEMMA StatusesInUse ==
  /\ CaseStatuses \subseteq AllStatuses
  /\ TaskStatuses \subseteq AllStatuses
  /\ Absent \in AllStatuses
  /\ {"draft", "submitted", "withdrawn"} \subseteq CaseStatuses
  /\ {"pending", "approved", "rejected"} \subseteq TaskStatuses
  /\ InitialTaskStatus = "pending"
BY DEF AllStatuses, CaseStatuses, TaskStatuses, InitialTaskStatus

-----------------------------------------------------------------------------
(* Types.  What a worker is about to save has the type of the document it  *)
(* saves: that part makes TypeOK inductive.                                *)

WorkerTypeOK(w) ==
  /\ pc[w] \in TaskSteps => target[w] \in Departments
  /\ pc[w] \in TaskSteps \ {"taskCase"} => next[w] \in TaskStatuses
  /\ pc[w] = "aggTasks" => loaded[w] \in CaseStatuses
  /\ pc[w] \in {"aggSave", "aggEvent", "aggAudit"} \cup CaseSteps =>
       next[w] \in CaseStatuses

TypeInv == TypeOK /\ \A w \in Workers : WorkerTypeOK(w)

LEMMA TypeInit == Init => TypeInv
<1> SUFFICES ASSUME Init PROVE TypeInv
  OBVIOUS
<1>1. TypeOK
  <2>1. PICK first \in {Absent, "pending"} :
          /\ taskStatus = [d \in Departments |-> first]
          /\ eventLog = [r \in Resources |-> IF r = CaseId THEN "draft" ELSE first]
    BY DEF Init
  <2>2. first \in TaskStatuses \cup {Absent} /\ {first, "draft"} \subseteq AllStatuses
    BY <2>1, StatusesInUse
  <2>3. taskStatus \in [Departments -> TaskStatuses \cup {Absent}]
    BY <2>1, <2>2
  <2>4. eventLog \in [Resources -> AllStatuses]
    BY <2>1, <2>2
  <2>5. caseStatus \in CaseStatuses /\ submittedAt \in BOOLEAN
    BY StatusesInUse DEF Init
  <2>6. /\ auditLog \in [Resources -> AllStatuses]
        /\ loaded \in [Workers -> AllStatuses]
        /\ next \in [Workers -> AllStatuses]
    BY StatusesInUse DEF Init
  <2>7. /\ decision \in [Departments -> Outcomes]
        /\ target \in [Workers -> Resources]
        /\ loadedSubmittedAt \in [Workers -> BOOLEAN]
        /\ stale \in [Workers -> BOOLEAN]
        /\ pc \in [Workers -> {"idle"} \cup TaskSteps \cup AggregateSteps \cup CaseSteps]
    BY DEF Init, Outcomes, Resources
  <2>8. overlaps \in 0..MaxOverlaps /\ crashes \in 0..MaxCrashes
    BY OrchestrationAssumption DEF Init
  <2> QED
    BY <2>3, <2>4, <2>5, <2>6, <2>7, <2>8 DEF TypeOK
<1>2. \A w \in Workers : WorkerTypeOK(w)
  BY DEF Init, WorkerTypeOK, TaskSteps, CaseSteps
<1> QED
  BY <1>1, <1>2 DEF TypeInv

\* The end of a request.
LEMMA FinishTyped ==
  ASSUME TypeInv, NEW w \in Workers, Finish(w),
         caseStatus' \in CaseStatuses, submittedAt' \in BOOLEAN,
         taskStatus' \in [Departments -> TaskStatuses \cup {Absent}],
         decision' \in [Departments -> Outcomes],
         eventLog' \in [Resources -> AllStatuses],
         auditLog' \in [Resources -> AllStatuses],
         overlaps' \in 0..MaxOverlaps, crashes' \in 0..MaxCrashes
  PROVE  TypeInv'
<1>1. TypeOK'
  BY StatusesInUse DEF TypeInv, TypeOK, Finish, Resources
<1>2. \A v \in Workers : WorkerTypeOK(v)'
  BY DEF TypeInv, TypeOK, WorkerTypeOK, Finish, TaskSteps, CaseSteps
<1> QED
  BY <1>1, <1>2 DEF TypeInv

\* The steps of transitionTask.
LEMMA TransitionTaskTyped ==
  ASSUME TypeInv, NEW w \in Workers, TransitionTask(w)
  PROVE  TypeInv'
<1> USE DEF TypeInv, TypeOK, documents, logs, locals, budget
<1>1. ASSUME NEW d \in Departments, LoadTask(w, d) PROVE TypeInv'
  BY <1>1, StatusesInUse, OrchestrationAssumption
     DEF LoadTask, Begin, WorkerTypeOK, TaskSteps, CaseSteps, Resources
<1>2. CASE AcceptTask(w)
  <2>1. PICK status \in NextTaskStatuses(target[w], caseStatus, loaded[w]) :
          next' = [next EXCEPT ![w] = status]
    BY <1>2 DEF AcceptTask
  <2>2. status \in TaskStatuses
    BY <2>1, NextTaskStatusFollowsTable
  <2> QED
    BY <1>2, <2>1, <2>2, StatusesInUse
       DEF AcceptTask, Goto, WorkerTypeOK, TaskSteps, CaseSteps
<1>3. CASE RejectTask(w)
  BY <1>3, FinishTyped DEF RejectTask
<1>4. CASE SaveTask(w)
  <2>1. next[w] \in TaskStatuses /\ target[w] \in Departments
    BY <1>4 DEF SaveTask, WorkerTypeOK, TaskSteps
  <2>2. taskStatus' \in [Departments -> TaskStatuses \cup {Absent}]
    BY <1>4, <2>1 DEF SaveTask
  <2>3. decision' \in [Departments -> Outcomes]
    BY <1>4, <2>1 DEF SaveTask, DecisionOutcome, Outcomes
  <2>4. CASE Finish(w)
    BY <1>4, <2>2, <2>3, <2>4, FinishTyped DEF SaveTask
  <2>5. CASE ~Finish(w)
    <3>1. /\ Goto(w, "taskSave", "taskEvent")
          /\ stale' = [v \in Workers |-> stale[v] \/ v \in OutdatedBy(w)]
          /\ UNCHANGED <<target, loaded, loadedSubmittedAt, next>>
          /\ UNCHANGED <<caseStatus, submittedAt, logs, budget>>
      BY <1>4, <2>5 DEF SaveTask
    <3>2. stale' \in [Workers -> BOOLEAN]
      BY <3>1
    <3>3. TypeOK'
      BY <2>2, <2>3, <3>1, <3>2 DEF Goto, TaskSteps
    <3>4. \A v \in Workers : WorkerTypeOK(v)'
      BY <2>1, <3>1 DEF Goto, WorkerTypeOK, TaskSteps, CaseSteps
    <3> QED
      BY <3>3, <3>4
  <2> QED
    BY <2>4, <2>5
<1>5. CASE SaveTaskConflict(w)
  BY <1>5, FinishTyped DEF SaveTaskConflict
<1>6. CASE AppendEvent(w, "taskEvent", "taskAudit")
  BY <1>6 DEF AppendEvent, Goto, WorkerTypeOK, TaskSteps, CaseSteps
<1>7. CASE RecordAudit(w, "taskAudit", "taskChanged")
  BY <1>7 DEF RecordAudit, Goto, WorkerTypeOK, TaskSteps, CaseSteps
<1>8. CASE AppendEvent(w, "taskChanged", "aggCase")
  BY <1>8 DEF AppendEvent, Goto, WorkerTypeOK, TaskSteps, AggregateSteps, CaseSteps
<1> QED
  BY <1>1, <1>2, <1>3, <1>4, <1>5, <1>6, <1>7, <1>8 DEF TransitionTask

\* The steps of recalculateCaseAggregateStatus.
LEMMA RecalculateCaseTyped ==
  ASSUME TypeInv, NEW w \in Workers, RecalculateCase(w)
  PROVE  TypeInv'
<1> USE DEF TypeInv, TypeOK, documents, logs, locals, budget
<1>1. CASE BeginRecalculation(w)
  BY <1>1, OrchestrationAssumption
     DEF BeginRecalculation, Begin, WorkerTypeOK, TaskSteps, AggregateSteps,
         CaseSteps, Resources
<1>2. CASE AggregateLoadCase(w)
  BY <1>2, StatusesInUse
     DEF AggregateLoadCase, Goto, WorkerTypeOK, TaskSteps, AggregateSteps,
         CaseSteps, Resources
<1>3. CASE AggregateLoadTasks(w)
  <2> DEFINE derived == DeriveAggregateCaseStatus(loaded[w], taskStatus)
  <2>1. derived \in CaseStatuses
    BY <1>3, DerivedIsCaseStatus DEF AggregateLoadTasks, WorkerTypeOK
  <2>2. CASE Finish(w)
    BY <1>3, <2>2, FinishTyped DEF AggregateLoadTasks
  <2> HIDE DEF derived
  <2>3. CASE ~Finish(w)
    BY <1>3, <2>1, <2>3, StatusesInUse
       DEF derived, AggregateLoadTasks, Goto, WorkerTypeOK, TaskSteps,
           AggregateSteps, CaseSteps
  <2> QED
    BY <2>2, <2>3
<1>4. CASE AggregateSave(w)
  BY <1>4 DEF AggregateSave, Goto, WorkerTypeOK, TaskSteps, AggregateSteps, CaseSteps
<1>5. CASE AppendEvent(w, "aggEvent", "aggAudit")
  BY <1>5 DEF AppendEvent, Goto, WorkerTypeOK, TaskSteps, AggregateSteps, CaseSteps
<1>6. CASE AggregateRecordAudit(w)
  BY <1>6, FinishTyped DEF AggregateRecordAudit
<1> QED
  BY <1>1, <1>2, <1>3, <1>4, <1>5, <1>6 DEF RecalculateCase

\* The steps of transitionCase.
LEMMA TransitionCaseTyped ==
  ASSUME TypeInv, NEW w \in Workers, TransitionCase(w)
  PROVE  TypeInv'
<1> USE DEF TypeInv, TypeOK, documents, logs, locals, budget
<1>1. CASE LoadCase(w)
  <2>1. PICK status \in NextCaseStatuses(caseStatus) :
          /\ loadedSubmittedAt' =
               [loadedSubmittedAt EXCEPT ![w] = submittedAt \/ status = "submitted"]
          /\ next' = [next EXCEPT ![w] = status]
    BY <1>1 DEF LoadCase
  <2>2. status \in CaseStatuses
    BY <2>1, NextCaseStatusIsCaseStatus
  <2> QED
    BY <1>1, <2>1, <2>2, StatusesInUse, OrchestrationAssumption
       DEF LoadCase, Begin, WorkerTypeOK, TaskSteps, CaseSteps, Resources
<1>2. CASE SaveCase(w)
  <2>1. next[w] \in CaseStatuses
    BY <1>2 DEF SaveCase, WorkerTypeOK, CaseSteps
  <2>2. CASE Finish(w)
    BY <1>2, <2>1, <2>2, FinishTyped DEF SaveCase
  <2>3. CASE ~Finish(w)
    BY <1>2, <2>1, <2>3
       DEF SaveCase, Goto, WorkerTypeOK, TaskSteps, AggregateSteps, CaseSteps
  <2> QED
    BY <2>2, <2>3
<1>3. CASE FindInitialTasks(w)
  <2>1. CASE Finish(w)
    BY <1>3, <2>1, FinishTyped DEF FindInitialTasks
  <2>2. CASE ~Finish(w)
    BY <1>3, <2>2
       DEF FindInitialTasks, AfterTasks, Goto, WorkerTypeOK, TaskSteps,
           AggregateSteps, CaseSteps
  <2> QED
    BY <2>1, <2>2
<1>4. CASE CreateInitialTask(w) \/ CreateInitialTaskConflict(w)
  <2>1. taskStatus' \in [Departments -> TaskStatuses \cup {Absent}]
    BY <1>4, StatusesInUse DEF CreateInitialTask, CreateInitialTaskConflict
  <2> QED
    BY <1>4, <2>1, FinishTyped DEF CreateInitialTask, CreateInitialTaskConflict
<1>5. CASE AppendEvent(w, "caseEvent", "caseAudit")
  BY <1>5 DEF AppendEvent, Goto, WorkerTypeOK, TaskSteps, AggregateSteps, CaseSteps
<1>6. CASE RecordAudit(w, "caseAudit", "caseChanged")
  BY <1>6 DEF RecordAudit, Goto, WorkerTypeOK, TaskSteps, AggregateSteps, CaseSteps
<1>7. CASE AppendCaseStatusChanged(w)
  BY <1>7, FinishTyped, StatusesInUse DEF AppendCaseStatusChanged
<1> QED
  BY <1>1, <1>2, <1>3, <1>4, <1>5, <1>6, <1>7 DEF TransitionCase

LEMMA TypeStep == TypeInv /\ [Next]_vars => TypeInv'
<1> SUFFICES ASSUME TypeInv, [Next]_vars PROVE TypeInv'
  OBVIOUS
<1>1. ASSUME NEW w \in Workers, WorkerStep(w) PROVE TypeInv'
  BY <1>1, TransitionTaskTyped, RecalculateCaseTyped, TransitionCaseTyped
     DEF WorkerStep
<1>2. ASSUME NEW w \in Workers, Crash(w) PROVE TypeInv'
  <2>1. crashes' \in 0..MaxCrashes
    BY <1>2, OrchestrationAssumption DEF Crash, TypeInv, TypeOK
  <2> QED
    BY <1>2, <2>1, FinishTyped DEF Crash, TypeInv, TypeOK, documents, logs
<1>3. CASE UNCHANGED vars
  BY <1>3 DEF vars, documents, logs, locals, budget, TypeInv, TypeOK, WorkerTypeOK
<1> QED
  BY <1>1, <1>2, <1>3 DEF Next

LEMMA TypeInvariant == Spec => []TypeInv
  BY TypeInit, TypeStep, PTL DEF Spec

\* Every variable keeps the type its schema or its step gives it: no step
\* saves a task status on the case or a case status on a task.
THEOREM TypeCorrectness == Spec => []TypeOK
  BY TypeInvariant, PTL DEF TypeInv

-----------------------------------------------------------------------------
(* A step of one request leaves the locals of the others alone.            *)

OthersKeep(w) ==
  \A v \in Workers \ {w} :
    /\ pc'[v] = pc[v]
    /\ target'[v] = target[v]
    /\ loaded'[v] = loaded[v]
    /\ loadedSubmittedAt'[v] = loadedSubmittedAt[v]
    /\ next'[v] = next[v]

LEMMA FinishKeepsOthers ==
  ASSUME TypeOK, NEW w \in Workers, Finish(w)
  PROVE  OthersKeep(w) /\ pc'[w] = "idle"
BY DEF TypeOK, Finish, OthersKeep

LEMMA StepKeepsOthers ==
  ASSUME TypeOK, NEW w \in Workers, WorkerStep(w) \/ Crash(w)
  PROVE  OthersKeep(w)
<1> USE DEF TypeOK, OthersKeep, locals
<1>1. CASE Finish(w)
  BY <1>1, FinishKeepsOthers
<1>2. CASE TransitionTask(w) /\ ~Finish(w)
  BY <1>2
     DEF TransitionTask, LoadTask, AcceptTask, RejectTask, SaveTask,
         SaveTaskConflict, AppendEvent, RecordAudit, Begin, Goto
<1>3. CASE RecalculateCase(w) /\ ~Finish(w)
  BY <1>3
     DEF RecalculateCase, BeginRecalculation, AggregateLoadCase,
         AggregateLoadTasks, AggregateSave, AppendEvent, AggregateRecordAudit,
         Begin, Goto
<1>4. CASE TransitionCase(w) /\ ~Finish(w)
  BY <1>4
     DEF TransitionCase, LoadCase, SaveCase, FindInitialTasks, AfterTasks,
         CreateInitialTask, CreateInitialTaskConflict, AppendEvent, RecordAudit,
         AppendCaseStatusChanged, Begin, Goto
<1>5. CASE Crash(w)
  BY <1>5, <1>1 DEF Crash
<1> QED
  BY <1>1, <1>2, <1>3, <1>4, <1>5 DEF WorkerStep

-----------------------------------------------------------------------------
(* DecisionBeforeFinality is not inductive: a request that loaded a task   *)
(* as approved saves a certificate later, whatever the task has become.    *)
(* What saves the property is that a decision, once recorded, is replaced  *)
(* and never removed, so what a request knew of it still holds.            *)

Decided == {"approved", "rejected", "certificate_issued"}

DecisionInv ==
  /\ \A d \in Departments :
       taskStatus[d] \in Decided \cup {"closed"} => decision[d] # "none"
  /\ \A w \in Workers :
       /\ (pc[w] \in {"taskCase", "taskSave"} /\ loaded[w] \in Decided)
            => decision[target[w]] # "none"
       /\ (pc[w] = "taskSave" /\ next[w] \in {"certificate_issued", "closed"})
            => decision[target[w]] # "none"

LEMMA DecisionKept ==
  ASSUME TypeInv, DecisionInv, NEW w \in Workers, OthersKeep(w),
         taskStatus' = taskStatus, decision' = decision,
         pc'[w] \notin {"taskCase", "taskSave"}
  PROVE  DecisionInv'
BY DEF DecisionInv, OthersKeep

LEMMA DecisionStep ==
  ASSUME TypeInv, DecisionInv, NEW w \in Workers, WorkerStep(w) \/ Crash(w)
  PROVE  DecisionInv'
<1> USE DEF TypeInv, TypeOK
<1>0. OthersKeep(w)
  BY StepKeepsOthers
<1>1. ASSUME NEW d \in Departments, LoadTask(w, d) PROVE DecisionInv'
  BY <1>0, <1>1
     DEF LoadTask, Begin, DecisionInv, OthersKeep, documents
<1>2. CASE AcceptTask(w)
  <2>1. PICK status \in NextTaskStatuses(target[w], caseStatus, loaded[w]) :
          next' = [next EXCEPT ![w] = status]
    BY <1>2 DEF AcceptTask
  <2>2. status \in {"certificate_issued", "closed"} => loaded[w] \in Decided
    BY <2>1, NextTaskStatusFollowsTable, FinalityFollowsDecision DEF Decided
  <2> QED
    BY <1>0, <1>2, <2>1, <2>2
       DEF AcceptTask, Goto, DecisionInv, OthersKeep, documents
<1>3. CASE SaveTask(w)
  <2>1. target[w] \in Departments /\ pc[w] = "taskSave"
    BY <1>3 DEF SaveTask, WorkerTypeOK, TaskSteps
  <2>2. pc'[w] \notin {"taskCase", "taskSave"}
    BY <1>3, FinishKeepsOthers DEF SaveTask, Goto
  <2>3. \A d \in Departments : decision[d] # "none" => decision'[d] # "none"
    BY <1>3 DEF SaveTask, DecisionOutcome
  <2>4. next[w] \in Decided \cup {"closed"} => decision'[target[w]] # "none"
    <3>1. CASE next[w] \in {"approved", "rejected"}
      BY <1>3, <2>1, <3>1 DEF SaveTask, DecisionOutcome
    <3>2. CASE next[w] \in {"certificate_issued", "closed"}
      BY <2>1, <2>3, <3>2 DEF DecisionInv
    <3> QED
      BY <3>1, <3>2 DEF Decided
  <2>5. \A d \in Departments :
          taskStatus'[d] \in Decided \cup {"closed"} => decision'[d] # "none"
    BY <1>3, <2>1, <2>3, <2>4 DEF SaveTask, DecisionInv
  <2>6. \A v \in Workers : pc[v] \in {"taskCase", "taskSave"} =>
          target[v] \in Departments
    BY DEF WorkerTypeOK, TaskSteps
  <2> QED
    BY <1>0, <2>2, <2>3, <2>5, <2>6 DEF DecisionInv, OthersKeep
<1>4. CASE CreateInitialTask(w)
  <2>1. pc'[w] = "idle"
    BY <1>4, FinishKeepsOthers DEF CreateInitialTask
  <2>2. taskStatus' = [taskStatus EXCEPT ![FirstDepartment] = "pending"] /\ decision' = decision
    BY <1>4 DEF CreateInitialTask, InitialTaskStatus
  <2> QED
    BY <1>0, <2>1, <2>2 DEF DecisionInv, OthersKeep, Decided
<1>5. CASE RejectTask(w) \/ SaveTaskConflict(w) \/ CreateInitialTaskConflict(w) \/ Crash(w)
  BY <1>0, <1>5, FinishKeepsOthers, DecisionKept
     DEF RejectTask, SaveTaskConflict, CreateInitialTaskConflict, Crash, documents
<1>6. CASE \/ AppendEvent(w, "taskEvent", "taskAudit")
           \/ RecordAudit(w, "taskAudit", "taskChanged")
           \/ AppendEvent(w, "taskChanged", "aggCase")
  BY <1>0, <1>6, DecisionKept DEF AppendEvent, RecordAudit, Goto, documents
<1>7. CASE RecalculateCase(w)
  BY <1>0, <1>7, FinishKeepsOthers, DecisionKept
     DEF RecalculateCase, BeginRecalculation, AggregateLoadCase,
         AggregateLoadTasks, AggregateSave, AppendEvent, AggregateRecordAudit,
         Begin, Goto, documents
<1>8. CASE \/ LoadCase(w) \/ SaveCase(w) \/ FindInitialTasks(w)
           \/ AppendEvent(w, "caseEvent", "caseAudit")
           \/ RecordAudit(w, "caseAudit", "caseChanged")
           \/ AppendCaseStatusChanged(w)
  BY <1>0, <1>8, FinishKeepsOthers, DecisionKept
     DEF LoadCase, SaveCase, FindInitialTasks, AfterTasks, AppendEvent,
         RecordAudit, AppendCaseStatusChanged, Begin, Goto, documents
<1> QED
  BY <1>1, <1>2, <1>3, <1>4, <1>5, <1>6, <1>7, <1>8
     DEF WorkerStep, TransitionTask, TransitionCase

\* However many requests overlap and wherever they crash, a task that has a
\* certificate or is closed has a recorded decision.
THEOREM DecisionComesFirst == Spec => []DecisionBeforeFinality
<1>1. Init => DecisionInv
  BY DEF Init, DecisionInv, Decided, Absent
<1>2. TypeInv /\ DecisionInv /\ [Next]_vars => DecisionInv'
  <2>1. ASSUME TypeInv, DecisionInv, UNCHANGED vars PROVE DecisionInv'
    BY <2>1 DEF vars, documents, locals, DecisionInv
  <2> QED
    BY <2>1, DecisionStep DEF Next
<1>3. DecisionInv => DecisionBeforeFinality
  BY DEF DecisionInv, DecisionBeforeFinality, Decided
<1> QED
  BY <1>1, <1>2, <1>3, TypeInvariant, PTL DEF Spec

-----------------------------------------------------------------------------
(* UnsubmittedCaseStaysDraft: a recalculation validates the submission it  *)
(* loaded, and a case is submitted once and for all, so what it validated  *)
(* is still true when it saves.                                            *)

SubmissionInv ==
  /\ UnsubmittedCaseStaysDraft
  /\ \A w \in Workers :
       /\ (pc[w] = "aggTasks" /\ loadedSubmittedAt[w]) => submittedAt
       /\ pc[w] = "aggSave" => submittedAt \/ next[w] \in {"draft", "withdrawn"}
       /\ (pc[w] = "caseSave" /\ loadedSubmittedAt[w])
            => submittedAt \/ next[w] = "submitted"

LEMMA SubmissionKept ==
  ASSUME TypeInv, SubmissionInv, NEW w \in Workers, OthersKeep(w),
         UnsubmittedCaseStaysDraft', submittedAt => submittedAt',
         pc'[w] \notin {"aggTasks", "aggSave", "caseSave"}
  PROVE  SubmissionInv'
BY DEF SubmissionInv, OthersKeep

LEMMA SubmissionStep ==
  ASSUME TypeInv, SubmissionInv, NEW w \in Workers, WorkerStep(w) \/ Crash(w)
  PROVE  SubmissionInv'
<1> USE DEF TypeInv, TypeOK, UnsubmittedCaseStaysDraft
<1>0. OthersKeep(w)
  BY StepKeepsOthers
<1>1. CASE TransitionTask(w)
  BY <1>0, <1>1, FinishKeepsOthers, SubmissionKept
     DEF TransitionTask, LoadTask, AcceptTask, RejectTask, SaveTask,
         SaveTaskConflict, AppendEvent, RecordAudit, Begin, Goto, documents,
         SubmissionInv
<1>2. CASE AggregateLoadCase(w)
  BY <1>0, <1>2 DEF AggregateLoadCase, Goto, SubmissionInv, OthersKeep, documents
<1>3. CASE AggregateLoadTasks(w)
  <2> DEFINE derived == DeriveAggregateCaseStatus(loaded[w], taskStatus)
  <2>1. CASE Finish(w)
    BY <1>0, <1>3, <2>1, FinishKeepsOthers, SubmissionKept
       DEF AggregateLoadTasks, SubmissionInv, documents
  <2> HIDE DEF derived
  <2>2. CASE ~Finish(w)
    BY <1>0, <1>3, <2>2
       DEF derived, AggregateLoadTasks, CaseSaveRejected, Goto, SubmissionInv,
           OthersKeep, documents
  <2> QED
    BY <2>1, <2>2
<1>4. CASE AggregateSave(w)
  BY <1>0, <1>4 DEF AggregateSave, Goto, SubmissionInv, OthersKeep
<1>5. CASE \/ BeginRecalculation(w) \/ AggregateRecordAudit(w)
           \/ AppendEvent(w, "aggEvent", "aggAudit")
  BY <1>0, <1>5, FinishKeepsOthers, SubmissionKept
     DEF BeginRecalculation, AggregateRecordAudit, AppendEvent, Begin, Goto,
         documents, SubmissionInv
<1>6. CASE LoadCase(w)
  BY <1>0, <1>6 DEF LoadCase, Begin, SubmissionInv, OthersKeep, documents
<1>7. CASE SaveCase(w)
  <2>1. CASE Finish(w)
    BY <1>0, <1>7, <2>1, FinishKeepsOthers, SubmissionKept
       DEF SaveCase, SubmissionInv, CaseSaveRejected, Goto
  <2>2. CASE ~Finish(w)
    BY <1>0, <1>7, <2>2
       DEF SaveCase, CaseSaveRejected, Goto, SubmissionInv, OthersKeep
  <2> QED
    BY <2>1, <2>2
<1>8. CASE \/ FindInitialTasks(w)
           \/ CreateInitialTask(w) \/ CreateInitialTaskConflict(w)
           \/ AppendEvent(w, "caseEvent", "caseAudit")
           \/ RecordAudit(w, "caseAudit", "caseChanged")
           \/ AppendCaseStatusChanged(w)
           \/ Crash(w)
  BY <1>0, <1>8, FinishKeepsOthers, SubmissionKept
     DEF FindInitialTasks, AfterTasks, CreateInitialTask, CreateInitialTaskConflict,
         AppendEvent, RecordAudit, AppendCaseStatusChanged, Crash, Goto, documents,
         SubmissionInv
<1> QED
  BY <1>1, <1>2, <1>3, <1>4, <1>5, <1>6, <1>7, <1>8
     DEF WorkerStep, RecalculateCase, TransitionCase

\* No recalculation, however late, moves a case that was never submitted.
THEOREM OnlySubmissionLeavesDraft == Spec => []UnsubmittedCaseStaysDraft
<1>1. Init => SubmissionInv
  BY DEF Init, SubmissionInv, UnsubmittedCaseStaysDraft
<1>2. TypeInv /\ SubmissionInv /\ [Next]_vars => SubmissionInv'
  <2>1. ASSUME TypeInv, SubmissionInv, UNCHANGED vars PROVE SubmissionInv'
    BY <2>1 DEF vars, documents, locals, SubmissionInv, UnsubmittedCaseStaysDraft
  <2> QED
    BY <2>1, SubmissionStep DEF Next
<1>3. SubmissionInv => UnsubmittedCaseStaysDraft
  BY DEF SubmissionInv
<1> QED
  BY <1>1, <1>2, <1>3, TypeInvariant, PTL DEF Spec

-----------------------------------------------------------------------------
(* As long as no request has joined another, a request saves what it       *)
(* loaded and decided on: nothing has moved in between.                    *)

OneBusy == \A v, w \in Workers : pc[v] # "idle" /\ pc[w] # "idle" => v = w

LEMMA OverlapsGrow ==
  ASSUME TypeInv, overlaps' = 0, NEW w \in Workers, WorkerStep(w) \/ Crash(w)
  PROVE  overlaps = 0
<1> USE DEF TypeInv, TypeOK, budget
<1>1. overlaps \in Nat
  BY OrchestrationAssumption
<1>2. CASE TransitionTask(w)
  BY <1>1, <1>2 DEF TransitionTask, LoadTask, AcceptTask, RejectTask, SaveTask, SaveTaskConflict,
     AppendEvent, RecordAudit, Begin
<1>3. CASE RecalculateCase(w)
  BY <1>1, <1>3 DEF RecalculateCase, BeginRecalculation, AggregateLoadCase, AggregateLoadTasks,
     AggregateSave, AppendEvent, AggregateRecordAudit, Begin
<1>4. CASE TransitionCase(w)
  BY <1>1, <1>4 DEF TransitionCase, LoadCase, SaveCase, FindInitialTasks, CreateInitialTask,
     CreateInitialTaskConflict, AppendEvent, RecordAudit, AppendCaseStatusChanged, Begin
<1>5. CASE Crash(w)
  BY <1>5 DEF Crash
<1> QED
  BY <1>2, <1>3, <1>4, <1>5 DEF WorkerStep

LEMMA StepsAlone ==
  ASSUME TypeInv, overlaps' = 0, OneBusy, NEW w \in Workers, WorkerStep(w) \/ Crash(w)
  PROVE  \A v \in Workers \ {w} : pc[v] = "idle" /\ pc'[v] = "idle"
<1> USE DEF TypeInv, TypeOK, budget
<1>1. \A v \in Workers \ {w} : pc'[v] = pc[v]
  BY StepKeepsOthers DEF OthersKeep
<1>2. overlaps \in Nat
  BY OrchestrationAssumption
<1>3. ASSUME NEW step, NEW r, Begin(w, step, r) PROVE Busy = {}
  BY <1>2, <1>3 DEF Begin
<1>4. CASE \/ \E d \in Departments : LoadTask(w, d)
           \/ BeginRecalculation(w) \/ LoadCase(w)
  <2>1. Busy = {}
    BY <1>3, <1>4 DEF LoadTask, BeginRecalculation, LoadCase
  <2> QED
    BY <1>1, <2>1 DEF Busy
<1>5. CASE pc[w] # "idle"
  BY <1>1, <1>5 DEF OneBusy
<1>6. ASSUME TransitionTask(w), ~\E d \in Departments : LoadTask(w, d)
      PROVE  pc[w] # "idle"
  BY <1>6 DEF TransitionTask, AcceptTask, RejectTask, SaveTask, SaveTaskConflict,
     AppendEvent, RecordAudit, Goto
<1>7. ASSUME RecalculateCase(w), ~BeginRecalculation(w)
      PROVE  pc[w] # "idle"
  BY <1>7 DEF RecalculateCase, AggregateLoadCase, AggregateLoadTasks, AggregateSave,
     AppendEvent, AggregateRecordAudit, Goto
<1>8. ASSUME TransitionCase(w), ~LoadCase(w)
      PROVE  pc[w] # "idle"
  BY <1>8 DEF TransitionCase, SaveCase, FindInitialTasks, CreateInitialTask,
     CreateInitialTaskConflict, AppendEvent, RecordAudit, AppendCaseStatusChanged, Goto
<1>9. ASSUME Crash(w) PROVE pc[w] # "idle"
  BY <1>9 DEF Crash
<1> QED
  BY <1>4, <1>5, <1>6, <1>7, <1>8, <1>9 DEF WorkerStep

SequentialInv ==
  /\ OneBusy
  /\ \A d \in Departments :
       taskStatus[d] \in {"approved", "certificate_issued"} => decision[d] = "approved"
  /\ \A w \in Workers :
       /\ pc[w] \in {"taskCase", "taskSave"} => taskStatus[target[w]] = loaded[w]
       /\ pc[w] = "taskSave" => <<loaded[w], next[w]>> \in TaskTransitions
       /\ pc[w] = "aggSave" => /\ next[w] = DeriveAggregateCaseStatus(loaded[w], taskStatus)
                               /\ next[w] # loaded[w]

\* A certificate is reached from an approval only.
LEMMA CertificateFollowsApproval ==
  ASSUME NEW status, <<status, "certificate_issued">> \in TaskTransitions
  PROVE  status = "approved"
BY DEF TaskTransitions

LEMMA SequentialInit == Init => SequentialInv
BY DEF Init, SequentialInv, OneBusy, Absent

\* A step that saves no task and does not come to a step that saves.
LEMMA SequentialKept ==
  ASSUME SequentialInv, NEW w \in Workers, \A v \in Workers \ {w} : pc'[v] = "idle",
         taskStatus' = taskStatus, decision' = decision,
         pc'[w] \notin {"taskCase", "taskSave", "aggSave"}
  PROVE  SequentialInv'
BY DEF SequentialInv, OneBusy

LEMMA SequentialStep ==
  ASSUME TypeInv, SequentialInv, overlaps' = 0, NEW w \in Workers, WorkerStep(w) \/ Crash(w)
  PROVE  SequentialInv'
<1> USE DEF TypeInv, TypeOK
<1>0. \A v \in Workers \ {w} : pc[v] = "idle" /\ pc'[v] = "idle"
  BY StepsAlone DEF SequentialInv
<1>a. OneBusy'
  BY <1>0 DEF OneBusy
<1>1. ASSUME NEW d \in Departments, LoadTask(w, d) PROVE SequentialInv'
  <2>1. /\ pc'[w] = "taskCase" /\ target'[w] = d /\ loaded'[w] = taskStatus[d]
        /\ taskStatus' = taskStatus /\ decision' = decision
    BY <1>1 DEF LoadTask, Begin, documents
  <2> QED
    BY <1>0, <1>a, <2>1 DEF SequentialInv
<1>2. CASE AcceptTask(w)
  <2>1. PICK status \in NextTaskStatuses(target[w], caseStatus, loaded[w]) :
          next' = [next EXCEPT ![w] = status]
    BY <1>2 DEF AcceptTask
  <2>2. /\ pc[w] = "taskCase" /\ pc'[w] = "taskSave" /\ target' = target /\ loaded' = loaded
        /\ next'[w] = status /\ taskStatus' = taskStatus /\ decision' = decision
    BY <1>2, <2>1 DEF AcceptTask, Goto, documents
  <2>3. <<loaded[w], status>> \in TaskTransitions
    BY <2>1, NextTaskStatusFollowsTable
  <2> QED
    BY <1>0, <1>a, <2>2, <2>3 DEF SequentialInv
<1>3. CASE SaveTask(w)
  <2>1. target[w] \in Departments /\ pc[w] = "taskSave"
    BY <1>3 DEF SaveTask, WorkerTypeOK, TaskSteps
  <2>2. pc'[w] \in {"idle", "taskEvent"}
    BY <1>3, FinishKeepsOthers DEF SaveTask, Goto
  <2>3. /\ taskStatus'[target[w]] = next[w]
        /\ decision'[target[w]] = DecisionOutcome(decision[target[w]], next[w])
        /\ \A d \in Departments \ {target[w]} :
             taskStatus'[d] = taskStatus[d] /\ decision'[d] = decision[d]
    BY <1>3, <2>1 DEF SaveTask
  <2>4. next[w] = "certificate_issued" => decision[target[w]] = "approved"
    BY <2>1, CertificateFollowsApproval DEF SequentialInv
  <2>5. next[w] \in {"approved", "certificate_issued"} => decision'[target[w]] = "approved"
    BY <2>3, <2>4 DEF DecisionOutcome
  <2>6. \A d \in Departments :
          taskStatus'[d] \in {"approved", "certificate_issued"} => decision'[d] = "approved"
    BY <2>3, <2>5 DEF SequentialInv
  <2> QED
    BY <1>0, <1>a, <2>2, <2>6 DEF SequentialInv
<1>4. CASE CreateInitialTask(w)
  <2>1. pc'[w] = "idle"
    BY <1>4, FinishKeepsOthers DEF CreateInitialTask
  <2>2. taskStatus' = [taskStatus EXCEPT ![FirstDepartment] = "pending"] /\ decision' = decision
    BY <1>4 DEF CreateInitialTask, InitialTaskStatus
  <2> QED
    BY <1>0, <1>a, <2>1, <2>2 DEF SequentialInv
<1>5. CASE AggregateLoadTasks(w)
  <2> DEFINE derived == DeriveAggregateCaseStatus(loaded[w], taskStatus)
  <2>1. taskStatus' = taskStatus /\ decision' = decision
    BY <1>5 DEF AggregateLoadTasks, documents
  <2>2. CASE Finish(w)
    BY <1>0, <2>1, <2>2, FinishKeepsOthers, SequentialKept
  <2>3. CASE ~Finish(w)
    <3> HIDE DEF derived
    <3>1. pc'[w] = "aggSave" /\ next'[w] = derived /\ loaded' = loaded /\ derived # loaded[w]
      BY <1>5, <2>3 DEF AggregateLoadTasks, Goto, derived
    <3> USE DEF derived
    <3> QED
      BY <1>0, <1>a, <2>1, <3>1 DEF SequentialInv
  <2> QED
    BY <2>2, <2>3
<1>6. CASE RejectTask(w) \/ SaveTaskConflict(w) \/ CreateInitialTaskConflict(w) \/ Crash(w)
  BY <1>0, <1>6, FinishKeepsOthers, SequentialKept
     DEF RejectTask, SaveTaskConflict, CreateInitialTaskConflict, Crash, documents
<1>7. CASE \/ AppendEvent(w, "taskEvent", "taskAudit")
           \/ RecordAudit(w, "taskAudit", "taskChanged")
           \/ AppendEvent(w, "taskChanged", "aggCase")
           \/ AppendEvent(w, "aggEvent", "aggAudit")
           \/ AppendEvent(w, "caseEvent", "caseAudit")
           \/ RecordAudit(w, "caseAudit", "caseChanged")
  BY <1>0, <1>7, SequentialKept DEF AppendEvent, RecordAudit, Goto, documents
<1>8. CASE BeginRecalculation(w) \/ AggregateLoadCase(w) \/ AggregateSave(w) \/ AggregateRecordAudit(w)
  BY <1>0, <1>8, FinishKeepsOthers, SequentialKept
     DEF BeginRecalculation, AggregateLoadCase, AggregateSave, AggregateRecordAudit,
         Begin, Goto, documents
<1>9. CASE LoadCase(w) \/ SaveCase(w) \/ FindInitialTasks(w) \/ AppendCaseStatusChanged(w)
  BY <1>0, <1>9, FinishKeepsOthers, SequentialKept
     DEF LoadCase, SaveCase, FindInitialTasks, AfterTasks, AppendCaseStatusChanged,
         Begin, Goto, documents
<1> QED
  BY <1>1, <1>2, <1>3, <1>4, <1>5, <1>6, <1>7, <1>8, <1>9
     DEF WorkerStep, TransitionTask, RecalculateCase, TransitionCase

\* The invariant, for as long as nothing has overlapped.
LEMMA SequentialInvariant == Spec => [](overlaps = 0 => SequentialInv)
<1>1. TypeInv /\ (overlaps = 0 => SequentialInv) /\ [Next]_vars => (overlaps = 0 => SequentialInv)'
  <2> SUFFICES ASSUME TypeInv, overlaps = 0 => SequentialInv, [Next]_vars, overlaps' = 0
               PROVE  SequentialInv'
    OBVIOUS
  <2>1. ASSUME NEW w \in Workers, WorkerStep(w) \/ Crash(w) PROVE SequentialInv'
    <3>1. overlaps = 0
      BY <2>1, OverlapsGrow
    <3> QED
      BY <2>1, <3>1, SequentialStep
  <2>2. CASE UNCHANGED vars
    BY <2>2 DEF vars, documents, locals, budget, SequentialInv, OneBusy
  <2> QED
    BY <2>1, <2>2 DEF Next
<1> QED
  BY <1>1, SequentialInit, TypeInvariant, PTL DEF Spec

\* Requests that come one at a time, wherever they are cut short, leave no
\* certificate on a task that was not approved.
THEOREM CertificatesAreApproved == Spec => [](overlaps = 0 => CertificateNeedsApproval)
<1>1. (overlaps = 0 => SequentialInv) => (overlaps = 0 => CertificateNeedsApproval)
  BY DEF SequentialInv, CertificateNeedsApproval
<1> QED
  BY <1>1, SequentialInvariant, PTL

\* A rejection comes before every other rule.
LEMMA RejectionIsDerived ==
  ASSUME NEW status, NEW tasks, NEW d \in MandatoryDepartments, tasks[d] = "rejected"
  PROVE  DeriveAggregateCaseStatus(status, tasks) = "rejected"
<1>1. d \in ActiveMandatory(tasks)
  BY DepartmentsAssumption DEF ActiveMandatory, ActiveTasks, Absent
<1> QED
  BY <1>1 DEF DeriveAggregateCaseStatus, AnyMandatoryTaskRejected, ActiveMandatory

\* It takes a race to hide a rejection: when requests come one at a time,
\* wherever they are cut short, no recalculation takes a rejected case elsewhere
\* while the task of a mandatory department is rejected.
THEOREM RejectionStandsAlone ==
  ASSUME MaxOverlaps = 0
  PROVE  Spec => RejectionStands
<1>1. TypeInv => overlaps = 0
  BY DEF TypeInv, TypeOK
<1>2. ASSUME TypeInv, SequentialInv, [Next]_vars, NEW w \in Workers, NEW d \in MandatoryDepartments,
             pc[w] = "aggSave", pc'[w] = "aggEvent", taskStatus[d] = "rejected"
      PROVE  caseStatus' = "rejected"
  <2>1. next[w] = "rejected"
    <3>1. DeriveAggregateCaseStatus(loaded[w], taskStatus) = "rejected"
      BY <1>2, RejectionIsDerived
    <3> QED
      BY <1>2, <3>1 DEF SequentialInv
  <2>2. PICK v \in Workers : WorkerStep(v) \/ Crash(v)
    BY <1>2 DEF Next, vars
  <2>3. v = w
    BY <1>2, <2>2, StepKeepsOthers DEF OthersKeep, TypeInv
  <2>4. AggregateSave(w)
    BY <1>2, <2>2, <2>3
       DEF TypeInv, TypeOK, WorkerStep, TransitionTask, LoadTask, AcceptTask, RejectTask, SaveTask,
           SaveTaskConflict, AppendEvent, RecordAudit, RecalculateCase, BeginRecalculation,
           AggregateLoadCase, AggregateLoadTasks, AggregateRecordAudit, TransitionCase, LoadCase,
           SaveCase, FindInitialTasks, CreateInitialTask, CreateInitialTaskConflict,
           AppendCaseStatusChanged, Crash, Begin, Goto, Finish
  <2> QED
    BY <2>1, <2>4 DEF AggregateSave
<1>3. TypeInv /\ SequentialInv /\ [Next]_vars =>
        [\A w \in Workers : \A d \in MandatoryDepartments :
           (/\ pc[w] = "aggSave" /\ pc'[w] = "aggEvent"
            /\ caseStatus = "rejected" /\ taskStatus[d] = "rejected")
             => caseStatus' = "rejected"]_vars
  BY <1>2
<1> QED
  BY <1>1, <1>3, SequentialInvariant, TypeInvariant, PTL DEF Spec, RejectionStands

-----------------------------------------------------------------------------
(* A department whose documents or data are missing: the dependency guards *)
(* keep its task where no approval is reached.  This needs no order of the *)
(* requests, since what a request has loaded is barred as well.            *)

Barred(d, status) ==
  /\ d \in LayoutMissing => status \notin {"approved", "certificate_issued"}
  /\ d \in DetailsMissing => status \in {Absent, "pending", "assigned", "cancelled"}

BarredInv ==
  /\ \A d \in Departments : Barred(d, taskStatus[d])
  /\ \A w \in Workers :
       /\ pc[w] \in {"taskCase", "taskSave"} => Barred(target[w], loaded[w])
       /\ pc[w] = "taskSave" => Barred(target[w], next[w])

\* The guards let a barred task go only where it is barred.
LEMMA GuardsBar ==
  ASSUME NEW d, NEW caseSt, NEW status, Barred(d, status),
         NEW to \in NextTaskStatuses(d, caseSt, status)
  PROVE  Barred(d, to)
<1>1. <<status, to>> \in TaskTransitions /\ DepartmentDataReady(d, to)
  BY DEF NextTaskStatuses, TaskTransitionAllowed, DependenciesSatisfied
<1>2. d \in DetailsMissing => to \in {"assigned", "cancelled"}
  <2>1. status \in {Absent, "pending", "assigned", "cancelled"} =>
          to \in {"assigned", "cancelled", "under_review"}
    BY <1>1 DEF TaskTransitions, Absent
  <2> QED
    BY <1>1, <2>1 DEF DepartmentDataReady, Barred
<1> QED
  BY <1>1, <1>2 DEF DepartmentDataReady, Barred

LEMMA BarredKept ==
  ASSUME BarredInv, NEW w \in Workers, OthersKeep(w), taskStatus' = taskStatus,
         pc'[w] \notin {"taskCase", "taskSave"}
  PROVE  BarredInv'
BY DEF BarredInv, OthersKeep, Barred

LEMMA BarredStep ==
  ASSUME TypeInv, BarredInv, NEW w \in Workers, WorkerStep(w) \/ Crash(w)
  PROVE  BarredInv'
<1> USE DEF TypeInv, TypeOK
<1>0. OthersKeep(w)
  BY StepKeepsOthers
<1>1. ASSUME NEW d \in Departments, LoadTask(w, d) PROVE BarredInv'
  <2>1. /\ target'[w] = d /\ loaded'[w] = taskStatus[d] /\ pc'[w] = "taskCase"
        /\ taskStatus' = taskStatus
    BY <1>1 DEF LoadTask, Begin, documents
  <2> QED
    BY <1>0, <2>1 DEF BarredInv, OthersKeep, Barred
<1>2. CASE AcceptTask(w)
  <2>1. PICK status \in NextTaskStatuses(target[w], caseStatus, loaded[w]) :
          next' = [next EXCEPT ![w] = status]
    BY <1>2 DEF AcceptTask
  <2>2. /\ pc[w] = "taskCase" /\ pc'[w] = "taskSave" /\ target' = target /\ loaded' = loaded
        /\ next'[w] = status /\ taskStatus' = taskStatus
    BY <1>2, <2>1 DEF AcceptTask, Goto, documents
  <2>3. Barred(target[w], status)
    BY <2>1, <2>2, GuardsBar DEF BarredInv
  <2> QED
    BY <1>0, <2>2, <2>3 DEF BarredInv, OthersKeep, Barred
<1>3. CASE SaveTask(w)
  <2>1. target[w] \in Departments /\ pc[w] = "taskSave"
    BY <1>3 DEF SaveTask, WorkerTypeOK, TaskSteps
  <2>2. pc'[w] \notin {"taskCase", "taskSave"}
    BY <1>3, FinishKeepsOthers DEF SaveTask, Goto
  <2>3. /\ taskStatus'[target[w]] = next[w]
        /\ \A d \in Departments \ {target[w]} : taskStatus'[d] = taskStatus[d]
    BY <1>3, <2>1 DEF SaveTask
  <2>4. \A d \in Departments : Barred(d, taskStatus'[d])
    BY <2>1, <2>3 DEF BarredInv
  <2> QED
    BY <1>0, <2>2, <2>4 DEF BarredInv, OthersKeep, Barred
<1>4. CASE CreateInitialTask(w)
  <2>1. pc'[w] = "idle"
    BY <1>4, FinishKeepsOthers DEF CreateInitialTask
  <2>2. taskStatus' = [taskStatus EXCEPT ![FirstDepartment] = "pending"]
    BY <1>4 DEF CreateInitialTask, InitialTaskStatus
  <2> QED
    BY <1>0, <2>1, <2>2 DEF BarredInv, OthersKeep, Barred
<1>5. CASE RejectTask(w) \/ SaveTaskConflict(w) \/ CreateInitialTaskConflict(w) \/ Crash(w)
  BY <1>0, <1>5, FinishKeepsOthers, BarredKept
     DEF RejectTask, SaveTaskConflict, CreateInitialTaskConflict, Crash, documents
<1>6. CASE \/ AppendEvent(w, "taskEvent", "taskAudit")
           \/ RecordAudit(w, "taskAudit", "taskChanged")
           \/ AppendEvent(w, "taskChanged", "aggCase")
           \/ AppendEvent(w, "aggEvent", "aggAudit")
           \/ AppendEvent(w, "caseEvent", "caseAudit")
           \/ RecordAudit(w, "caseAudit", "caseChanged")
  BY <1>0, <1>6, BarredKept DEF AppendEvent, RecordAudit, Goto, documents
<1>7. CASE \/ BeginRecalculation(w) \/ AggregateLoadCase(w) \/ AggregateLoadTasks(w)
           \/ AggregateSave(w) \/ AggregateRecordAudit(w)
  BY <1>0, <1>7, FinishKeepsOthers, BarredKept
     DEF BeginRecalculation, AggregateLoadCase, AggregateLoadTasks, AggregateSave,
         AggregateRecordAudit, Begin, Goto, documents
<1>8. CASE LoadCase(w) \/ SaveCase(w) \/ FindInitialTasks(w) \/ AppendCaseStatusChanged(w)
  BY <1>0, <1>8, FinishKeepsOthers, BarredKept
     DEF LoadCase, SaveCase, FindInitialTasks, AfterTasks, AppendCaseStatusChanged,
         Begin, Goto, documents
<1> QED
  BY <1>1, <1>2, <1>3, <1>4, <1>5, <1>6, <1>7, <1>8
     DEF WorkerStep, TransitionTask, RecalculateCase, TransitionCase

LEMMA BarredInvariant == Spec => []BarredInv
<1>1. Init => BarredInv
  BY DEF Init, BarredInv, Barred, Absent
<1>2. TypeInv /\ BarredInv /\ [Next]_vars => BarredInv'
  <2>1. ASSUME BarredInv, UNCHANGED vars PROVE BarredInv'
    BY <2>1 DEF vars, documents, locals, BarredInv, Barred
  <2> QED
    BY <2>1, BarredStep DEF Next
<1> QED
  BY <1>1, <1>2, TypeInvariant, PTL DEF Spec

\* However requests overlap and wherever they crash, a task whose documents are
\* missing is never approved nor certified, and one whose data are missing does
\* not come under review: the guards look at the task that was loaded.
THEOREM MissingDataBarsTheTask == Spec => [](\A d \in Departments : Barred(d, taskStatus[d]))
BY BarredInvariant, PTL DEF BarredInv

\* Only the approval of every active mandatory task gives the case its approval.
LEMMA ApprovalIsDerived ==
  ASSUME NEW status, NEW tasks, DeriveAggregateCaseStatus(status, tasks) = "approved",
         status # "approved"
  PROVE  \A d \in MandatoryDepartments :
           tasks[d] \in {Absent, "cancelled", "approved", "certificate_issued", "closed"}
<1>1. AllMandatoryTasksApproved(tasks)
  BY DEF DeriveAggregateCaseStatus
<1> QED
  BY <1>1, DepartmentsAssumption DEF AllMandatoryTasksApproved, ActiveMandatory, ActiveTasks, InState

\* When requests come one at a time, a recalculation that approves the case
\* finds no mandatory task of a department whose documents or data are missing
\* but those that do not count.
THEOREM MissingDataHoldsUpApproval ==
  ASSUME MaxOverlaps = 0
  PROVE  Spec => BlockedDepartmentHoldsUpApproval
<1>1. TypeInv => overlaps = 0
  BY DEF TypeInv, TypeOK
<1>2. ASSUME SequentialInv, BarredInv, NEW w \in Workers, pc[w] = "aggSave", next[w] = "approved"
      PROVE  /\ \A d \in MandatoryDepartments \cap LayoutMissing :
                  taskStatus[d] \in {Absent, "cancelled", "closed"}
             /\ \A d \in MandatoryDepartments \cap DetailsMissing :
                  taskStatus[d] \in {Absent, "cancelled"}
  <2>1. DeriveAggregateCaseStatus(loaded[w], taskStatus) = "approved" /\ loaded[w] # "approved"
    BY <1>2 DEF SequentialInv
  <2>2. \A d \in MandatoryDepartments :
          taskStatus[d] \in {Absent, "cancelled", "approved", "certificate_issued", "closed"}
    BY <2>1, ApprovalIsDerived
  <2>3. \A d \in MandatoryDepartments : Barred(d, taskStatus[d])
    BY <1>2, DepartmentsAssumption DEF BarredInv
  <2> QED
    BY <2>2, <2>3 DEF Barred, Absent
<1>3. SequentialInv /\ BarredInv /\ [Next]_vars =>
        [\A w \in Workers :
           (pc[w] = "aggSave" /\ pc'[w] = "aggEvent" /\ next[w] = "approved")
             => /\ \A d \in MandatoryDepartments \cap LayoutMissing :
                     taskStatus[d] \in {Absent, "cancelled", "closed"}
                /\ \A d \in MandatoryDepartments \cap DetailsMissing :
                     taskStatus[d] \in {Absent, "cancelled"}]_vars
  BY <1>2
<1> QED
  BY <1>1, <1>3, SequentialInvariant, BarredInvariant, TypeInvariant, PTL
     DEF Spec, BlockedDepartmentHoldsUpApproval

-----------------------------------------------------------------------------
(* The outbox and the audit trail of a task, while no request has joined   *)
(* another and none was cut short: what they lag behind is the request     *)
(* that is about to tell them.                                             *)

TellingSteps == {"taskEvent", "taskAudit", "taskChanged"}
CaseIdSteps == (AggregateSteps \ {"aggCase"}) \cup CaseSteps

Told(d) ==
  /\ auditLog[d] \in {Absent, eventLog[d]}
  /\ \/ taskStatus[d] \in {"assigned", eventLog[d]}
     \/ taskStatus[d] = "pending" /\ eventLog[d] = Absent

LogsInv ==
  /\ \A d \in Departments :
       Told(d) \/ \E w \in Workers : pc[w] \in TellingSteps /\ target[w] = d
  /\ \A w \in Workers :
       /\ pc[w] \in CaseIdSteps => target[w] = CaseId
       /\ pc[w] \in TellingSteps => taskStatus[target[w]] = next[w]
       /\ pc[w] \in {"taskAudit", "taskChanged"} => eventLog[target[w]] = next[w]
       /\ pc[w] = "taskChanged" => auditLog[target[w]] = next[w]

LEMMA LogsInit == Init => LogsInv
<1> SUFFICES ASSUME Init PROVE LogsInv
  OBVIOUS
<1>1. \A d \in Departments : eventLog[d] = taskStatus[d] /\ auditLog[d] = Absent
  BY OrchestrationAssumption DEF Init, Resources
<1>2. \A w \in Workers : pc[w] = "idle"
  BY DEF Init
<1> QED
  BY <1>1, <1>2 DEF LogsInv, Told, CaseIdSteps, TellingSteps, AggregateSteps, CaseSteps

LEMMA CrashesGrow ==
  ASSUME TypeInv, crashes' = 0, NEW w \in Workers, WorkerStep(w) \/ Crash(w)
  PROVE  crashes = 0 /\ ~Crash(w)
<1> USE DEF TypeInv, TypeOK, budget
<1>1. ~Crash(w)
  <2>1. crashes \in Nat
    BY OrchestrationAssumption
  <2> QED
    BY <2>1 DEF Crash
<1>2. CASE TransitionTask(w)
  BY <1>1, <1>2 DEF TransitionTask, LoadTask, AcceptTask, RejectTask, SaveTask, SaveTaskConflict,
     AppendEvent, RecordAudit
<1>3. CASE RecalculateCase(w)
  BY <1>1, <1>3 DEF RecalculateCase, BeginRecalculation, AggregateLoadCase, AggregateLoadTasks,
     AggregateSave, AppendEvent, AggregateRecordAudit
<1>4. CASE TransitionCase(w)
  BY <1>1, <1>4 DEF TransitionCase, LoadCase, SaveCase, FindInitialTasks, CreateInitialTask,
     CreateInitialTaskConflict, AppendEvent, RecordAudit, AppendCaseStatusChanged
<1> QED
  BY <1>1, <1>2, <1>3, <1>4 DEF WorkerStep

\* A step that neither saves a task nor tells of one.
LEMMA LogsKept ==
  ASSUME LogsInv, NEW w \in Workers,
         \A v \in Workers \ {w} : pc[v] = "idle" /\ pc'[v] = "idle",
         pc[w] \notin TellingSteps, pc'[w] \notin TellingSteps,
         pc'[w] \in CaseIdSteps => target'[w] = CaseId,
         taskStatus' = taskStatus,
         \A d \in Departments : eventLog'[d] = eventLog[d] /\ auditLog'[d] = auditLog[d]
  PROVE  LogsInv'
<1> USE DEF TellingSteps, CaseIdSteps, AggregateSteps, CaseSteps
<1>1. \A d \in Departments : Told(d)
  BY DEF LogsInv
<1>2. \A d \in Departments : Told(d)'
  BY <1>1 DEF Told
<1> QED
  BY <1>2 DEF LogsInv

LEMMA LogsStep ==
  ASSUME TypeInv, SequentialInv, LogsInv, overlaps' = 0, NEW w \in Workers, WorkerStep(w)
  PROVE  LogsInv'
<1> USE DEF TypeInv, TypeOK
<1> USE DEF TellingSteps, CaseIdSteps, AggregateSteps, CaseSteps
<1>0. \A v \in Workers \ {w} : pc[v] = "idle" /\ pc'[v] = "idle"
  BY StepsAlone DEF SequentialInv
<1>f. ASSUME Finish(w) PROVE pc'[w] = "idle"
  BY <1>f DEF Finish
<1>t. pc[w] \in TaskSteps => target[w] \in Departments
  BY DEF WorkerTypeOK
<1>1. CASE \/ \E d \in Departments : LoadTask(w, d)
           \/ AcceptTask(w) \/ RejectTask(w) \/ SaveTaskConflict(w)
  BY <1>0, <1>1, <1>f, LogsKept
     DEF LoadTask, AcceptTask, RejectTask, SaveTaskConflict, Begin, Goto, documents, logs
<1>2. CASE SaveTask(w)
  <2>1. target[w] \in Departments /\ pc[w] = "taskSave"
    BY <1>2, <1>t DEF SaveTask, TaskSteps
  <2>2. /\ taskStatus'[target[w]] = next[w] /\ logs' = logs
        /\ \A d \in Departments \ {target[w]} : taskStatus'[d] = taskStatus[d]
    BY <1>2, <2>1 DEF SaveTask
  <2>3. \A d \in Departments : Told(d)
    BY <1>0, <2>1 DEF LogsInv
  <2>4. \A d \in Departments \ {target[w]} : Told(d)'
    BY <2>2, <2>3 DEF Told, logs
  <2>5. CASE next[w] = "assigned"
    <3>1. SlaStartRejected("task")
      BY DEF SlaStartRejected, SlaTimerTypes
    <3>2. pc'[w] = "idle"
      BY <1>2, <1>f, <2>5, <3>1 DEF SaveTask
    <3>3. \A d \in Departments : Told(d)'
      <4>1. ASSUME NEW d \in Departments, d = target[w] PROVE Told(d)'
        BY <2>2, <2>3, <2>5, <4>1 DEF Told, logs
      <4> QED
        BY <2>4, <4>1
    <3> QED
      BY <1>0, <3>2, <3>3 DEF LogsInv
  <2>6. CASE next[w] # "assigned"
    <3>1. pc'[w] = "taskEvent" /\ target' = target /\ next' = next
      BY <1>2, <2>6 DEF SaveTask, Goto
    <3> QED
      BY <1>0, <2>2, <2>4, <3>1 DEF LogsInv
  <2> QED
    BY <2>5, <2>6
<1>3. ASSUME pc[w] \in TellingSteps, taskStatus' = taskStatus, target' = target, next' = next
      PROVE  /\ target[w] \in Departments /\ taskStatus'[target[w]] = next[w]
             /\ \A d \in Departments \ {target[w]} : Told(d)
  BY <1>0, <1>3, <1>t DEF LogsInv, TaskSteps
<1>4. CASE AppendEvent(w, "taskEvent", "taskAudit")
  <2>1. /\ pc[w] = "taskEvent" /\ pc'[w] = "taskAudit"
        /\ UNCHANGED <<taskStatus, target, next, auditLog>>
        /\ eventLog' = [eventLog EXCEPT ![target[w]] = next[w]]
    BY <1>4 DEF AppendEvent, Goto, documents, locals
  <2>2. eventLog'[target[w]] = next[w] /\ \A d \in Departments \ {target[w]} : eventLog'[d] = eventLog[d]
    BY <1>3, <2>1 DEF Resources
  <2>3. \A d \in Departments \ {target[w]} : Told(d)'
    BY <1>3, <2>1, <2>2 DEF Told
  <2> QED
    BY <1>0, <1>3, <2>1, <2>2, <2>3 DEF LogsInv
<1>5. CASE RecordAudit(w, "taskAudit", "taskChanged")
  <2>1. /\ pc[w] = "taskAudit" /\ pc'[w] = "taskChanged"
        /\ UNCHANGED <<taskStatus, target, next, eventLog>>
        /\ auditLog' = [auditLog EXCEPT ![target[w]] = next[w]]
    BY <1>5 DEF RecordAudit, Goto, documents, locals
  <2>2. auditLog'[target[w]] = next[w] /\ \A d \in Departments \ {target[w]} : auditLog'[d] = auditLog[d]
    BY <1>3, <2>1 DEF Resources
  <2>3. \A d \in Departments \ {target[w]} : Told(d)'
    BY <1>3, <2>1, <2>2 DEF Told
  <2> QED
    BY <1>0, <1>3, <2>1, <2>2, <2>3 DEF LogsInv
<1>6. CASE AppendEvent(w, "taskChanged", "aggCase")
  <2>1. /\ pc[w] = "taskChanged" /\ pc'[w] = "aggCase"
        /\ UNCHANGED <<taskStatus, target, next, auditLog>>
        /\ eventLog' = [eventLog EXCEPT ![target[w]] = next[w]]
    BY <1>6 DEF AppendEvent, Goto, documents, locals
  <2>2. eventLog'[target[w]] = next[w] /\ \A d \in Departments \ {target[w]} : eventLog'[d] = eventLog[d]
    BY <1>3, <2>1 DEF Resources
  <2>3. auditLog'[target[w]] = next[w] /\ taskStatus'[target[w]] = next[w]
    BY <1>3, <2>1 DEF LogsInv
  <2>4. \A d \in Departments : Told(d)'
    BY <1>3, <2>1, <2>2, <2>3 DEF Told
  <2> QED
    BY <1>0, <2>1, <2>4 DEF LogsInv
<1>7. CASE BeginRecalculation(w) \/ AggregateLoadCase(w)
  BY <1>0, <1>7, LogsKept DEF BeginRecalculation, AggregateLoadCase, Begin, Goto, documents, logs
<1>8. CASE LoadCase(w)
  BY <1>0, <1>8, LogsKept DEF LoadCase, Begin, documents, logs
<1>9. ASSUME pc[w] \in CaseIdSteps, target' = target \/ pc'[w] = "idle", pc'[w] \notin TellingSteps,
             taskStatus' = taskStatus,
             \/ eventLog' = eventLog
             \/ \E x \in AllStatuses : eventLog' = [eventLog EXCEPT ![CaseId] = x],
             \/ auditLog' = auditLog
             \/ \E x \in AllStatuses : auditLog' = [auditLog EXCEPT ![CaseId] = x]
      PROVE  LogsInv'
  <2>1. \A d \in Departments : eventLog'[d] = eventLog[d] /\ auditLog'[d] = auditLog[d]
    BY <1>9, OrchestrationAssumption DEF Resources
  <2>2. pc'[w] \in CaseIdSteps => target'[w] = CaseId
    BY <1>9 DEF LogsInv
  <2> QED
    BY <1>0, <1>9, <2>1, <2>2, LogsKept
<1>10. CASE AggregateLoadTasks(w) \/ AggregateSave(w)
  BY <1>9, <1>10, <1>f DEF AggregateLoadTasks, AggregateSave, Goto, documents, logs, locals
<1>11. CASE AppendEvent(w, "aggEvent", "aggAudit") \/ AppendEvent(w, "caseEvent", "caseAudit")
  <2>1. pc[w] \in CaseIdSteps /\ target[w] = CaseId
    BY <1>11 DEF AppendEvent, Goto, LogsInv
  <2> QED
    BY <1>9, <1>11, <2>1 DEF AppendEvent, Goto, documents, locals
<1>12. CASE RecordAudit(w, "caseAudit", "caseChanged")
  <2>1. pc[w] \in CaseIdSteps /\ target[w] = CaseId
    BY <1>12 DEF RecordAudit, Goto, LogsInv
  <2> QED
    BY <1>9, <1>12, <2>1 DEF RecordAudit, Goto, documents, locals
<1>13. CASE AggregateRecordAudit(w) \/ AppendCaseStatusChanged(w)
  BY <1>9, <1>13, <1>f DEF AggregateRecordAudit, AppendCaseStatusChanged, documents
<1>14. CASE SaveCase(w) \/ FindInitialTasks(w) \/ CreateInitialTaskConflict(w)
  BY <1>9, <1>14, <1>f
     DEF SaveCase, FindInitialTasks, AfterTasks, CreateInitialTaskConflict, Goto, documents, logs,
         locals
<1>15. CASE CreateInitialTask(w)
  <2>1. /\ pc[w] = "caseCreate" /\ taskStatus[FirstDepartment] = Absent
        /\ taskStatus' = [taskStatus EXCEPT ![FirstDepartment] = "pending"]
        /\ Finish(w) /\ UNCHANGED <<eventLog, auditLog>>
    BY <1>15 DEF CreateInitialTask, InitialTaskStatus, logs
  <2>2. \A e \in Departments : Told(e)
    BY <1>0, <2>1 DEF LogsInv
  <2>3. FirstDepartment \in Departments =>
          eventLog[FirstDepartment] = Absent /\ auditLog[FirstDepartment] = Absent
    BY <2>1, <2>2 DEF Told, Absent
  <2>4. \A e \in Departments : Told(e)'
    BY <2>1, <2>2, <2>3 DEF Told
  <2> QED
    BY <1>0, <1>f, <2>1, <2>4 DEF LogsInv
<1> QED
  BY <1>1, <1>2, <1>4, <1>5, <1>6, <1>7, <1>8, <1>10, <1>11, <1>12, <1>13, <1>14, <1>15
     DEF WorkerStep, TransitionTask, RecalculateCase, TransitionCase

\* When no request joins another and none is cut short, the outbox and the audit
\* trail end at the status of the task, save for the two that fail at the timer.
THEOREM LogsTellTheStatus ==
  Spec => [](overlaps = 0 /\ crashes = 0 => LogsTellStatusAtRest)
<1> DEFINE Inv == overlaps = 0 /\ crashes = 0 => LogsInv
<1>1. Init => Inv
  BY LogsInit
<1>2. TypeInv /\ (overlaps = 0 => SequentialInv) /\ Inv /\ [Next]_vars => Inv'
  <2> SUFFICES ASSUME TypeInv, overlaps = 0 => SequentialInv, Inv, [Next]_vars,
                      overlaps' = 0, crashes' = 0
               PROVE  LogsInv'
    OBVIOUS
  <2>1. ASSUME NEW w \in Workers, WorkerStep(w) \/ Crash(w) PROVE LogsInv'
    <3>1. overlaps = 0 /\ crashes = 0 /\ WorkerStep(w)
      BY <2>1, OverlapsGrow, CrashesGrow
    <3> QED
      BY <3>1, LogsStep
  <2>2. CASE UNCHANGED vars
    BY <2>2 DEF vars, documents, logs, locals, budget, LogsInv, Told
  <2> QED
    BY <2>1, <2>2 DEF Next
<1>3. Inv => (overlaps = 0 /\ crashes = 0 => LogsTellStatusAtRest)
  BY DEF LogsInv, Told, TellingSteps, Busy, LogsTellStatusAtRest
<1> QED
  BY <1>1, <1>2, <1>3, SequentialInvariant, TypeInvariant, PTL DEF Spec

=============================================================================
