-------------------------- MODULE CaseOrchestration --------------------------
(***************************************************************************)
(* services/orchestration-service/src/services/orchestration.service.js as *)
(* it runs against the deployed database: a standalone mongod, on which    *)
(* withSession always takes its fallback, callback(null), so that every    *)
(* read and every save is a database operation of its own.                 *)
(*                                                                         *)
(* One case and its department tasks.  A worker is one HTTP request being  *)
(* served (there may be several in one process, and two replicas); each    *)
(* of its steps is one `await` of transitionTask, transitionCase or        *)
(* recalculateCaseAggregateStatus.  Documents are loaded, changed in       *)
(* memory and saved; a save writes only the modified fields, and nothing   *)
(* compares versions except the save that answers a query, which edits an  *)
(* element of queryThread and fails if another query was pushed since.     *)
(* The status a request asks for is arbitrary, and chosen at the step that *)
(* first uses it; a refused request may be refused for any reason.         *)
(***************************************************************************)
EXTENDS CaseWorkflow

CONSTANTS
  CaseId,       \* the name of the case document, no department
  Workers,      \* requests that may be in flight together
  MaxOverlaps,  \* bound: requests begun while another one is in flight
  MaxCrashes    \* bound: requests cut short by a crash or a failed write

ASSUME OrchestrationAssumption ==
  /\ CaseId \notin Departments
  /\ MaxOverlaps \in Nat
  /\ MaxCrashes \in Nat

Resources == Departments \cup {CaseId}

Outcomes == {"none", "approved", "rejected"}

\* What SlaTimer.timerType accepts.
SlaTimerTypes ==
  {"approval", "grievance_resolution", "query_response", "inspection",
   "fee_payment", "certificate_issue"}

VARIABLES
  caseStatus,   \* Case.status
  submittedAt,  \* whether Case.submittedAt is set
  taskStatus,   \* ApprovalTask.status of each department
  decision,     \* ApprovalTask.decision.outcome of each department
  eventLog,     \* status told by the last status event in the outbox
  auditLog,     \* status told by the last audit event
  pc,           \* the await each worker is at
  target,       \* the document it works on
  loaded,       \* the status of the document it loaded
  loadedSubmittedAt, \* submittedAt of the case it loaded
  stale,        \* whether a query was pushed to the task since it was loaded
  next,         \* the status it is about to save, or has saved
  overlaps,
  crashes

documents == <<caseStatus, submittedAt, taskStatus, decision>>
logs == <<eventLog, auditLog>>
budget == <<overlaps, crashes>>
locals == <<target, loaded, loadedSubmittedAt, stale, next>>
vars == <<documents, logs, pc, locals, budget>>

TaskSteps == {"taskCase", "taskSave", "taskEvent", "taskAudit", "taskChanged"}
AggregateSteps == {"aggCase", "aggTasks", "aggSave", "aggEvent", "aggAudit"}
CaseSteps == {"caseSave", "caseTasks", "caseCreate", "caseEvent",
              "caseAudit", "caseChanged"}

AllStatuses == CaseStatuses \cup TaskStatuses \cup {Absent}

TypeOK ==
  /\ caseStatus \in CaseStatuses
  /\ submittedAt \in BOOLEAN
  /\ taskStatus \in [Departments -> TaskStatuses \cup {Absent}]
  /\ decision \in [Departments -> Outcomes]
  /\ eventLog \in [Resources -> AllStatuses]
  /\ auditLog \in [Resources -> AllStatuses]
  /\ pc \in [Workers -> {"idle"} \cup TaskSteps \cup AggregateSteps \cup CaseSteps]
  /\ target \in [Workers -> Resources]
  /\ loaded \in [Workers -> AllStatuses]
  /\ loadedSubmittedAt \in [Workers -> BOOLEAN]
  /\ stale \in [Workers -> BOOLEAN]
  /\ next \in [Workers -> AllStatuses]
  /\ overlaps \in 0..MaxOverlaps
  /\ crashes \in 0..MaxCrashes

(* createDraftCase leaves a draft without tasks; the case service's        *)
(* createDepartmentTasksForCase adds a pending task, and its task.created  *)
(* event, for every required department.                                   *)
Init ==
  /\ caseStatus = "draft"
  /\ submittedAt = FALSE
  /\ \E first \in {Absent, "pending"} :
       /\ taskStatus = [d \in Departments |-> first]
       /\ eventLog = [r \in Resources |-> IF r = CaseId THEN "draft" ELSE first]
  /\ decision = [d \in Departments |-> "none"]
  /\ auditLog = [r \in Resources |-> Absent]
  /\ pc = [w \in Workers |-> "idle"]
  /\ target = [w \in Workers |-> CaseId]
  /\ loaded = [w \in Workers |-> Absent]
  /\ loadedSubmittedAt = [w \in Workers |-> FALSE]
  /\ stale = [w \in Workers |-> FALSE]
  /\ next = [w \in Workers |-> Absent]
  /\ overlaps = 0
  /\ crashes = 0

-----------------------------------------------------------------------------
(* Steps of a worker.                                                      *)

Busy == {w \in Workers : pc[w] # "idle"}

\* A worker takes a request; MaxOverlaps bounds how often one joins others.
Begin(w, step, resource) ==
  /\ pc[w] = "idle"
  /\ Busy # {} => overlaps < MaxOverlaps
  /\ overlaps' = IF Busy # {} THEN overlaps + 1 ELSE overlaps
  /\ pc' = [pc EXCEPT ![w] = step]
  /\ target' = [target EXCEPT ![w] = resource]

Goto(w, from, to) ==
  /\ pc[w] = from
  /\ pc' = [pc EXCEPT ![w] = to]

\* The request is answered, with a result or an error.
Finish(w) ==
  /\ pc' = [pc EXCEPT ![w] = "idle"]
  /\ target' = [target EXCEPT ![w] = CaseId]
  /\ loaded' = [loaded EXCEPT ![w] = Absent]
  /\ loadedSubmittedAt' = [loadedSubmittedAt EXCEPT ![w] = FALSE]
  /\ stale' = [stale EXCEPT ![w] = FALSE]
  /\ next' = [next EXCEPT ![w] = Absent]

\* startCaseSla and startTaskSla create a timer with these timer types.
SlaStartRejected(timerType) == timerType \notin SlaTimerTypes

\* Mutant: only a submission is validated.
SubmissionRejected(w, status) ==
  status = "submitted" /\ ~loadedSubmittedAt[w]

\* pre('validate') of Case, on the loaded document with its new status.
CaseSaveRejected(w, status) ==
  /\ status \notin {"draft", "withdrawn"}
  /\ Departments = {} \/ ~loadedSubmittedAt[w]

-----------------------------------------------------------------------------
(* transitionTask                                                          *)

LoadTask(w, d) ==
  /\ taskStatus[d] # Absent
  /\ Begin(w, "taskCase", d)
  /\ loaded' = [loaded EXCEPT ![w] = taskStatus[d]]
  /\ UNCHANGED <<documents, logs, loadedSubmittedAt, stale, next, crashes>>

\* The case is loaded and assertTaskTransitionAllowed lets the request pass.
AcceptTask(w) ==
  /\ Goto(w, "taskCase", "taskSave")
  /\ \E status \in NextTaskStatuses(target[w], caseStatus, loaded[w]) :
       next' = [next EXCEPT ![w] = status]
  /\ UNCHANGED <<documents, logs, target, loaded, loadedSubmittedAt, stale, budget>>

\* assertTaskTransitionAllowed throws for the request.
RejectTask(w) ==
  /\ pc[w] = "taskCase"
  /\ Finish(w)
  /\ UNCHANGED <<documents, logs, budget>>

\* Other workers that hold the task without the query that w pushes to it.
OutdatedBy(w) ==
  {v \in Workers \ {w} : /\ next[w] = "query_raised"
                         /\ target[v] = target[w]
                         /\ pc[v] \in {"taskCase", "taskSave"}}

\* Mutant: only a rejection is recorded.
RejectionOutcome(outcome, status) ==
  IF status = "rejected" THEN status ELSE outcome

\* decision.outcome after applyTaskTransition.
DecisionOutcome(outcome, status) ==
  IF status \in {"approved", "rejected"} THEN status ELSE outcome

\* The save, then the SLA action; starting the task SLA throws.
SaveTask(w) ==
  /\ pc[w] = "taskSave"
  /\ ~(stale[w] /\ next[w] = "response_received" /\ loaded[w] = "query_raised")
  /\ taskStatus' = [taskStatus EXCEPT ![target[w]] = next[w]]
  /\ decision' = [decision EXCEPT ![target[w]] = DecisionOutcome(@, next[w])]
  /\ IF next[w] = "assigned" /\ SlaStartRejected("task")
     THEN Finish(w)
     ELSE /\ Goto(w, "taskSave", "taskEvent")
          /\ stale' = [v \in Workers |-> stale[v] \/ v \in OutdatedBy(w)]
          /\ UNCHANGED <<target, loaded, loadedSubmittedAt, next>>
  /\ UNCHANGED <<caseStatus, submittedAt, logs, budget>>

\* VersionError: the answered query was no longer the last of the thread.  A
\* returned task may be answered without an open query, and then is saved.
SaveTaskConflict(w) ==
  /\ pc[w] = "taskSave"
  /\ stale[w]
  /\ next[w] = "response_received"
  /\ Finish(w)
  /\ UNCHANGED <<documents, logs, budget>>

\* Mutant: previousStatus and nextStatus swapped.
AppendOldStatus(w, from, to) ==
  /\ Goto(w, from, to)
  /\ eventLog' = [eventLog EXCEPT ![target[w]] = loaded[w]]
  /\ UNCHANGED <<documents, auditLog, locals, budget>>

AppendEvent(w, from, to) ==
  /\ Goto(w, from, to)
  /\ eventLog' = [eventLog EXCEPT ![target[w]] = next[w]]
  /\ UNCHANGED <<documents, auditLog, locals, budget>>

RecordAudit(w, from, to) ==
  /\ Goto(w, from, to)
  /\ auditLog' = [auditLog EXCEPT ![target[w]] = next[w]]
  /\ UNCHANGED <<documents, eventLog, locals, budget>>

TransitionTask(w) ==
  \/ \E d \in Departments : LoadTask(w, d)
  \/ AcceptTask(w)
  \/ RejectTask(w)
  \/ SaveTask(w)
  \/ SaveTaskConflict(w)
  \/ AppendEvent(w, "taskEvent", "taskAudit")
  \/ RecordAudit(w, "taskAudit", "taskChanged")
  \/ AppendEvent(w, "taskChanged", "aggCase")

-----------------------------------------------------------------------------
(* recalculateCaseAggregateStatus: the last part of transitionTask, and a  *)
(* request of its own.                                                     *)

BeginRecalculation(w) ==
  /\ Begin(w, "aggCase", CaseId)
  /\ UNCHANGED <<documents, logs, loaded, loadedSubmittedAt, stale, next, crashes>>

AggregateLoadCase(w) ==
  /\ Goto(w, "aggCase", "aggTasks")
  /\ target' = [target EXCEPT ![w] = CaseId]
  /\ loadedSubmittedAt' = [loadedSubmittedAt EXCEPT ![w] = submittedAt]
  /\ loaded' = [loaded EXCEPT ![w] = caseStatus]
  /\ UNCHANGED <<documents, logs, stale, next, budget>>

\* The tasks are loaded and the status derived from them and the loaded case.
\* No change, or a document that will not validate, ends the request.
AggregateLoadTasks(w) ==
  LET derived == DeriveAggregateCaseStatus(loaded[w], taskStatus) IN
  /\ pc[w] = "aggTasks"
  /\ IF derived = loaded[w] \/ CaseSaveRejected(w, derived)
     THEN Finish(w)
     ELSE /\ Goto(w, "aggTasks", "aggSave")
          /\ next' = [next EXCEPT ![w] = derived]
          /\ UNCHANGED <<target, loaded, loadedSubmittedAt, stale>>
  /\ UNCHANGED <<documents, logs, budget>>

AggregateSave(w) ==
  /\ Goto(w, "aggSave", "aggEvent")
  /\ caseStatus' = next[w]
  /\ UNCHANGED <<submittedAt, taskStatus, decision, logs, locals, budget>>

AggregateRecordAudit(w) ==
  /\ pc[w] = "aggAudit"
  /\ auditLog' = [auditLog EXCEPT ![CaseId] = next[w]]
  /\ Finish(w)
  /\ UNCHANGED <<documents, eventLog, budget>>

RecalculateCase(w) ==
  \/ BeginRecalculation(w)
  \/ AggregateLoadCase(w)
  \/ AggregateLoadTasks(w)
  \/ AggregateSave(w)
  \/ AppendEvent(w, "aggEvent", "aggAudit")
  \/ AggregateRecordAudit(w)

-----------------------------------------------------------------------------
(* transitionCase                                                          *)

\* The case is loaded and assertCaseTransitionAllowed lets the request pass;
\* a request it refuses changes nothing.
LoadCase(w) ==
  /\ Begin(w, "caseSave", CaseId)
  /\ loaded' = [loaded EXCEPT ![w] = caseStatus]
  /\ \E status \in NextCaseStatuses(caseStatus) :
       /\ loadedSubmittedAt' =
            [loadedSubmittedAt EXCEPT ![w] = submittedAt \/ status = "submitted"]
       /\ next' = [next EXCEPT ![w] = status]
  /\ UNCHANGED <<documents, logs, stale, crashes>>

\* The awaits of pauseSla, resumeSla, completeSla and cancelSla, one of which
\* may follow the save, touch the timers of the case's grievances only: what
\* they do there is in SlaTimers, and one that throws is a Crash before the
\* event.
SaveCase(w) ==
  /\ pc[w] = "caseSave"
  /\ IF CaseSaveRejected(w, next[w])
     THEN Finish(w) /\ UNCHANGED <<caseStatus, submittedAt>>
     ELSE /\ caseStatus' = next[w]
          /\ submittedAt' = (submittedAt \/ next[w] = "submitted")
          /\ Goto(w, "caseSave", IF next[w] = "submitted" THEN "caseTasks"
                                 ELSE "caseEvent")
          /\ UNCHANGED locals
  /\ UNCHANGED <<taskStatus, decision, logs, budget>>

\* startCaseSla, the last act of a submission before its event, throws.
AfterTasks(w) ==
  IF SlaStartRejected("case") THEN Finish(w)
  ELSE Goto(w, pc[w], "caseEvent") /\ UNCHANGED locals

\* maybeCreateInitialTasks looks for existing tasks.
FindInitialTasks(w) ==
  /\ pc[w] = "caseTasks"
  /\ IF Departments = {} \/ \E d \in Departments : taskStatus[d] # Absent
     THEN AfterTasks(w)
     ELSE Goto(w, "caseTasks", "caseCreate") /\ UNCHANGED locals
  /\ UNCHANGED <<documents, logs, budget>>

\* Mutant: the status a case begins with.
DraftStatus == "draft"

\* The status in buildTaskFromRequirement.
InitialTaskStatus == "pending"

\* requiredDepartments is an array, and every submission begins with its head.
FirstDepartment == CHOOSE d \in Departments : TRUE

\* It creates the first task and starts its SLA, which throws: no event tells
\* of the task, and no other department gets one.
CreateInitialTask(w) ==
  /\ pc[w] = "caseCreate"
  /\ taskStatus[FirstDepartment] = Absent
  /\ taskStatus' = [taskStatus EXCEPT ![FirstDepartment] = InitialTaskStatus]
  /\ SlaStartRejected("task")
  /\ Finish(w)
  /\ UNCHANGED <<caseStatus, submittedAt, decision, logs, budget>>

\* A submission that looked for tasks at the same time created it first: the
\* unique index on caseId and departmentCode refuses the second (E11000).
CreateInitialTaskConflict(w) ==
  /\ pc[w] = "caseCreate"
  /\ taskStatus[FirstDepartment] # Absent
  /\ Finish(w)
  /\ UNCHANGED <<documents, logs, budget>>

\* case.status_changed, after the event the table names and the audit event.
AppendCaseStatusChanged(w) ==
  /\ pc[w] = "caseChanged"
  /\ eventLog' = [eventLog EXCEPT ![CaseId] = next[w]]
  /\ Finish(w)
  /\ UNCHANGED <<documents, auditLog, budget>>

TransitionCase(w) ==
  \/ LoadCase(w)
  \/ SaveCase(w)
  \/ FindInitialTasks(w)
  \/ CreateInitialTask(w)
  \/ CreateInitialTaskConflict(w)
  \/ AppendEvent(w, "caseEvent", "caseAudit")
  \/ RecordAudit(w, "caseAudit", "caseChanged")
  \/ AppendCaseStatusChanged(w)

-----------------------------------------------------------------------------
\* The process dies, or the next database operation fails: what was saved
\* stays saved and the rest of the request never happens.
Crash(w) ==
  /\ pc[w] # "idle"
  /\ crashes < MaxCrashes
  /\ crashes' = crashes + 1
  /\ Finish(w)
  /\ UNCHANGED <<documents, logs, overlaps>>

WorkerStep(w) == TransitionTask(w) \/ RecalculateCase(w) \/ TransitionCase(w)

Next == \E w \in Workers : WorkerStep(w) \/ Crash(w)

Spec == Init /\ [][Next]_vars

\* Node runs the continuation of every await that has been answered, so a
\* request that was begun goes on; nothing makes a new request arrive.
Continue(w) == pc[w] # "idle" /\ WorkerStep(w)

FairSpec == Spec /\ \A w \in Workers : WF_vars(Continue(w))

-----------------------------------------------------------------------------
(* Properties.                                                             *)

\* A certificate, or the closure of a task, never precedes a recorded
\* decision on that task, however the requests on the case interleave: both
\* are reached only from a status that a decision wrote (applyTaskTransition
\* writes decision together with the status approved or rejected).
DecisionBeforeFinality ==
  \A d \in Departments :
    taskStatus[d] \in {"certificate_issued", "closed"} => decision[d] # "none"

\* No recalculation, whatever it read, moves a case that was never submitted
\* (pre('validate') of Case), so such a case is a draft or withdrawn.
UnsubmittedCaseStaysDraft ==
  ~submittedAt => caseStatus \in {"draft", "withdrawn"}

\* The department that holds a certificate approved the task ("Certificate
\* issuance requires an approved task", WORKFLOW_DEPENDENCIES).
CertificateNeedsApproval ==
  \A d \in Departments :
    taskStatus[d] = "certificate_issued" => decision[d] = "approved"

\* A rejection by a mandatory department reaches the case: once the task of
\* a submitted case is saved as rejected, the request goes on to the
\* recalculation, and the case is rejected whatever the other tasks are at.
RejectionReachesCase ==
  \A d \in MandatoryDepartments : \A w \in Workers :
    (submittedAt /\ pc[w] = "taskEvent" /\ target[w] = d /\ next[w] = "rejected")
      ~> caseStatus = "rejected"

\* When requests come one at a time and none is cut short, the outbox and the
\* audit trail both end at the status the task has, save for the two
\* transitions that fail at the SLA timer after their save: assignment, and
\* the creation of the first task on submission.
LogsTellStatusAtRest ==
  Busy = {} => \A d \in Departments :
    \/ taskStatus[d] \in {"assigned", eventLog[d]} /\ auditLog[d] \in {Absent, eventLog[d]}
    \/ taskStatus[d] = "pending" /\ eventLog[d] = Absent

\* A mandatory department whose documents or data are missing holds up the
\* approval that a recalculation gives, unless its task was never created,
\* was cancelled, or was rejected and closed: the dependency guards bar each
\* of the other ways to a status that allMandatoryTasksApproved accepts.
BlockedDepartmentHoldsUpApproval ==
  [][\A w \in Workers :
       (pc[w] = "aggSave" /\ pc'[w] = "aggEvent" /\ next[w] = "approved")
         => /\ \A d \in MandatoryDepartments \cap LayoutMissing :
                 taskStatus[d] \in {Absent, "cancelled", "closed"}
            /\ \A d \in MandatoryDepartments \cap DetailsMissing :
                 taskStatus[d] \in {Absent, "cancelled"}]_vars

-----------------------------------------------------------------------------
(* What the documentation says and the code does not do.                   *)

\* docs/orchestration-engine.md: "any mandatory rejection moves the case to
\* rejected".  So no recalculation takes a rejected case elsewhere while the
\* task of a mandatory department is rejected.  One that read the tasks before
\* the rejection does, when it saves after the recalculation that saw it.
RejectionStands ==
  [][\A w \in Workers : \A d \in MandatoryDepartments :
       (/\ pc[w] = "aggSave" /\ pc'[w] = "aggEvent"
        /\ caseStatus = "rejected" /\ taskStatus[d] = "rejected")
         => caseStatus' = "rejected"]_vars

=============================================================================
