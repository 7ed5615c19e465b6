---------------------------- MODULE CaseWorkflow ----------------------------
(***************************************************************************)
(* The pure part of the orchestration service: the case and task state     *)
(* tables, the transition guards and the rule that derives the status of a *)
(* case from the statuses of its department tasks.                         *)
(*   services/orchestration-service/src/state-machines                     *)
(*   services/orchestration-service/src/guards                             *)
(*   services/orchestration-service/src/workflows                          *)
(*   deriveAggregateCaseStatus in services/orchestration.service.js        *)
(* A case has one approval task per required department, so a task is      *)
(* named by its department.  `tasks` is always a function from departments *)
(* to task statuses, with Absent for a task that was never created.        *)
(***************************************************************************)
EXTENDS Naturals

CONSTANTS
  Departments,          \* the departments the case requires
  MandatoryDepartments, \* those whose task has metadata.isMandatory # false
  LayoutMissing,        \* fire tasks of a case without a layout plan
  DetailsMissing        \* industrial safety and labour tasks without their data

ASSUME DepartmentsAssumption ==
  /\ MandatoryDepartments \subseteq Departments
  /\ LayoutMissing \subseteq Departments
  /\ DetailsMissing \subseteq Departments

CaseStatuses ==
  {"draft", "submitted", "under_scrutiny", "query_raised",
   "response_submitted", "inspection_scheduled", "inspection_completed",
   "fee_demanded", "fee_paid", "approved", "rejected", "certificate_issued",
   "amendment_requested", "amended", "closed", "reopened", "withdrawn"}

TaskStatuses ==
  {"pending", "assigned", "under_review", "query_raised",
   "response_received", "inspection_required", "inspection_scheduled",
   "inspection_completed", "fee_demanded", "fee_paid", "approved",
   "rejected", "returned", "certificate_issued", "cancelled", "closed"}

Absent == "absent"

-----------------------------------------------------------------------------
(* The transition tables, as sets of edges.                                *)

CaseTransitions ==
  ({"draft"} \X {"submitted", "withdrawn"})
  \cup ({"submitted"} \X {"under_scrutiny", "withdrawn"})
  \cup ({"under_scrutiny"} \X
          {"query_raised", "inspection_scheduled", "approved", "rejected",
           "amendment_requested", "fee_demanded"})
  \cup ({"inspection_completed"} \X {"fee_demanded", "approved", "rejected"})
  \cup ({"response_submitted", "fee_paid", "reopened", "amended"}
          \X {"under_scrutiny"})
  \cup ({"rejected", "closed"} \X {"reopened"})
  \cup {<<"query_raised", "response_submitted">>,
        <<"inspection_scheduled", "inspection_completed">>,
        <<"fee_demanded", "fee_paid">>,
        <<"approved", "certificate_issued">>,
        <<"certificate_issued", "closed">>,
        <<"amendment_requested", "amended">>}

TaskTransitions ==
  ({"pending"} \X {"assigned", "cancelled"})
  \cup ({"assigned"} \X {"under_review", "cancelled"})
  \cup ({"under_review"} \X
          {"query_raised", "inspection_required", "fee_demanded",
           "approved", "rejected", "returned"})
  \cup ({"query_raised", "returned"} \X {"response_received"})
  \cup ({"response_received", "inspection_completed", "fee_paid"}
          \X {"under_review"})
  \cup ({"certificate_issued", "rejected"} \X {"closed"})
  \cup {<<"inspection_required", "inspection_scheduled">>,
        <<"inspection_scheduled", "inspection_completed">>,
        <<"fee_demanded", "fee_paid">>,
        <<"approved", "certificate_issued">>}

\* The edges marked reasonRequired.
CaseReasonRequired ==
  CaseTransitions \cap
    (CaseStatuses \X {"withdrawn", "rejected", "amendment_requested",
                      "closed", "reopened", "amended"})

TaskReasonRequired ==
  ({"pending", "assigned"} \X {"cancelled"})
  \cup ({"under_review"} \X {"rejected", "returned"})
  \cup {<<"rejected", "closed">>}

-----------------------------------------------------------------------------
(* Guards.  Beside the statuses they look at facts about the request and   *)
(* the loaded documents: the actor has the permission, a reason is given,  *)
(* the task's required documents are there and its required checklist      *)
(* items completed, the request has a payment or certificate reference.    *)

GuardFacts == {"permission", "reason", "documents", "checklist",
               "paymentReference", "certificateReference"}

IsCaseMutable(caseStatus) == caseStatus # "closed"

IsTaskMutable(taskStatus) == taskStatus \notin {"closed", "cancelled"}

CaseTransitionAllowed(caseStatus, next, facts) ==
  /\ <<caseStatus, next>> \in CaseTransitions
  /\ IsCaseMutable(caseStatus) \/ next = "reopened"
  /\ <<caseStatus, next>> \in CaseReasonRequired => "reason" \in facts
  /\ "permission" \in facts

TaskPrerequisites(next, facts) ==
  /\ next = "approved" => "checklist" \in facts
  /\ next = "fee_paid" => "paymentReference" \in facts
  /\ next = "certificate_issued" => "certificateReference" \in facts

IsCaseFinalForClosure(caseStatus) ==
  caseStatus \in {"certificate_issued", "rejected"}

\* Mutant: the rules hold up the review and the inspection only.
DepartmentDataReadyForReview(d, next) ==
  /\ d \in LayoutMissing => next # "inspection_scheduled"
  /\ d \in DetailsMissing => next # "approved"

\* The rules of one department: fire; industrial safety and labour.
DepartmentDataReady(d, next) ==
  /\ d \in LayoutMissing =>
       next \notin {"inspection_scheduled", "approved", "certificate_issued"}
  /\ d \in DetailsMissing => next \notin {"under_review", "approved"}

DependenciesSatisfied(d, caseStatus, taskStatus, next) ==
  /\ DepartmentDataReady(d, next)
  /\ next = "certificate_issued" => taskStatus = "approved"
  /\ next = "closed" => IsCaseFinalForClosure(caseStatus)
  /\ next = "fee_paid" => taskStatus = "fee_demanded"
  /\ next = "inspection_completed" => taskStatus = "inspection_scheduled"

TaskTransitionAllowed(d, caseStatus, taskStatus, next, facts) ==
  /\ <<taskStatus, next>> \in TaskTransitions
  /\ IsTaskMutable(taskStatus) \/ next = "closed"
  /\ <<taskStatus, next>> \in TaskReasonRequired => "reason" \in facts
  /\ {"permission", "documents"} \subseteq facts
  /\ TaskPrerequisites(next, facts)
  /\ DependenciesSatisfied(d, caseStatus, taskStatus, next)

\* The statuses that some request can ask for and get.
NextCaseStatuses(caseStatus) ==
  {next \in CaseStatuses :
     \E facts \in SUBSET GuardFacts :
       CaseTransitionAllowed(caseStatus, next, facts)}

NextTaskStatuses(d, caseStatus, taskStatus) ==
  {next \in TaskStatuses :
     \E facts \in SUBSET GuardFacts :
       TaskTransitionAllowed(d, caseStatus, taskStatus, next, facts)}

-----------------------------------------------------------------------------
(* Aggregation over the active tasks, those neither absent nor cancelled.  *)

ActiveTasks(tasks) == {d \in Departments : tasks[d] \notin {Absent, "cancelled"}}

\* Mutant: isMandatory read the wrong way round.
ActiveOptional(tasks) == ActiveTasks(tasks) \ MandatoryDepartments

ActiveMandatory(tasks) == ActiveTasks(tasks) \cap MandatoryDepartments

InState(tasks, statuses) == {d \in ActiveTasks(tasks) : tasks[d] \in statuses}

AnyMandatoryTaskRejected(tasks) ==
  \E d \in ActiveMandatory(tasks) : tasks[d] = "rejected"

AllMandatoryTasksApproved(tasks) ==
  /\ ActiveMandatory(tasks) # {}
  /\ ActiveMandatory(tasks)
       \subseteq InState(tasks, {"approved", "certificate_issued", "closed"})

AllRequiredInspectionsCompleted(tasks) ==
  /\ InState(tasks, {"inspection_required", "inspection_scheduled"}) = {}
  /\ InState(tasks, {"inspection_completed", "approved", "rejected",
                     "closed"}) # {}

AllRequiredFeesPaid(tasks) ==
  /\ InState(tasks, {"fee_demanded"}) = {}
  /\ InState(tasks, {"fee_paid", "approved", "certificate_issued",
                     "closed"}) # {}

AllRequiredCertificatesIssued(tasks) ==
  /\ InState(tasks, {"approved"}) = {}
  /\ InState(tasks, {"certificate_issued", "closed"}) # {}

(* The rules apply in this order; the first that matches decides.          *)
DeriveAggregateCaseStatus(caseStatus, tasks) ==
  IF ActiveTasks(tasks) = {} THEN
       IF caseStatus = "submitted" THEN "under_scrutiny" ELSE caseStatus
  ELSE IF AnyMandatoryTaskRejected(tasks) THEN "rejected"
  ELSE IF InState(tasks, {"query_raised"}) # {} THEN "query_raised"
  ELSE IF InState(tasks, {"inspection_required", "inspection_scheduled"}) # {}
       THEN "inspection_scheduled"
  ELSE IF /\ AllRequiredInspectionsCompleted(tasks)
          /\ caseStatus = "inspection_scheduled" THEN "inspection_completed"
  ELSE IF InState(tasks, {"fee_demanded"}) # {} THEN "fee_demanded"
  ELSE IF AllRequiredCertificatesIssued(tasks) THEN "certificate_issued"
  ELSE IF AllMandatoryTasksApproved(tasks) THEN "approved"
  ELSE IF /\ AllRequiredFeesPaid(tasks)
          /\ caseStatus \in {"fee_demanded", "fee_paid"} THEN "fee_paid"
  ELSE IF caseStatus \in {"query_raised", "submitted", "reopened",
                          "response_submitted", "fee_paid", "amended"}
       THEN "under_scrutiny"
  ELSE caseStatus
=============================================================================
