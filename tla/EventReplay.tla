---------------------------- MODULE EventReplay ----------------------------
(***************************************************************************)
(* Replaying the stored events of a case: replayEventsForCase of the       *)
(* orchestration service, the handlers it dispatches to and the            *)
(* deduplication of handleEventOnce.                                       *)
(*                                                                         *)
(* Every handler but the one of sla.breached recalculates the aggregate    *)
(* status of the case; an event without a handler, and a breach, change    *)
(* nothing and are left out, and so are the event and the audit entry that *)
(* a recalculation adds.  The tasks do not change during the replays:      *)
(* how requests that change them interleave is CaseOrchestration's subject.*)
(* Several replays of the case may run at once.                            *)
(***************************************************************************)
EXTENDS CaseWorkflow

CONSTANTS
  EventCount,  \* stored events of the case that have a handler
  Replays,     \* requests that replay the case
  MaxReplays,  \* bound: how many replays are begun
  MaxFailures  \* bound: how many are cut short by a crash or a failed write

ASSUME ReplayAssumption ==
  /\ EventCount \in Nat
  /\ MaxReplays \in Nat
  /\ MaxFailures \in Nat

Events == 1..EventCount

VARIABLES
  firstStatus,  \* Case.status before the first replay
  submittedAt,  \* whether Case.submittedAt is set
  tasks,        \* ApprovalTask.status of each department
  caseStatus,   \* Case.status
  records,      \* events with a ProcessedEvent document marked processed
  pc,           \* the await each replay is at
  position,     \* the event it is at
  loaded,       \* the case status it loaded
  alone,        \* history: no other replay ran since it was begun
  begun,
  failures

atRest == <<firstStatus, submittedAt, tasks>>
vars == <<atRest, caseStatus, records, pc, position, loaded, alone,
          begun, failures>>

ReplaySteps == {"idle", "lookup", "load", "save", "mark"}

TypeOK ==
  /\ firstStatus \in CaseStatuses
  /\ submittedAt \in BOOLEAN
  /\ tasks \in [Departments -> TaskStatuses \cup {Absent}]
  /\ caseStatus \in CaseStatuses
  /\ records \subseteq Events
  /\ pc \in [Replays -> ReplaySteps]
  /\ position \in [Replays -> 1..(EventCount + 1)]
  /\ loaded \in [Replays -> CaseStatuses]
  /\ alone \in [Replays -> BOOLEAN]
  /\ begun \in 0..MaxReplays
  /\ failures \in 0..MaxFailures

\* Any case at rest.  Its status need not follow from its tasks: a transition
\* of the case does not look at them, and one recalculation is not always
\* enough.  Before the submission it is a draft or withdrawn.
Init ==
  /\ firstStatus \in CaseStatuses
  /\ submittedAt \in BOOLEAN
  /\ ~submittedAt => firstStatus \in {"draft", "withdrawn"}
  /\ tasks \in [Departments -> TaskStatuses \cup {Absent}]
  /\ caseStatus = firstStatus
  /\ records = {}
  /\ pc = [r \in Replays |-> "idle"]
  /\ position = [r \in Replays |-> 1]
  /\ loaded = [r \in Replays |-> firstStatus]
  /\ alone = [r \in Replays |-> FALSE]
  /\ begun = 0
  /\ failures = 0

Goto(r, from, to) ==
  /\ pc[r] = from
  /\ pc' = [pc EXCEPT ![r] = to]

\* The request is answered.
Finish(r) ==
  /\ pc' = [pc EXCEPT ![r] = "idle"]
  /\ position' = [position EXCEPT ![r] = 1]
  /\ loaded' = [loaded EXCEPT ![r] = firstStatus]
  /\ alone' = [alone EXCEPT ![r] = FALSE]

BeginReplay(r) ==
  /\ begun < MaxReplays
  /\ begun' = begun + 1
  /\ Goto(r, "idle", "lookup")
  /\ alone' = [q \in Replays |-> q = r /\ \A o \in Replays : pc[o] = "idle"]
  /\ UNCHANGED <<atRest, caseStatus, records, position, loaded, failures>>

\* The loop is over.
EndReplay(r) ==
  /\ pc[r] = "lookup"
  /\ position[r] > EventCount
  /\ Finish(r)
  /\ UNCHANGED <<atRest, caseStatus, records, begun, failures>>

\* Mutant: the loop looks at one event too many.
LookUpPastEnd(r) ==
  /\ Goto(r, "lookup", "load")
  /\ position[r] <= EventCount + 1
  /\ UNCHANGED <<atRest, caseStatus, records, position, loaded, alone, begun, failures>>

\* isEventAlreadyProcessed
LookUp(r) ==
  /\ pc[r] = "lookup"
  /\ position[r] <= EventCount
  /\ IF position[r] \in records
     THEN position' = [position EXCEPT ![r] = @ + 1] /\ UNCHANGED pc
     ELSE Goto(r, "lookup", "load") /\ UNCHANGED position
  /\ UNCHANGED <<atRest, caseStatus, records, loaded, alone, begun, failures>>

LoadCase(r) ==
  /\ Goto(r, "load", "save")
  /\ loaded' = [loaded EXCEPT ![r] = caseStatus]
  /\ UNCHANGED <<atRest, caseStatus, records, position, alone, begun, failures>>

\* Mutant: a replayed task event puts the case back under scrutiny.
ReturnedToScrutiny(r) ==
  IF ActiveTasks(tasks) = {} THEN loaded[r] ELSE "under_scrutiny"

Derived(r) == DeriveAggregateCaseStatus(loaded[r], tasks)

\* pre('validate') of Case.
CaseSaveRejected(status) == ~submittedAt /\ status \notin {"draft", "withdrawn"}

\* The recalculation saves a status that differs from the one it loaded.
SaveCase(r) ==
  /\ Derived(r) = loaded[r] \/ ~CaseSaveRejected(Derived(r))
  /\ Goto(r, "save", "mark")
  /\ caseStatus' = IF Derived(r) = loaded[r] THEN caseStatus ELSE Derived(r)
  /\ UNCHANGED <<atRest, records, position, loaded, alone, begun, failures>>

\* markEventFailed, then the error ends the replay.
SaveCaseFails(r) ==
  /\ pc[r] = "save"
  /\ Derived(r) # loaded[r] /\ CaseSaveRejected(Derived(r))
  /\ Finish(r)
  /\ UNCHANGED <<atRest, caseStatus, records, begun, failures>>

\* The option updateOne passes on, whatever its caller asks for.
Upsert == FALSE

\* findOneAndUpdate on ProcessedEvent: without upsert it inserts nothing.
UpdateOne(documents, e) ==
  IF Upsert \/ e \in documents THEN documents \cup {e} ELSE documents

\* Mutant: the loop returns after its first event.
MarkProcessedAndReturn(r) ==
  /\ Goto(r, "mark", "lookup")
  /\ records' = UpdateOne(records, position[r])
  /\ position' = [position EXCEPT ![r] = EventCount + 1]
  /\ UNCHANGED <<atRest, caseStatus, loaded, alone, begun, failures>>

\* markEventProcessed, and on to the next event of the loop.
MarkProcessed(r) ==
  /\ Goto(r, "mark", "lookup")
  /\ records' = UpdateOne(records, position[r])
  /\ position' = [position EXCEPT ![r] = @ + 1]
  /\ UNCHANGED <<atRest, caseStatus, loaded, alone, begun, failures>>

Fail(r) ==
  /\ pc[r] # "idle"
  /\ failures < MaxFailures
  /\ failures' = failures + 1
  /\ Finish(r)
  /\ UNCHANGED <<atRest, caseStatus, records, begun>>

Continue(r) ==
  \/ EndReplay(r)
  \/ LookUp(r)
  \/ LoadCase(r)
  \/ SaveCase(r)
  \/ SaveCaseFails(r)
  \/ MarkProcessed(r)

Next == \E r \in Replays : BeginReplay(r) \/ Continue(r) \/ Fail(r)

Spec == Init /\ [][Next]_vars

-----------------------------------------------------------------------------
(* Properties.                                                             *)

Settled(status) == DeriveAggregateCaseStatus(status, tasks) = status

DerivationPath ==
  LET once == DeriveAggregateCaseStatus(firstStatus, tasks)
  IN  {firstStatus, once, DeriveAggregateCaseStatus(once, tasks)}

\* However many events are replayed, how often, and however the replays
\* overlap and save what they derived from a case loaded long before, the
\* case is only ever in its first status or in what one or two recalculations
\* make of it (deriveAggregateCaseStatus settles after two).
CaseStaysOnDerivationPath == caseStatus \in DerivationPath

\* A replay of two events or more that ran alone and came to its end leaves
\* the case in a status that further recalculation keeps.  One event would not
\* do.
ReplaySettlesCase ==
  [][\A r \in Replays :
       (EndReplay(r) /\ alone[r] /\ EventCount >= 2)
         => Settled(caseStatus)]_vars

=============================================================================
