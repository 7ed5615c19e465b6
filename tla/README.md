# UdyogSetu-360: verification of the workflow core

UdyogSetu-360 takes an investor's application (a *case*) through the departments
that must approve it. Each required department has an *approval task*; the status of
the case follows from the statuses of its tasks. This directory holds TLA+ modules
translated from the services' source, the TLC configurations that check them, and
TLAPS proofs. `PROJECT.json` lists components, runs, findings, hazards, theorems, and the
source lines that every definition stands for.

Paths below are relative to the repository. `orch/` stands for
`services/orchestration-service/src/`, `case/` for `services/case-service/src/`.

## Inventory

| Component | State it keeps | Operations | Hard behaviour | What makes it correct |
|---|---|---|---|---|
| Case orchestration (`orch/services/orchestration.service.js`, guards, state machines, workflows) | `Case.status`, `submittedAt`; `ApprovalTask.status`, `decision`; outbox and audit entries | `transitionCase`, `transitionTask`, `recalculateCaseAggregateStatus`, initial tasks on submission | two replicas and many requests on one case, no transaction on the deployed database, no version check on most saves, failure between two writes | finality follows a decision, a rejection reaches the case and stands, a blocked department holds up approval, the logs tell what happened |
| Event replay (`orch/services/event-replay.service.js`, `orch/handlers`) | `ProcessedEvent` | replay of a case's events, deduplication | overlapping replays, a replay cut short, stale cases | replay leads a case nowhere a recalculation would not, and settles it |
| Outbox publisher (`case/outbox`) | `DomainEvent` rows: status, attempts, next time, lock | append, periodic tick: recover locks, find, lock, publish, mark | ticks overlap in and across processes, locks recovered from living ticks, crash between send and mark, marks that fail or are applied unanswered | at-least-once delivery and an end to it, duplicates only for a cause, every event settles |
| Kafka consumers (`packages/shared/src/kafka`) | `ProcessedEvent` per handler and group, the committed offset | claim, handle, record, dead letter, throw | redelivery and rebalance while a consumer works, a lock that outlives its consumer, a failing record | nothing passed over without a trace, one success per message unless disturbed, the partition advances |
| Queue delivery (`services/adapter-runtime/src/workers`, `services/queue-*.js`) | `QueueJob`, idempotency locks, RabbitMQ queues | take, lock, handle, ack or nack, retry and dead-letter queues, requeue, cancel | redelivery, a closed channel, a worker's death, a call that fails after its effect | no job lost unless skipped, delivered once unless disturbed, a row that says succeeded tells the truth, queues drain |
| Adapter callbacks (`services/adapter-runtime/src/services/callback-reconciliation.service.js`) | deliveries, acknowledgements | receive, reconcile, ask for a transition | duplicate and late callbacks | one transition per answer |
| Audit chain (`services/audit-service/src`) | sequence counter, hash chain | append, verify | concurrent appends | one chain, no gap |
| Grievances and SLA timers (`case/services/grievance.service.js`, `services/notification-service/src`, `orch/services/sla-orchestration.service.js`) | `Grievance.status` and history; `SlaTimer` status, level, stamps | create, assign, resolve, escalate; start, pause, complete; tick and evaluation; the transitions of the case | three services and two replicas write one timer from what they read before | one warning, no escalation passes over a level, no breach lost, an ended timer stays so |
| Reminders and notifications (`services/notification-service/src/services`) | `ReminderJob`, `Notification` | tick, queue, send, retry, cancel | overlapping ticks, a failing call after its effect | bounded tries, nobody hears twice, the queues empty |
| Replay control (`orch/replay`, `orch/stuck-case`) | `ReplayAttempt` | request, run, cancel | cancel during a run | a cancelled attempt stays cancelled |
| Department portal (`apps/department-portal/src`) | decisions, inspections, fees, certificates | write, then ask for the transition | the transition refuses what was written | portal and task agree |
| Gateway idempotency (`apps/gateway/src/services/idempotency.service.js`) | keys, stored answers | begin, complete, fail | two requests with one key | one execution per key |
| Documents and certificates (`case/services/document.service.js`, `certificate.service.js`) | `Document`: status, version, parent, successor; the object store | upload, signed upload, new version, certificate, verify, reject, revoke, retire | a version's upload retires its base an await later, blind writes of the status | a version retires its base, a family keeps a version in force |
| DigiLocker, department adapters, analytics, portals, AI services, infrastructure, legacy `web/` | none that the workflow depends on | input, output, views | - | - |

How they interact: a portal or the gateway calls the orchestration service over HTTP;
that service loads and saves cases and tasks through Mongoose, appends events to the
outbox collection of the case service and entries to the audit trail, all in the same
MongoDB. The outbox publisher moves events to Kafka, from which consumers in the other
services run their handlers. The adapter runtime delivers work to departments over
RabbitMQ; their callbacks come back as task transitions. Scheduler ticks of the
notification service read timers and create notifications.

Two facts about the deployment decide how the code behaves. `infra` runs MongoDB as a
standalone `mongod`, on which transactions are refused: `withSession`
(`orchestration.service.js:39-65`) always takes its fallback, and every database call
stands alone. And the services run in two replicas, so no in-process lock would help.

## Modules

| Module | Models | Role |
|---|---|---|
| `CaseWorkflow` | state tables, guards, dependency rules, `deriveAggregateCaseStatus` | pure operators; used by the next two |
| `CaseOrchestration` | `transitionTask`, `transitionCase`, `maybeCreateInitialTasks`, `recalculateCaseAggregateStatus` | one case, concurrent requests |
| `MCCaseOrchestration` | - | view and symmetry for TLC |
| `CaseOrchestrationProofs` | - | proofs |
| `EventReplay` | `replayEventsForCase`, handlers, `handleEventOnce` | extends `CaseWorkflow` |
| `EventReplayProofs` | - | proofs |
| `EventDelivery` | - | abstract: at-least-once delivery, and its end |
| `OutboxPublisher` | `outbox-publisher.service.js`, `outbox.repository.js` | refines `EventDelivery` |
| `OutboxPublisherProofs` | - | proofs |
| `EventConsumer` | `runConsumer`, `withIdempotency` and the consumers of one group | one partition, one handler |
| `EventConsumerProofs` | - | proofs |
| `QueueWorker` | `handleMessage`, queue idempotency, retry, dead letter, requeue, cancel | workers on one delivery queue |
| `QueueWorkerProofs` | - | proofs |
| `SlaTimers` | grievance requests, `evaluateAll`, `escalateEntity`, `evaluateSlaTimers`, the timer operations of `transitionCase` | three services on one timer |
| `MCSlaTimers` | - | policies and symmetry for TLC |
| `SlaTimersProofs` | - | proofs |
| `ReminderDispatch` | `executeDueReminders`, `dispatchQueuedNotifications`, notification requests | two ticks and users |
| `ReminderDispatchProofs` | - | proofs |
| `Documents` | uploads, versions, certificates, decisions | requests on one family of documents |
| `DocumentsProofs` | - | proofs |

Definitions whose comment begins with `Mutant:` are plausible bugs of the definition
that follows. No specification uses them; they show, put in its place, that a property
can fail.

### CaseWorkflow

The two state machines are sets of edges; `CaseTransitionAllowed` and
`TaskTransitionAllowed` are the guards of `orch/guards`, whose inputs from outside the
status (permission, reason, documents, checklist, references) form a set of facts.
`MandatoryDepartments`, `LayoutMissing` and `DetailsMissing` say which tasks are
mandatory and which departments' rules in `dependency-guards.js` hold them up.
`DeriveAggregateCaseStatus` is the rule list in its order.

### CaseOrchestration

A worker is one HTTP request; `pc` names the `await` it is at, and each action runs
from one `await` to the next. `loaded`, `next`, `stale` are its copy of the document it
loaded. A Mongoose save writes the modified fields only, so a save writes `status` (and
`decision`) over whatever is there. The one exception is an answered query, which edits
an array element and makes Mongoose compare the version; `stale` and
`SaveTaskConflict` model it. `SlaStartRejected` is what the enum of `SlaTimer` does to
`startCaseSla` and `startTaskSla`: both create timers of type `case` or `task`, which
the enum does not have, and throw. `eventLog` and `auditLog` keep the last status told
of each document; the other fields of events and audit entries are left out.
`Crash` ends a request at any `await`; nothing is undone, as nothing is in the
fallback of `withSession`.

Submissions overlap like other requests. Two that found no tasks both create the one of
the first required department (`FirstDepartment`); the unique index on case and
department (`ApprovalTask.js:71-74`) refuses the second, and `CreateInitialTaskConflict` is
that error. After a case is saved, `transitionCase` may pause, resume, complete or cancel a
timer with its `caseId`; what that does to the timer of a grievance is in `SlaTimers`.

Bounds: `MaxOverlaps` counts requests begun while another is in flight, `MaxCrashes`
counts crashes.

### EventReplay

A replay walks the stored events: lookup, recalculation (load, save), mark. The tasks
are fixed but arbitrary, and so is the first status of the case. `alone` is a history
variable: no other replay ran since this one was begun. `Upsert` is `FALSE`:
`processed-event.repository.js:12-18` ignores the option its caller passes.

### OutboxPublisher

`Ticks` are the runs of the `setInterval` callback that may be in progress together, in
one process or several. Time is not counted: a failed row becomes due at some later
moment, and a lock of any age may be found stale, because the time a send takes has no
bound and neither has the length of a batch. Two history variables: `causes` counts what
may make Kafka hold an event once more, `disturbed` are the events whose lock was taken
from a tick that still worked on them, or whose `markPublished` was applied and its answer
lost (`MarkPublishedUnanswered`): the `catch` block then marks the published row failed. Kafka is assumed enabled, and an append a
single row. The batch limit of fifty is assumed not to be reached. `MaxAttempts` is 2
or 3 in the runs instead of 10; the limit is compared in one place only, and an event
meets it, passes below it and is recovered between attempts with 3.

`EventDelivery` is what a reader of the outbox may rely on. Every event is settled only
after it was handed over. A settled event is not settled otherwise, taken up, sent
or reported once more, unless it is disturbed; and an event is disturbed only while it
is open, or by the step that settles it. What a tick does with rows of its batch
that another has settled meanwhile, and with the send it began before, is what the
refinement is about.

### EventConsumer

Consumers of one group read a partition of `Length` messages; `owner` is the one the
partition is assigned to, and a consumer that lost it goes on with the message it has.
`record` is the `ProcessedEvent` of each message for the one handler, `stale` the
claims older than `staleMs`. `Malformed` messages fail their schema, `Unhandled` ones
have no handler, which `IgnoreMissing` passes over. A return from `eachMessage` lets
kafkajs commit the offset; a throw makes it deliver the message again. kafkajs and
Kafka (`Commit`, `Rebalance`, `Crash`) are modelled from how the code uses them.
Writes fail without effect, or are applied and their answer lost (`ClaimUnanswered`,
`MarkProcessedFails`, `MarkFailedFails`). Two history variables: `disturbed` has the
messages that two consumers worked on at once, or whose success could not be recorded;
`abandoned` those whose claim was left without an outcome, because the consumer died or
could not write it.

### QueueWorker

A worker is one delivery in progress, so a worker process with a prefetch of *n* is *n*
of them. `ready`, `waiting` and `deadLetters` are the queues, `row` the `QueueJob` of each
message, `channel` and `unsettled` what the broker remembers. The routing key is kept,
because `requeueQueueJob` publishes under the one that the row has. `error` is what the
handler, or a call inside the same `try`, threw: `transient`, `permanent` (an
`AdapterError` that is not retryable) or `invalid`. Which jobs do not parse is chosen
at the start. `PoisonAttempts` and `MaxAttempts` are 1 in the run instead of 3:
both limits are met, passed and not met there. A requeue makes a second row for its key.
`QueueJob.js:42` declares a unique index on `idempotencyKey` that would refuse it, but
combines `sparse` with `partialFilterExpression`, which MongoDB does not build; the model
has no such index.

### SlaTimers

Dates are three phases of a clock; `Pass` moves it. A tick walks the three queries of
`evaluateAll`, each of which is answered before the first update. An actor holds the
timers it found (`todo`) and what it read of the one it works on (`held`). The updates
write blindly, as `updateById` and `save` do. `POST sla/evaluate` of the orchestration service
takes the time it evaluates at from its caller, so `FindMarks` may find any timers in
the statuses it asks for. `Policy` is the list of levels in the order the policy has
them; nothing makes that order increasing or without gaps, and `Follows` is the
`find` of `escalateEntity`.

Timers exist only for grievances: the schema refuses the `case` and `task` types that the
orchestration service asks for. But a grievance's timer carries the `caseId` of its
case, and the transitions of that case look for a timer by it: `FindCaseTimer` and
`SaveCaseTimer` are `pauseSla`, `resumeSla`, `completeSla` and `cancelSla`. The case
itself is not in the module, so its transitions come in any order. `pauseHistory` is left
out, and with it the version check that it causes when a resumption crosses a pause.

History variables name the only excuses the properties accept: `overlapped` (two ticks
found a timer to warn of at once), `crossed` (a request about a grievance began between
another's read and its update), `late` (who had a timer in hand when it ended), `raised` (the level that
a breach mark gave). `carried` has the levels that escalations carried out.

### ReminderDispatch

Reminder ticks take due reminders, queue a notification for each and mark it; dispatch
ticks send what is queued. Both hold what they found and the counts they read. A call
may throw before or, where that differs, after its effect, and which `catch` block is next
is part of `Throw`. `sendReminder` passes an id where `sendNotification` expects a
notification, so a reminder's notification is marked sent without a provider: that is
what `Mark` does.

### Documents

A document is a record with an object in a store. A request that uploads stores the
object, then the record, then retires the document it is based on. `parentDocumentId`
always names the first document of a family (`Root`); `base` is the document a version
was made from. `byHand` (history) has the documents that somebody retired, or whose status
somebody wrote over after their retirement. Deadlock is off: all bounds are counters.

## Runs

Passing runs:

| Run | Question | Bounds |
|---|---|---|
| `orchestration_sequential` | Do certificates, logs and rejections hold when requests come one at a time, and can a recalculation approve around a department without its data? Includes the liveness `RejectionReachesCase`. | three mandatory departments: one complete, one without its layout plan, one without its details; any sequence of requests |
| `orchestration_concurrent` | What survives overlapping requests, two submissions among them, and a crash? | one department, two workers, two overlaps, one crash |
| `replay_concurrent` | Do overlapping, interrupted replays stay on the derivation path, and does an undisturbed one settle the case? | three events, two replays, one failure; a mandatory and an optional department, every case status and task statuses |
| `outbox_overlapping` | Are settled rows true and final, are duplicates accounted for, is delivery at least once and has it an end? | a sound and an invalid event, two ticks, three attempts, two failures |
| `outbox_settles` | Does every event settle? | one event, two ticks, two attempts, two failures |
| `consumer_group` | What becomes of an event passed over without success, is none handled twice unless disturbed, and does the partition advance? | three messages (sound, unhandled, malformed), two consumers, three rebalances, two failures |
| `queue_workers` | Is no job lost or delivered twice, do rows tell the truth, do the queues drain? | one job, well formed or not, two workers, one retry, one request of an operator, two failures |
| `sla_overlapping_ticks` | One warning unless ticks overlap; does a due timer get marked breached? | one grievance, two ticks, a user or its case with two requests after its creation, a policy of two levels, one failure |
| `sla_three_services` | Levels, history and endings, with all three services at work | one grievance, a tick, an evaluation, two users or its case with two requests, the policy of levels 1, 3, 2, one failure |
| `reminder_ticks` | Bounded tries, nothing twice, and queues that empty | one reminder with two attempts, two reminder ticks, a dispatch tick, a user, two troubles (requests and failures together) |
| `documents` | Does a version retire its base, and does a family keep a version in force? | three documents, two requests at a time, two that touch an existing document, one failure |

Sequences are unbounded in all of them: the bounds count overlaps, failures, replays
and attempts. Two workers and two overlaps let each of two requests see the other's
writes between its own load and save, and a third start on what they left. One
department is enough for what concerns a single task and its case; runs that relate
departments have two or three. `orchestration_concurrent` and
`orchestration_hidden_rejection` use a view and a symmetry, both justified in
`MCCaseOrchestration`, `sla_three_services` a symmetry of its users; none checks liveness. The logs, hidden by the view, are
type-checked in `orchestration_sequential` and by proof.

One run shows a disagreement between the code and what is said of it:
`orchestration_hidden_rejection` (`RejectionStands`), in which a recalculation that read the
tasks before a rejection saves after the one that saw it, and takes the rejected case to
another status. It takes the race: `RejectionStandsAlone` proves that it cannot happen to
requests that come one at a time.
`findings` in `PROJECT.json` quotes both sides.

### Behaviours worth knowing

Each was met while modelling. Those marked (TLC) are reached by the model above them when
the quoted sentence is given to TLC as a property.

Orchestration and events:

- A recalculation takes a closed case to another status (TLC), for it never asks
  `isCaseMutable`; `docs/orchestration-engine.md:75` says that closed cases cannot change
  unless reopened.
- A rejected task that was closed counts as a certificate issued (TLC), so a
  recalculation certifies a case its only department rejected;
  `docs/orchestration-engine.md:99` speaks of issued certificates.
- A submission creates its first task, fails at that task's SLA timer and never creates
  the others (TLC); `docs/architecture-narrative.md:38` says it creates the tasks.
- No guard reads `requiresAllMandatoryTasksStatus` (`case-state-machine.js:67`), so a
  request with the permission approves a case with undecided departments (TLC).
- `markEventProcessed` inserts nothing, because `updateOne` drops the `upsert` it is
  given: every replay runs every handler again (TLC), which `docs/orchestration-engine.md:150`
  rules out. `CaseStaysOnDerivationPath` shows that the repetition is harmless.
- An event that fails its schema is retried until its attempts run out (TLC), since a
  `ZodError` is no `NonRetryableEventError`; `docs/kafka-event-backbone.md:120` sends
  non-retryable failures to the dead-letter topic.
- When two requests both loaded a task under review and save an approval and a
  rejection, a third may issue the certificate in between: `CertificateNeedsApproval`
  fails under overlap (two workers, two overlaps).
- An assignment is saved and then throws at its SLA timer, so neither event nor audit
  entry tells of it; `LogsTellStatusAtRest` names this exception, and that of the tasks
  created on submission.
- A tick whose lock was recovered while it was alive can mark a published row failed,
  and so does the tick that published it when `markPublished` is applied and its answer
  lost (TLC); the event is then published again. Both are in `disturbed`, which
  `SettledIsFinal` and `DeliverySpec` except. A retry
  may publish an event of a case after a later one.

Consumers and queues:

- A message redelivered after a crash finds the dead consumer's claim, younger than
  `staleMs`, is skipped and committed (TLC): nobody handles it. `docs/kafka-event-backbone.md:127`
  says that stale locks can be taken over safely; this one never is, for the message is
  not delivered again. `PassedOverLeavesTrace` excepts it (`abandoned`); its record says
  `processing` for ever.
- The queue's lock does the same: a redelivered job whose lock is young is skipped and
  acknowledged (`skipped` in `NotLostUnlessSkipped`).
- A job that was retried has the routing key of the retry exchange in its row;
  `requeueQueueJob` publishes under it to an exchange where nothing is bound, so the
  message is dropped and the new row says `queued` for ever (TLC).
  `docs/runbooks/rabbitmq-deadletter.md:27` says that requeued messages complete.
- An `AdapterError` that is not retryable is given back to the queue with the same
  attempt count, and so again and again if the department always answers so;
  `docs/rabbitmq-delivery-subsystem.md:101` says that non-retryable failures dead-letter.
- A failing monitoring event after the acknowledgement makes the worker take a finished
  job for a failed one: it is retried, and the second acknowledgement closes the
  channel. After a lost connection nothing consumes again until a restart. `cancelJob`
  changes the row and stops no delivery.

Timers, reminders, documents:

- A timer marked breached is not found by the escalation query of the same tick, though
  `docs/communication-grievance-module.md:20` says that breached items escalate. The
  orchestration service's `markBreached` raises the level and escalates nothing, so the
  next escalation begins above it: what that level asks for is never done.
- The same evaluation marks a timer before it is due if its caller names a later time.
- A transition of a case ends or pauses the timer of a grievance about it, while the
  grievance stays open. Who had the timer in hand when it ended revives it (`late`), as does a
  pause or a resumption on request.
- `warningSentAt` is stored before the reminder is scheduled: if that fails, nobody is
  reminded. The orchestration service's `markWarning` takes a timer out of the query for
  warnings, so that its reminder is never scheduled.
- `assignGrievance` writes a history entry for the status it read (`crossed`).
- A tick that dies leaves its reminder in `processing`, where no query looks.
  A failing `sendNotification` is swallowed, and the reminder counts as sent.
- Sending, retrying, cancelling and reading a notification ask for no status.
- A version of a version is based on the first document of its family: the third
  version has number 2 again, and the second is not retired.
- Confirmation, verification, rejection and publication write the status of a document
  blindly: verifying revives a revoked certificate, confirming demotes a verified one.
  A signed upload is never scanned. The portal's `issueCertificate` passes no file and throws.

Not modelled, seen in passing: overlapping audit records fork the hash chain;
`runReplay` overwrites a cancellation; the gateway's takeover of a failed idempotency
record is not atomic; the department portal, with mock data off, stores a decision, fee or inspection before it
asks for the transition, which may refuse and leaves the record.

Deadlock: requests may begin for ever and so may ticks, and TLC checks that neither
model stops. `replay_concurrent`, `consumer_group`, `queue_workers` and `documents` turn the check off: their
replays, messages, jobs and documents are bounded in number, and come to an end.

## Fairness

`CaseOrchestration.FairSpec` assumes that a request that was begun goes on (`WF` of its next step): Node runs the continuation of every answered
await. Nothing makes a request arrive. `OutboxPublisher.FairSpec` assumes the same of
ticks; here ticks also begin, because `setInterval` keeps firing. It further assumes
that time passes (`WF` of `BecomeDue`) and that a lock held by no living tick is
recovered (`SF` of `RecoverAbandonedLock`): every tick updates all locks older than the
timeout, and an abandoned lock only grows older. It is strong fairness because recovery
is possible only at the start of a tick. 
`EventConsumer.FairSpec` assumes that the awaits of a consumer are answered and that
kafkajs commits; `PartitionAdvances` speaks of behaviours in which the partition is left with
a consumer at last. `QueueWorker.FairSpec` assumes that a worker serves an open channel
and that the TTLs of retry queues end; `QueuesDrain` supposes that a worker keeps its
channel. `SlaTimers` and `ReminderDispatch` assume the same of the ticks, which
`setInterval` starts, and nothing of requests. No fairness is assumed of failures,
which are bounded in number in every liveness run: what is shown is that the system settles
once they cease.

## Proofs

For every value of the constants that satisfies the assumptions of the modules:
departments, requests, ticks and events may be any sets (the ticks a finite one),
bounds any numbers. `RejectionStandsAlone` and `MissingDataHoldsUpApproval` assume
`MaxOverlaps = 0`, `CertificatesAreApproved` and `LogsTellTheStatus` speak of the states
before a first request has joined another: requests that overlap break all four, which is
why the run `orchestration_sequential` checks the last three of them. Crashes are allowed, except where
the logs are compared: a request cut short between its save and its event leaves them
behind.

| Theorem | Argument |
|---|---|
| `CaseOrchestrationProofs!TypeCorrectness` | `TypeInv` adds to `TypeOK` what kind of status a worker holds at each step: a task status while it works on a task, a case status otherwise. |
| `DecisionComesFirst` | `DecisionBeforeFinality` is not inductive: a request saves a certificate for a task that has changed since it was loaded. `DecisionInv` adds that a decision the request relied on is still recorded, for decisions are replaced and never removed. |
| `OnlySubmissionLeavesDraft` | `SubmissionInv`: what a recalculation validated against `submittedAt` is still true when it saves, for `submittedAt` is never unset. |
| `CertificatesAreApproved` | `SequentialInv`: one request at a time is at work, what it loaded is still there, and what it is about to save is an edge of the task table from there, or the status derived from the tasks as they are. The property is not inductive without it, since a save looks at what was loaded. |
| `RejectionStandsAlone` | by `SequentialInv` a recalculation saves what it derives from the tasks as they are, and a rejected mandatory task decides that derivation. |
| `MissingDataBarsTheTask` | `BarredInv`: a task whose documents or data are missing, and what a request has loaded or decided for one, is in no status that the dependency guards refuse. It needs no order of the requests, because which departments miss documents or data (`LayoutMissing`, `DetailsMissing`) does not change after the submission. |
| `MissingDataHoldsUpApproval` | a recalculation approves only past approved mandatory tasks; by `SequentialInv` it saw the tasks as they are, by `BarredInv` a barred one is not among the approved. |
| `LogsTellTheStatus` | `LogsInv`: an outbox or an audit trail differs from the status of its task only while the request that saved the status is about to write there. |
| `DerivationSettles` | Two applications of `deriveAggregateCaseStatus` reach a fixed point: only `inspection_completed` can be derived and then changed by a later rule. By cases over the rules, for any set of departments. |
| `ReplayStaysOnDerivationPath` | `PathInv`: the case, and what each replay loaded, lie on the path; by `DerivationSettles` the path is closed under the derivation. |
| `UndisturbedReplaySettles` | `AloneInv`: a replay that runs alone saves what it derived from the case as it still is, so after one event the case is a derived status and after two it is settled (`DerivationSettles`); nothing is recorded, so no event is skipped. |
| `ReplayTypeCorrectness` | a replay that works on an event has not passed the last one. |
| `OutboxPublisherProofs!TypeCorrectness` | a tick that works on a row has one. |
| `SettledRowsAreTrue` | `HandoverInv`: a tick about to mark a row settled has handed its event over before, and what was handed over stays so, whoever holds the row now. |
| `PublisherDelivers` | from `HandoverInv` and `LockInv`, every step is a step of `EventDelivery` or leaves its variables alone: sends are `Send`, dead letters `Report`, marks `Settle`, a recovery `Disturb`, and a `markFailed` after another's mark `Reopen`. A tick works on a settled row only if the row is disturbed: by `LockInv` whoever works on another holds its lock, and a settled row has none. |
| `DuplicatesAreAccountedFor` | `TokenInv`: the right to send an event once more is a token, held by a tick between its lock and its send or by the row when it may be locked or recovered; copies plus tokens never exceed one plus the causes. The compare-and-set passes the token, a send spends it, and each cause makes one. |
| `SettledRowsStaySettled` | `LockInv`: a row that is not disturbed has at most one tick working on it, is locked by that tick, and has the attempts the tick remembers. |
| `EventConsumerProofs!ConsumerTypeCorrect` | a consumer at work has a message. |
| `PassedOverIsTraced` | `TraceInv`: a consumer that is about to return has recorded or dead-lettered its message or seen somebody's record of it, records are never removed, and a commit passes one message at a time. `ClaimInv`: a record that says `processing` is that of a consumer past its claim, or the claim was abandoned. |
| `HandledOnce` | `OnceInv`: of an event that nothing disturbed one delivery at most is past its claim; while it is there the record says `processing` and the handler has not succeeded before it. Without that the bound on `handled` does not carry over to the next delivery. |
| `ProcessedStaysProcessed` | from `OnceInv`: who writes another status over a record is past its claim, where the record said `processing`. |
| `QueueWorkerProofs!QueueTypeCorrect` | what a worker holds at each step: a message while it serves one, a status while it writes one. |
| `RowsTellTheTruth` | `TruthInv`: a worker about to mark a row as succeeded has delivered its job, and a job once delivered stays so. |
| `JobsAreNotLost` | `SafeInv`: a job is delivered, dead-lettered, in a queue, or with a worker that has not begun to settle it. The property also lets a worker that is settling answer for the job, and is then not inductive: once the message is settled nobody would be left. |
| `DeliveredOnce` | `IdsInv`: a message names a request that has come, so the id of a requeued message is new. `OnceInv`: at most one worker holds an undisturbed job past its claim, nobody delivered it before, and a delivery is told in the row or about to be. |
| `SlaTimersProofs!SlaTypeCorrect` | by actors, timers and the rest; a request about to write a history entry holds the status for it. |
| `NoLevelIsPassedOver` | `LevelInv`: every level of the policy's rising chain (`Milestones`) up to the one that a timer has, or that an actor read and will count from, was carried out or lies below what a breach mark gave; both stay so. `NextMilestone`: the level that follows in the policy is the next of that chain. |
| `HistoriesTell` | `HistoryInv`: of a grievance on which requests have not crossed at most one request is about to write the history, and the status it read still holds. |
| `WarnedOnce` | `WarnInv`: at most one tick waits to warn of a timer that ticks did not find at once, nothing was scheduled for it yet, and whoever schedules has set `warningSentAt`, which is never unset. |
| `EndedTimersStayEnded` | `EndInv`: who is about to write the status of a timer that has ended had it in hand when it ended, but for the pauses and resumptions on request; a grievance that was not created has no timer. |
| `ReminderDispatchProofs!ReminderTypeCorrect` | by rows and actors; a reminder that a tick found had attempts left, so the take keeps within `maxAttempts`. |
| `ReminderTriesAreBounded` | `AloneInv`: what no two ticks found at once, one tick at a time has. `TriesInv`: the tries of such a reminder are covered by `attemptCount` in its row, and by the count its tick found with one more once it was taken; a later write of the tick's copy therefore loses none. |
| `NobodyHearsTwice` | `NotedInv`: an undisturbed reminder that is scheduled, or that a tick has in hand, has no notification until that tick is past queueing one. `UsersInv`: what a request sends is disturbed. `HeardInv`: a notification that is queued or found was not handed over, unless the tick that has it is about to record it. |
| `DocumentsProofs!DocumentsTypeCorrect` | a request past the record of its document has one, with the base it was begun with. |
| `FinishedVersionRetires` | `VersionInv`: an identifier's base and parent never change; a document that only uploads touched is in force or retired in favour of a version based on it; the base of a version that has gone through has such a successor. |
| `FamilyInForce` | from `VersionInv`: of the members of a family the one with the greatest identifier is in force, for what retires a member is a later member. The greatest exists by the well-foundedness of `Nat`. |

TLC checks each of these properties first (`RejectionStands` with `MaxOverlaps = 0`), and `TokenInv` was checked with the bounds
of `outbox_overlapping` before it was proved.

Every safety invariant and every action property of the passing runs is so stated by a
theorem. Only model-checked are the liveness properties (`RejectionReachesCase`,
`EveryEventSettles`, `PartitionAdvances`, `QueuesDrain`, `OverdueIsBreached`,
`WorkSettles`), since liveness under fairness and `ENABLED` are out of this prover's
reach, as is induction over data. `RejectionStands` is the property that the code
violates when requests overlap.

## Not modelled

- The replica-set mode of `withSession` (transactions): it cannot occur on the deployed
  standalone `mongod`.
- Edits of drafts; queries beyond their effect on version checks.
- `OUTBOX_PUBLISH_BATCH_SIZE` and the order within a batch; Kafka disabled.
- Department portal: forms and lists around the transitions of `CaseOrchestration`. By
  default (`USE_MOCK_DEPARTMENT_DATA`, `.env.example:160`) it works on mock data and
  writes nothing the models keep; that is the deployment described. With mock data
  off it stores decisions, queries, fees and certificates before it asks for a
  transition, and `returnTask` writes the status `returned` past the transition table.
- Adapter callbacks: a table that maps callbacks to task actions in front of the same
  transitions. Department adapters: input and output; what they throw is chosen freely
  in `QueueWorker`.
- Audit chain, replay control, gateway idempotency: one document each, whose hazard is one
  find-then-save; described above.
- Scans, downloads, access logs, tags and metadata of documents; messages and feedback of
  grievances; bulk notifications, which repeat the single ones.
- Analytics, AI services, investor and public portals, DigiLocker: queries, views and
  calls of services outside, without state the workflow depends on.
- The legacy `web/` portal. `caseService.createCase` writes the status `SUBMITTED`, which
  the portal's own schema (`web/src/models/Case.js`, lower case) refuses. A CAF is created as
  a draft under an identifier such as `US360-20250101-12345`, and its submission looks
  attachments up by it (`attachment.service.js:94`) in the case service's `Document`, whose
  `caseId` is an object identifier: the query fails with a cast error, whatever is attached.
  So the workflow of `caf.service.js` never gets past a submission, and a faithful model
  would have only drafts.
- Infrastructure, automation and seed data.
- Most of the repository by lines is of the last three kinds; the modules cover the
  services that change the state of a case and what carries its events, jobs, timers
  and documents.
