---------------------------- MODULE QueueWorker ----------------------------
(***************************************************************************)
(* The RabbitMQ delivery subsystem of the adapter runtime:                 *)
(*   adapter-runtime/src/workers/worker-runner.js                          *)
(*   adapter-runtime/src/services/queue-{idempotency,retry,recovery}       *)
(*   adapter-runtime/src/repositories/queue-job.repository.js              *)
(* A job waits in a delivery queue.  A worker takes it, keeps its QueueJob *)
(* row, calls the handler and settles the delivery: it acknowledges it, or *)
(* publishes a copy to a retry queue (whose TTL brings it back) or to the  *)
(* dead-letter queue and acknowledges it, or gives it back.  RabbitMQ is   *)
(* modelled from how the code uses it: a delivery that was not settled     *)
(* returns to its queue when its channel closes, and a second settlement   *)
(* closes the channel.  Each step is one await, or writes that nothing     *)
(* can tell apart; a worker with a prefetch of n is n of these workers.    *)
(* Time is not counted: a lock is older than its timeout from some moment  *)
(* on, and a retry queue gives a copy back at any moment.                  *)
(***************************************************************************)
EXTENDS Naturals

CONSTANTS
  Jobs,          \* an idempotencyKey each
  Workers,
  None,          \* no message, no error
  MaxAttempts,   \* maxAttempts of every message
  PoisonAttempts,\* RABBITMQ_POISON_MAX_ATTEMPTS
  MaxRequests,   \* bound: requests of an operator
  MaxFaults      \* bound: failures

ASSUME QueueAssumption ==
  /\ MaxAttempts \in Nat /\ PoisonAttempts \in Nat
  /\ MaxRequests \in Nat /\ MaxFaults \in Nat

\* A message id: the job and how many requests came before it.
Ids == Jobs \X (0..MaxRequests)

\* RABBITMQ_ROUTING_KEYS, as far as bindings tell them apart.
Routes == {"delivery", "retry"}

Messages == [id : Ids, attempt : 0..MaxAttempts, routingKey : Routes]

JobOf(m) == m.id[1]

VARIABLES
  malformed,   \* jobs whose message does not parse or validate
  ready,       \* how many copies of a message the delivery queue holds
  waiting,     \* ... and the retry queue
  deadLetters, \* jobs with a message in a dead-letter queue
  row,         \* the QueueJob of each message id
  stale,       \* ids whose lock is older than lockTimeoutMs
  channel,     \* workers whose channel is open
  pc,          \* the await each worker is at
  msg,         \* the message it has in hand
  unsettled,   \* workers whose delivery the broker still counts as theirs
  error,       \* what the handler or a failing call threw
  delivered,   \* history: how often the handler of a job succeeded
  skipped,     \* history: jobs a delivery of which was skipped for its lock
  disturbed,   \* history: jobs that two workers had at once, or whose rows
               \*   do not say that the handler succeeded
  requests, faults

queues == <<ready, waiting, deadLetters>>
rows == <<row, stale>>
worker == <<channel, pc, msg, unsettled, error>>
history == <<delivered, skipped, disturbed>>
vars == <<malformed, queues, rows, worker, history, requests, faults>>

Statuses == {"none", "queued", "processing", "succeeded", "failed",
             "retry_scheduled", "dead_lettered", "cancelled"}

\* transient: retryable is not false.  permanent: an AdapterError whose
\* retryable is false.  invalid: one of the queue's own errors that end a job.
Errors == {"transient", "permanent", "invalid"}

\* The steps between the lock of a job and the record of its outcome.
Holding == {"handle", "markSucceeded", "markFailed"}

Steps == {"idle", "record", "find", "completed", "lock", "ack", "report",
          "publishRetry", "markRetry", "publishDead", "markDead",
          "ackRecovered", "nack", "stuck"} \cup Holding

TypeOK ==
  /\ malformed \subseteq Jobs
  /\ ready \in [Messages -> Nat]
  /\ waiting \in [Messages -> Nat]
  /\ deadLetters \subseteq Jobs
  /\ row \in [Ids -> [status : Statuses, attempt : 0..MaxAttempts, route : Routes]]
  /\ stale \subseteq Ids
  /\ channel \subseteq Workers
  /\ pc \in [Workers -> Steps]
  /\ msg \in [Workers -> Messages \cup {None}]
  /\ \A w \in Workers : pc[w] # "idle" => msg[w] \in Messages
  /\ unsettled \subseteq channel
  /\ error \in [Workers -> Errors \cup {None}]
  /\ delivered \in [Jobs -> Nat]
  /\ skipped \subseteq Jobs
  /\ disturbed \subseteq Jobs
  /\ requests \in 0..MaxRequests
  /\ faults \in 0..MaxFaults

NoRow == [status |-> "none", attempt |-> 0, route |-> "delivery"]

\* publishDepartmentDeliveryJob, publishCallbackReconciliationJob: one message
\* of each job is in its queue.
Init ==
  /\ malformed \in SUBSET Jobs
  /\ ready = [m \in Messages |->
                IF m.id[2] = 0 /\ m.attempt = 0 /\ m.routingKey = "delivery"
                THEN 1 ELSE 0]
  /\ waiting = [m \in Messages |-> 0]
  /\ deadLetters = {}
  /\ row = [i \in Ids |-> NoRow]
  /\ stale = {}
  /\ channel = Workers
  /\ pc = [w \in Workers |-> "idle"]
  /\ msg = [w \in Workers |-> None]
  /\ unsettled = {}
  /\ error = [w \in Workers |-> None]
  /\ delivered = [j \in Jobs |-> 0]
  /\ skipped = {}
  /\ disturbed = {}
  /\ requests = 0
  /\ faults = 0

-----------------------------------------------------------------------------

Fault == faults < MaxFaults /\ faults' = faults + 1

Goto(w, step) ==
  /\ pc' = [pc EXCEPT ![w] = step]
  /\ UNCHANGED <<channel, msg, unsettled, error>>

\* The catch block of handleMessage decides what becomes of the message.
RecoveryStep(e, m) ==
  IF e = "invalid" \/ (e = "permanent" /\ m.attempt >= PoisonAttempts)
  THEN "publishDead"
  ELSE IF e = "transient" /\ m.attempt < MaxAttempts THEN "publishRetry"
  ELSE "nack"

Recover(w, e) ==
  /\ pc' = [pc EXCEPT ![w] = RecoveryStep(e, msg[w])]
  /\ error' = [error EXCEPT ![w] = None]
  /\ UNCHANGED <<channel, msg, unsettled>>

\* handleMessage is over; what it threw is ignored.
Done(w) ==
  /\ pc' = [pc EXCEPT ![w] = "idle"]
  /\ msg' = [msg EXCEPT ![w] = None]
  /\ error' = [error EXCEPT ![w] = None]

\* It is over and the delivery was not settled: the broker gives the worker
\* no other in its place while the channel is open.
Abandon(w) ==
  IF w \in unsettled THEN Goto(w, "stuck")
  ELSE Done(w) /\ UNCHANGED <<channel, unsettled>>

Exists(id) == row[id].status # "none"

\* A row said that the job succeeded, and no longer does.
Forgotten(m, status) ==
  IF row[m.id].status = "succeeded" /\ status # "succeeded" THEN {JobOf(m)} ELSE {}

\* findOneAndUpdate without upsert; every status but "processing" drops the lock.
Mark(m, status) ==
  /\ row' = IF Exists(m.id) THEN [row EXCEPT ![m.id].status = status] ELSE row
  /\ stale' = stale \ {m.id}
  /\ disturbed' = disturbed \cup Forgotten(m, status)

\* createOrUpdateFromMessage: an existing status is kept.
Upserted(m, status) ==
  [status |-> status, attempt |-> m.attempt, route |-> m.routingKey]

-----------------------------------------------------------------------------
(* RabbitMQ                                                                *)

\* A delivery: parse and validate, or go to the catch block.
Take(w, m) ==
  /\ w \in channel /\ pc[w] = "idle"
  /\ ready[m] > 0
  /\ ready' = [ready EXCEPT ![m] = @ - 1]
  /\ msg' = [msg EXCEPT ![w] = m]
  /\ unsettled' = unsettled \cup {w}
  /\ pc' = [pc EXCEPT ![w] = IF JobOf(m) \in malformed THEN "publishDead" ELSE "record"]
  /\ UNCHANGED <<waiting, deadLetters, rows, channel, error, history, requests, faults>>

\* The TTL of the retry queue ends.
Expire(m) ==
  /\ waiting[m] > 0
  /\ waiting' = [waiting EXCEPT ![m] = @ - 1]
  /\ ready' = [ready EXCEPT ![m] = @ + 1]
  /\ UNCHANGED <<deadLetters, rows, worker, history, requests, faults>>

\* What the broker does with an unsettled delivery when the channel closes.
GiveBack(w) ==
  /\ ready' = IF w \in unsettled THEN [ready EXCEPT ![msg[w]] = @ + 1] ELSE ready
  /\ unsettled' = unsettled \ {w}
  /\ channel' = channel \ {w}

\* The connection is lost.  handleMessage goes on with what it has in hand;
\* nothing opens the worker's channel again.
Disconnect(w) ==
  /\ w \in channel
  /\ Fault
  /\ GiveBack(w)
  /\ IF pc[w] = "stuck" THEN Done(w) ELSE UNCHANGED <<pc, msg, error>>
  /\ UNCHANGED <<waiting, deadLetters, rows, history, requests>>

\* The worker process dies.
Crash(w) ==
  /\ w \in channel \/ pc[w] # "idle"
  /\ Fault
  /\ GiveBack(w)
  /\ Done(w)
  /\ disturbed' = IF pc[w] = "markSucceeded" THEN disturbed \cup {JobOf(msg[w])} ELSE disturbed
  /\ UNCHANGED <<waiting, deadLetters, rows, delivered, skipped, requests>>

\* startWorker, in a new process.
StartWorker(w) ==
  /\ w \notin channel /\ pc[w] = "idle"
  /\ channel' = channel \cup {w}
  /\ UNCHANGED <<queues, rows, pc, msg, unsettled, error, history, requests, faults>>

\* lockTimeoutMs pass.
GrowStale(id) ==
  /\ row[id].status = "processing" /\ id \notin stale
  /\ stale' = stale \cup {id}
  /\ UNCHANGED <<queues, row, worker, history, requests, faults>>

-----------------------------------------------------------------------------
(* handleMessage: the try block                                            *)

\* createOrUpdateFromMessage and the "received" event.
Record(w) ==
  LET m == msg[w]
      status == IF Exists(m.id) THEN row[m.id].status ELSE "queued"
  IN /\ pc[w] = "record"
     /\ row' = [row EXCEPT ![m.id] = Upserted(m, status)]
     /\ Goto(w, "find")
     /\ UNCHANGED <<queues, stale, history, requests, faults>>

\* Mutant: a message whose lock is held is given back to the queue.
FindRowGivesBack(w) ==
  LET id == msg[w].id
      locked == row[id].status = "processing" /\ id \notin stale
  IN /\ pc[w] = "find"
     /\ Goto(w, IF locked THEN "nack" ELSE "completed")
     /\ UNCHANGED <<queues, rows, history, requests, faults>>

\* beginMessage: findByMessageId.
FindRow(w) ==
  LET id == msg[w].id
      locked == row[id].status = "processing" /\ id \notin stale
  IN /\ pc[w] = "find"
     /\ Goto(w, IF locked THEN "ack" ELSE "completed")
     /\ skipped' = IF locked THEN skipped \cup {id[1]} ELSE skipped
     /\ UNCHANGED <<queues, rows, delivered, disturbed, requests, faults>>

\* Mutant: the row of the message is looked at, not the rows of its key.
CompletedHere(m) == row[m.id].status = "succeeded"

\* Mutant: a failed job counts as one that needs no more work.
CompletedOrFailed(m) ==
  \E n \in 0..MaxRequests : row[<<JobOf(m), n>>].status \in {"succeeded", "failed"}

\* hasCompleted: any row of the idempotencyKey.
HasCompleted(m) == \E n \in 0..MaxRequests : row[<<JobOf(m), n>>].status = "succeeded"

FindCompleted(w) ==
  /\ pc[w] = "completed"
  /\ Goto(w, IF HasCompleted(msg[w]) THEN "ack" ELSE "lock")
  /\ UNCHANGED <<queues, rows, history, requests, faults>>

\* createOrUpdateFromMessage and markProcessing, whatever the row says by now.
Lock(w) ==
  LET m == msg[w]
      overlap == \E v \in Workers \ {w} : pc[v] \in Holding /\ JobOf(msg[v]) = JobOf(m)
  IN /\ pc[w] = "lock"
     /\ row' = [row EXCEPT ![m.id] = Upserted(m, "processing")]
     /\ stale' = stale \ {m.id}
     /\ Goto(w, "handle")
     /\ disturbed' = IF overlap \/ HasCompleted(m)
                     THEN disturbed \cup {JobOf(m)} ELSE disturbed
     /\ UNCHANGED <<queues, delivered, skipped, requests, faults>>

\* A call before the handler fails, after or before it wrote the row.
BeginFails(w) ==
  LET m == msg[w]
      status == IF Exists(m.id) THEN row[m.id].status ELSE "queued"
      written == [row EXCEPT ![m.id] = Upserted(m, status)]
  IN /\ pc[w] \in {"record", "find", "completed", "lock"}
     /\ Fault
     /\ Recover(w, "transient")
     /\ row' \in {row} \cup IF pc[w] \in {"record", "lock"} THEN {written} ELSE {}
     /\ UNCHANGED <<queues, stale, history, requests>>

\* Mutant: the error is dropped.
HandlerErrorIsDropped(w, e) == Goto(w, "markSucceeded")

HandlerFailsWith(w, e) ==
  /\ pc' = [pc EXCEPT ![w] = "markFailed"]
  /\ error' = [error EXCEPT ![w] = e]
  /\ UNCHANGED <<channel, msg, unsettled>>

\* The handler answers: the department took the job.
HandlerEnds(w) ==
  /\ pc[w] = "handle"
  /\ Goto(w, "markSucceeded")
  /\ delivered' = [delivered EXCEPT ![JobOf(msg[w])] = @ + 1]
  /\ UNCHANGED <<queues, rows, skipped, disturbed, requests, faults>>

HandlerThrows(w) ==
  /\ pc[w] = "handle"
  /\ Fault
  /\ \E e \in Errors : HandlerFailsWith(w, e)
  /\ UNCHANGED <<queues, rows, history, requests>>

MarkSucceeded(w) ==
  /\ pc[w] = "markSucceeded"
  /\ Mark(msg[w], "succeeded")
  /\ Goto(w, "ack")
  /\ UNCHANGED <<queues, delivered, skipped, requests, faults>>

\* It throws in the same try block as the handler.
MarkSucceededFails(w) ==
  /\ pc[w] = "markSucceeded"
  /\ Fault
  /\ HandlerFailsWith(w, "transient")
  /\ disturbed' = disturbed \cup {JobOf(msg[w])}
  /\ UNCHANGED <<queues, rows, delivered, skipped, requests>>

MarkFailed(w) ==
  /\ pc[w] = "markFailed"
  /\ Mark(msg[w], "failed")
  /\ Recover(w, error[w])
  /\ UNCHANGED <<queues, delivered, skipped, requests, faults>>

\* Its own error takes the place of the handler's.
MarkFailedFails(w) ==
  /\ pc[w] = "markFailed"
  /\ Fault
  /\ Recover(w, "transient")
  /\ UNCHANGED <<queues, rows, history, requests>>

\* The message was processed or skipped.  On a closed channel ack throws, and
\* the catch block takes a finished message for a failed one.
Ack(w) ==
  /\ pc[w] = "ack"
  /\ IF w \in channel
     THEN /\ unsettled' = unsettled \ {w}
          /\ pc' = [pc EXCEPT ![w] = "report"]
          /\ UNCHANGED <<channel, msg, error>>
     ELSE Recover(w, "transient")
  /\ UNCHANGED <<queues, rows, history, requests, faults>>

\* The "processed" event.
Report(w) ==
  /\ pc[w] = "report"
  /\ Done(w)
  /\ UNCHANGED <<queues, rows, channel, unsettled, history, requests, faults>>

\* As above, with the delivery settled already.
ReportFails(w) ==
  /\ pc[w] = "report"
  /\ Fault
  /\ Recover(w, "transient")
  /\ UNCHANGED <<queues, rows, history, requests>>

-----------------------------------------------------------------------------
(* handleMessage: the catch block                                          *)

Retried(m) == [m EXCEPT !.attempt = @ + 1, !.routingKey = "retry"]

\* scheduleRetry: the copy carries the routing key of the retry exchange.
PublishRetry(w) ==
  /\ pc[w] = "publishRetry"
  /\ waiting' = [waiting EXCEPT ![Retried(msg[w])] = @ + 1]
  /\ Goto(w, "markRetry")
  /\ UNCHANGED <<ready, deadLetters, rows, history, requests, faults>>

MarkRetryScheduled(w) ==
  /\ pc[w] = "markRetry"
  /\ Mark(msg[w], "retry_scheduled")
  /\ Goto(w, "ackRecovered")
  /\ UNCHANGED <<queues, delivered, skipped, requests, faults>>

\* sendToDeadLetter
PublishDeadLetter(w) ==
  /\ pc[w] = "publishDead"
  /\ deadLetters' = deadLetters \cup {JobOf(msg[w])}
  /\ Goto(w, "markDead")
  /\ UNCHANGED <<ready, waiting, rows, history, requests, faults>>

\* Mutant: a status the schema does not know.
MarkAsDeadLetter(w) ==
  /\ pc[w] = "markDead"
  /\ Mark(msg[w], "deadlettered")
  /\ Goto(w, "ackRecovered")
  /\ UNCHANGED <<queues, delivered, skipped, requests, faults>>

MarkDeadLettered(w) ==
  /\ pc[w] = "markDead"
  /\ Mark(msg[w], "dead_lettered")
  /\ Goto(w, "ackRecovered")
  /\ UNCHANGED <<queues, delivered, skipped, requests, faults>>

\* The caller ignores what the catch block throws.
RecoveryFails(w) ==
  /\ pc[w] \in {"publishRetry", "markRetry", "publishDead", "markDead"}
  /\ Fault
  /\ Abandon(w)
  /\ UNCHANGED <<queues, rows, history, requests>>

\* ackMessage, and the event after it.  A second settlement of a delivery
\* makes the broker close the channel.
AckRecovered(w) ==
  /\ pc[w] = "ackRecovered"
  /\ Done(w)
  /\ channel' = IF w \in unsettled THEN channel ELSE channel \ {w}
  /\ unsettled' = unsettled \ {w}
  /\ UNCHANGED <<queues, rows, history, requests, faults>>

\* nackMessage with requeue: the same message, with the same attempt.
Nack(w) ==
  /\ pc[w] = "nack"
  /\ Done(w)
  /\ ready' = IF w \in unsettled THEN [ready EXCEPT ![msg[w]] = @ + 1] ELSE ready
  /\ channel' = IF w \in unsettled THEN channel ELSE channel \ {w}
  /\ unsettled' = unsettled \ {w}
  /\ UNCHANGED <<waiting, deadLetters, rows, history, requests, faults>>

-----------------------------------------------------------------------------
(* An operator                                                             *)

Request == requests < MaxRequests /\ requests' = requests + 1

\* requeueQueueJob: a new message id, the key and the routing key of the old.
\* The delivery and callback exchanges have no binding for a retry key, and
\* drop what they cannot route.  The rows of one key are several: QueueJob.js
\* declares a unique index on idempotencyKey that is both sparse and partial,
\* which MongoDB refuses to build.
Requeue(id, force) ==
  LET m == [id |-> <<id[1], requests + 1>>,
            attempt |-> IF force THEN 0 ELSE row[id].attempt,
            routingKey |-> row[id].route]
  IN /\ Exists(id)
     /\ Request
     /\ ready' = IF m.routingKey = "delivery" THEN [ready EXCEPT ![m] = @ + 1] ELSE ready
     /\ row' = [row EXCEPT ![m.id] = Upserted(m, "queued")]
     /\ UNCHANGED <<waiting, deadLetters, stale, worker, history, faults>>

\* cancelJob: the status of the row, and nothing of the message.
Cancel(id) ==
  /\ Exists(id)
  /\ Request
  /\ row' = [row EXCEPT ![id].status = "cancelled"]
  /\ stale' = stale \ {id}
  /\ disturbed' = IF row[id].status = "succeeded" THEN disturbed \cup {id[1]} ELSE disturbed
  /\ UNCHANGED <<queues, worker, delivered, skipped, faults>>

-----------------------------------------------------------------------------

WorkerStep(w) ==
  /\ UNCHANGED malformed
  /\ \/ \E m \in Messages : Take(w, m)
     \/ Record(w) \/ FindRow(w) \/ FindCompleted(w) \/ Lock(w)
     \/ HandlerEnds(w) \/ MarkSucceeded(w) \/ MarkFailed(w)
     \/ Ack(w) \/ Report(w)
     \/ PublishRetry(w) \/ MarkRetryScheduled(w)
     \/ PublishDeadLetter(w) \/ MarkDeadLettered(w)
     \/ AckRecovered(w) \/ Nack(w)

FailureStep(w) ==
  /\ UNCHANGED malformed
  /\ \/ BeginFails(w) \/ HandlerThrows(w) \/ MarkSucceededFails(w) \/ MarkFailedFails(w)
     \/ ReportFails(w) \/ RecoveryFails(w) \/ Disconnect(w) \/ Crash(w)
     \/ StartWorker(w)

QueueStep ==
  /\ UNCHANGED malformed
  /\ \E m \in Messages : Expire(m)

RowStep ==
  /\ UNCHANGED malformed
  /\ \E id \in Ids : GrowStale(id) \/ Cancel(id) \/ \E f \in BOOLEAN : Requeue(id, f)

Next ==
  \/ \E w \in Workers : WorkerStep(w) \/ FailureStep(w)
  \/ QueueStep
  \/ RowStep

Spec == Init /\ [][Next]_vars

\* Awaits are answered, an open channel is served, and TTLs end.
FairSpec ==
  /\ Spec
  /\ \A w \in Workers : WF_vars(WorkerStep(w))
  /\ WF_vars(QueueStep)

-----------------------------------------------------------------------------
(* Properties.                                                             *)

\* The message is in a queue, or the broker would bring it back to one.
InFlight(j) ==
  \/ \E m \in Messages : JobOf(m) = j /\ ready[m] + waiting[m] > 0
  \/ \E w \in unsettled : JobOf(msg[w]) = j

\* Whatever fails and in whatever order: a job that no lock made a worker
\* skip is in flight, delivered or in the dead-letter queue.  So every
\* settlement of a delivery comes after what makes it safe.
NotLostUnlessSkipped ==
  \A j \in Jobs \ skipped : InFlight(j) \/ delivered[j] > 0 \/ j \in deadLetters

\* Retries, redeliveries, requeues under new ids and stale locks do not make
\* the handler of a job succeed twice, unless two workers had the job at once
\* or its rows do not tell that it succeeded.
DeliveredOnceUnlessDisturbed ==
  \A j \in Jobs \ disturbed : delivered[j] <= 1

\* A row does not say that a job succeeded when no handler did.
SucceededMeansDelivered ==
  \A id \in Ids : row[id].status = "succeeded" => delivered[id[1]] > 0

\* Failures do not keep messages circling: once they cease and a worker
\* serves the queue, delivery and retry queues are emptied for good.
QueuesDrain ==
  (\E w \in Workers : <>[](w \in channel /\ pc[w] # "stuck"))
    => <>[](\A m \in Messages : ready[m] = 0 /\ waiting[m] = 0)

=============================================================================
