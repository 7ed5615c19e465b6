-------------------------- MODULE OutboxPublisher --------------------------
(***************************************************************************)
(* The outbox publisher of the case service:                               *)
(*   services/case-service/src/outbox/outbox-publisher.service.js          *)
(*   services/case-service/src/outbox/outbox.repository.js                 *)
(* against MongoDB, where the outbox rows are, and Kafka, which is         *)
(* modelled from how event-producer.js uses it.                            *)
(*                                                                         *)
(* setInterval starts a tick every five seconds whether or not the last    *)
(* one has ended, in every replica: `Ticks` are the ticks that may run     *)
(* together.  Each step of a tick is one await.  Time is not counted: a    *)
(* row becomes due at some moment after its retry was scheduled, and any   *)
(* lock may be found older than thirty seconds, for nothing bounds the     *)
(* time a tick takes for the events before, or for one send.               *)
(* Kafka is enabled, and every row has a topic, as appendDomainEvent saves *)
(* it; then publishEvent throws no NonRetryableEventError: an event that   *)
(* fails its schema throws the ZodError of schema.parse.                   *)
(***************************************************************************)
EXTENDS Naturals, FiniteSets

CONSTANTS
  Events,      \* rows of the outbox
  Invalid,     \* those whose envelope fails its schema (in strict mode all)
  Ticks,       \* ticks that may run together
  None,        \* no tick, no event
  MaxAttempts, \* OUTBOX_MAX_ATTEMPTS
  MaxFaults    \* bound: failures of Kafka, of MongoDB and of processes

ASSUME OutboxAssumption ==
  /\ Invalid \subseteq Events
  /\ None \notin Events \cup Ticks
  /\ IsFiniteSet(Ticks)
  /\ MaxAttempts \in Nat \ {0}
  /\ MaxFaults \in Nat

VARIABLES
  publishStatus,   \* of each row
  publishAttempts,
  due,             \* whether nextPublishAt has passed
  lockedBy,        \* the tick that holds the row (lockedAt is set with it)
  topic,           \* how often each event is in its Kafka topic
  deadLetters,     \* events in the dead-letter topic
  pc,              \* the await each tick is at
  batch,           \* the rows it found and has not come to
  event,           \* the row it works on
  attempts,        \* publishAttempts of that row when the tick locked it
  causes,          \* history: what can make Kafka hold an event once more
  disturbed,       \* history: events whose lock was taken from a living tick,
                   \* or whose markPublished was applied though it failed
  faults

row == <<publishStatus, publishAttempts, due, lockedBy>>
kafka == <<topic, deadLetters>>
tick == <<pc, batch, event, attempts>>
vars == <<row, kafka, tick, causes, disturbed, faults>>

PublishStatuses == {"pending", "publishing", "published", "failed", "dead_lettered"}

\* The steps of a tick that works on a row.
RowSteps == {"publish", "markPublished", "error", "deadLetter", "markDeadLettered"}

TypeOK ==
  /\ publishStatus \in [Events -> PublishStatuses]
  /\ publishAttempts \in [Events -> Nat]
  /\ due \in [Events -> BOOLEAN]
  /\ lockedBy \in [Events -> Ticks \cup {None}]
  /\ topic \in [Events -> Nat]
  /\ deadLetters \subseteq Events
  /\ pc \in [Ticks -> {"idle", "find", "lock"} \cup RowSteps]
  /\ batch \in [Ticks -> SUBSET Events]
  /\ event \in [Ticks -> Events \cup {None}]
  /\ attempts \in [Ticks -> Nat]
  /\ causes \in [Events -> Nat]
  /\ disturbed \subseteq Events
  /\ faults \in 0..MaxFaults

\* appendDomainEvent
Init ==
  /\ publishStatus = [e \in Events |-> "pending"]
  /\ publishAttempts = [e \in Events |-> 0]
  /\ due = [e \in Events |-> TRUE]
  /\ lockedBy = [e \in Events |-> None]
  /\ topic = [e \in Events |-> 0]
  /\ deadLetters = {}
  /\ pc = [t \in Ticks |-> "idle"]
  /\ batch = [t \in Ticks |-> {}]
  /\ event = [t \in Ticks |-> None]
  /\ attempts = [t \in Ticks |-> 0]
  /\ causes = [e \in Events |-> 0]
  /\ disturbed = {}
  /\ faults = 0

-----------------------------------------------------------------------------

Goto(t, from, to) ==
  /\ pc[t] = from
  /\ pc' = [pc EXCEPT ![t] = to]

\* On to the next row of the batch.
NextRow(t) ==
  /\ pc' = [pc EXCEPT ![t] = "lock"]
  /\ event' = [event EXCEPT ![t] = None]
  /\ attempts' = [attempts EXCEPT ![t] = 0]
  /\ UNCHANGED batch

\* The tick is over; what it had not come to is left for the next one.
EndTick(t) ==
  /\ pc' = [pc EXCEPT ![t] = "idle"]
  /\ batch' = [batch EXCEPT ![t] = {}]
  /\ event' = [event EXCEPT ![t] = None]
  /\ attempts' = [attempts EXCEPT ![t] = 0]

Fault == faults < MaxFaults /\ faults' = faults + 1

OwnerAlive(e) ==
  \E t \in Ticks : lockedBy[e] = t /\ event[t] = e /\ pc[t] \in RowSteps

\* Mutant: an unlocked row goes back to a status that the schema does not have.
QueuedAgain == "queued"

\* What unlockStalePublishingLocks sets the status to.
RecoveredStatus == "failed"

\* recoverStaleLocks, the first act of a tick: one updateMany over the rows
\* whose lock has grown old.
RecoverStaleLocks(t) ==
  /\ Goto(t, "idle", "find")
  /\ \E stale \in SUBSET {e \in Events : publishStatus[e] = "publishing"
                                          /\ lockedBy[e] # None} :
       /\ publishStatus' =
            [e \in Events |-> IF e \in stale THEN RecoveredStatus ELSE publishStatus[e]]
       /\ lockedBy' = [e \in Events |-> IF e \in stale THEN None ELSE lockedBy[e]]
       /\ due' = [e \in Events |-> e \in stale \/ due[e]]
       /\ disturbed' = disturbed \cup {e \in stale : OwnerAlive(e)}
       /\ causes' = [e \in Events |->
                       IF e \in stale /\ OwnerAlive(e) THEN causes[e] + 1 ELSE causes[e]]
  /\ UNCHANGED <<publishAttempts, kafka, batch, event, attempts, faults>>

\* Mutant: a row that another tick holds is taken as well.
PublishableOrHeld(e) == publishStatus[e] \in {"pending", "failed", "publishing"}

Publishable(e) == publishStatus[e] \in {"pending", "failed"}

\* findPendingForPublish.  Fewer rows than the batch size are assumed, and
\* their order does not matter to what is checked.
FindPendingForPublish(t) ==
  /\ Goto(t, "find", "lock")
  /\ batch' = [batch EXCEPT ![t] =
                 {e \in Events : Publishable(e) /\ due[e] /\ lockedBy[e] = None}]
  /\ UNCHANGED <<row, kafka, event, attempts, causes, disturbed, faults>>

\* Mutant: the row is locked whatever has become of it.
MarkPublishingBlindly(t, e) ==
  /\ pc[t] = "lock"
  /\ e \in batch[t]
  /\ batch' = [batch EXCEPT ![t] = @ \ {e}]
  /\ publishStatus' = [publishStatus EXCEPT ![e] = "publishing"]
  /\ lockedBy' = [lockedBy EXCEPT ![e] = t]
  /\ pc' = [pc EXCEPT ![t] = "publish"]
  /\ event' = [event EXCEPT ![t] = e]
  /\ attempts' = [attempts EXCEPT ![t] = publishAttempts[e]]
  /\ UNCHANGED <<publishAttempts, due, kafka, causes, disturbed, faults>>

\* markPublishing, a compare-and-set; a row it does not get is skipped.
MarkPublishing(t, e) ==
  /\ pc[t] = "lock"
  /\ e \in batch[t]
  /\ batch' = [batch EXCEPT ![t] = @ \ {e}]
  /\ IF Publishable(e)
     THEN /\ publishStatus' = [publishStatus EXCEPT ![e] = "publishing"]
          /\ lockedBy' = [lockedBy EXCEPT ![e] = t]
          /\ pc' = [pc EXCEPT ![t] = "publish"]
          /\ event' = [event EXCEPT ![t] = e]
          /\ attempts' = [attempts EXCEPT ![t] = publishAttempts[e]]
     ELSE UNCHANGED <<publishStatus, lockedBy, pc, event, attempts>>
  /\ UNCHANGED <<publishAttempts, due, kafka, causes, disturbed, faults>>

BatchDone(t) ==
  /\ pc[t] = "lock"
  /\ batch[t] = {}
  /\ EndTick(t)
  /\ UNCHANGED <<row, kafka, causes, disturbed, faults>>

-----------------------------------------------------------------------------
(* publishOne                                                              *)

\* Mutant: the send is not awaited.
PublishUnawaited(t) ==
  /\ Goto(t, "publish", "markPublished")
  /\ UNCHANGED <<row, kafka, batch, event, attempts, causes, disturbed, faults>>

\* publishEvent returns.
Publish(t) ==
  /\ event[t] \notin Invalid
  /\ Goto(t, "publish", "markPublished")
  /\ topic' = [topic EXCEPT ![event[t]] = @ + 1]
  /\ UNCHANGED <<row, deadLetters, batch, event, attempts, causes, disturbed, faults>>

\* publishEvent throws before it sends: the event fails its schema.
PublishInvalid(t) ==
  /\ event[t] \in Invalid
  /\ Goto(t, "publish", "error")
  /\ UNCHANGED <<row, kafka, batch, event, attempts, causes, disturbed, faults>>

\* The send fails, and the broker has not, or has, stored the message.
PublishFails(t) ==
  /\ event[t] \notin Invalid
  /\ Goto(t, "publish", "error")
  /\ Fault
  /\ \/ UNCHANGED <<topic, causes>>
     \/ /\ topic' = [topic EXCEPT ![event[t]] = @ + 1]
        /\ causes' = [causes EXCEPT ![event[t]] = @ + 1]
  /\ UNCHANGED <<row, deadLetters, batch, event, attempts, disturbed>>

\* markPublished finds the row by its eventId alone.
MarkPublished(t) ==
  /\ pc[t] = "markPublished"
  /\ publishStatus' = [publishStatus EXCEPT ![event[t]] = "published"]
  /\ publishAttempts' = [publishAttempts EXCEPT ![event[t]] = @ + 1]
  /\ lockedBy' = [lockedBy EXCEPT ![event[t]] = None]
  /\ NextRow(t)
  /\ UNCHANGED <<due, kafka, causes, disturbed, faults>>

\* It throws inside the try block, and the sent event is taken for a failure.
\* The other writes of a tick are awaited where a failure ends the tick, so
\* that one applied without an answer is the write and then Fail.
MarkPublishedFails(t) ==
  /\ Goto(t, "markPublished", "error")
  /\ Fault
  /\ causes' = [causes EXCEPT ![event[t]] = @ + 1]
  /\ UNCHANGED <<row, kafka, batch, event, attempts, disturbed>>

\* It throws after MongoDB applied the write: what the tick then writes of the
\* failure, it writes over a row that is published.
MarkPublishedUnanswered(t) ==
  /\ Goto(t, "markPublished", "error")
  /\ Fault
  /\ publishStatus' = [publishStatus EXCEPT ![event[t]] = "published"]
  /\ publishAttempts' = [publishAttempts EXCEPT ![event[t]] = @ + 1]
  /\ lockedBy' = [lockedBy EXCEPT ![event[t]] = None]
  /\ causes' = [causes EXCEPT ![event[t]] = @ + 1]
  /\ disturbed' = disturbed \cup {event[t]}
  /\ UNCHANGED <<due, kafka, batch, event, attempts>>

\* Mutant: one attempt too many.
AttemptsExceeded(t) == attempts[t] >= MaxAttempts

\* The attempt that failed was the last.
AttemptsExhausted(t) == attempts[t] + 1 >= MaxAttempts

\* Mutant: the lock is not cleared.
MarkFailedAndLocked(t) ==
  /\ pc[t] = "error"
  /\ ~AttemptsExhausted(t)
  /\ publishStatus' = [publishStatus EXCEPT ![event[t]] = "failed"]
  /\ publishAttempts' = [publishAttempts EXCEPT ![event[t]] = @ + 1]
  /\ due' = [due EXCEPT ![event[t]] = FALSE]
  /\ NextRow(t)
  /\ UNCHANGED <<lockedBy, kafka, causes, disturbed, faults>>

\* markFailed, with the time of the next attempt.
MarkFailed(t) ==
  /\ pc[t] = "error"
  /\ ~AttemptsExhausted(t)
  /\ publishStatus' = [publishStatus EXCEPT ![event[t]] = "failed"]
  /\ publishAttempts' = [publishAttempts EXCEPT ![event[t]] = @ + 1]
  /\ due' = [due EXCEPT ![event[t]] = FALSE]
  /\ lockedBy' = [lockedBy EXCEPT ![event[t]] = None]
  /\ NextRow(t)
  /\ UNCHANGED <<kafka, causes, disturbed, faults>>

GiveUp(t) ==
  /\ AttemptsExhausted(t)
  /\ Goto(t, "error", "deadLetter")
  /\ UNCHANGED <<row, kafka, batch, event, attempts, causes, disturbed, faults>>

\* publishDeadLetter.  If it fails the tick fails (Fail): the row stays locked.
PublishDeadLetter(t) ==
  /\ Goto(t, "deadLetter", "markDeadLettered")
  /\ deadLetters' = deadLetters \cup {event[t]}
  /\ UNCHANGED <<row, topic, batch, event, attempts, causes, disturbed, faults>>

MarkDeadLettered(t) ==
  /\ pc[t] = "markDeadLettered"
  /\ publishStatus' = [publishStatus EXCEPT ![event[t]] = "dead_lettered"]
  /\ lockedBy' = [lockedBy EXCEPT ![event[t]] = None]
  /\ NextRow(t)
  /\ UNCHANGED <<publishAttempts, due, kafka, causes, disturbed, faults>>

\* The process dies, or an await outside the try block of publishOne throws:
\* the tick ends where it is.
Fail(t) ==
  /\ pc[t] # "idle"
  /\ Fault
  /\ causes' = IF pc[t] = "markPublished"
               THEN [causes EXCEPT ![event[t]] = @ + 1] ELSE causes
  /\ EndTick(t)
  /\ UNCHANGED <<row, kafka, disturbed>>

\* Time passes: the next attempt of a row is due.
BecomeDue(e) ==
  /\ ~due[e]
  /\ due' = [due EXCEPT ![e] = TRUE]
  /\ UNCHANGED <<publishStatus, publishAttempts, lockedBy, kafka, tick, causes, disturbed, faults>>

-----------------------------------------------------------------------------

\* What a tick does when nothing fails.
TickStep(t) ==
  \/ RecoverStaleLocks(t)
  \/ FindPendingForPublish(t)
  \/ \E e \in Events : MarkPublishing(t, e)
  \/ BatchDone(t)
  \/ Publish(t)
  \/ PublishInvalid(t)
  \/ MarkPublished(t)
  \/ MarkFailed(t)
  \/ GiveUp(t)
  \/ PublishDeadLetter(t)
  \/ MarkDeadLettered(t)

FailureStep(t) ==
  \/ PublishFails(t)
  \/ MarkPublishedFails(t)
  \/ MarkPublishedUnanswered(t)
  \/ Fail(t)

Next ==
  \/ \E t \in Ticks : TickStep(t) \/ FailureStep(t)
  \/ \E e \in Events : BecomeDue(e)

Spec == Init /\ [][Next]_vars

\* A tick finds every lock old that is older than the timeout, so a lock that
\* no living tick holds is recovered sooner or later.
RecoverAbandonedLock(t, e) ==
  /\ RecoverStaleLocks(t)
  /\ publishStatus[e] = "publishing" /\ ~OwnerAlive(e)
  /\ publishStatus'[e] = RecoveredStatus

\* The interval keeps starting ticks, awaits are answered and time passes.
FairSpec ==
  /\ Spec
  /\ \A t \in Ticks : WF_vars(TickStep(t))
  /\ \A t \in Ticks : \A e \in Events : SF_vars(RecoverAbandonedLock(t, e))
  /\ \A e \in Events : WF_vars(BecomeDue(e))

-----------------------------------------------------------------------------
(* Properties.                                                             *)

\* No row says published of an event that Kafka never got, nor dead-lettered
\* of one that nobody will find in the dead-letter topic, whichever ticks
\* took turns on the row and wherever they died.
SettledRowsWereHandedOver ==
  \A e \in Events :
    /\ publishStatus[e] = "published" => topic[e] > 0
    /\ publishStatus[e] = "dead_lettered" => e \in deadLetters

\* Kafka holds an event more than once only for a cause, each of which adds
\* one copy at most: a send that failed after the broker stored the message,
\* a crash or a failed write between the send and markPublished, or the lock
\* of a tick that was alive taken for stale.  The compare-and-set of
\* markPublishing keeps two ticks that found the same row from adding one.
DuplicatesHaveCauses ==
  \A e \in Events : topic[e] <= 1 + causes[e]

Settled(e) == publishStatus[e] \in {"published", "dead_lettered"}

\* Once failures cease, every event is published or dead-lettered for good,
\* although locks are left behind by dead ticks and recovered from living ones.
EveryEventSettles == \A e \in Events : <>[]Settled(e)

\* However ticks overlap, crash and fail to record what they did, a row that
\* was settled is never taken up again, and the attempts of a row stay within
\* the maximum.  There are two exceptions, both because markFailed finds the
\* row by its eventId alone: it comes after the markPublished of another tick,
\* when the lock was taken from a tick that was alive, or of the same tick,
\* when that was applied and its answer lost.
SettledIsFinal ==
  [][\A e \in Events \ disturbed' :
       /\ Settled(e) => publishStatus'[e] = publishStatus[e]
       /\ publishStatus'[e] = "failed" => publishAttempts'[e] < MaxAttempts]_vars

\* The promise of EventDelivery: at-least-once delivery of every event, and an
\* end to the delivery of an undisturbed one, of which neither a copy nor a
\* report follows its settlement, whatever ticks still have its row in their
\* batch.
Delivery == INSTANCE EventDelivery WITH
  copies <- topic,
  reported <- deadLetters,
  outcome <- [e \in Events |-> IF Settled(e) THEN publishStatus[e] ELSE "open"]

DeliverySpec == Delivery!Spec

=============================================================================
