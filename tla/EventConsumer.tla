--------------------------- MODULE EventConsumer ---------------------------
(***************************************************************************)
(* The Kafka consumer of the shared package:                               *)
(*   packages/shared/src/kafka/event-consumer.js                           *)
(*   packages/shared/src/kafka/event-idempotency.service.js                *)
(* One consumer group reads one partition; a ProcessedEvent record per     *)
(* event, handler and group stands between a delivery and the handler.     *)
(* Kafka (assignment, offsets) and kafkajs (eachMessage, redelivery after  *)
(* a throw, autoCommit) are modelled from how runConsumer uses them: a     *)
(* partition belongs to one consumer, but a consumer that lost it goes on  *)
(* with the message it has.  Each step is one await.  Time is not counted: *)
(* a record that stays "processing" is stale from some moment on.          *)
(***************************************************************************)
EXTENDS Naturals

CONSTANTS
  Consumers,
  None,            \* no consumer, no error
  Length,          \* messages of the partition
  Malformed,       \* offsets whose message is no valid envelope
  Unhandled,       \* offsets whose event type has no handler
  IgnoreMissing,   \* options.ignoreMissingHandler
  MaxRebalances,   \* bound: assignments of the partition
  MaxFaults        \* bound: crashes, failed writes and failing handlers

Offsets == 1..Length
Sound == Offsets \ (Malformed \cup Unhandled)

ASSUME ConsumerAssumption ==
  /\ Length \in Nat
  /\ Malformed \subseteq Offsets /\ Unhandled \subseteq Offsets \ Malformed
  /\ IgnoreMissing \in BOOLEAN
  /\ None \notin Consumers \cup {"retryable", "final"}
  /\ MaxRebalances \in Nat /\ MaxFaults \in Nat

VARIABLES
  owner,       \* the consumer that is assigned the partition
  committed,   \* the committed offset
  position,    \* the last offset each consumer resolved
  record,      \* status of the ProcessedEvent of each event
  stale,       \* records older than staleMs
  deadLetters, \* offsets reported to the dead-letter topic
  pc,          \* the await each consumer is at
  offset,      \* the message it works on, 0 for none
  seen,        \* the status beginProcessing read
  error,       \* what the handler threw: a RetryableEventError or another
  handled,     \* history: how often the handler of an event succeeded
  disturbed,   \* history: events two deliveries worked on, or whose record
               \*   does not say what became of the handler
  abandoned,   \* history: events whose claim was left without an outcome
  rebalances, faults

partition == <<owner, committed, rebalances>>
records == <<record, stale>>
consumer == <<position, pc, offset, seen, error>>
history == <<handled, disturbed, abandoned>>
vars == <<partition, records, deadLetters, consumer, history, faults>>

Statuses == {"none", "processing", "processed", "failed"}

\* The steps of a consumer between its claim and the record of the outcome.
Holding == {"handle", "markProcessed", "markFailed"}

TypeOK ==
  /\ owner \in Consumers \cup {None}
  /\ committed \in 0..Length
  /\ position \in [Consumers -> 0..Length]
  /\ record \in [Offsets -> Statuses]
  /\ stale \subseteq Offsets
  /\ deadLetters \subseteq Offsets
  /\ pc \in [Consumers -> {"idle", "find", "claim", "deadLetter"} \cup Holding]
  /\ offset \in [Consumers -> 0..Length]
  /\ \A c \in Consumers : pc[c] # "idle" => offset[c] \in Offsets
  /\ seen \in [Consumers -> Statuses]
  /\ error \in [Consumers -> {"retryable", "final", None}]
  /\ handled \in [Offsets -> Nat]
  /\ disturbed \subseteq Offsets
  /\ abandoned \subseteq Offsets
  /\ rebalances \in 0..MaxRebalances
  /\ faults \in 0..MaxFaults

Init ==
  /\ owner = None
  /\ committed = 0
  /\ position = [c \in Consumers |-> 0]
  /\ record = [o \in Offsets |-> "none"]
  /\ stale = {}
  /\ deadLetters = {}
  /\ pc = [c \in Consumers |-> "idle"]
  /\ offset = [c \in Consumers |-> 0]
  /\ seen = [c \in Consumers |-> "none"]
  /\ error = [c \in Consumers |-> None]
  /\ handled = [o \in Offsets |-> 0]
  /\ disturbed = {}
  /\ abandoned = {}
  /\ rebalances = 0
  /\ faults = 0

-----------------------------------------------------------------------------

Fault == faults < MaxFaults /\ faults' = faults + 1

At(c, step) == pc[c] = step

Goto(c, step) ==
  /\ pc' = [pc EXCEPT ![c] = step]
  /\ UNCHANGED <<position, offset>>

\* eachMessage is over.  If it returned, the offset is resolved.
EndMessage(c, resolved) ==
  /\ pc' = [pc EXCEPT ![c] = "idle"]
  /\ position' = [position EXCEPT ![c] = resolved]
  /\ offset' = [offset EXCEPT ![c] = 0]
  /\ seen' = [seen EXCEPT ![c] = "none"]
  /\ error' = [error EXCEPT ![c] = None]

\* Mutant: one offset too far.
ReturnBeyond(c) == EndMessage(c, offset[c] + 1)

\* eachMessage returns.
Return(c) == EndMessage(c, offset[c])

\* eachMessage throws: kafkajs delivers the message again.
Redeliver(c) == EndMessage(c, offset[c] - 1)

Write(o, status) ==
  /\ record' = [record EXCEPT ![o] = status]
  /\ stale' = stale \ {o}

\* A delivery of the event is past its claim.
Holds(c, o) == offset[c] = o /\ pc[c] \in Holding

\* Events that a claim disturbs: the record is not what was read, or another
\* delivery is past its own claim.
DisturbedByClaim(c) ==
  {o \in {offset[c]} : record[o] # seen[c] \/ \E d \in Consumers \ {c} : Holds(d, o)}

-----------------------------------------------------------------------------
(* Kafka and kafkajs                                                       *)

\* The partition is assigned to a consumer that has no message in hand.
Rebalance(c) ==
  /\ owner # c /\ At(c, "idle")
  /\ rebalances < MaxRebalances
  /\ rebalances' = rebalances + 1
  /\ owner' = c
  /\ position' = [position EXCEPT ![c] = committed]
  /\ UNCHANGED <<committed, records, deadLetters, pc, offset, seen, error, history, faults>>

\* autoCommit, which a consumer that lost the partition cannot do.
Commit(c) ==
  /\ owner = c /\ At(c, "idle")
  /\ position[c] > committed
  /\ committed' = position[c]
  /\ UNCHANGED <<owner, rebalances, records, deadLetters, consumer, history, faults>>

\* The checks of eachMessage before the handler.
FirstStep(o) ==
  IF o \in Malformed THEN "deadLetter"
  ELSE IF o \in Unhandled THEN IF IgnoreMissing THEN "idle" ELSE "deadLetter"
  ELSE "find"

\* eachMessage is called with the next message.
Receive(c) ==
  LET o == position[c] + 1
      ignored == FirstStep(o) = "idle"
  IN /\ owner = c /\ At(c, "idle")
     /\ o \in Offsets
     /\ pc' = [pc EXCEPT ![c] = FirstStep(o)]
     /\ position' = IF ignored THEN [position EXCEPT ![c] = o] ELSE position
     /\ offset' = IF ignored THEN offset ELSE [offset EXCEPT ![c] = o]
     /\ UNCHANGED <<partition, records, deadLetters, seen, error, history, faults>>

-----------------------------------------------------------------------------
(* withIdempotency                                                         *)

\* Mutant: only deliveries at work are recognised.
SkippedAtWork(o) == record[o] = "processing" /\ o \notin stale

\* Another delivery of the event has finished, or is taken to be at work.
Skipped(o) ==
  \/ record[o] = "processed"
  \/ record[o] = "processing" /\ o \notin stale

\* beginProcessing: findOne.  A skipped message counts as handled.
FindRecord(c) ==
  /\ At(c, "find")
  /\ IF Skipped(offset[c])
     THEN Return(c)
     ELSE /\ Goto(c, "claim")
          /\ seen' = [seen EXCEPT ![c] = record[offset[c]]]
          /\ UNCHANGED error
  /\ UNCHANGED <<partition, records, deadLetters, history, faults>>

\* Mutant: the record is written as processed at once.
ClaimAsProcessed(c) ==
  /\ At(c, "claim")
  /\ Write(offset[c], "processed")
  /\ Goto(c, "handle")
  /\ disturbed' = disturbed \cup DisturbedByClaim(c)
  /\ UNCHANGED <<partition, deadLetters, seen, error, handled, abandoned, faults>>

\* beginProcessing: findOneAndUpdate with upsert, whatever the record says by now.
Claim(c) ==
  /\ At(c, "claim")
  /\ Write(offset[c], "processing")
  /\ Goto(c, "handle")
  /\ disturbed' = disturbed \cup DisturbedByClaim(c)
  /\ UNCHANGED <<partition, deadLetters, seen, error, handled, abandoned, faults>>

\* The claim is written and its answer lost: the error comes from outside the
\* try block, so nobody records what becomes of the claim.
ClaimUnanswered(c) ==
  /\ At(c, "claim")
  /\ Fault
  /\ Write(offset[c], "processing")
  /\ Goto(c, "deadLetter")
  /\ disturbed' = disturbed \cup DisturbedByClaim(c)
  /\ abandoned' = abandoned \cup {offset[c]}
  /\ UNCHANGED <<partition, deadLetters, seen, error, handled>>

\* Either call of beginProcessing fails without effect, outside the try block:
\* no failure is recorded, and the error is none to retry.
BeginFails(c) ==
  /\ At(c, "find") \/ At(c, "claim")
  /\ Fault
  /\ Goto(c, "deadLetter")
  /\ UNCHANGED <<partition, records, deadLetters, seen, error, history>>

HandlerSucceeds(c) ==
  /\ At(c, "handle")
  /\ handled' = [handled EXCEPT ![offset[c]] = @ + 1]
  /\ Goto(c, "markProcessed")
  /\ UNCHANGED <<partition, records, deadLetters, seen, error, disturbed, abandoned, faults>>

HandlerThrows(c) ==
  /\ At(c, "handle")
  /\ Fault
  /\ \E kind \in {"retryable", "final"} : error' = [error EXCEPT ![c] = kind]
  /\ Goto(c, "markFailed")
  /\ UNCHANGED <<partition, records, deadLetters, seen, history>>

MarkProcessed(c) ==
  /\ At(c, "markProcessed")
  /\ Write(offset[c], "processed")
  /\ Return(c)
  /\ UNCHANGED <<partition, deadLetters, history, faults>>

\* It throws inside the try block, its write applied or not: what the handler
\* did is taken for a failure.
MarkProcessedFails(c) ==
  /\ At(c, "markProcessed")
  /\ Fault
  /\ Write(offset[c], "processed") \/ UNCHANGED records
  /\ error' = [error EXCEPT ![c] = "final"]
  /\ disturbed' = disturbed \cup {offset[c]}
  /\ Goto(c, "markFailed")
  /\ UNCHANGED <<partition, deadLetters, seen, handled, abandoned>>

\* markFailed, then the error of the handler is thrown again.
MarkFailed(c) ==
  /\ At(c, "markFailed")
  /\ Write(offset[c], "failed")
  /\ IF error[c] = "retryable"
     THEN Redeliver(c)
     ELSE Goto(c, "deadLetter") /\ UNCHANGED <<seen, error>>
  /\ UNCHANGED <<partition, deadLetters, history, faults>>

\* Its own error, its write applied or not, takes the place of the handler's,
\* and is none to retry.
MarkFailedFails(c) ==
  /\ At(c, "markFailed")
  /\ Fault
  /\ \/ Write(offset[c], "failed") /\ UNCHANGED abandoned
     \/ abandoned' = abandoned \cup {offset[c]} /\ UNCHANGED records
  /\ Goto(c, "deadLetter")
  /\ UNCHANGED <<partition, deadLetters, seen, error, handled, disturbed>>

\* Mutant: the error is thrown to Kafka after it was reported.
PublishDeadLetterAndThrow(c) ==
  /\ At(c, "deadLetter")
  /\ deadLetters' = deadLetters \cup {offset[c]}
  /\ Redeliver(c)
  /\ UNCHANGED <<partition, records, history, faults>>

PublishDeadLetter(c) ==
  /\ At(c, "deadLetter")
  /\ deadLetters' = deadLetters \cup {offset[c]}
  /\ Return(c)
  /\ UNCHANGED <<partition, records, history, faults>>

\* eachMessage throws, whatever the error was that it wanted to report.
PublishDeadLetterFails(c) ==
  /\ At(c, "deadLetter")
  /\ Fault
  /\ Redeliver(c)
  /\ UNCHANGED <<partition, records, deadLetters, history>>

\* The process dies; the partition waits for its next assignment.
Crash(c) ==
  /\ owner = c \/ ~At(c, "idle")
  /\ Fault
  /\ owner' = IF owner = c THEN None ELSE owner
  /\ EndMessage(c, 0)
  /\ disturbed' = IF At(c, "markProcessed") THEN disturbed \cup {offset[c]} ELSE disturbed
  /\ abandoned' = IF pc[c] \in Holding THEN abandoned \cup {offset[c]} ELSE abandoned
  /\ UNCHANGED <<committed, rebalances, records, deadLetters, handled>>

\* staleMs pass.
GrowStale(o) ==
  /\ record[o] = "processing" /\ o \notin stale
  /\ stale' = stale \cup {o}
  /\ UNCHANGED <<partition, record, deadLetters, consumer, history, faults>>

-----------------------------------------------------------------------------

\* What a consumer does when nothing fails.
ConsumerStep(c) ==
  \/ Receive(c) \/ Commit(c)
  \/ FindRecord(c) \/ Claim(c)
  \/ HandlerSucceeds(c) \/ MarkProcessed(c) \/ MarkFailed(c)
  \/ PublishDeadLetter(c)

FailureStep(c) ==
  \/ BeginFails(c) \/ ClaimUnanswered(c) \/ HandlerThrows(c)
  \/ MarkProcessedFails(c) \/ MarkFailedFails(c) \/ PublishDeadLetterFails(c) \/ Crash(c)

Next ==
  \/ \E c \in Consumers : ConsumerStep(c) \/ FailureStep(c) \/ Rebalance(c)
  \/ \E o \in Offsets : GrowStale(o)

Spec == Init /\ [][Next]_vars

\* Awaits are answered and the consumer that has the partition polls.
FairSpec == Spec /\ \A c \in Consumers : WF_vars(ConsumerStep(c))

-----------------------------------------------------------------------------
(* Properties.                                                             *)

\* An event that the group has passed over without its handler having
\* succeeded is reported to the dead-letter topic, or recorded as failed, or
\* recorded as processing: by a consumer that is still past its claim, or by
\* one that left its claim behind because it died or its write failed.  In the
\* last case the redelivery found the claim, was skipped and committed, and
\* nobody takes the event over; the record is then the only sign of it.  No
\* record says processed of such an event.
PassedOverLeavesTrace ==
  \A o \in Sound :
    o <= committed /\ handled[o] = 0 =>
      \/ o \in deadLetters
      \/ record[o] = "failed"
      \/ record[o] = "processing" /\ (o \in abandoned \/ \E c \in Consumers : Holds(c, o))

\* Redeliveries, stale records and handlers that fail do not make the handler
\* of an event succeed twice, unless two deliveries claimed it at once or the
\* outcome of the first was not recorded.
HandledOnceUnlessDisturbed ==
  \A o \in Sound \ disturbed : handled[o] <= 1

\* The group never gives up a processed record, except as above.
ProcessedIsFinal ==
  [][\A o \in Offsets \ disturbed' :
       record[o] = "processed" => record'[o] = "processed"]_vars

\* Poisonous, unhandled and failing events do not block the partition: once
\* it is left with a consumer and failures cease, everything is committed.
PartitionAdvances == <>[](owner # None) => <>(committed = Length)

=============================================================================
