------------------------ MODULE EventConsumerProofs ------------------------
(***************************************************************************)
(* For any number of consumers, a partition of any length and any number   *)
(* of rebalances and faults: types, that the group passes over no event    *)
(* without leaving a trace of it, and that it handles none twice.          *)
(***************************************************************************)
EXTENDS EventConsumer, TLAPS

-----------------------------------------------------------------------------
(* Types                                                                   *)

LEMMA ConsumerTypeInit == Init => TypeOK
BY ConsumerAssumption DEF Init, TypeOK, Offsets, Statuses, Holding

\* Whatever offset eachMessage resolves, it leaves well-typed consumers.
LEMMA EndMessageType ==
  ASSUME TypeOK, NEW c \in Consumers, NEW resolved \in 0..Length, EndMessage(c, resolved)
  PROVE  /\ position' \in [Consumers -> 0..Length]
         /\ pc' \in [Consumers -> {"idle", "find", "claim", "deadLetter"} \cup Holding]
         /\ offset' \in [Consumers -> 0..Length]
         /\ \A d \in Consumers : pc'[d] # "idle" => offset'[d] \in Offsets
         /\ seen' \in [Consumers -> Statuses]
         /\ error' \in [Consumers -> {"retryable", "final", None}]
BY ConsumerAssumption DEF EndMessage, TypeOK, Holding, Statuses

\* A message in hand is one of the partition; it and the one before it are
\* offsets that can be resolved.
LEMMA OffsetInHand ==
  ASSUME TypeOK, NEW c \in Consumers, pc[c] # "idle"
  PROVE  /\ offset[c] \in Offsets /\ offset[c] \in 0..Length
         /\ offset[c] - 1 \in 0..Length
BY ConsumerAssumption DEF TypeOK, Offsets

\* Nothing of the others changes when a consumer moves on, or ends its message.
LEMMA OthersInPlace ==
  ASSUME TypeOK, NEW c \in Consumers, NEW step, NEW resolved,
         Goto(c, step) \/ EndMessage(c, resolved)
  PROVE  /\ \A d \in Consumers \ {c} : pc'[d] = pc[d] /\ offset'[d] = offset[d]
         /\ Goto(c, step) => pc'[c] = step /\ offset'[c] = offset[c]
         /\ EndMessage(c, resolved) => pc'[c] = "idle"
BY DEF TypeOK, Goto, EndMessage

LEMMA WriteType ==
  ASSUME TypeOK, NEW o \in Offsets, NEW status \in Statuses, Write(o, status)
  PROVE  record' \in [Offsets -> Statuses] /\ stale' \subseteq Offsets
BY DEF TypeOK, Write

LEMMA ConsumerTypeStep == TypeOK /\ [Next]_vars => TypeOK'
<1> SUFFICES ASSUME TypeOK, [Next]_vars PROVE TypeOK'
  OBVIOUS
<1> USE ConsumerAssumption DEF partition, records, consumer, history, At, Fault
<1>1. ASSUME NEW c \in Consumers, Receive(c) PROVE TypeOK'
  BY <1>1 DEF Receive, FirstStep, TypeOK, Offsets, Holding
<1>2. ASSUME NEW c \in Consumers, Commit(c) \/ Rebalance(c) PROVE TypeOK'
  BY <1>2 DEF Commit, Rebalance, TypeOK
<1>3. ASSUME NEW c \in Consumers, FindRecord(c) PROVE TypeOK'
  <2>1. CASE Skipped(offset[c])
    BY <1>3, <2>1, EndMessageType, OffsetInHand DEF FindRecord, Return, TypeOK
  <2>2. CASE ~Skipped(offset[c])
    BY <1>3, <2>2, OffsetInHand DEF FindRecord, Goto, TypeOK
  <2> QED
    BY <2>1, <2>2
<1>4. ASSUME NEW c \in Consumers, Claim(c) \/ ClaimUnanswered(c) PROVE TypeOK'
  <2>1. /\ pc[c] = "claim" /\ offset[c] \in Offsets
        /\ Write(offset[c], "processing")
        /\ Goto(c, "handle") \/ Goto(c, "deadLetter")
        /\ disturbed' \subseteq disturbed \cup {offset[c]}
        /\ abandoned' \subseteq abandoned \cup {offset[c]}
        /\ faults' \in 0..MaxFaults
        /\ UNCHANGED <<partition, deadLetters, seen, error, handled>>
    BY <1>4, OffsetInHand DEF Claim, ClaimUnanswered, DisturbedByClaim, TypeOK
  <2>2. record' \in [Offsets -> Statuses] /\ stale' \subseteq Offsets
    BY <2>1, WriteType DEF Statuses
  <2> QED
    BY <2>1, <2>2 DEF Goto, TypeOK, Holding
<1>5. ASSUME NEW c \in Consumers, BeginFails(c) \/ MarkFailedFails(c) PROVE TypeOK'
  <2>1. record' \in [Offsets -> Statuses] /\ stale' \subseteq Offsets
    BY <1>5, OffsetInHand, WriteType DEF BeginFails, MarkFailedFails, Statuses, TypeOK
  <2>2. abandoned' \subseteq Offsets
    BY <1>5, OffsetInHand DEF BeginFails, MarkFailedFails, TypeOK
  <2> QED
    BY <1>5, <2>1, <2>2 DEF BeginFails, MarkFailedFails, Goto, TypeOK
<1>6. ASSUME NEW c \in Consumers, HandlerSucceeds(c) \/ HandlerThrows(c) PROVE TypeOK'
  BY <1>6, OffsetInHand DEF HandlerSucceeds, HandlerThrows, Goto, TypeOK, Holding
<1>7. ASSUME NEW c \in Consumers, MarkProcessed(c) PROVE TypeOK'
  <2>1. record' \in [Offsets -> Statuses] /\ stale' \subseteq Offsets
    BY <1>7, OffsetInHand, WriteType DEF MarkProcessed, Statuses
  <2> QED
    BY <1>7, <2>1, EndMessageType, OffsetInHand DEF MarkProcessed, Return, TypeOK
<1>8. ASSUME NEW c \in Consumers, MarkProcessedFails(c) PROVE TypeOK'
  <2>1. record' \in [Offsets -> Statuses] /\ stale' \subseteq Offsets
    BY <1>8, OffsetInHand, WriteType DEF MarkProcessedFails, Statuses, TypeOK
  <2> QED
    BY <1>8, <2>1, OffsetInHand DEF MarkProcessedFails, Goto, TypeOK, Holding
<1>9. ASSUME NEW c \in Consumers, MarkFailed(c) PROVE TypeOK'
  <2>1. record' \in [Offsets -> Statuses] /\ stale' \subseteq Offsets
    BY <1>9, OffsetInHand, WriteType DEF MarkFailed, Statuses
  <2>2. CASE error[c] = "retryable"
    BY <1>9, <2>1, <2>2, EndMessageType, OffsetInHand DEF MarkFailed, Redeliver, TypeOK
  <2>3. CASE error[c] # "retryable"
    BY <1>9, <2>1, <2>3 DEF MarkFailed, Goto, TypeOK
  <2> QED
    BY <2>2, <2>3
<1>10. ASSUME NEW c \in Consumers, PublishDeadLetter(c) PROVE TypeOK'
  BY <1>10, EndMessageType, OffsetInHand DEF PublishDeadLetter, Return, TypeOK
<1>11. ASSUME NEW c \in Consumers, PublishDeadLetterFails(c) PROVE TypeOK'
  BY <1>11, EndMessageType, OffsetInHand DEF PublishDeadLetterFails, Redeliver, TypeOK
<1>12. ASSUME NEW c \in Consumers, Crash(c) PROVE TypeOK'
  <2>1. 0 \in 0..Length
    OBVIOUS
  <2>2. disturbed' \subseteq Offsets /\ abandoned' \subseteq Offsets
    BY <1>12, OffsetInHand DEF Crash, Holding, TypeOK
  <2> QED
    BY <1>12, <2>1, <2>2, EndMessageType DEF Crash, TypeOK
<1>13. ASSUME NEW o \in Offsets, GrowStale(o) PROVE TypeOK'
  BY <1>13 DEF GrowStale, TypeOK
<1>14. CASE UNCHANGED vars
  BY <1>14 DEF vars, TypeOK
<1> QED
  BY <1>1, <1>2, <1>3, <1>4, <1>5, <1>6, <1>7, <1>8, <1>9, <1>10, <1>11, <1>12,
     <1>13, <1>14 DEF Next, ConsumerStep, FailureStep

\* The records, offsets and messages in hand stay what they are declared to be.
THEOREM ConsumerTypeCorrect == Spec => []TypeOK
BY ConsumerTypeInit, ConsumerTypeStep, PTL DEF Spec

-----------------------------------------------------------------------------
(* What is passed over leaves a trace.  A consumer passes over an event by *)
(* resolving its offset, before anything is committed; what it resolved    *)
(* must therefore have its trace already, and a record that claims success *)
(* must rest on a handler that succeeded.                                  *)

Trace(o) == handled[o] > 0 \/ o \in deadLetters \/ record[o] \in {"processing", "failed"}

PassedOver(o) == o <= committed \/ \E c \in Consumers : o <= position[c]

TraceInv ==
  /\ TypeOK
  /\ \A c \in Consumers : pc[c] # "idle" => offset[c] = position[c] + 1
  /\ \A o \in Offsets : record[o] = "processed" => handled[o] > 0
  /\ \A c \in Consumers : pc[c] = "markProcessed" => handled[offset[c]] > 0
  /\ \A o \in Sound : PassedOver(o) => Trace(o)

LEMMA TraceInit == Init => TraceInv
<1> SUFFICES ASSUME Init PROVE TraceInv
  OBVIOUS
<1>1. TypeOK
  BY ConsumerTypeInit
<1>2. \A o \in Sound : ~PassedOver(o)
  BY ConsumerAssumption DEF Init, PassedOver, Sound, Offsets
<1> QED
  BY <1>1, <1>2 DEF Init, TraceInv

\* The end of a message passes over that message at most.
LEMMA PassedOverByEnd ==
  ASSUME TraceInv, NEW c \in Consumers, pc[c] # "idle", NEW resolved \in 0..Length,
         EndMessage(c, resolved), resolved <= offset[c], UNCHANGED committed,
         NEW o \in Sound, PassedOver(o)'
  PROVE  PassedOver(o) \/ (o = offset[c] /\ resolved = offset[c])
BY ConsumerAssumption DEF TraceInv, TypeOK, EndMessage, PassedOver, Sound, Offsets

\* Nothing is passed over while no position and no commit moves.
LEMMA PassedOverStays ==
  ASSUME NEW o \in Sound, UNCHANGED <<position, committed>>, PassedOver(o)'
  PROVE  PassedOver(o)
BY DEF PassedOver

\* A message that is delivered again is not passed over.
LEMMA PassedOverByRedelivery ==
  ASSUME TraceInv, NEW c \in Consumers, pc[c] # "idle", EndMessage(c, offset[c] - 1),
         UNCHANGED committed, NEW o \in Sound, PassedOver(o)'
  PROVE  PassedOver(o)
<1>1. \A d \in Consumers : position'[d] = position[d]
  BY DEF TraceInv, TypeOK, EndMessage
<1> QED
  BY <1>1 DEF PassedOver

\* A trace does not fade: the handler's success, a dead letter and a record
\* stay, and a record turns to "processed" when the handler has succeeded.
LEMMA TraceStays ==
  ASSUME TypeOK, NEW o \in Offsets, Trace(o),
         handled'[o] \in Nat, handled'[o] >= handled[o], deadLetters \subseteq deadLetters',
         record'[o] = record[o] \/ record'[o] \in {"processing", "failed"} \/ handled[o] > 0
  PROVE  Trace(o)'
BY DEF Trace, TypeOK

LEMMA TraceStep == TraceInv /\ [Next]_vars => TraceInv'
<1> SUFFICES ASSUME TraceInv, [Next]_vars PROVE TraceInv'
  OBVIOUS
<1>t. TypeOK /\ TypeOK'
  BY ConsumerTypeStep DEF TraceInv
<1>s. \A o \in Sound : o \in Offsets
  BY DEF Sound
<1>u. ASSUME UNCHANGED <<position, committed, handled>>, deadLetters \subseteq deadLetters',
             \A o \in Offsets :
               record'[o] = record[o] \/ record'[o] \in {"processing", "failed"} \/ handled[o] > 0
      PROVE  \A o \in Sound : PassedOver(o)' => Trace(o)'
  BY <1>t, <1>s, <1>u, PassedOverStays, TraceStays DEF TraceInv, TypeOK
<1> USE ConsumerAssumption DEF partition, records, consumer, history, At, Fault
<1>1. ASSUME NEW c \in Consumers, Receive(c) PROVE TraceInv'
  <2>1. UNCHANGED <<committed, handled, deadLetters, record>>
    BY <1>1 DEF Receive
  <2>2. pc[c] = "idle" /\ position[c] + 1 \in Offsets
    BY <1>1 DEF Receive
  <2>3. ASSUME NEW o \in Sound, PassedOver(o)' PROVE PassedOver(o)
    <3>1. o \notin Malformed \cup Unhandled /\ o \in Offsets
      BY <2>3 DEF Sound
    <3>2. position' = position \/ (position[c] + 1 \in Unhandled /\
            position' = [position EXCEPT ![c] = position[c] + 1])
      BY <1>1 DEF Receive, FirstStep
    <3>3. CASE position' = position
      BY <2>1, <2>3, <3>3 DEF PassedOver
    <3>4. CASE position[c] + 1 \in Unhandled /\ position' = [position EXCEPT ![c] = position[c] + 1]
      <4>1. o <= position'[c] => o <= position[c]
        BY <1>t, <3>1, <3>4 DEF TypeOK, Offsets
      <4>2. \A d \in Consumers \ {c} : position'[d] = position[d]
        BY <1>t, <3>4 DEF TypeOK
      <4> QED
        BY <2>1, <2>3, <4>1, <4>2 DEF PassedOver
    <3> QED
      BY <3>2, <3>3, <3>4
  <2>4. \A d \in Consumers : pc'[d] # "idle" => offset'[d] = position'[d] + 1
    BY <1>1, <1>t DEF Receive, FirstStep, TraceInv, TypeOK
  <2>5. \A d \in Consumers : pc'[d] = "markProcessed" => pc[d] = "markProcessed" /\ offset'[d] = offset[d]
    BY <1>1, <1>t DEF Receive, FirstStep, TypeOK
  <2>6. \A o \in Sound : PassedOver(o)' => Trace(o)'
    BY <2>1, <2>3 DEF TraceInv, Trace
  <2> QED
    BY <1>t, <2>1, <2>4, <2>5, <2>6 DEF TraceInv
<1>2. ASSUME NEW c \in Consumers, Commit(c) \/ Rebalance(c) PROVE TraceInv'
  <2>1. UNCHANGED <<handled, deadLetters, record, pc, offset>> /\ pc[c] = "idle"
    BY <1>2 DEF Commit, Rebalance
  <2>2. \A o \in Sound : PassedOver(o)' => PassedOver(o)
    BY <1>2, <1>t DEF Commit, Rebalance, PassedOver, TypeOK
  <2>3. \A d \in Consumers : pc'[d] # "idle" => offset'[d] = position'[d] + 1
    BY <1>2, <1>t DEF Commit, Rebalance, TraceInv, TypeOK
  <2> QED
    BY <1>t, <2>1, <2>2, <2>3 DEF TraceInv, Trace
<1>3. ASSUME NEW c \in Consumers, FindRecord(c) PROVE TraceInv'
  <2>0. pc[c] = "find" /\ UNCHANGED <<committed, handled, deadLetters, record>>
    BY <1>3 DEF FindRecord
  <2>1. CASE Skipped(offset[c])
    <3>1. EndMessage(c, offset[c])
      BY <1>3, <2>1 DEF FindRecord, Return
    <3>2. Trace(offset[c])
      BY <2>1, <2>0, <1>t, OffsetInHand DEF Skipped, TraceInv, Trace
    <3>3. \A o \in Sound : PassedOver(o)' => Trace(o)
      BY <2>0, <3>1, <3>2, <1>t, OffsetInHand, PassedOverByEnd DEF TraceInv, TypeOK
    <3>4. \A d \in Consumers : pc'[d] # "idle" =>
            d # c /\ pc'[d] = pc[d] /\ offset'[d] = offset[d] /\ position'[d] = position[d]
      BY <3>1, <1>t DEF EndMessage, TypeOK
    <3> QED
      BY <1>t, <2>0, <3>3, <3>4 DEF TraceInv, Trace
  <2>2. CASE ~Skipped(offset[c])
    <3>1. Goto(c, "claim")
      BY <1>3, <2>2 DEF FindRecord
    <3> QED
      BY <1>t, <1>u, <2>0, <3>1 DEF Goto, TraceInv, TypeOK
  <2> QED
    BY <2>1, <2>2
<1>4. ASSUME NEW c \in Consumers, Claim(c) \/ ClaimUnanswered(c) PROVE TraceInv'
  <2>1. /\ pc[c] = "claim" /\ UNCHANGED <<committed, handled, deadLetters>>
        /\ record' = [record EXCEPT ![offset[c]] = "processing"]
        /\ Goto(c, "handle") \/ Goto(c, "deadLetter")
    BY <1>4 DEF Claim, ClaimUnanswered, Write
  <2>2. \A o \in Offsets : record'[o] = record[o] \/ record'[o] = "processing"
    BY <1>t, <2>1 DEF TypeOK
  <2> QED
    BY <1>t, <1>u, <2>1, <2>2 DEF Goto, TraceInv, TypeOK
<1>5. ASSUME NEW c \in Consumers, BeginFails(c) \/ MarkFailedFails(c) PROVE TraceInv'
  <2>1. /\ pc[c] # "idle" /\ Goto(c, "deadLetter")
        /\ UNCHANGED <<committed, handled, deadLetters>>
        /\ record' = record \/ record' = [record EXCEPT ![offset[c]] = "failed"]
    BY <1>5 DEF BeginFails, MarkFailedFails, Write
  <2>2. \A o \in Offsets : record'[o] = record[o] \/ record'[o] = "failed"
    BY <1>t, <2>1 DEF TypeOK
  <2> QED
    BY <1>t, <1>u, <2>1, <2>2 DEF Goto, TraceInv, TypeOK
<1>6. ASSUME NEW c \in Consumers, HandlerSucceeds(c) PROVE TraceInv'
  <2>1. /\ pc[c] = "handle" /\ Goto(c, "markProcessed")
        /\ handled' = [handled EXCEPT ![offset[c]] = @ + 1]
        /\ UNCHANGED <<committed, deadLetters, record>>
    BY <1>6 DEF HandlerSucceeds
  <2>2. \A o \in Offsets : handled'[o] \in Nat /\ handled'[o] >= handled[o]
    BY <1>t, <2>1 DEF TypeOK
  <2>3. handled'[offset[c]] > 0
    BY <1>t, <2>1, OffsetInHand DEF TypeOK
  <2>4. \A o \in Sound : PassedOver(o)' => Trace(o)'
    BY <1>t, <1>s, <2>1, <2>2, PassedOverStays, TraceStays DEF Goto, TraceInv
  <2>5. /\ \A d \in Consumers : pc'[d] # "idle" => offset'[d] = position'[d] + 1
        /\ \A d \in Consumers : pc'[d] = "markProcessed" => d = c \/ pc[d] = "markProcessed"
        /\ offset' = offset
    BY <1>t, <2>1 DEF Goto, TraceInv, TypeOK
  <2>6. \A d \in Consumers : pc[d] = "markProcessed" => offset[d] \in Offsets
    BY <1>t DEF TypeOK
  <2>7. \A d \in Consumers : pc'[d] = "markProcessed" => handled'[offset'[d]] > 0
    <3> SUFFICES ASSUME NEW d \in Consumers, pc'[d] = "markProcessed"
                 PROVE  handled'[offset[d]] > 0
      BY <2>5
    <3>1. CASE d = c
      BY <2>3, <3>1
    <3>2. CASE pc[d] = "markProcessed"
      BY <1>t, <2>2, <2>6, <3>2 DEF TraceInv, TypeOK
    <3> QED
      BY <2>5, <3>1, <3>2
  <2>8. \A o \in Offsets : record'[o] = "processed" => handled'[o] > 0
    BY <1>t, <2>1, <2>2 DEF TraceInv, TypeOK
  <2> QED
    BY <1>t, <2>4, <2>5, <2>7, <2>8 DEF TraceInv
<1>7. ASSUME NEW c \in Consumers, HandlerThrows(c) \/ MarkProcessedFails(c) PROVE TraceInv'
  <2>1. /\ pc[c] # "idle" /\ Goto(c, "markFailed")
        /\ UNCHANGED <<committed, handled, deadLetters>>
        /\ \/ record' = record
           \/ /\ pc[c] = "markProcessed"
              /\ record' = [record EXCEPT ![offset[c]] = "processed"]
    BY <1>7 DEF HandlerThrows, MarkProcessedFails, Write
  <2>2. pc[c] = "markProcessed" => handled[offset[c]] > 0
    BY DEF TraceInv
  <2>3. \A o \in Offsets :
          /\ record'[o] = record[o] \/ handled[o] > 0
          /\ record'[o] = "processed" => handled[o] > 0
    BY <1>t, <2>1, <2>2 DEF TraceInv, TypeOK
  <2> QED
    BY <1>t, <1>u, <2>1, <2>3 DEF Goto, TraceInv, TypeOK
<1>8. ASSUME NEW c \in Consumers, MarkProcessed(c) PROVE TraceInv'
  <2>1. /\ pc[c] = "markProcessed" /\ EndMessage(c, offset[c])
        /\ record' = [record EXCEPT ![offset[c]] = "processed"]
        /\ UNCHANGED <<committed, handled, deadLetters>>
    BY <1>8 DEF MarkProcessed, Return, Write
  <2>2. handled[offset[c]] > 0
    BY <2>1 DEF TraceInv
  <2>3. \A o \in Offsets : record'[o] = "processed" => handled[o] > 0
    BY <1>t, <2>1, <2>2 DEF TraceInv, TypeOK
  <2>4. \A o \in Sound : PassedOver(o)' => Trace(o)
    BY <1>t, <2>1, <2>2, OffsetInHand, PassedOverByEnd DEF TraceInv, TypeOK, Trace
  <2>5. \A o \in Sound : Trace(o) => Trace(o)'
    BY <1>t, <1>s, <2>1, <2>2 DEF Trace, TypeOK
  <2>6. \A d \in Consumers : pc'[d] # "idle" =>
          d # c /\ pc'[d] = pc[d] /\ offset'[d] = offset[d] /\ position'[d] = position[d]
    BY <2>1, <1>t DEF EndMessage, TypeOK
  <2> QED
    BY <1>t, <2>1, <2>3, <2>4, <2>5, <2>6 DEF TraceInv
<1>9. ASSUME NEW c \in Consumers, MarkFailed(c) PROVE TraceInv'
  <2>1. /\ pc[c] = "markFailed"
        /\ record' = [record EXCEPT ![offset[c]] = "failed"]
        /\ UNCHANGED <<committed, handled, deadLetters>>
    BY <1>9 DEF MarkFailed, Write
  <2>2. \A o \in Offsets : record'[o] = record[o] \/ record'[o] = "failed"
    BY <1>t, <2>1 DEF TypeOK
  <2>3. CASE error[c] = "retryable"
    <3>1. EndMessage(c, offset[c] - 1)
      BY <1>9, <2>3 DEF MarkFailed, Redeliver
    <3>2. \A o \in Sound : PassedOver(o)' => PassedOver(o)
      BY <2>1, <3>1, PassedOverByRedelivery
    <3>3. \A o \in Sound : Trace(o) => Trace(o)'
      BY <1>t, <1>s, <2>1, <2>2 DEF Trace
    <3>4. \A d \in Consumers : pc'[d] # "idle" =>
            d # c /\ pc'[d] = pc[d] /\ offset'[d] = offset[d] /\ position'[d] = position[d]
      BY <3>1, <1>t DEF EndMessage, TypeOK
    <3> QED
      BY <1>t, <2>1, <2>2, <3>2, <3>3, <3>4 DEF TraceInv
  <2>4. CASE error[c] # "retryable"
    <3>1. Goto(c, "deadLetter")
      BY <1>9, <2>4 DEF MarkFailed
    <3> QED
      BY <1>t, <1>u, <2>1, <2>2, <3>1 DEF Goto, TraceInv, TypeOK
  <2> QED
    BY <2>3, <2>4
<1>10. ASSUME NEW c \in Consumers, PublishDeadLetter(c) PROVE TraceInv'
  <2>1. /\ pc[c] = "deadLetter" /\ EndMessage(c, offset[c])
        /\ deadLetters' = deadLetters \cup {offset[c]}
        /\ UNCHANGED <<committed, handled, record>>
    BY <1>10 DEF PublishDeadLetter, Return
  <2>2. \A o \in Sound : PassedOver(o)' => Trace(o)'
    BY <1>t, <2>1, OffsetInHand, PassedOverByEnd DEF TraceInv, TypeOK, Trace
  <2>3. \A d \in Consumers : pc'[d] # "idle" =>
          d # c /\ pc'[d] = pc[d] /\ offset'[d] = offset[d] /\ position'[d] = position[d]
    BY <2>1, <1>t DEF EndMessage, TypeOK
  <2> QED
    BY <1>t, <2>1, <2>2, <2>3 DEF TraceInv
<1>11. ASSUME NEW c \in Consumers, PublishDeadLetterFails(c) PROVE TraceInv'
  <2>1. /\ pc[c] = "deadLetter" /\ EndMessage(c, offset[c] - 1)
        /\ UNCHANGED <<committed, handled, record, deadLetters>>
    BY <1>11 DEF PublishDeadLetterFails, Redeliver
  <2>2. \A o \in Sound : PassedOver(o)' => PassedOver(o)
    BY <2>1, PassedOverByRedelivery
  <2>3. \A d \in Consumers : pc'[d] # "idle" =>
          d # c /\ pc'[d] = pc[d] /\ offset'[d] = offset[d] /\ position'[d] = position[d]
    BY <2>1, <1>t DEF EndMessage, TypeOK
  <2> QED
    BY <1>t, <2>1, <2>2, <2>3 DEF TraceInv, Trace
<1>12. ASSUME NEW c \in Consumers, Crash(c) PROVE TraceInv'
  <2>1. EndMessage(c, 0) /\ UNCHANGED <<committed, handled, record, deadLetters>>
    BY <1>12 DEF Crash
  <2>2. \A o \in Sound : PassedOver(o)' => PassedOver(o)
    BY <1>t, <2>1 DEF EndMessage, PassedOver, TypeOK, Sound, Offsets
  <2>3. \A d \in Consumers : pc'[d] # "idle" =>
          d # c /\ pc'[d] = pc[d] /\ offset'[d] = offset[d] /\ position'[d] = position[d]
    BY <2>1, <1>t DEF EndMessage, TypeOK
  <2> QED
    BY <1>t, <2>1, <2>2, <2>3 DEF TraceInv, Trace
<1>13. ASSUME NEW o \in Offsets, GrowStale(o) PROVE TraceInv'
  BY <1>t, <1>u, <1>13 DEF GrowStale, TraceInv
<1>14. CASE UNCHANGED vars
  BY <1>t, <1>u, <1>14 DEF vars, TraceInv
<1> QED
  BY <1>1, <1>2, <1>3, <1>4, <1>5, <1>6, <1>7, <1>8, <1>9, <1>10, <1>11, <1>12,
     <1>13, <1>14 DEF Next, ConsumerStep, FailureStep

\* A record that says processing is that of a consumer past its claim, or the
\* claim was left without an outcome.
ClaimInv ==
  /\ TypeOK
  /\ \A o \in Offsets :
       record[o] = "processing" => o \in abandoned \/ \E c \in Consumers : Holds(c, o)

\* It stays so while whoever drops a claim settles or abandons it.
LEMMA ClaimKept ==
  ASSUME ClaimInv, TypeOK', abandoned \subseteq abandoned',
         \A o \in Offsets : record'[o] = "processing" =>
           \/ o \in abandoned' \/ \E c \in Consumers : Holds(c, o)'
           \/ /\ record[o] = "processing"
              /\ \A c \in Consumers : Holds(c, o) => Holds(c, o)'
  PROVE  ClaimInv'
BY DEF ClaimInv

LEMMA ClaimStep == ClaimInv /\ [Next]_vars => ClaimInv'
<1> SUFFICES ASSUME ClaimInv, [Next]_vars PROVE ClaimInv'
  OBVIOUS
<1>t. TypeOK /\ TypeOK'
  BY ConsumerTypeStep DEF ClaimInv
<1> USE DEF partition, records, consumer, history, At, Fault
<1>1. ASSUME UNCHANGED <<record, abandoned>>,
             \A c \in Consumers, o \in Offsets : Holds(c, o) => Holds(c, o)'
      PROVE  ClaimInv'
  BY <1>t, <1>1, ClaimKept
<1>2. ASSUME NEW c \in Consumers,
             Receive(c) \/ Commit(c) \/ Rebalance(c) \/ FindRecord(c) \/ BeginFails(c)
               \/ PublishDeadLetter(c) \/ PublishDeadLetterFails(c)
      PROVE  ClaimInv'
  <2>1. pc[c] \notin Holding /\ UNCHANGED <<record, abandoned>>
    BY <1>2 DEF Receive, Commit, Rebalance, FindRecord, BeginFails, PublishDeadLetter,
                PublishDeadLetterFails, Holding
  <2>2. \A d \in Consumers \ {c} : pc'[d] = pc[d] /\ offset'[d] = offset[d]
    BY <1>2, <1>t DEF Receive, Commit, Rebalance, FindRecord, BeginFails, PublishDeadLetter,
                      PublishDeadLetterFails, Return, Redeliver, EndMessage, Goto, TypeOK
  <2> QED
    BY <1>1, <2>1, <2>2 DEF Holds
<1>3. ASSUME NEW c \in Consumers, HandlerSucceeds(c) \/ HandlerThrows(c) PROVE ClaimInv'
  <2>1. /\ UNCHANGED <<record, abandoned, offset>>
        /\ pc' = [pc EXCEPT ![c] = "markProcessed"] \/ pc' = [pc EXCEPT ![c] = "markFailed"]
    BY <1>3 DEF HandlerSucceeds, HandlerThrows, Goto
  <2> QED
    BY <1>t, <1>1, <2>1 DEF Holds, Holding, TypeOK
<1>4. ASSUME NEW c \in Consumers, Claim(c) \/ ClaimUnanswered(c) PROVE ClaimInv'
  <2>1. /\ pc[c] = "claim" /\ abandoned \subseteq abandoned'
        /\ record' = [record EXCEPT ![offset[c]] = "processing"]
        /\ \/ Goto(c, "handle")
           \/ Goto(c, "deadLetter") /\ offset[c] \in abandoned'
    BY <1>4 DEF Claim, ClaimUnanswered, Write
  <2>2. /\ \A d \in Consumers \ {c} : pc'[d] = pc[d] /\ offset'[d] = offset[d]
        /\ offset'[c] = offset[c]
        /\ pc'[c] = "handle" \/ offset[c] \in abandoned'
    BY <1>t, <2>1, OthersInPlace DEF Goto
  <2>3. \A d \in Consumers, o \in Offsets : Holds(d, o) => Holds(d, o)'
    BY <2>1, <2>2 DEF Holds, Holding
  <2>4. \A o \in Offsets : o = offset[c] => o \in abandoned' \/ Holds(c, o)'
    BY <2>2 DEF Holds, Holding
  <2>5. \A o \in Offsets : o # offset[c] => record'[o] = record[o]
    BY <1>t, <2>1 DEF TypeOK
  <2>6. ASSUME NEW o \in Offsets, record'[o] = "processing"
        PROVE  \/ o \in abandoned' \/ \E d \in Consumers : Holds(d, o)'
               \/ /\ record[o] = "processing"
                  /\ \A d \in Consumers : Holds(d, o) => Holds(d, o)'
    <3>1. CASE o = offset[c]
      BY <2>4, <3>1
    <3>2. CASE o # offset[c]
      <4>1. record[o] = "processing"
        BY <2>5, <2>6, <3>2
      <4>2. \A d \in Consumers : Holds(d, o) => Holds(d, o)'
        BY <2>3
      <4> QED
        BY <4>1, <4>2
    <3> QED
      BY <3>1, <3>2
  <2>7. abandoned \subseteq abandoned'
    BY <2>1
  <2> QED
    BY <1>t, <2>6, <2>7, ClaimKept
<1>5. ASSUME NEW c \in Consumers,
             MarkProcessed(c) \/ MarkFailed(c) \/ MarkProcessedFails(c) \/ MarkFailedFails(c)
      PROVE  ClaimInv'
  <2>1. /\ abandoned \subseteq abandoned' /\ pc[c] \in Holding
        /\ \/ Write(offset[c], "processed") \/ Write(offset[c], "failed")
           \/ record' = record /\ (offset[c] \in abandoned' \/ Goto(c, "markFailed"))
    BY <1>5 DEF MarkProcessed, MarkFailed, MarkProcessedFails, MarkFailedFails, Holding
  <2>2. \A d \in Consumers \ {c} : pc'[d] = pc[d] /\ offset'[d] = offset[d]
    BY <1>5, <1>t DEF MarkProcessed, MarkFailed, MarkProcessedFails, MarkFailedFails,
                      Return, Redeliver, EndMessage, Goto, TypeOK
  <2>3. \A d \in Consumers, o \in Offsets : Holds(d, o) => Holds(d, o)' \/ (d = c /\ o = offset[c])
    BY <2>2 DEF Holds
  <2>4. \A o \in Offsets : record'[o] = "processing" =>
          /\ record[o] = "processing"
          /\ o = offset[c] => o \in abandoned' \/ Goto(c, "markFailed")
    BY <1>t, <2>1, OffsetInHand DEF Write, TypeOK, Holding
  <2>5. Goto(c, "markFailed") => \A o \in Offsets : Holds(c, o) => Holds(c, o)'
    BY <1>t DEF Goto, Holds, Holding, TypeOK
  <2> QED
    BY <1>t, <2>1, <2>3, <2>4, <2>5, ClaimKept
<1>6. ASSUME NEW c \in Consumers, Crash(c) PROVE ClaimInv'
  <2>1. /\ EndMessage(c, 0) /\ record' = record /\ abandoned \subseteq abandoned'
        /\ pc[c] \in Holding => offset[c] \in abandoned'
    BY <1>6 DEF Crash
  <2>2. \A d \in Consumers, o \in Offsets : Holds(d, o) => Holds(d, o)' \/ o \in abandoned'
    BY <1>t, <2>1, OthersInPlace DEF Holds
  <2> QED
    BY <1>t, <2>1, <2>2, ClaimKept
<1>7. CASE (\E o \in Offsets : GrowStale(o)) \/ UNCHANGED vars
  BY <1>1, <1>7 DEF GrowStale, vars, Holds
<1> QED
  BY <1>2, <1>3, <1>4, <1>5, <1>6, <1>7 DEF Next, ConsumerStep, FailureStep

\* Whatever is redelivered, taken over, reported or lost, an event that was
\* passed over without its handler having succeeded is reported, recorded as
\* failed, or recorded as processing by a consumer at work or by a claim that
\* was left behind.
THEOREM PassedOverIsTraced == Spec => []PassedOverLeavesTrace
<1>1. Init => ClaimInv
  BY ConsumerTypeInit DEF Init, ClaimInv
<1>2. TraceInv /\ ClaimInv => PassedOverLeavesTrace
  BY DEF TraceInv, ClaimInv, PassedOverLeavesTrace, PassedOver, Trace, Sound
<1> QED
  BY <1>1, <1>2, TraceInit, TraceStep, ClaimStep, PTL DEF Spec

-----------------------------------------------------------------------------
(* Once, and for good.  Of an event that nothing disturbed, one delivery   *)
(* at most is past its claim, and while it is there the record says so and *)
(* the handler has not succeeded before it.  Without that the bound on     *)
(* `handled` does not carry over to the next delivery.                     *)

OnceInv ==
  /\ TypeOK
  /\ \A c \in Consumers : pc[c] = "claim" => seen[c] # "processed"
  /\ \A o \in Offsets \ disturbed :
       /\ handled[o] <= 1
       /\ \A c, d \in Consumers : Holds(c, o) /\ Holds(d, o) => c = d
       /\ \A c \in Consumers : Holds(c, o) =>
            record[o] = "processing" /\ (pc[c] # "markProcessed" => handled[o] = 0)
       /\ (handled[o] > 0 /\ \A c \in Consumers : ~Holds(c, o)) => record[o] = "processed"

LEMMA OnceInit == Init => OnceInv
<1> SUFFICES ASSUME Init PROVE OnceInv
  OBVIOUS
<1>1. TypeOK
  BY ConsumerTypeInit
<1> QED
  BY <1>1 DEF Init, OnceInv, Holds, Holding

\* A step that writes neither records nor histories and gives nobody a claim
\* leaves every event as it was, if whoever drops a claim had not succeeded.
LEMMA OnceKept ==
  ASSUME OnceInv, TypeOK', UNCHANGED <<record, handled>>, disturbed \subseteq disturbed',
         \A c \in Consumers : pc'[c] = "claim" => seen'[c] # "processed",
         \A c \in Consumers, o \in Offsets \ disturbed' :
           /\ Holds(c, o)' => Holds(c, o) /\ (pc'[c] = "markProcessed" \/ pc[c] # "markProcessed")
           /\ Holds(c, o) => Holds(c, o)' \/ pc[c] # "markProcessed"
  PROVE  OnceInv'
<1>1. ASSUME NEW o \in Offsets \ disturbed' PROVE
        /\ handled'[o] <= 1
        /\ \A c, d \in Consumers : Holds(c, o)' /\ Holds(d, o)' => c = d
        /\ \A c \in Consumers : Holds(c, o)' =>
             record'[o] = "processing" /\ (pc'[c] # "markProcessed" => handled'[o] = 0)
        /\ (handled'[o] > 0 /\ \A c \in Consumers : ~Holds(c, o)') => record'[o] = "processed"
  <2>1. o \in Offsets \ disturbed
    OBVIOUS
  <2>2. (handled[o] > 0 /\ \A c \in Consumers : ~Holds(c, o)') => \A c \in Consumers : ~Holds(c, o)
    BY <2>1 DEF OnceInv, TypeOK
  <2> QED
    BY <2>1, <2>2 DEF OnceInv
<1> QED
  BY <1>1 DEF OnceInv

LEMMA OnceStep == OnceInv /\ [Next]_vars => OnceInv'
<1> SUFFICES ASSUME OnceInv, [Next]_vars PROVE OnceInv'
  OBVIOUS
<1>t. TypeOK /\ TypeOK'
  BY ConsumerTypeStep DEF OnceInv
<1> USE DEF partition, records, consumer, history, At, Fault
<1>1. ASSUME NEW c \in Consumers, Receive(c) PROVE OnceInv'
  <2>1. pc[c] = "idle" /\ UNCHANGED <<record, handled, disturbed, seen>>
    BY <1>1 DEF Receive
  <2>2. pc'[c] \notin Holding \cup {"claim"}
    BY <1>1, <1>t DEF Receive, FirstStep, Holding, TypeOK
  <2>3. \A d \in Consumers \ {c} : pc'[d] = pc[d] /\ offset'[d] = offset[d]
    BY <1>1, <1>t DEF Receive, TypeOK
  <2> QED
    BY <1>t, <2>1, <2>2, <2>3, OnceKept DEF OnceInv, Holds, Holding
<1>2. ASSUME NEW c \in Consumers, Commit(c) \/ Rebalance(c) PROVE OnceInv'
  BY <1>2, <1>t, OnceKept DEF Commit, Rebalance, OnceInv, Holds
<1>3. ASSUME NEW c \in Consumers, FindRecord(c) PROVE OnceInv'
  <2>1. pc[c] = "find" /\ UNCHANGED <<record, handled, disturbed>>
    BY <1>3 DEF FindRecord
  <2>2. CASE Skipped(offset[c])
    <3>1. EndMessage(c, offset[c])
      BY <1>3, <2>2 DEF FindRecord, Return
    <3>2. \A d \in Consumers \ {c} : seen'[d] = seen[d]
      BY <1>t, <3>1 DEF EndMessage, TypeOK
    <3> QED
      BY <1>t, <2>1, <3>1, <3>2, OthersInPlace, OnceKept DEF OnceInv, Holds, Holding
  <2>3. CASE ~Skipped(offset[c])
    <3>1. Goto(c, "claim") /\ seen' = [seen EXCEPT ![c] = record[offset[c]]]
      BY <1>3, <2>3 DEF FindRecord
    <3>2. seen'[c] # "processed" /\ \A d \in Consumers \ {c} : seen'[d] = seen[d]
      BY <1>t, <2>3, <3>1 DEF Skipped, TypeOK
    <3> QED
      BY <1>t, <2>1, <3>1, <3>2, OthersInPlace, OnceKept DEF OnceInv, Holds, Holding
  <2> QED
    BY <2>2, <2>3
<1>4. ASSUME NEW c \in Consumers, Claim(c) \/ ClaimUnanswered(c) PROVE OnceInv'
  <2> DEFINE p == offset[c]
  <2>1. /\ pc[c] = "claim" /\ UNCHANGED <<handled, seen>>
        /\ Goto(c, "handle") \/ Goto(c, "deadLetter")
        /\ record' = [record EXCEPT ![p] = "processing"]
        /\ disturbed \subseteq disturbed'
        /\ p \notin disturbed' =>
             record[p] = seen[c] /\ \A d \in Consumers \ {c} : ~Holds(d, p)
    BY <1>4 DEF Claim, ClaimUnanswered, DisturbedByClaim, Write
  <2>2. p \in Offsets
    BY <1>t, <2>1, OffsetInHand
  <2>3. /\ \A d \in Consumers \ {c} : pc'[d] = pc[d] /\ offset'[d] = offset[d]
        /\ pc'[c] \in {"handle", "deadLetter"} /\ offset'[c] = p
    BY <1>t, <2>1, OthersInPlace
  <2> HIDE DEF p
  <2>4. \A d \in Consumers, o \in Offsets :
          Holds(d, o)' => (d # c /\ Holds(d, o)) \/ (d = c /\ o = p)
    BY <2>3 DEF Holds, Holding
  <2>8. \A d \in Consumers, o \in Offsets : Holds(d, o) => Holds(d, o)'
    BY <2>1, <2>3 DEF Holds, Holding
  <2>5. p \notin disturbed' => handled[p] = 0 /\ \A d \in Consumers : ~Holds(d, p)
    <3> SUFFICES ASSUME p \notin disturbed'
                 PROVE  handled[p] = 0 /\ \A d \in Consumers : ~Holds(d, p)
      OBVIOUS
    <3>1. record[p] # "processed" /\ p \in Offsets \ disturbed
      BY <2>1, <2>2 DEF OnceInv
    <3>2. \A d \in Consumers : ~Holds(d, p)
      BY <2>1 DEF Holds, Holding
    <3> QED
      BY <1>t, <3>1, <3>2 DEF OnceInv, TypeOK
  <2>6. ASSUME NEW o \in Offsets \ disturbed' PROVE
          /\ handled'[o] <= 1
          /\ \A e, d \in Consumers : Holds(e, o)' /\ Holds(d, o)' => e = d
          /\ \A d \in Consumers : Holds(d, o)' =>
               record'[o] = "processing" /\ (pc'[d] # "markProcessed" => handled'[o] = 0)
          /\ (handled'[o] > 0 /\ \A d \in Consumers : ~Holds(d, o)') => record'[o] = "processed"
    <3>1. o \in Offsets \ disturbed
      BY <2>1
    <3>2. CASE o = p
      BY <1>t, <2>1, <2>2, <2>4, <2>5, <3>2 DEF TypeOK
    <3>3. CASE o # p
      <4>1. record'[o] = record[o]
        BY <1>t, <2>1, <3>1, <3>3 DEF TypeOK
      <4>2. \A d \in Consumers : Holds(d, o)' => Holds(d, o) /\ pc'[d] = pc[d]
        BY <2>3, <2>4, <3>3
      <4>3. (\A d \in Consumers : ~Holds(d, o)') => \A d \in Consumers : ~Holds(d, o)
        BY <2>8
      <4> QED
        BY <2>1, <3>1, <4>1, <4>2, <4>3 DEF OnceInv
    <3> QED
      BY <3>2, <3>3
  <2>7. \A d \in Consumers : pc'[d] = "claim" => seen'[d] # "processed"
    BY <2>1, <2>3 DEF OnceInv
  <2> QED
    BY <1>t, <2>6, <2>7 DEF OnceInv
<1>5. ASSUME NEW c \in Consumers, BeginFails(c) \/ (MarkFailedFails(c) /\ record' = record)
      PROVE  OnceInv'
  <2>1. /\ pc[c] \in {"find", "claim", "markFailed"} /\ Goto(c, "deadLetter")
        /\ UNCHANGED <<record, handled, disturbed, seen>>
    BY <1>5 DEF BeginFails, MarkFailedFails
  <2> QED
    BY <1>t, <2>1, OthersInPlace, OnceKept DEF OnceInv, Holds, Holding
<1>6. ASSUME NEW c \in Consumers, HandlerSucceeds(c) PROVE OnceInv'
  <2> DEFINE p == offset[c]
  <2>1. /\ pc[c] = "handle" /\ Goto(c, "markProcessed")
        /\ handled' = [handled EXCEPT ![p] = @ + 1]
        /\ UNCHANGED <<record, disturbed, seen>>
    BY <1>6 DEF HandlerSucceeds
  <2>2. p \in Offsets
    BY <1>t, <2>1, OffsetInHand
  <2>3. /\ \A d \in Consumers \ {c} : pc'[d] = pc[d] /\ offset'[d] = offset[d]
        /\ pc'[c] = "markProcessed" /\ offset'[c] = p
    BY <1>t, <2>1, OthersInPlace
  <2>4. Holds(c, p)
    BY <2>1 DEF Holds, Holding
  <2> HIDE DEF p
  <2>5. \A d \in Consumers, o \in Offsets : Holds(d, o)' <=> Holds(d, o)
    BY <2>3, <2>4 DEF Holds, Holding
  <2>6. ASSUME NEW o \in Offsets \ disturbed' PROVE
          /\ handled'[o] <= 1
          /\ \A e, d \in Consumers : Holds(e, o)' /\ Holds(d, o)' => e = d
          /\ \A d \in Consumers : Holds(d, o)' =>
               record'[o] = "processing" /\ (pc'[d] # "markProcessed" => handled'[o] = 0)
          /\ (handled'[o] > 0 /\ \A d \in Consumers : ~Holds(d, o)') => record'[o] = "processed"
    <3>1. o \in Offsets \ disturbed
      BY <2>1
    <3>2. CASE o = p
      <4>1. handled[p] = 0
        BY <2>1, <2>4, <3>1, <3>2 DEF OnceInv
      <4>2. handled'[p] = 1
        BY <1>t, <2>1, <2>2, <4>1 DEF TypeOK
      <4>3. \A d \in Consumers : Holds(d, p) => d = c
        BY <2>4, <3>1, <3>2 DEF OnceInv
      <4> QED
        BY <2>1, <2>3, <2>4, <2>5, <3>1, <3>2, <4>2, <4>3 DEF OnceInv
    <3>3. CASE o # p
      <4>1. handled'[o] = handled[o]
        BY <1>t, <2>1, <3>1, <3>3 DEF TypeOK
      <4>2. \A d \in Consumers : Holds(d, o) => pc'[d] = pc[d]
        BY <2>3, <2>4, <3>3 DEF Holds
      <4> QED
        BY <2>1, <2>5, <3>1, <4>1, <4>2 DEF OnceInv
    <3> QED
      BY <3>2, <3>3
  <2>7. \A d \in Consumers : pc'[d] = "claim" => seen'[d] # "processed"
    BY <2>1, <2>3 DEF OnceInv
  <2> QED
    BY <1>t, <2>6, <2>7 DEF OnceInv
<1>7. ASSUME NEW c \in Consumers, HandlerThrows(c) PROVE OnceInv'
  <2>1. /\ pc[c] = "handle" /\ Goto(c, "markFailed")
        /\ UNCHANGED <<record, handled, disturbed, seen>>
    BY <1>7 DEF HandlerThrows
  <2> QED
    BY <1>t, <2>1, OthersInPlace, OnceKept DEF OnceInv, Holds, Holding
<1>8. ASSUME NEW c \in Consumers, MarkProcessedFails(c) PROVE OnceInv'
  <2>1. /\ pc[c] = "markProcessed" /\ Goto(c, "markFailed")
        /\ \/ record' = record
           \/ record' = [record EXCEPT ![offset[c]] = "processed"]
        /\ UNCHANGED <<handled, seen>>
        /\ disturbed' = disturbed \cup {offset[c]}
    BY <1>8 DEF MarkProcessedFails, Write
  <2>2. \A o \in Offsets \ disturbed' : o # offset[c] /\ record'[o] = record[o]
    BY <1>t, <2>1 DEF TypeOK
  <2>3. /\ \A d \in Consumers \ {c} : pc'[d] = pc[d] /\ offset'[d] = offset[d]
        /\ pc'[c] = "markFailed" /\ offset'[c] = offset[c]
    BY <1>t, <2>1, OthersInPlace
  <2>4. \A d \in Consumers, o \in Offsets \ disturbed' :
          Holds(d, o)' <=> Holds(d, o) /\ d # c
    BY <2>2, <2>3 DEF Holds
  <2>5. \A d \in Consumers, o \in Offsets \ disturbed' : Holds(d, o) => d # c
    BY <2>2 DEF Holds
  <2> QED
    BY <1>t, <2>1, <2>2, <2>3, <2>4, <2>5 DEF OnceInv
<1>9. ASSUME NEW c \in Consumers,
             \/ MarkProcessed(c) \/ MarkFailed(c)
             \/ MarkFailedFails(c) /\ Write(offset[c], "failed")
      PROVE  OnceInv'
  <2> DEFINE p == offset[c]
  <2>1. /\ pc[c] \in {"markProcessed", "markFailed"} /\ UNCHANGED <<handled, disturbed>>
        /\ record' = [record EXCEPT ![p] = IF pc[c] = "markProcessed" THEN "processed" ELSE "failed"]
    BY <1>9 DEF MarkProcessed, MarkFailed, MarkFailedFails, Write
  <2>2. p \in Offsets /\ Holds(c, p)
    BY <1>t, <2>1, OffsetInHand DEF Holds, Holding
  <2>3. /\ \A d \in Consumers \ {c} :
             pc'[d] = pc[d] /\ offset'[d] = offset[d] /\ seen'[d] = seen[d]
        /\ pc'[c] \in {"idle", "deadLetter"}
    BY <1>9, <1>t DEF MarkProcessed, MarkFailed, MarkFailedFails, Return, Redeliver,
                      EndMessage, Goto, TypeOK
  <2> HIDE DEF p
  <2>4. \A d \in Consumers, o \in Offsets : Holds(d, o)' <=> d # c /\ Holds(d, o)
    BY <2>3 DEF Holds, Holding
  <2>5. ASSUME NEW o \in Offsets \ disturbed' PROVE
          /\ handled'[o] <= 1
          /\ \A e, d \in Consumers : Holds(e, o)' /\ Holds(d, o)' => e = d
          /\ \A d \in Consumers : Holds(d, o)' =>
               record'[o] = "processing" /\ (pc'[d] # "markProcessed" => handled'[o] = 0)
          /\ (handled'[o] > 0 /\ \A d \in Consumers : ~Holds(d, o)') => record'[o] = "processed"
    <3>1. o \in Offsets \ disturbed
      BY <2>1
    <3>2. CASE o = p
      <4>1. \A d \in Consumers : ~Holds(d, o)'
        BY <2>2, <2>4, <3>1, <3>2 DEF OnceInv
      <4>2. pc[c] # "markProcessed" => handled[p] = 0
        BY <2>2, <3>1, <3>2 DEF OnceInv
      <4>3. pc[c] = "markProcessed" => record'[p] = "processed"
        BY <1>t, <2>1, <2>2 DEF TypeOK
      <4> QED
        BY <2>1, <3>1, <3>2, <4>1, <4>2, <4>3 DEF OnceInv
    <3>3. CASE o # p
      <4>1. record'[o] = record[o]
        BY <1>t, <2>1, <3>1, <3>3 DEF TypeOK
      <4>2. \A d \in Consumers : Holds(d, o)' => Holds(d, o) /\ pc'[d] = pc[d]
        BY <2>3, <2>4
      <4>3. (\A d \in Consumers : ~Holds(d, o)') => \A d \in Consumers : ~Holds(d, o)
        BY <2>2, <2>4, <3>3 DEF Holds
      <4> QED
        BY <2>1, <3>1, <4>1, <4>2, <4>3 DEF OnceInv
    <3> QED
      BY <3>2, <3>3
  <2>6. \A d \in Consumers : pc'[d] = "claim" => seen'[d] # "processed"
    BY <2>3 DEF OnceInv
  <2> QED
    BY <1>t, <2>5, <2>6 DEF OnceInv
<1>10. ASSUME NEW c \in Consumers, PublishDeadLetter(c) \/ PublishDeadLetterFails(c)
       PROVE  OnceInv'
  <2>1. /\ pc[c] = "deadLetter" /\ UNCHANGED <<record, handled, disturbed>>
        /\ \E resolved : EndMessage(c, resolved)
    BY <1>10 DEF PublishDeadLetter, PublishDeadLetterFails, Return, Redeliver
  <2>2. pc'[c] = "idle" /\ \A d \in Consumers \ {c} :
          pc'[d] = pc[d] /\ offset'[d] = offset[d] /\ seen'[d] = seen[d]
    BY <1>t, <2>1 DEF EndMessage, TypeOK
  <2> QED
    BY <1>t, <2>1, <2>2, OnceKept DEF OnceInv, Holds, Holding
<1>11. ASSUME NEW c \in Consumers, Crash(c) PROVE OnceInv'
  <2>1. /\ EndMessage(c, 0) /\ UNCHANGED <<record, handled>>
        /\ disturbed \subseteq disturbed'
        /\ pc[c] = "markProcessed" => offset[c] \in disturbed'
    BY <1>11 DEF Crash
  <2>2. pc'[c] = "idle" /\ \A d \in Consumers \ {c} :
          pc'[d] = pc[d] /\ offset'[d] = offset[d] /\ seen'[d] = seen[d]
    BY <1>t, <2>1 DEF EndMessage, TypeOK
  <2> QED
    BY <1>t, <2>1, <2>2, OnceKept DEF OnceInv, Holds, Holding
<1>12. ASSUME NEW o \in Offsets, GrowStale(o) PROVE OnceInv'
  BY <1>12, <1>t, OnceKept DEF GrowStale, OnceInv, Holds
<1>13. CASE UNCHANGED vars
  BY <1>13, <1>t, OnceKept DEF vars, OnceInv, Holds
<1>14. ASSUME NEW c \in Consumers, MarkFailedFails(c) PROVE OnceInv'
  BY <1>5, <1>9, <1>14 DEF MarkFailedFails
<1> QED
  BY <1>1, <1>2, <1>3, <1>4, <1>5, <1>6, <1>7, <1>8, <1>9, <1>10, <1>11, <1>12,
     <1>13, <1>14 DEF Next, ConsumerStep, FailureStep

LEMMA OnceInvariant == Spec => []OnceInv
BY OnceInit, OnceStep, PTL DEF Spec

\* However deliveries, rebalances, stale records and failures fall, the handler
\* of an event that nothing disturbed succeeds at most once.
THEOREM HandledOnce == Spec => []HandledOnceUnlessDisturbed
<1>1. OnceInv => HandledOnceUnlessDisturbed
  BY DEF OnceInv, HandledOnceUnlessDisturbed, Sound
<1> QED
  BY <1>1, OnceInvariant, PTL

\* A record that says processed is written over by nobody, unless the event
\* is disturbed: a claim rests on a record that said otherwise and still does,
\* and a failure is recorded by the one that holds the claim.
THEOREM ProcessedStaysProcessed == Spec => ProcessedIsFinal
<1>1. ASSUME OnceInv, Next, NEW o \in Offsets \ disturbed', record[o] = "processed"
      PROVE  record'[o] = "processed"
  <2>t. TypeOK
    BY <1>1 DEF OnceInv
  <2>1. CASE UNCHANGED record
    BY <1>1, <2>1
  <2>2. ASSUME NEW c \in Consumers, Claim(c) \/ ClaimUnanswered(c)
        PROVE  record'[o] = "processed"
    <3>1. /\ record' = [record EXCEPT ![offset[c]] = "processing"]
          /\ pc[c] = "claim"
          /\ offset[c] \notin disturbed' => record[offset[c]] = seen[c]
      BY <2>2 DEF Claim, ClaimUnanswered, DisturbedByClaim, Write, At
    <3> QED
      BY <1>1, <2>t, <3>1 DEF OnceInv, TypeOK
  <2>3. ASSUME NEW c \in Consumers, MarkProcessed(c) \/ MarkProcessedFails(c)
        PROVE  record'[o] = "processed"
    BY <1>1, <2>t, <2>3 DEF MarkProcessed, MarkProcessedFails, Write, records, TypeOK
  <2>4. ASSUME NEW c \in Consumers,
               MarkFailed(c) \/ (MarkFailedFails(c) /\ Write(offset[c], "failed"))
        PROVE  record'[o] = "processed"
    <3>1. /\ pc[c] = "markFailed" /\ disturbed' = disturbed
          /\ record' = [record EXCEPT ![offset[c]] = "failed"]
      BY <2>4 DEF MarkFailed, MarkFailedFails, Write, At, history
    <3>2. offset[c] # o
      BY <1>1, <3>1 DEF OnceInv, Holds, Holding
    <3> QED
      BY <1>1, <2>t, <3>1, <3>2 DEF TypeOK
  <2> QED
    BY <1>1, <2>1, <2>2, <2>3, <2>4
       DEF Next, ConsumerStep, FailureStep, Receive, Commit, FindRecord, HandlerSucceeds,
           PublishDeadLetter, BeginFails, HandlerThrows, MarkFailedFails,
           PublishDeadLetterFails, Crash, Rebalance, GrowStale, records
<1>2. OnceInv /\ [Next]_vars =>
        [\A o \in Offsets \ disturbed' :
           record[o] = "processed" => record'[o] = "processed"]_vars
  BY <1>1
<1> QED
  BY <1>2, OnceInvariant, PTL DEF ProcessedIsFinal, Spec

=============================================================================
