----------------------- MODULE OutboxPublisherProofs -----------------------
(***************************************************************************)
(* Proofs about the outbox publisher, for any rows, any number of ticks    *)
(* that overlap in any way, any limit of attempts and any failures: what   *)
(* a settled row says is true, the publisher implements at-least-once      *)
(* delivery as EventDelivery states it, and every duplicate in Kafka has a *)
(* cause of its own.                                                       *)
(***************************************************************************)
EXTENDS OutboxPublisher, FiniteSetTheorems, TLAPS

-----------------------------------------------------------------------------
(* Types.  A tick that works on a row has one.                             *)

TypeInv ==
  /\ TypeOK
  /\ \A t \in Ticks : pc[t] \in RowSteps => event[t] \in Events

LEMMA TypeInit == Init => TypeInv
BY OutboxAssumption DEF Init, TypeInv, TypeOK, PublishStatuses, RowSteps

LEMMA TypeStep == TypeInv /\ [Next]_vars => TypeInv'
<1> SUFFICES ASSUME TypeInv, [Next]_vars PROVE TypeInv'
  OBVIOUS
<1> USE DEF TypeInv, TypeOK, RowSteps, PublishStatuses, kafka, row, tick
<1> USE OutboxAssumption
<1>1. ASSUME NEW t \in Ticks, RecoverStaleLocks(t) PROVE TypeInv'
  BY <1>1 DEF RecoverStaleLocks, Goto, RecoveredStatus
<1>2. ASSUME NEW t \in Ticks, FindPendingForPublish(t) PROVE TypeInv'
  BY <1>2 DEF FindPendingForPublish, Goto
<1>3. ASSUME NEW t \in Ticks, NEW e \in Events, MarkPublishing(t, e) PROVE TypeInv'
  BY <1>3 DEF MarkPublishing
<1>4. ASSUME NEW t \in Ticks, BatchDone(t) PROVE TypeInv'
  BY <1>4 DEF BatchDone, EndTick
<1>5. ASSUME NEW t \in Ticks, Publish(t) PROVE TypeInv'
  BY <1>5 DEF Publish, Goto
<1>6. ASSUME NEW t \in Ticks, PublishInvalid(t) \/ GiveUp(t) PROVE TypeInv'
  BY <1>6 DEF PublishInvalid, GiveUp, Goto
<1>7. ASSUME NEW t \in Ticks, PublishFails(t) PROVE TypeInv'
  BY <1>7 DEF PublishFails, Goto, Fault
<1>8. ASSUME NEW t \in Ticks, MarkPublished(t) PROVE TypeInv'
  BY <1>8 DEF MarkPublished, NextRow
<1>9. ASSUME NEW t \in Ticks, MarkPublishedFails(t) \/ MarkPublishedUnanswered(t) PROVE TypeInv'
  BY <1>9 DEF MarkPublishedFails, MarkPublishedUnanswered, Goto, Fault
<1>10. ASSUME NEW t \in Ticks, MarkFailed(t) PROVE TypeInv'
  BY <1>10 DEF MarkFailed, NextRow
<1>11. ASSUME NEW t \in Ticks, PublishDeadLetter(t) PROVE TypeInv'
  BY <1>11 DEF PublishDeadLetter, Goto
<1>12. ASSUME NEW t \in Ticks, MarkDeadLettered(t) PROVE TypeInv'
  BY <1>12 DEF MarkDeadLettered, NextRow
<1>13. ASSUME NEW t \in Ticks, Fail(t) PROVE TypeInv'
  BY <1>13 DEF Fail, EndTick, Fault
<1>14. ASSUME NEW e \in Events, BecomeDue(e) PROVE TypeInv'
  BY <1>14 DEF BecomeDue
<1>15. CASE UNCHANGED vars
  BY <1>15 DEF vars
<1> QED
  BY <1>1, <1>2, <1>3, <1>4, <1>5, <1>6, <1>7, <1>8, <1>9, <1>10, <1>11,
     <1>12, <1>13, <1>14, <1>15 DEF Next, TickStep, FailureStep

\* Whatever ticks do, the rows, the topics and the ticks keep their types.
THEOREM TypeCorrectness == Spec => []TypeOK
<1>1. TypeInv => TypeOK
  BY DEF TypeInv
<1> QED
  BY TypeInit, TypeStep, <1>1, PTL DEF Spec

-----------------------------------------------------------------------------
(* A tick that is about to mark a row as settled has handed its event over *)
(* before, and what was handed over stays so.  That is all it takes, for   *)
(* the row may have been taken up by other ticks in the meantime.          *)

HandoverInv ==
  /\ TypeInv
  /\ SettledRowsWereHandedOver
  /\ \A t \in Ticks :
       /\ pc[t] = "markPublished" => topic[event[t]] > 0
       /\ pc[t] = "markDeadLettered" => event[t] \in deadLetters

LEMMA HandoverStep == HandoverInv /\ [Next]_vars => HandoverInv'
<1> SUFFICES ASSUME HandoverInv, [Next]_vars PROVE HandoverInv'
  OBVIOUS
<1>0. TypeInv'
  BY TypeStep DEF HandoverInv
<1> USE <1>0 DEF HandoverInv, TypeInv, TypeOK, RowSteps, SettledRowsWereHandedOver,
                 kafka, row, tick
<1>1. ASSUME NEW t \in Ticks, RecoverStaleLocks(t) PROVE HandoverInv'
  BY <1>1 DEF RecoverStaleLocks, Goto, RecoveredStatus
<1>2. ASSUME NEW t \in Ticks, FindPendingForPublish(t) PROVE HandoverInv'
  BY <1>2 DEF FindPendingForPublish, Goto
<1>3. ASSUME NEW t \in Ticks, NEW e \in Events, MarkPublishing(t, e)
      PROVE  HandoverInv'
  BY <1>3 DEF MarkPublishing
<1>4. ASSUME NEW t \in Ticks, BatchDone(t) PROVE HandoverInv'
  BY <1>4 DEF BatchDone, EndTick
<1>5. ASSUME NEW t \in Ticks, Publish(t) PROVE HandoverInv'
  BY <1>5 DEF Publish, Goto
<1>6. ASSUME NEW t \in Ticks, PublishInvalid(t) \/ GiveUp(t) PROVE HandoverInv'
  BY <1>6 DEF PublishInvalid, GiveUp, Goto
<1>7. ASSUME NEW t \in Ticks, PublishFails(t) PROVE HandoverInv'
  BY <1>7 DEF PublishFails, Goto
<1>8. ASSUME NEW t \in Ticks, MarkPublished(t) PROVE HandoverInv'
  BY <1>8 DEF MarkPublished, NextRow
<1>9. ASSUME NEW t \in Ticks, MarkPublishedFails(t) \/ MarkPublishedUnanswered(t)
      PROVE  HandoverInv'
  BY <1>9 DEF MarkPublishedFails, MarkPublishedUnanswered, Goto
<1>10. ASSUME NEW t \in Ticks, MarkFailed(t) PROVE HandoverInv'
  BY <1>10 DEF MarkFailed, NextRow
<1>11. ASSUME NEW t \in Ticks, PublishDeadLetter(t) PROVE HandoverInv'
  BY <1>11 DEF PublishDeadLetter, Goto
<1>12. ASSUME NEW t \in Ticks, MarkDeadLettered(t) PROVE HandoverInv'
  BY <1>12 DEF MarkDeadLettered, NextRow
<1>13. ASSUME NEW t \in Ticks, Fail(t) PROVE HandoverInv'
  BY <1>13 DEF Fail, EndTick
<1>14. ASSUME NEW e \in Events, BecomeDue(e) PROVE HandoverInv'
  BY <1>14 DEF BecomeDue
<1>15. CASE UNCHANGED vars
  BY <1>15 DEF vars
<1> QED
  BY <1>1, <1>2, <1>3, <1>4, <1>5, <1>6, <1>7, <1>8, <1>9, <1>10, <1>11,
     <1>12, <1>13, <1>14, <1>15 DEF Next, TickStep, FailureStep

LEMMA HandoverInit == Init => HandoverInv
BY TypeInit DEF Init, HandoverInv, SettledRowsWereHandedOver

LEMMA Handover == Spec => []HandoverInv
BY HandoverInit, HandoverStep, PTL DEF Spec

\* markPublished and markDeadLettered find the row by its eventId alone,
\* whoever has locked it since; what they write is true all the same.
THEOREM SettledRowsAreTrue == Spec => []SettledRowsWereHandedOver
<1>1. HandoverInv => SettledRowsWereHandedOver
  BY DEF HandoverInv
<1> QED
  BY Handover, <1>1, PTL

-----------------------------------------------------------------------------
(* Duplicates.  The right to send an event once more is a token.  A tick   *)
(* that locked the row holds it until it has sent the event; otherwise it  *)
(* lies with the row, if the row may be locked or its lock be recovered.   *)
(* Every copy in Kafka was paid with a token, and only a cause makes one.  *)

Holders(e) ==
  {t \in Ticks : event[t] = e /\ pc[t] \in RowSteps \ {"markPublished"}}

Free(e) ==
  Publishable(e) \/ (publishStatus[e] = "publishing" /\ ~OwnerAlive(e))

Spare(e) == IF Free(e) THEN 1 ELSE 0

Tokens(e) == topic[e] + Cardinality(Holders(e)) + Spare(e) <= 1 + causes[e]

TokenInv == TypeInv /\ \A e \in Events : Tokens(e)

LEMMA HoldersAreFinite ==
  ASSUME NEW e
  PROVE  IsFiniteSet(Holders(e)) /\ Cardinality(Holders(e)) \in Nat
<1>1. Holders(e) \subseteq Ticks
  BY DEF Holders
<1>2. IsFiniteSet(Holders(e))
  BY <1>1, FS_Subset, OutboxAssumption
<1> QED
  BY <1>2, FS_CardinalityType

\* Whoever holds it, a right that is neither used nor given away is kept.
LEMMA TokensKept ==
  ASSUME TypeInv, TypeInv', NEW e \in Events, Tokens(e),
         Holders(e)' = Holders(e),
         \/ topic'[e] = topic[e] /\ causes'[e] >= causes[e] /\ (Free(e)' => Free(e))
         \/ topic'[e] = topic[e] /\ causes'[e] = causes[e] + 1
         \/ topic'[e] = topic[e] + 1 /\ causes'[e] = causes[e] + 1 /\ (Free(e)' => Free(e))
  PROVE  Tokens(e)'
<1>1. Cardinality(Holders(e)) \in Nat
  BY HoldersAreFinite
<1>2. /\ topic[e] \in Nat /\ topic'[e] \in Nat
      /\ causes[e] \in Nat /\ causes'[e] \in Nat
  BY DEF TypeInv, TypeOK
<1> QED
  BY <1>1, <1>2 DEF Tokens, Spare

\* A tick takes the token that lay with the row, or pays for one with a cause.
LEMMA TokenTaken ==
  ASSUME TypeInv, TypeInv', NEW e \in Events, Tokens(e), NEW t \in Ticks \ Holders(e),
         Holders(e)' = Holders(e) \cup {t}, topic'[e] = topic[e],
         \/ causes'[e] = causes[e] /\ Free(e) /\ ~Free(e)'
         \/ causes'[e] = causes[e] + 1 /\ (Free(e)' => Free(e))
  PROVE  Tokens(e)'
<1>1. /\ Cardinality(Holders(e)) \in Nat
      /\ Cardinality(Holders(e)') = Cardinality(Holders(e)) + 1
  BY HoldersAreFinite, FS_AddElement
<1>2. topic[e] \in Nat /\ causes[e] \in Nat /\ causes'[e] \in Nat
  BY DEF TypeInv, TypeOK
<1> QED
  BY <1>1, <1>2 DEF Tokens, Spare

\* A tick uses its token for a copy, or leaves it with the row.
LEMMA TokenSpent ==
  ASSUME TypeInv, TypeInv', NEW e \in Events, Tokens(e), NEW t \in Holders(e),
         Holders(e)' = Holders(e) \ {t}, causes'[e] = causes[e],
         \/ topic'[e] = topic[e]
         \/ topic'[e] = topic[e] + 1 /\ (Free(e)' => Free(e))
  PROVE  Tokens(e)'
<1>1. /\ Cardinality(Holders(e)) \in Nat
      /\ Cardinality(Holders(e)') = Cardinality(Holders(e)) - 1
  BY HoldersAreFinite, FS_RemoveElement
<1>2. topic[e] \in Nat /\ topic'[e] \in Nat /\ causes[e] \in Nat
  BY DEF TypeInv, TypeOK
<1> QED
  BY <1>1, <1>2 DEF Tokens, Spare

\* Each action moves one tick; what that means for holders and free rows.
Works(t, e) == event[t] = e /\ pc[t] \in RowSteps
Holds(t, e) == event[t] = e /\ pc[t] \in RowSteps \ {"markPublished"}
OthersWait(t) == \A u \in Ticks \ {t} : pc'[u] = pc[u] /\ event'[u] = event[u]
RowKept(e) == publishStatus'[e] = publishStatus[e] /\ lockedBy'[e] = lockedBy[e]

LEMMA SameHolders ==
  ASSUME NEW e, NEW t \in Ticks, OthersWait(t), Holds(t, e)' <=> Holds(t, e)
  PROVE  Holders(e)' = Holders(e)
BY DEF Holders, OthersWait, Holds

LEMMA FewerHolders ==
  ASSUME NEW e, NEW t \in Ticks, OthersWait(t), Holds(t, e), ~Holds(t, e)'
  PROVE  t \in Holders(e) /\ Holders(e)' = Holders(e) \ {t}
BY DEF Holders, OthersWait, Holds

LEMMA MoreHolders ==
  ASSUME NEW e, NEW t \in Ticks, OthersWait(t), ~Holds(t, e), Holds(t, e)'
  PROVE  t \notin Holders(e) /\ Holders(e)' = Holders(e) \cup {t}
BY DEF Holders, OthersWait, Holds

LEMMA SameFree ==
  ASSUME NEW e, NEW t \in Ticks, OthersWait(t), RowKept(e), Works(t, e)' <=> Works(t, e)
  PROVE  Free(e)' <=> Free(e)
<1>1. OwnerAlive(e)' <=> OwnerAlive(e)
  BY DEF OwnerAlive, OthersWait, RowKept, Works
<1> QED
  BY <1>1 DEF Free, Publishable, RowKept

\* A step of a tick keeps the tokens of every event it has no part in.
LEMMA BystandersKeepTokens ==
  ASSUME TypeInv, TypeInv', NEW e \in Events, Tokens(e), NEW t \in Ticks,
         OthersWait(t), RowKept(e), ~Works(t, e), ~Works(t, e)',
         topic'[e] = topic[e], causes'[e] = causes[e]
  PROVE  Tokens(e)'
<1>1. Holders(e)' = Holders(e)
  BY SameHolders DEF Works, Holds
<1>2. Free(e)' <=> Free(e)
  BY SameFree
<1>3. causes'[e] >= causes[e]
  BY DEF TypeInv, TypeOK
<1> QED
  BY <1>1, <1>2, <1>3, TokensKept

\* So does a step on the row that neither sends nor locks nor unlocks.
LEMMA WorkersKeepTokens ==
  ASSUME TypeInv, TypeInv', NEW e \in Events, Tokens(e), NEW t \in Ticks,
         OthersWait(t), RowKept(e), Holds(t, e), Holds(t, e)',
         \/ topic'[e] = topic[e] /\ causes'[e] = causes[e]
         \/ topic'[e] = topic[e] + 1 /\ causes'[e] = causes[e] + 1
  PROVE  Tokens(e)'
<1>1. Holders(e)' = Holders(e)
  BY SameHolders
<1>2. Free(e)' <=> Free(e)
  BY SameFree DEF Works, Holds
<1>3. causes[e] >= causes[e]
  BY DEF TypeInv, TypeOK
<1> QED
  BY <1>1, <1>2, <1>3, TokensKept

LEMMA RecoveryPaysTokens ==
  ASSUME TypeInv, TypeInv', NEW e \in Events, Tokens(e), NEW t \in Ticks,
         RecoverStaleLocks(t)
  PROVE  Tokens(e)'
<1> USE DEF TypeInv, TypeOK, RowSteps
<1>1. PICK stale \in SUBSET {f \in Events : publishStatus[f] = "publishing"
                                            /\ lockedBy[f] # None} :
        /\ publishStatus' =
             [f \in Events |-> IF f \in stale THEN RecoveredStatus ELSE publishStatus[f]]
        /\ lockedBy' = [f \in Events |-> IF f \in stale THEN None ELSE lockedBy[f]]
        /\ causes' = [f \in Events |->
                        IF f \in stale /\ OwnerAlive(f) THEN causes[f] + 1 ELSE causes[f]]
  BY DEF RecoverStaleLocks
<1>2. OthersWait(t) /\ ~Works(t, e) /\ ~Works(t, e)' /\ topic'[e] = topic[e]
  BY DEF RecoverStaleLocks, Goto, OthersWait, Works, kafka
<1>3. Holders(e)' = Holders(e)
  BY <1>2, SameHolders DEF Works, Holds
<1>4. CASE e \in stale /\ OwnerAlive(e)
  <2>1. causes'[e] = causes[e] + 1
    BY <1>1, <1>4
  <2> QED
    BY <1>2, <1>3, <2>1, TokensKept
<1>5. CASE e \in stale /\ ~OwnerAlive(e)
  <2>1. Free(e) /\ causes'[e] >= causes[e]
    BY <1>1, <1>5 DEF Free
  <2> QED
    BY <1>2, <1>3, <2>1, TokensKept
<1>6. CASE e \notin stale
  <2>1. RowKept(e) /\ causes'[e] = causes[e]
    BY <1>1, <1>6 DEF RowKept
  <2> QED
    BY <1>2, <2>1, BystandersKeepTokens
<1> QED
  BY <1>4, <1>5, <1>6

LEMMA LockTakesToken ==
  ASSUME TypeInv, TypeInv', NEW e \in Events, Tokens(e), NEW t \in Ticks,
         NEW f \in Events, MarkPublishing(t, f)
  PROVE  Tokens(e)'
<1> USE DEF TypeInv, TypeOK, RowSteps, MarkPublishing, kafka
<1>1. OthersWait(t) /\ ~Works(t, e) /\ topic'[e] = topic[e] /\ causes'[e] = causes[e]
  BY DEF OthersWait, Works
<1>2. CASE e = f /\ Publishable(f)
  <2>1. t \notin Holders(e) /\ Holders(e)' = Holders(e) \cup {t}
    BY <1>1, <1>2, MoreHolders DEF Works, Holds
  <2>2. Free(e) /\ ~Free(e)'
    BY <1>2 DEF Free, Publishable, OwnerAlive
  <2> QED
    BY <1>1, <2>1, <2>2, TokenTaken
<1>3. CASE e # f \/ ~Publishable(f)
  <2>1. RowKept(e) /\ ~Works(t, e)'
    BY <1>3 DEF RowKept, Works
  <2> QED
    BY <1>1, <2>1, BystandersKeepTokens
<1> QED
  BY <1>2, <1>3

LEMMA SendSpendsToken ==
  ASSUME TypeInv, TypeInv', NEW e \in Events, Tokens(e), NEW t \in Ticks, Publish(t)
  PROVE  Tokens(e)'
<1> USE DEF TypeInv, TypeOK, RowSteps, Publish, Goto, kafka, row
<1>1. OthersWait(t) /\ RowKept(e) /\ causes'[e] = causes[e]
  BY DEF OthersWait, RowKept
<1>2. CASE event[t] = e
  <2>1. t \in Holders(e) /\ Holders(e)' = Holders(e) \ {t}
    BY <1>1, <1>2, FewerHolders DEF Holds
  <2>2. Free(e)' <=> Free(e)
    BY <1>1, <1>2, SameFree DEF Works
  <2>3. topic'[e] = topic[e] + 1
    BY <1>2
  <2> QED
    BY <1>1, <2>1, <2>2, <2>3, TokenSpent
<1>3. CASE event[t] # e
  BY <1>1, <1>3, BystandersKeepTokens DEF Works
<1> QED
  BY <1>2, <1>3

LEMMA ErrorKeepsToken ==
  ASSUME TypeInv, TypeInv', NEW e \in Events, Tokens(e), NEW t \in Ticks,
         PublishInvalid(t) \/ PublishFails(t) \/ GiveUp(t) \/ PublishDeadLetter(t)
  PROVE  Tokens(e)'
<1> USE DEF TypeInv, TypeOK, RowSteps, PublishInvalid, PublishFails, GiveUp,
            PublishDeadLetter, Goto, kafka, row
<1>1. OthersWait(t) /\ RowKept(e)
  BY DEF OthersWait, RowKept
<1>2. CASE event[t] = e
  <2>1. Holds(t, e) /\ Holds(t, e)'
    BY <1>2 DEF Holds
  <2>2. \/ topic'[e] = topic[e] /\ causes'[e] = causes[e]
        \/ topic'[e] = topic[e] + 1 /\ causes'[e] = causes[e] + 1
    BY <1>2
  <2> QED
    BY <1>1, <2>1, <2>2, WorkersKeepTokens
<1>3. CASE event[t] # e
  <2>1. topic'[e] = topic[e] /\ causes'[e] = causes[e] /\ ~Works(t, e) /\ ~Works(t, e)'
    BY <1>3 DEF Works
  <2> QED
    BY <1>1, <2>1, BystandersKeepTokens
<1> QED
  BY <1>2, <1>3

LEMMA PublishedNeedsNoToken ==
  ASSUME TypeInv, TypeInv', NEW e \in Events, Tokens(e), NEW t \in Ticks, MarkPublished(t)
  PROVE  Tokens(e)'
<1> USE DEF TypeInv, TypeOK, RowSteps, MarkPublished, NextRow, kafka
<1>1. /\ OthersWait(t) /\ topic'[e] = topic[e] /\ causes'[e] = causes[e]
      /\ causes'[e] >= causes[e]
  BY DEF OthersWait
<1>2. CASE event[t] = e
  <2>1. Holders(e)' = Holders(e)
    BY <1>1, SameHolders DEF Holds
  <2>2. ~Free(e)'
    BY <1>2 DEF Free, Publishable
  <2> QED
    BY <1>1, <2>1, <2>2, TokensKept
<1>3. CASE event[t] # e
  <2>1. RowKept(e) /\ ~Works(t, e) /\ ~Works(t, e)'
    BY <1>3 DEF RowKept, Works
  <2> QED
    BY <1>1, <2>1, BystandersKeepTokens
<1> QED
  BY <1>2, <1>3

LEMMA FailedMarkPaysToken ==
  ASSUME TypeInv, TypeInv', NEW e \in Events, Tokens(e), NEW t \in Ticks,
         MarkPublishedFails(t)
  PROVE  Tokens(e)'
<1> USE DEF TypeInv, TypeOK, RowSteps, MarkPublishedFails, Goto, kafka, row
<1>1. OthersWait(t) /\ RowKept(e) /\ topic'[e] = topic[e]
  BY DEF OthersWait, RowKept
<1>2. CASE event[t] = e
  <2>1. t \notin Holders(e) /\ Holders(e)' = Holders(e) \cup {t}
    BY <1>1, <1>2, MoreHolders DEF Holds
  <2>2. Free(e)' <=> Free(e)
    BY <1>1, <1>2, SameFree DEF Works
  <2>3. causes'[e] = causes[e] + 1
    BY <1>2
  <2> QED
    BY <1>1, <2>1, <2>2, <2>3, TokenTaken
<1>3. CASE event[t] # e
  <2>1. causes'[e] = causes[e] /\ ~Works(t, e) /\ ~Works(t, e)'
    BY <1>3 DEF Works
  <2> QED
    BY <1>1, <2>1, BystandersKeepTokens
<1> QED
  BY <1>2, <1>3

LEMMA UnansweredMarkPaysToken ==
  ASSUME TypeInv, TypeInv', NEW e \in Events, Tokens(e), NEW t \in Ticks,
         MarkPublishedUnanswered(t)
  PROVE  Tokens(e)'
<1> USE DEF TypeInv, TypeOK, RowSteps, MarkPublishedUnanswered, Goto, kafka
<1>1. OthersWait(t) /\ topic'[e] = topic[e]
  BY DEF OthersWait
<1>2. CASE event[t] = e
  <2>1. t \notin Holders(e) /\ Holders(e)' = Holders(e) \cup {t}
    BY <1>1, <1>2, MoreHolders DEF Holds
  <2>2. ~Free(e)'
    BY <1>2 DEF Free, Publishable
  <2>3. causes'[e] = causes[e] + 1
    BY <1>2
  <2> QED
    BY <1>1, <2>1, <2>2, <2>3, TokenTaken
<1>3. CASE event[t] # e
  <2>1. RowKept(e) /\ causes'[e] = causes[e] /\ ~Works(t, e) /\ ~Works(t, e)'
    BY <1>3 DEF RowKept, Works
  <2> QED
    BY <1>1, <2>1, BystandersKeepTokens
<1> QED
  BY <1>2, <1>3

LEMMA FailureLeavesToken ==
  ASSUME TypeInv, TypeInv', NEW e \in Events, Tokens(e), NEW t \in Ticks,
         MarkFailed(t) \/ MarkDeadLettered(t)
  PROVE  Tokens(e)'
<1> USE DEF TypeInv, TypeOK, RowSteps, MarkFailed, MarkDeadLettered, NextRow, kafka
<1>1. OthersWait(t) /\ topic'[e] = topic[e] /\ causes'[e] = causes[e]
  BY DEF OthersWait
<1>2. CASE event[t] = e
  <2>1. t \in Holders(e) /\ Holders(e)' = Holders(e) \ {t}
    BY <1>1, <1>2, FewerHolders DEF Holds
  <2> QED
    BY <1>1, <2>1, TokenSpent
<1>3. CASE event[t] # e
  <2>1. RowKept(e) /\ ~Works(t, e) /\ ~Works(t, e)'
    BY <1>3 DEF RowKept, Works
  <2> QED
    BY <1>1, <2>1, BystandersKeepTokens
<1> QED
  BY <1>2, <1>3

LEMMA DeathLeavesToken ==
  ASSUME TypeInv, TypeInv', NEW e \in Events, Tokens(e), NEW t \in Ticks, Fail(t)
  PROVE  Tokens(e)'
<1> USE DEF TypeInv, TypeOK, RowSteps, Fail, EndTick, kafka, row
<1>1. /\ OthersWait(t) /\ RowKept(e) /\ topic'[e] = topic[e]
      /\ ~Holds(t, e)' /\ ~Works(t, e)'
  BY DEF OthersWait, RowKept, Holds, Works
<1>2. CASE event[t] = e /\ pc[t] = "markPublished"
  <2>1. Holders(e)' = Holders(e)
    BY <1>1, <1>2, SameHolders DEF Holds
  <2>2. causes'[e] = causes[e] + 1
    BY <1>2
  <2> QED
    BY <1>1, <2>1, <2>2, TokensKept
<1>3. CASE Holds(t, e)
  <2>1. t \in Holders(e) /\ Holders(e)' = Holders(e) \ {t}
    BY <1>1, <1>3, FewerHolders
  <2>2. causes'[e] = causes[e]
    BY <1>3 DEF Holds
  <2> QED
    BY <1>1, <2>1, <2>2, TokenSpent
<1>4. CASE ~Works(t, e)
  <2>1. causes'[e] = causes[e]
    BY <1>4 DEF Works
  <2> QED
    BY <1>1, <1>4, <2>1, BystandersKeepTokens
<1> QED
  BY <1>2, <1>3, <1>4 DEF Holds, Works

LEMMA TokenStep == TokenInv /\ [Next]_vars => TokenInv'
<1> SUFFICES ASSUME TokenInv, [Next]_vars, NEW e \in Events PROVE Tokens(e)'
  BY TypeStep DEF TokenInv
<1>0. TypeInv /\ TypeInv' /\ Tokens(e)
  BY TypeStep DEF TokenInv
<1>1. ASSUME NEW t \in Ticks, FindPendingForPublish(t) \/ BatchDone(t) PROVE Tokens(e)'
  <2>1. /\ OthersWait(t) /\ RowKept(e) /\ ~Works(t, e) /\ ~Works(t, e)'
        /\ topic'[e] = topic[e] /\ causes'[e] = causes[e]
    BY <1>0, <1>1 DEF FindPendingForPublish, BatchDone, EndTick, Goto, OthersWait,
                      RowKept, Works, RowSteps, TypeInv, TypeOK, row, kafka
  <2> QED
    BY <1>0, <2>1, BystandersKeepTokens
<1>2. CASE UNCHANGED vars \/ \E f \in Events : BecomeDue(f)
  <2>1. Free(e)' = Free(e) /\ Holders(e)' = Holders(e) /\ topic' = topic /\ causes' = causes
    BY <1>2 DEF vars, BecomeDue, row, kafka, tick, Free, Publishable, OwnerAlive, Holders
  <2> QED
    BY <1>0, <2>1 DEF Tokens, Spare
<1> QED
  BY <1>0, <1>1, <1>2, RecoveryPaysTokens, LockTakesToken, SendSpendsToken,
     ErrorKeepsToken, PublishedNeedsNoToken, FailedMarkPaysToken, UnansweredMarkPaysToken,
     FailureLeavesToken, DeathLeavesToken
     DEF Next, TickStep, FailureStep

LEMMA TokenInit == Init => TokenInv
<1> SUFFICES ASSUME Init, NEW e \in Events PROVE Tokens(e)
  BY TypeInit DEF TokenInv
<1>1. Holders(e) = {}
  BY DEF Init, Holders, RowSteps
<1> QED
  BY <1>1, FS_EmptySet DEF Init, Tokens, Spare

\* The compare-and-set of markPublishing gives the right to send to one tick;
\* Kafka holds an event more than once only for a cause of DuplicatesHaveCauses,
\* and no more often than there were causes.
THEOREM DuplicatesAreAccountedFor == Spec => []DuplicatesHaveCauses
<1>1. TokenInv => DuplicatesHaveCauses
  <2> SUFFICES ASSUME TokenInv, NEW e \in Events PROVE topic[e] <= 1 + causes[e]
    BY DEF DuplicatesHaveCauses
  <2>1. Cardinality(Holders(e)) \in Nat /\ topic[e] \in Nat /\ causes[e] \in Nat
    BY HoldersAreFinite DEF TokenInv, TypeInv, TypeOK
  <2> QED
    BY <2>1 DEF TokenInv, Tokens, Spare
<1> QED
  BY <1>1, TokenInit, TokenStep, PTL DEF Spec

-----------------------------------------------------------------------------
(* Settled is final.  As long as it is not disturbed, a row has one tick   *)
(* that works on it, the row is locked by that tick and the tick knows how *)
(* often it was tried.                                                     *)

Unsettled(e) == publishStatus[e] \in {"pending", "publishing", "failed"}

LockInv ==
  /\ TypeInv
  /\ \A e \in Events \ disturbed :
       /\ Unsettled(e) => publishAttempts[e] < MaxAttempts
       /\ \A t \in Ticks :
            Works(t, e) => /\ publishStatus[e] = "publishing"
                           /\ lockedBy[e] = t
                           /\ attempts[t] = publishAttempts[e]

LEMMA LockInit == Init => LockInv
BY TypeInit, OutboxAssumption DEF Init, LockInv, Works, RowSteps

LEMMA LockStep == LockInv /\ [Next]_vars => LockInv'
<1> SUFFICES ASSUME LockInv, [Next]_vars PROVE LockInv'
  OBVIOUS
<1>0. TypeInv'
  BY TypeStep DEF LockInv
<1> USE <1>0, OutboxAssumption
<1> USE DEF LockInv, TypeInv, TypeOK, RowSteps, Works, Unsettled, kafka, row, tick
<1>1. ASSUME NEW t \in Ticks, RecoverStaleLocks(t) PROVE LockInv'
  BY <1>1 DEF RecoverStaleLocks, Goto, RecoveredStatus, OwnerAlive
<1>2. ASSUME NEW t \in Ticks, FindPendingForPublish(t) \/ BatchDone(t) \/ Fail(t)
      PROVE  LockInv'
  BY <1>2 DEF FindPendingForPublish, BatchDone, Fail, EndTick, Goto
<1>3. ASSUME NEW t \in Ticks, NEW e \in Events, MarkPublishing(t, e) PROVE LockInv'
  BY <1>3 DEF MarkPublishing, Publishable
<1>4. ASSUME NEW t \in Ticks, PublishInvalid(t) \/ GiveUp(t) \/ PublishDeadLetter(t)
      PROVE  LockInv'
  BY <1>4 DEF PublishInvalid, GiveUp, PublishDeadLetter, Goto
<1>5. ASSUME NEW t \in Ticks, Publish(t) \/ PublishFails(t) \/ MarkPublishedFails(t)
      PROVE  LockInv'
  BY <1>5 DEF Publish, PublishFails, MarkPublishedFails, Goto
<1>6. ASSUME NEW t \in Ticks, MarkPublished(t) PROVE LockInv'
  BY <1>6 DEF MarkPublished, NextRow
<1>7. ASSUME NEW t \in Ticks, MarkFailed(t) PROVE LockInv'
  BY <1>7 DEF MarkFailed, NextRow, AttemptsExhausted
<1>8. ASSUME NEW t \in Ticks, MarkDeadLettered(t) PROVE LockInv'
  BY <1>8 DEF MarkDeadLettered, NextRow
<1>9. CASE UNCHANGED vars \/ \E e \in Events : BecomeDue(e)
  BY <1>9 DEF vars, BecomeDue
<1>10. ASSUME NEW t \in Ticks, MarkPublishedUnanswered(t) PROVE LockInv'
  BY <1>10 DEF MarkPublishedUnanswered, Goto
<1> QED
  BY <1>1, <1>2, <1>3, <1>4, <1>5, <1>6, <1>7, <1>8, <1>9, <1>10
     DEF Next, TickStep, FailureStep

FinalStep ==
  \A e \in Events \ disturbed' :
    /\ Settled(e) => publishStatus'[e] = publishStatus[e]
    /\ publishStatus'[e] = "failed" => publishAttempts'[e] < MaxAttempts

LEMMA StepsAreFinal == LockInv /\ [Next]_vars => FinalStep
<1> SUFFICES ASSUME LockInv, [Next]_vars, NEW e \in Events \ disturbed'
             PROVE  /\ Settled(e) => publishStatus'[e] = publishStatus[e]
                    /\ publishStatus'[e] = "failed" => publishAttempts'[e] < MaxAttempts
  BY DEF FinalStep
<1>1. publishStatus'[e] = "failed" => publishAttempts'[e] < MaxAttempts
  BY LockStep DEF LockInv, Unsettled
<1>2. e \notin disturbed
  BY DEF Next, TickStep, FailureStep, RecoverStaleLocks, FindPendingForPublish,
         MarkPublishing, BatchDone, Publish, PublishInvalid, PublishFails, MarkPublished,
         MarkPublishedFails, MarkPublishedUnanswered, MarkFailed, GiveUp,
         PublishDeadLetter, MarkDeadLettered, Fail, BecomeDue, vars
<1> USE DEF LockInv, TypeInv, TypeOK, RowSteps, Works, Settled, kafka, row, tick
<1>3. ASSUME NEW t \in Ticks, RecoverStaleLocks(t)
      PROVE  Settled(e) => publishStatus'[e] = publishStatus[e]
  BY <1>3 DEF RecoverStaleLocks
<1>4. ASSUME NEW t \in Ticks, NEW f \in Events, MarkPublishing(t, f)
      PROVE  Settled(e) => publishStatus'[e] = publishStatus[e]
  BY <1>4 DEF MarkPublishing, Publishable
<1>5. ASSUME NEW t \in Ticks, \/ MarkPublished(t) \/ MarkPublishedUnanswered(t)
                               \/ MarkFailed(t) \/ MarkDeadLettered(t)
      PROVE  Settled(e) => publishStatus'[e] = publishStatus[e]
  BY <1>2, <1>5 DEF MarkPublished, MarkPublishedUnanswered, MarkFailed, MarkDeadLettered
<1>6. ASSUME NEW t \in Ticks,
             \/ FindPendingForPublish(t) \/ BatchDone(t) \/ Publish(t)
             \/ PublishInvalid(t) \/ PublishFails(t) \/ MarkPublishedFails(t)
             \/ GiveUp(t) \/ PublishDeadLetter(t) \/ Fail(t)
      PROVE  publishStatus' = publishStatus
  BY <1>6 DEF FindPendingForPublish, BatchDone, Publish, PublishInvalid, PublishFails,
              MarkPublishedFails, GiveUp, PublishDeadLetter, Fail
<1>7. CASE UNCHANGED vars \/ \E f \in Events : BecomeDue(f)
  BY <1>1, <1>7 DEF vars, BecomeDue
<1> QED
  BY <1>1, <1>3, <1>4, <1>5, <1>6, <1>7 DEF Next, TickStep, FailureStep

\* A row whose lock no one took from a living tick, and whose markPublished was
\* not applied without an answer, is settled once and for all, within its
\* attempts, whatever else overlaps, crashes or fails.
THEOREM SettledRowsStaySettled == Spec => SettledIsFinal
<1>1. LockInv /\ [Next]_vars =>
        [\A e \in Events \ disturbed' :
           /\ Settled(e) => publishStatus'[e] = publishStatus[e]
           /\ publishStatus'[e] = "failed" => publishAttempts'[e] < MaxAttempts]_vars
  BY StepsAreFinal DEF FinalStep
<1> QED
  BY <1>1, LockInit, LockStep, PTL DEF Spec, SettledIsFinal

-----------------------------------------------------------------------------
(* The publisher implements EventDelivery.  That what is settled was       *)
(* handed over is HandoverInv; that what is settled has an end is LockInv: *)
(* a tick that works on an undisturbed row works on one that is open.      *)

Outcome == [e \in Events |-> IF Settled(e) THEN publishStatus[e] ELSE "open"]

DeliveryInv == HandoverInv /\ LockInv

DeliveryUnchanged == UNCHANGED <<topic, deadLetters, Outcome, disturbed>>

LEMMA WorkedOnIsInHand ==
  ASSUME DeliveryInv, NEW t \in Ticks, pc[t] \in RowSteps
  PROVE  /\ event[t] \in Events
         /\ Delivery!InHand(event[t])
         /\ event[t] \notin disturbed => publishStatus[event[t]] = "publishing"
BY DEF DeliveryInv, HandoverInv, LockInv, TypeInv, Works, Settled, Delivery!InHand

\* What neither settles a row, nor takes up a settled one, nor hands its event
\* to Kafka does nothing that EventDelivery sees.
LEMMA UnseenSteps ==
  ASSUME DeliveryInv, NEW t \in Ticks,
         \/ FindPendingForPublish(t)
         \/ \E e \in Events : MarkPublishing(t, e)
         \/ BatchDone(t)
         \/ PublishInvalid(t)
         \/ MarkPublishedFails(t)
         \/ GiveUp(t)
         \/ Fail(t)
  PROVE  DeliveryUnchanged
<1> USE DEF DeliveryInv, HandoverInv, TypeInv, TypeOK, DeliveryUnchanged, Outcome, Settled,
            kafka, row
<1>1. ASSUME NEW e \in Events, MarkPublishing(t, e) PROVE DeliveryUnchanged
  BY <1>1 DEF MarkPublishing, Publishable
<1>2. ASSUME FindPendingForPublish(t) \/ BatchDone(t) \/ PublishInvalid(t)
             \/ MarkPublishedFails(t) \/ GiveUp(t) \/ Fail(t)
      PROVE  DeliveryUnchanged
  BY <1>2 DEF FindPendingForPublish, BatchDone, PublishInvalid, MarkPublishedFails,
              GiveUp, Fail
<1> QED
  BY <1>1, <1>2

\* A lock is recovered from rows that are open, before and after.
LEMMA DisturbStep ==
  ASSUME DeliveryInv, NEW t \in Ticks, RecoverStaleLocks(t)
  PROVE  \E some \in SUBSET Events : Delivery!Disturb(some)
<1> USE DEF DeliveryInv, HandoverInv, TypeInv, TypeOK, Settled, kafka
<1>1. PICK stale \in SUBSET {e \in Events : publishStatus[e] = "publishing"
                                            /\ lockedBy[e] # None} :
        /\ publishStatus' =
             [e \in Events |-> IF e \in stale THEN RecoveredStatus ELSE publishStatus[e]]
        /\ disturbed' = disturbed \cup {e \in stale : OwnerAlive(e)}
  BY DEF RecoverStaleLocks
<1> DEFINE some == {e \in stale : OwnerAlive(e)}
<1>2. Outcome' = Outcome
  BY <1>1 DEF RecoveredStatus, Outcome
<1>3. \A e \in some : Outcome[e] = "open"
  BY <1>1 DEF Outcome
<1>4. Delivery!Disturb(some)
  BY <1>1, <1>2, <1>3 DEF Delivery!Disturb, RecoverStaleLocks, Outcome
<1> QED
  BY <1>1, <1>4

\* A send, even one that is taken for a failure, is a Send.
LEMMA SendSteps ==
  ASSUME DeliveryInv, NEW t \in Ticks, Publish(t) \/ PublishFails(t)
  PROVE  (\E e \in Events : Delivery!Send(e)) \/ DeliveryUnchanged
<1> USE DEF RowSteps, kafka, row
<1>1. event[t] \in Events /\ Delivery!InHand(event[t])
  BY WorkedOnIsInHand DEF Publish, PublishFails, Goto
<1>2. UNCHANGED <<deadLetters, Outcome, disturbed>>
  BY DEF Publish, PublishFails, Outcome, Settled
<1>3. CASE topic' = [topic EXCEPT ![event[t]] = @ + 1]
  <2>1. Delivery!Send(event[t])
    BY <1>1, <1>2, <1>3 DEF Delivery!Send, Outcome
  <2> QED
    BY <1>1, <2>1
<1>4. CASE topic' = topic
  BY <1>2, <1>4 DEF DeliveryUnchanged
<1> QED
  BY <1>3, <1>4 DEF Publish, PublishFails

LEMMA ReportStep ==
  ASSUME DeliveryInv, NEW t \in Ticks, PublishDeadLetter(t)
  PROVE  \E e \in Events : Delivery!Report(e)
<1> USE DEF RowSteps, row
<1>1. event[t] \in Events /\ Delivery!InHand(event[t])
  BY WorkedOnIsInHand DEF PublishDeadLetter, Goto
<1>2. UNCHANGED <<topic, Outcome, disturbed>>
  BY DEF PublishDeadLetter, Outcome, Settled
<1>3. Delivery!Report(event[t])
  BY <1>1, <1>2 DEF PublishDeadLetter, Delivery!Report, Outcome
<1> QED
  BY <1>1, <1>3

\* markPublished and markDeadLettered settle what was handed over.
LEMMA SettleSteps ==
  ASSUME DeliveryInv, NEW t \in Ticks,
         MarkPublished(t) \/ MarkPublishedUnanswered(t) \/ MarkDeadLettered(t)
  PROVE  \E e \in Events : \E result \in Delivery!Outcomes : Delivery!Settle(e, result)
<1> USE DEF DeliveryInv, HandoverInv, TypeInv, TypeOK, RowSteps, kafka, Settled
<1>1. event[t] \in Events /\ Delivery!InHand(event[t])
  BY WorkedOnIsInHand DEF MarkPublished, MarkPublishedUnanswered, MarkDeadLettered, Goto
<1>2. CASE MarkPublished(t) \/ MarkPublishedUnanswered(t)
  <2>1. topic[event[t]] > 0
    BY <1>2 DEF MarkPublished, MarkPublishedUnanswered, Goto
  <2>2. Outcome' = [Outcome EXCEPT ![event[t]] = "published"]
    BY <1>1, <1>2 DEF MarkPublished, MarkPublishedUnanswered, Outcome
  <2>3. disturbed' \in {disturbed, disturbed \cup {event[t]}} /\ UNCHANGED <<topic, deadLetters>>
    BY <1>2 DEF MarkPublished, MarkPublishedUnanswered
  <2>4. Delivery!Settle(event[t], "published")
    BY <1>1, <2>1, <2>2, <2>3 DEF Delivery!Settle, Outcome
  <2> QED
    BY <1>1, <2>4 DEF Delivery!Outcomes
<1>3. CASE MarkDeadLettered(t)
  <2>1. event[t] \in deadLetters
    BY <1>3 DEF MarkDeadLettered
  <2>2. Outcome' = [Outcome EXCEPT ![event[t]] = "dead_lettered"]
    BY <1>1, <1>3 DEF MarkDeadLettered, Outcome
  <2>3. UNCHANGED <<topic, deadLetters, disturbed>>
    BY <1>3 DEF MarkDeadLettered
  <2>4. Delivery!Settle(event[t], "dead_lettered")
    BY <1>1, <2>1, <2>2, <2>3 DEF Delivery!Settle, Outcome
  <2> QED
    BY <1>1, <2>4 DEF Delivery!Outcomes
<1> QED
  BY <1>2, <1>3

\* markFailed takes up a settled row only if the event is disturbed.
LEMMA ReopenStep ==
  ASSUME DeliveryInv, NEW t \in Ticks, MarkFailed(t)
  PROVE  (\E e \in Events : Delivery!Reopen(e)) \/ DeliveryUnchanged
<1> USE DEF DeliveryInv, HandoverInv, TypeInv, TypeOK, RowSteps, kafka, Settled
<1>1. /\ event[t] \in Events
      /\ event[t] \notin disturbed => publishStatus[event[t]] = "publishing"
  BY WorkedOnIsInHand DEF MarkFailed
<1>2. Outcome' = [Outcome EXCEPT ![event[t]] = "open"]
  BY <1>1 DEF MarkFailed, Outcome
<1>3. UNCHANGED <<topic, deadLetters, disturbed>>
  BY DEF MarkFailed
<1>4. CASE event[t] \in disturbed
  <2>1. Delivery!Reopen(event[t])
    BY <1>2, <1>3, <1>4 DEF Delivery!Reopen, Outcome
  <2>2. \E e \in Events : Delivery!Reopen(e)
    BY <1>1, <2>1 DEF Delivery!Reopen
  <2> QED
    BY <2>2
<1>5. CASE event[t] \notin disturbed
  <2>1. Outcome[event[t]] = "open"
    BY <1>1, <1>5 DEF Outcome
  <2>2. Outcome' = Outcome
    BY <1>2, <2>1 DEF Outcome
  <2> QED
    BY <1>3, <2>2 DEF DeliveryUnchanged
<1> QED
  BY <1>4, <1>5

LEMMA DeliveryStep ==
  DeliveryInv /\ [Next]_vars => [Delivery!Next]_(Delivery!vars)
<1> SUFFICES ASSUME DeliveryInv, [Next]_vars
             PROVE  Delivery!Next \/ DeliveryUnchanged
  BY DEF DeliveryUnchanged, Outcome, Delivery!vars
<1>1. ASSUME NEW t \in Ticks, TickStep(t) \/ FailureStep(t)
      PROVE  Delivery!Next \/ DeliveryUnchanged
  BY <1>1, UnseenSteps, DisturbStep, SendSteps, ReportStep, SettleSteps, ReopenStep
     DEF TickStep, FailureStep, Delivery!Next
<1>2. ASSUME NEW e \in Events, BecomeDue(e) PROVE DeliveryUnchanged
  BY <1>2 DEF BecomeDue, kafka, DeliveryUnchanged, Outcome, Settled
<1>3. CASE UNCHANGED vars
  BY <1>3 DEF vars, row, kafka, DeliveryUnchanged, Outcome, Settled
<1> QED
  BY <1>1, <1>2, <1>3 DEF Next

LEMMA DeliveryInit == Init => Delivery!Init
BY DEF Init, Delivery!Init, Settled

\* However ticks overlap, fail and recover each other's locks, the outbox and
\* Kafka behave as EventDelivery says: nothing is settled that was not handed
\* over, and of an undisturbed event nothing follows its settlement.
THEOREM PublisherDelivers == Spec => DeliverySpec
<1>1. HandoverInv /\ LockInv <=> DeliveryInv
  BY DEF DeliveryInv
<1> QED
  BY <1>1, DeliveryInit, DeliveryStep, Handover, LockInit, LockStep, PTL
     DEF Spec, DeliverySpec, Delivery!Spec
=============================================================================
