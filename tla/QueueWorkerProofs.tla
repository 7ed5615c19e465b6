------------------------- MODULE QueueWorkerProofs -------------------------
(***************************************************************************)
(* For any number of jobs, workers, attempts, requests and failures: the   *)
(* types, and what a queue of jobs is for.  A row that says a job          *)
(* succeeded is right, a job is not lost, and its handler does not succeed *)
(* twice, each as far as QueueWorker states it.                            *)
(***************************************************************************)
EXTENDS QueueWorker, TLAPS

-----------------------------------------------------------------------------
(* Types                                                                   *)

Rows == [status : Statuses, attempt : 0..MaxAttempts, route : Routes]

QueuesTyped ==
  /\ ready \in [Messages -> Nat]
  /\ waiting \in [Messages -> Nat]
  /\ deadLetters \subseteq Jobs

RowsTyped ==
  /\ row \in [Ids -> Rows]
  /\ stale \subseteq Ids

\* A delivery is in the hands of a worker that has its message and has not
\* settled it, and a copy is published only of a message with attempts left.
WorkersTyped ==
  /\ channel \subseteq Workers
  /\ pc \in [Workers -> Steps]
  /\ msg \in [Workers -> Messages \cup {None}]
  /\ \A w \in Workers : pc[w] # "idle" => msg[w] \in Messages
  /\ unsettled \subseteq channel
  /\ error \in [Workers -> Errors \cup {None}]
  /\ \A w \in unsettled : pc[w] \notin {"idle", "report"}
  /\ \A w \in Workers : pc[w] = "publishRetry" => msg[w].attempt < MaxAttempts

HistoryTyped ==
  /\ delivered \in [Jobs -> Nat]
  /\ skipped \subseteq Jobs
  /\ disturbed \subseteq Jobs
  /\ requests \in 0..MaxRequests
  /\ faults \in 0..MaxFaults

Typed == QueuesTyped /\ RowsTyped /\ WorkersTyped /\ HistoryTyped

TypeInv == Typed /\ malformed \subseteq Jobs

LEMMA TypeInvTypes == TypeInv => TypeOK
BY DEF TypeInv, Typed, QueuesTyped, RowsTyped, WorkersTyped, HistoryTyped, TypeOK, Rows

\* What a message is made of.
LEMMA MessageParts ==
  ASSUME NEW m \in Messages
  PROVE  /\ m.id \in Ids /\ JobOf(m) \in Jobs /\ m.id[2] \in 0..MaxRequests
         /\ m.id = <<JobOf(m), m.id[2]>>
         /\ m.attempt \in 0..MaxAttempts /\ m.routingKey \in Routes
BY DEF Messages, Ids, JobOf

LEMMA GotoTyped ==
  ASSUME WorkersTyped, NEW w \in Workers, NEW step \in Steps \ {"idle", "report"}, pc[w] # "idle",
         step = "publishRetry" => msg[w].attempt < MaxAttempts, Goto(w, step)
  PROVE  WorkersTyped'
BY DEF WorkersTyped, Goto

LEMMA RecoverTyped ==
  ASSUME WorkersTyped, NEW w \in Workers, NEW e, pc[w] # "idle", Recover(w, e)
  PROVE  WorkersTyped'
<1>1. /\ RecoveryStep(e, msg[w]) \in {"publishDead", "publishRetry", "nack"}
      /\ RecoveryStep(e, msg[w]) = "publishRetry" => msg[w].attempt < MaxAttempts
  BY DEF RecoveryStep
<1> QED
  BY <1>1 DEF WorkersTyped, Recover, Steps

\* A worker whose call is over has no delivery.
LEMMA DoneTyped ==
  ASSUME WorkersTyped, NEW w \in Workers, Done(w), channel' \subseteq Workers,
         unsettled' \subseteq unsettled \ {w}, unsettled' \subseteq channel'
  PROVE  WorkersTyped'
BY DEF WorkersTyped, Done, Steps

LEMMA FailsWithTyped ==
  ASSUME WorkersTyped, NEW w \in Workers, NEW e \in Errors, pc[w] # "idle", HandlerFailsWith(w, e)
  PROVE  WorkersTyped'
BY DEF WorkersTyped, HandlerFailsWith, Steps, Holding

LEMMA FaultTyped ==
  ASSUME HistoryTyped, Fault, UNCHANGED <<delivered, skipped, requests>>, disturbed' \subseteq Jobs
  PROVE  HistoryTyped'
BY QueueAssumption DEF HistoryTyped, Fault

\* Rows that are marked or written keep their types.
LEMMA MarkTyped ==
  ASSUME RowsTyped, HistoryTyped, NEW m \in Messages, NEW s \in Statuses, Mark(m, s)
  PROVE  RowsTyped' /\ disturbed' \subseteq Jobs
<1>1. m.id \in Ids /\ JobOf(m) \in Jobs
  BY MessageParts
<1>2. [row EXCEPT ![m.id].status = s] \in [Ids -> Rows]
  BY <1>1 DEF RowsTyped, Rows
<1> QED
  BY <1>1, <1>2 DEF Mark, RowsTyped, HistoryTyped, Forgotten

LEMMA UpsertTyped ==
  ASSUME RowsTyped, NEW m \in Messages, NEW s \in Statuses
  PROVE  [row EXCEPT ![m.id] = Upserted(m, s)] \in [Ids -> Rows]
<1>1. Upserted(m, s) \in Rows
  BY MessageParts DEF Upserted, Rows
<1> QED
  BY <1>1 DEF RowsTyped

LEMMA QueueTypeInit == Init => TypeInv
<1> SUFFICES ASSUME Init PROVE TypeInv
  OBVIOUS
<1>1. QueuesTyped
  BY DEF Init, QueuesTyped
<1>2. RowsTyped
  BY QueueAssumption DEF Init, RowsTyped, Rows, NoRow, Statuses, Routes
<1>3. WorkersTyped
  BY DEF Init, WorkersTyped, Steps
<1>4. HistoryTyped
  BY QueueAssumption DEF Init, HistoryTyped
<1> QED
  BY <1>1, <1>2, <1>3, <1>4 DEF Init, TypeInv, Typed

\* Every step of a worker, of the broker or of an operator keeps the types.
LEMMA QueueTypeStep == TypeInv /\ [Next]_vars => TypeInv'
<1> SUFFICES ASSUME TypeInv, [Next]_vars PROVE TypeInv'
  OBVIOUS
<1> Typed /\ QueuesTyped /\ RowsTyped /\ WorkersTyped /\ HistoryTyped
  BY DEF TypeInv, Typed
<1> USE DEF Typed
<1>1. ASSUME NEW w \in Workers, NEW m \in Messages, Take(w, m) PROVE Typed'
  <2>1. WorkersTyped'
    BY <1>1 DEF Take, WorkersTyped, Steps
  <2>2. QueuesTyped'
    BY <1>1 DEF Take, QueuesTyped
  <2> QED
    BY <1>1, <2>1, <2>2 DEF Take, rows, history, RowsTyped, HistoryTyped
<1>2. ASSUME NEW w \in Workers, Record(w) PROVE Typed'
  <2>1. WorkersTyped'
    BY <1>2, GotoTyped DEF Record, Steps
  <2>2. msg[w] \in Messages /\ msg[w].id \in Ids
    BY <1>2, MessageParts DEF Record, WorkersTyped
  <2>3. RowsTyped'
    <3>1. row[msg[w].id].status \in Statuses /\ "queued" \in Statuses
      BY <2>2 DEF RowsTyped, Rows, Statuses
    <3> QED
      BY <1>2, <2>2, <3>1, UpsertTyped DEF Record, RowsTyped
  <2> QED
    BY <1>2, <2>1, <2>3 DEF Record, queues, history, QueuesTyped, HistoryTyped
<1>3. ASSUME NEW w \in Workers, FindRow(w) PROVE Typed'
  <2>1. WorkersTyped'
    BY <1>3, GotoTyped DEF FindRow, Steps
  <2>2. msg[w] \in Messages /\ msg[w].id[1] \in Jobs
    BY <1>3, MessageParts DEF FindRow, WorkersTyped, JobOf
  <2> QED
    BY <1>3, <2>1, <2>2 DEF FindRow, queues, rows, QueuesTyped, RowsTyped, HistoryTyped
<1>4. ASSUME NEW w \in Workers, FindCompleted(w) PROVE Typed'
  <2>1. WorkersTyped'
    BY <1>4, GotoTyped DEF FindCompleted, Steps
  <2> QED
    BY <1>4, <2>1 DEF FindCompleted, queues, rows, history, QueuesTyped, RowsTyped, HistoryTyped
<1>5. ASSUME NEW w \in Workers, Lock(w) PROVE Typed'
  <2>1. WorkersTyped'
    BY <1>5, GotoTyped DEF Lock, Steps, Holding
  <2>2. msg[w] \in Messages /\ JobOf(msg[w]) \in Jobs
    BY <1>5, MessageParts DEF Lock, WorkersTyped
  <2>3. RowsTyped'
    BY <1>5, <2>2, UpsertTyped DEF Lock, RowsTyped, Statuses
  <2> QED
    BY <1>5, <2>1, <2>2, <2>3 DEF Lock, queues, QueuesTyped, HistoryTyped
<1>6. ASSUME NEW w \in Workers, HandlerEnds(w) PROVE Typed'
  <2>1. WorkersTyped'
    BY <1>6, GotoTyped DEF HandlerEnds, Steps, Holding
  <2>2. JobOf(msg[w]) \in Jobs
    BY <1>6, MessageParts DEF HandlerEnds, WorkersTyped
  <2>3. HistoryTyped'
    BY <1>6, <2>2 DEF HandlerEnds, HistoryTyped
  <2> QED
    BY <1>6, <2>1, <2>3 DEF HandlerEnds, queues, rows, QueuesTyped, RowsTyped
<1>7. ASSUME NEW w \in Workers, MarkSucceeded(w) PROVE Typed'
  <2>1. WorkersTyped' /\ msg[w] \in Messages
    BY <1>7, GotoTyped DEF MarkSucceeded, Steps, WorkersTyped
  <2>2. RowsTyped' /\ disturbed' \subseteq Jobs
    BY <1>7, <2>1, MarkTyped DEF MarkSucceeded, Statuses
  <2> QED
    BY <1>7, <2>1, <2>2 DEF MarkSucceeded, queues, QueuesTyped, HistoryTyped
<1>8. ASSUME NEW w \in Workers, MarkFailed(w) PROVE Typed'
  <2>1. WorkersTyped' /\ msg[w] \in Messages
    BY <1>8, RecoverTyped DEF MarkFailed, WorkersTyped
  <2>2. RowsTyped' /\ disturbed' \subseteq Jobs
    BY <1>8, <2>1, MarkTyped DEF MarkFailed, Statuses
  <2> QED
    BY <1>8, <2>1, <2>2 DEF MarkFailed, queues, QueuesTyped, HistoryTyped
<1>9. ASSUME NEW w \in Workers, Ack(w) PROVE Typed'
  <2>1. CASE w \in channel
    BY <1>9, <2>1 DEF Ack, queues, rows, history, QueuesTyped, RowsTyped, HistoryTyped, WorkersTyped, Steps
  <2>2. CASE w \notin channel
    BY <1>9, <2>2, RecoverTyped DEF Ack, queues, rows, history, QueuesTyped, RowsTyped, HistoryTyped
  <2> QED
    BY <2>1, <2>2
<1>10. ASSUME NEW w \in Workers, Report(w) PROVE Typed'
  <2>1. WorkersTyped'
    BY <1>10, DoneTyped DEF Report, WorkersTyped
  <2> QED
    BY <1>10, <2>1 DEF Report, queues, rows, history, QueuesTyped, RowsTyped, HistoryTyped
<1>11. ASSUME NEW w \in Workers, PublishRetry(w) PROVE Typed'
  <2>1. WorkersTyped'
    BY <1>11, GotoTyped DEF PublishRetry, Steps
  <2>2. Retried(msg[w]) \in Messages
    <3>1. msg[w] \in Messages /\ msg[w].attempt < MaxAttempts
      BY <1>11 DEF PublishRetry, WorkersTyped
    <3>2. msg[w].attempt + 1 \in 0..MaxAttempts
      BY <3>1, MessageParts, QueueAssumption
    <3> QED
      BY <3>1, <3>2 DEF Retried, Messages, Routes
  <2> QED
    BY <1>11, <2>1, <2>2 DEF PublishRetry, rows, history, QueuesTyped, RowsTyped, HistoryTyped
<1>12. ASSUME NEW w \in Workers, MarkRetryScheduled(w) PROVE Typed'
  <2>1. WorkersTyped' /\ msg[w] \in Messages
    BY <1>12, GotoTyped DEF MarkRetryScheduled, Steps, WorkersTyped
  <2>2. RowsTyped' /\ disturbed' \subseteq Jobs
    BY <1>12, <2>1, MarkTyped DEF MarkRetryScheduled, Statuses
  <2> QED
    BY <1>12, <2>1, <2>2 DEF MarkRetryScheduled, queues, QueuesTyped, HistoryTyped
<1>13. ASSUME NEW w \in Workers, PublishDeadLetter(w) PROVE Typed'
  <2>1. WorkersTyped' /\ JobOf(msg[w]) \in Jobs
    BY <1>13, GotoTyped, MessageParts DEF PublishDeadLetter, Steps, WorkersTyped
  <2> QED
    BY <1>13, <2>1 DEF PublishDeadLetter, rows, history, QueuesTyped, RowsTyped, HistoryTyped
<1>14. ASSUME NEW w \in Workers, MarkDeadLettered(w) PROVE Typed'
  <2>1. WorkersTyped' /\ msg[w] \in Messages
    BY <1>14, GotoTyped DEF MarkDeadLettered, Steps, WorkersTyped
  <2>2. RowsTyped' /\ disturbed' \subseteq Jobs
    BY <1>14, <2>1, MarkTyped DEF MarkDeadLettered, Statuses
  <2> QED
    BY <1>14, <2>1, <2>2 DEF MarkDeadLettered, queues, QueuesTyped, HistoryTyped
<1>15. ASSUME NEW w \in Workers, AckRecovered(w) PROVE Typed'
  <2>1. WorkersTyped'
    BY <1>15, DoneTyped DEF AckRecovered, WorkersTyped
  <2> QED
    BY <1>15, <2>1 DEF AckRecovered, queues, rows, history, QueuesTyped, RowsTyped, HistoryTyped
<1>16. ASSUME NEW w \in Workers, Nack(w) PROVE Typed'
  <2>1. WorkersTyped' /\ msg[w] \in Messages
    BY <1>16, DoneTyped DEF Nack, WorkersTyped
  <2>2. QueuesTyped'
    BY <1>16, <2>1 DEF Nack, QueuesTyped
  <2> QED
    BY <1>16, <2>1, <2>2 DEF Nack, rows, history, RowsTyped, HistoryTyped
<1>17. ASSUME NEW w \in Workers, BeginFails(w) PROVE Typed'
  <2>1. WorkersTyped' /\ msg[w] \in Messages /\ msg[w].id \in Ids
    BY <1>17, RecoverTyped, MessageParts DEF BeginFails, WorkersTyped
  <2>2. RowsTyped'
    <3>1. row[msg[w].id].status \in Statuses /\ "queued" \in Statuses
      BY <2>1 DEF RowsTyped, Rows, Statuses
    <3> QED
      BY <1>17, <2>1, <3>1, UpsertTyped DEF BeginFails, RowsTyped
  <2>3. HistoryTyped'
    BY <1>17, FaultTyped DEF BeginFails, history, HistoryTyped
  <2> QED
    BY <1>17, <2>1, <2>2, <2>3 DEF BeginFails, queues, QueuesTyped
<1>18. ASSUME NEW w \in Workers, HandlerThrows(w) PROVE Typed'
  <2>1. WorkersTyped'
    BY <1>18, FailsWithTyped DEF HandlerThrows
  <2>2. HistoryTyped'
    BY <1>18, FaultTyped DEF HandlerThrows, history, HistoryTyped
  <2> QED
    BY <1>18, <2>1, <2>2 DEF HandlerThrows, queues, rows, QueuesTyped, RowsTyped
<1>19. ASSUME NEW w \in Workers, MarkSucceededFails(w) PROVE Typed'
  <2>1. WorkersTyped' /\ JobOf(msg[w]) \in Jobs
    BY <1>19, FailsWithTyped, MessageParts DEF MarkSucceededFails, Errors, WorkersTyped
  <2>2. HistoryTyped'
    BY <1>19, <2>1, FaultTyped DEF MarkSucceededFails, HistoryTyped
  <2> QED
    BY <1>19, <2>1, <2>2 DEF MarkSucceededFails, queues, rows, QueuesTyped, RowsTyped
<1>20. ASSUME NEW w \in Workers, MarkFailedFails(w) PROVE Typed'
  <2>1. WorkersTyped'
    BY <1>20, RecoverTyped DEF MarkFailedFails
  <2>2. HistoryTyped'
    BY <1>20, FaultTyped DEF MarkFailedFails, history, HistoryTyped
  <2> QED
    BY <1>20, <2>1, <2>2 DEF MarkFailedFails, queues, rows, QueuesTyped, RowsTyped
<1>21. ASSUME NEW w \in Workers, ReportFails(w) PROVE Typed'
  <2>1. WorkersTyped'
    BY <1>21, RecoverTyped DEF ReportFails
  <2>2. HistoryTyped'
    BY <1>21, FaultTyped DEF ReportFails, history, HistoryTyped
  <2> QED
    BY <1>21, <2>1, <2>2 DEF ReportFails, queues, rows, QueuesTyped, RowsTyped
<1>22. ASSUME NEW w \in Workers, RecoveryFails(w) PROVE Typed'
  <2>1. w \in unsettled => WorkersTyped'
    BY <1>22, GotoTyped DEF RecoveryFails, Abandon, Steps
  <2>2. w \notin unsettled => WorkersTyped'
    BY <1>22, DoneTyped DEF RecoveryFails, Abandon, WorkersTyped
  <2>3. HistoryTyped'
    BY <1>22, FaultTyped DEF RecoveryFails, history, HistoryTyped
  <2> QED
    BY <1>22, <2>1, <2>2, <2>3 DEF RecoveryFails, queues, rows, QueuesTyped, RowsTyped
<1>23. ASSUME NEW w \in Workers, Disconnect(w) PROVE Typed'
  <2>1. WorkersTyped'
    <3>1. CASE pc[w] = "stuck"
      BY <1>23, <3>1, DoneTyped DEF Disconnect, GiveBack, WorkersTyped
    <3>2. CASE pc[w] # "stuck"
      BY <1>23, <3>2 DEF Disconnect, GiveBack, WorkersTyped
    <3> QED
      BY <3>1, <3>2
  <2>2. QueuesTyped'
    BY <1>23 DEF Disconnect, GiveBack, QueuesTyped, WorkersTyped
  <2>3. HistoryTyped'
    BY <1>23, FaultTyped DEF Disconnect, history, HistoryTyped
  <2> QED
    BY <1>23, <2>1, <2>2, <2>3 DEF Disconnect, rows, RowsTyped
<1>24. ASSUME NEW w \in Workers, Crash(w) PROVE Typed'
  <2>1. WorkersTyped'
    BY <1>24, DoneTyped DEF Crash, GiveBack, WorkersTyped
  <2>2. QueuesTyped'
    BY <1>24 DEF Crash, GiveBack, QueuesTyped, WorkersTyped
  <2>3. HistoryTyped'
    BY <1>24, FaultTyped, MessageParts DEF Crash, HistoryTyped, WorkersTyped
  <2> QED
    BY <1>24, <2>1, <2>2, <2>3 DEF Crash, rows, RowsTyped
<1>25. ASSUME NEW w \in Workers, StartWorker(w) PROVE Typed'
  BY <1>25 DEF StartWorker, queues, rows, history, QueuesTyped, RowsTyped, HistoryTyped, WorkersTyped
<1>26. ASSUME NEW m \in Messages, Expire(m) PROVE Typed'
  BY <1>26 DEF Expire, rows, worker, history, QueuesTyped, RowsTyped, HistoryTyped, WorkersTyped
<1>27. ASSUME NEW id \in Ids, GrowStale(id) PROVE Typed'
  BY <1>27 DEF GrowStale, queues, worker, history, QueuesTyped, RowsTyped, HistoryTyped, WorkersTyped
<1>28. ASSUME NEW id \in Ids, Cancel(id) PROVE Typed'
  <2>1. RowsTyped'
    BY <1>28 DEF Cancel, RowsTyped, Rows, Statuses
  <2>2. HistoryTyped'
    BY <1>28, QueueAssumption DEF Cancel, Request, HistoryTyped, Ids
  <2> QED
    BY <1>28, <2>1, <2>2 DEF Cancel, queues, worker, QueuesTyped, WorkersTyped
<1>29. ASSUME NEW id \in Ids, NEW f \in BOOLEAN, Requeue(id, f) PROVE Typed'
  <2> DEFINE m == [id |-> <<id[1], requests + 1>>,
                   attempt |-> IF f THEN 0 ELSE row[id].attempt,
                   routingKey |-> row[id].route]
  <2>1. m \in Messages
    BY <1>29, QueueAssumption DEF Requeue, Request, Messages, Ids, RowsTyped, Rows, HistoryTyped
  <2>2. /\ row' = [row EXCEPT ![m.id] = Upserted(m, "queued")]
        /\ ready' = IF m.routingKey = "delivery" THEN [ready EXCEPT ![m] = @ + 1] ELSE ready
        /\ UNCHANGED <<waiting, deadLetters, stale, worker, history, faults>>
        /\ Request
    BY <1>29 DEF Requeue
  <2> HIDE DEF m
  <2>3. RowsTyped'
    BY <2>1, <2>2, UpsertTyped DEF RowsTyped, Statuses
  <2>4. QueuesTyped'
    BY <2>1, <2>2 DEF QueuesTyped
  <2>5. HistoryTyped'
    BY <2>2, QueueAssumption DEF Request, history, HistoryTyped
  <2> QED
    BY <2>2, <2>3, <2>4, <2>5 DEF worker, WorkersTyped
<1>30. ASSUME NEW w \in Workers, WorkerStep(w) PROVE TypeInv'
  BY <1>30, <1>1, <1>2, <1>3, <1>4, <1>5, <1>6, <1>7, <1>8, <1>9, <1>10, <1>11, <1>12, <1>13,
     <1>14, <1>15, <1>16 DEF WorkerStep, TypeInv
<1>31. ASSUME NEW w \in Workers, FailureStep(w) PROVE TypeInv'
  BY <1>31, <1>17, <1>18, <1>19, <1>20, <1>21, <1>22, <1>23, <1>24, <1>25 DEF FailureStep, TypeInv
<1>32. CASE QueueStep
  BY <1>32, <1>26 DEF QueueStep, TypeInv
<1>33. CASE RowStep
  BY <1>33, <1>27, <1>28, <1>29 DEF RowStep, TypeInv
<1>34. CASE UNCHANGED vars
  BY <1>34 DEF vars, queues, rows, worker, history, TypeInv, QueuesTyped, RowsTyped, HistoryTyped, WorkersTyped
<1> QED
  BY <1>30, <1>31, <1>32, <1>33, <1>34 DEF Next

\* Counts, rows and messages keep their ranges, whatever fails or is asked for.
THEOREM QueueTypeCorrect == Spec => []TypeOK
BY QueueTypeInit, QueueTypeStep, TypeInvTypes, PTL DEF Spec

-----------------------------------------------------------------------------
(* How the steps move workers and rows                                     *)

\* The other workers are where they were, with what they had.
Elsewhere(w) ==
  \A v \in Workers \ {w} :
    pc'[v] = pc[v] /\ msg'[v] = msg[v] /\ (v \in unsettled' <=> v \in unsettled)

\* The worker comes to step with the message and the delivery that it had.
Arrives(w, step) ==
  /\ Elsewhere(w)
  /\ pc'[w] = step /\ msg'[w] = msg[w] /\ (w \in unsettled' <=> w \in unsettled)

LEMMA GotoArrives ==
  ASSUME WorkersTyped, NEW w \in Workers, NEW step, Goto(w, step)
  PROVE  Arrives(w, step)
BY DEF WorkersTyped, Goto, Arrives, Elsewhere

\* The catch block publishes a copy, or gives the message back.
LEMMA RecoverArrives ==
  ASSUME WorkersTyped, NEW w \in Workers, NEW e, Recover(w, e)
  PROVE  \E step \in {"publishDead", "publishRetry", "nack"} : Arrives(w, step)
<1>1. RecoveryStep(e, msg[w]) \in {"publishDead", "publishRetry", "nack"}
  BY DEF RecoveryStep
<1>2. Arrives(w, RecoveryStep(e, msg[w]))
  BY DEF WorkersTyped, Recover, Arrives, Elsewhere
<1> QED
  BY <1>1, <1>2

LEMMA FailsWithArrives ==
  ASSUME WorkersTyped, NEW w \in Workers, NEW e, HandlerFailsWith(w, e)
  PROVE  Arrives(w, "markFailed")
BY DEF WorkersTyped, HandlerFailsWith, Arrives, Elsewhere

LEMMA DoneLeaves ==
  ASSUME WorkersTyped, NEW w \in Workers, Done(w),
         \A v \in Workers \ {w} : v \in unsettled' <=> v \in unsettled
  PROVE  Elsewhere(w) /\ pc'[w] = "idle"
BY DEF WorkersTyped, Done, Elsewhere

\* A worker that abandons a message is stuck with it, or did not have it.
LEMMA AbandonLeaves ==
  ASSUME WorkersTyped, NEW w \in Workers, Abandon(w)
  PROVE  \/ w \in unsettled /\ Arrives(w, "stuck")
         \/ w \notin unsettled /\ UNCHANGED unsettled /\ Elsewhere(w) /\ pc'[w] = "idle"
BY GotoArrives, DoneLeaves DEF Abandon

\* A step puts no job down as one that succeeded, and takes down none that was
\* but a job that is disturbed.
Keeps(id) ==
  /\ Exists(id) => Exists(id)'
  /\ row'[id].status = "succeeded" => row[id].status = "succeeded"
  /\ row[id].status = "succeeded" /\ row'[id].status # "succeeded" => id[1] \in disturbed'

LEMMA RowsUnchanged == UNCHANGED row => \A id \in Ids : Keeps(id) /\ (Exists(id)' => Exists(id))
BY DEF Keeps, Exists

LEMMA MarkKeeps ==
  ASSUME RowsTyped, NEW m \in Messages, NEW s \in Statuses \ {"none", "succeeded"}, Mark(m, s)
  PROVE  \A id \in Ids : Keeps(id) /\ (Exists(id)' => Exists(id))
<1>1. m.id \in Ids /\ JobOf(m) = m.id[1]
  BY MessageParts DEF JobOf
<1>2. CASE Exists(m.id)
  <2>1. row'[m.id].status = s /\ \A id \in Ids \ {m.id} : row'[id] = row[id]
    BY <1>1, <1>2 DEF Mark, RowsTyped, Rows
  <2>2. row[m.id].status = "succeeded" => JobOf(m) \in disturbed'
    BY DEF Mark, Forgotten
  <2> QED
    BY <1>1, <1>2, <2>1, <2>2 DEF Keeps, Exists
<1>3. CASE ~Exists(m.id)
  BY <1>3, RowsUnchanged DEF Mark
<1> QED
  BY <1>2, <1>3

\* Rows that are written for a message keep their status, or are new.
LEMMA UpsertKeeps ==
  ASSUME RowsTyped, NEW m \in Messages,
         row' = [row EXCEPT ![m.id] = Upserted(m, IF Exists(m.id) THEN row[m.id].status ELSE "queued")]
  PROVE  \A id \in Ids : Keeps(id) /\ (Exists(id)' => Exists(id) \/ id = m.id)
<1>1. m.id \in Ids
  BY MessageParts
<1>2. /\ row'[m.id].status = IF Exists(m.id) THEN row[m.id].status ELSE "queued"
      /\ \A id \in Ids \ {m.id} : row'[id] = row[id]
  BY <1>1 DEF RowsTyped, Upserted
<1> QED
  BY <1>1, <1>2 DEF Keeps, Exists

-----------------------------------------------------------------------------
(* A row that says a job succeeded                                         *)

\* The handler has succeeded before a worker says so, and before a row does.
TruthInv ==
  /\ SucceededMeansDelivered
  /\ \A w \in Workers : pc[w] = "markSucceeded" => delivered[JobOf(msg[w])] > 0

LEMMA TruthKept ==
  ASSUME TruthInv, NEW w \in Workers, Elsewhere(w), pc'[w] # "markSucceeded",
         UNCHANGED delivered, \A id \in Ids : Keeps(id)
  PROVE  TruthInv'
BY DEF TruthInv, SucceededMeansDelivered, Elsewhere, Keeps

\* Only a worker whose handler has succeeded writes that.
LEMMA TruthStep == TypeInv /\ TruthInv /\ [Next]_vars => TruthInv'
<1> SUFFICES ASSUME TypeInv, TruthInv, [Next]_vars PROVE TruthInv'
  OBVIOUS
<1> RowsTyped /\ WorkersTyped /\ HistoryTyped
  BY DEF TypeInv, Typed
<1>1. ASSUME NEW w \in Workers, NEW m \in Messages, Take(w, m) PROVE TruthInv'
  BY <1>1, TruthKept, RowsUnchanged DEF Take, Elsewhere, WorkersTyped, rows, history
<1>2. ASSUME NEW w \in Workers, Record(w) PROVE TruthInv'
  <2>1. msg[w] \in Messages /\ Arrives(w, "find")
    BY <1>2, GotoArrives DEF Record, WorkersTyped
  <2> QED
    BY <1>2, <2>1, TruthKept, UpsertKeeps DEF Record, Arrives, history
<1>3. ASSUME NEW w \in Workers, FindRow(w) PROVE TruthInv'
  BY <1>3, TruthKept, RowsUnchanged, GotoArrives DEF FindRow, Arrives, rows
<1>4. ASSUME NEW w \in Workers, FindCompleted(w) PROVE TruthInv'
  BY <1>4, TruthKept, RowsUnchanged, GotoArrives DEF FindCompleted, Arrives, rows, history
<1>5. ASSUME NEW w \in Workers, Lock(w) PROVE TruthInv'
  <2>1. msg[w].id \in Ids /\ Arrives(w, "handle")
    BY <1>5, GotoArrives, MessageParts DEF Lock, WorkersTyped
  <2>2. \A id \in Ids : row'[id].status = "succeeded" => row[id].status = "succeeded"
    BY <1>5, <2>1 DEF Lock, RowsTyped, Upserted
  <2> QED
    BY <1>5, <2>1, <2>2 DEF Lock, TruthInv, SucceededMeansDelivered, Arrives, Elsewhere
<1>6. ASSUME NEW w \in Workers, HandlerEnds(w) PROVE TruthInv'
  <2>1. JobOf(msg[w]) \in Jobs /\ Arrives(w, "markSucceeded") /\ UNCHANGED row
    BY <1>6, GotoArrives, MessageParts DEF HandlerEnds, WorkersTyped, rows
  <2>2. /\ delivered'[JobOf(msg[w])] > 0
        /\ \A j \in Jobs : delivered[j] > 0 => delivered'[j] > 0
    BY <1>6, <2>1 DEF HandlerEnds, HistoryTyped
  <2>3. \A id \in Ids : id[1] \in Jobs
    BY DEF Ids
  <2>4. \A v \in Workers : pc[v] = "markSucceeded" => JobOf(msg[v]) \in Jobs
    BY MessageParts DEF WorkersTyped
  <2> QED
    BY <2>1, <2>2, <2>3, <2>4 DEF TruthInv, SucceededMeansDelivered, Arrives, Elsewhere
<1>7. ASSUME NEW w \in Workers, MarkSucceeded(w) PROVE TruthInv'
  <2>1. msg[w].id \in Ids /\ Arrives(w, "ack") /\ pc[w] = "markSucceeded"
    BY <1>7, GotoArrives, MessageParts DEF MarkSucceeded, WorkersTyped
  <2>2. \A id \in Ids \ {msg[w].id} : row'[id] = row[id]
    BY <1>7, <2>1 DEF MarkSucceeded, Mark, RowsTyped
  <2> QED
    BY <1>7, <2>1, <2>2 DEF MarkSucceeded, TruthInv, SucceededMeansDelivered, Arrives, Elsewhere, JobOf
<1>8. ASSUME NEW w \in Workers, MarkFailed(w) PROVE TruthInv'
  <2>1. msg[w] \in Messages
    BY <1>8 DEF MarkFailed, WorkersTyped
  <2> QED
    BY <1>8, <2>1, TruthKept, MarkKeeps, RecoverArrives DEF MarkFailed, Arrives, Statuses
<1>9. ASSUME NEW w \in Workers, Ack(w) PROVE TruthInv'
  <2>1. Elsewhere(w) /\ pc'[w] # "markSucceeded"
    BY <1>9, RecoverArrives DEF Ack, Arrives, Elsewhere, WorkersTyped
  <2> QED
    BY <1>9, <2>1, TruthKept, RowsUnchanged DEF Ack, rows, history
<1>10. ASSUME NEW w \in Workers, Report(w) PROVE TruthInv'
  BY <1>10, TruthKept, RowsUnchanged, DoneLeaves DEF Report, rows, history
<1>11. ASSUME NEW w \in Workers, PublishRetry(w) PROVE TruthInv'
  BY <1>11, TruthKept, RowsUnchanged, GotoArrives DEF PublishRetry, Arrives, rows, history
<1>12. ASSUME NEW w \in Workers, MarkRetryScheduled(w) PROVE TruthInv'
  BY <1>12, TruthKept, MarkKeeps, GotoArrives DEF MarkRetryScheduled, Arrives, Statuses, WorkersTyped
<1>13. ASSUME NEW w \in Workers, PublishDeadLetter(w) PROVE TruthInv'
  BY <1>13, TruthKept, RowsUnchanged, GotoArrives DEF PublishDeadLetter, Arrives, rows, history
<1>14. ASSUME NEW w \in Workers, MarkDeadLettered(w) PROVE TruthInv'
  BY <1>14, TruthKept, MarkKeeps, GotoArrives DEF MarkDeadLettered, Arrives, Statuses, WorkersTyped
<1>15. ASSUME NEW w \in Workers, AckRecovered(w) PROVE TruthInv'
  BY <1>15, TruthKept, RowsUnchanged, DoneLeaves DEF AckRecovered, rows, history
<1>16. ASSUME NEW w \in Workers, Nack(w) PROVE TruthInv'
  BY <1>16, TruthKept, RowsUnchanged, DoneLeaves DEF Nack, rows, history
<1>17. ASSUME NEW w \in Workers, BeginFails(w) PROVE TruthInv'
  <2>1. msg[w] \in Messages
    BY <1>17 DEF BeginFails, WorkersTyped
  <2>2. \A id \in Ids : Keeps(id)
    BY <1>17, <2>1, RowsUnchanged, UpsertKeeps DEF BeginFails
  <2> QED
    BY <1>17, <2>2, TruthKept, RecoverArrives DEF BeginFails, Arrives, history
<1>18. ASSUME NEW w \in Workers, HandlerThrows(w) PROVE TruthInv'
  BY <1>18, TruthKept, RowsUnchanged, FailsWithArrives DEF HandlerThrows, Arrives, rows, history
<1>19. ASSUME NEW w \in Workers, MarkSucceededFails(w) PROVE TruthInv'
  BY <1>19, TruthKept, RowsUnchanged, FailsWithArrives DEF MarkSucceededFails, Arrives, rows
<1>20. ASSUME NEW w \in Workers, MarkFailedFails(w) PROVE TruthInv'
  BY <1>20, TruthKept, RowsUnchanged, RecoverArrives DEF MarkFailedFails, Arrives, rows, history
<1>21. ASSUME NEW w \in Workers, ReportFails(w) PROVE TruthInv'
  BY <1>21, TruthKept, RowsUnchanged, RecoverArrives DEF ReportFails, Arrives, rows, history
<1>22. ASSUME NEW w \in Workers, RecoveryFails(w) PROVE TruthInv'
  BY <1>22, TruthKept, RowsUnchanged, AbandonLeaves DEF RecoveryFails, Arrives, rows, history
<1>23. ASSUME NEW w \in Workers, Disconnect(w) PROVE TruthInv'
  <2>1. \A v \in Workers : pc'[v] = "markSucceeded" => pc[v] = "markSucceeded" /\ msg'[v] = msg[v]
    BY <1>23 DEF Disconnect, Done, WorkersTyped
  <2> QED
    BY <1>23, <2>1 DEF Disconnect, rows, history, TruthInv, SucceededMeansDelivered
<1>24. ASSUME NEW w \in Workers, Crash(w) PROVE TruthInv'
  BY <1>24, TruthKept, RowsUnchanged, DoneLeaves DEF Crash, GiveBack, rows
<1>25. ASSUME NEW w \in Workers, StartWorker(w) PROVE TruthInv'
  BY <1>25 DEF StartWorker, rows, history, TruthInv, SucceededMeansDelivered
<1>26. ASSUME NEW m \in Messages, Expire(m) PROVE TruthInv'
  BY <1>26 DEF Expire, rows, worker, history, TruthInv, SucceededMeansDelivered
<1>27. ASSUME NEW id \in Ids, GrowStale(id) PROVE TruthInv'
  BY <1>27 DEF GrowStale, worker, history, TruthInv, SucceededMeansDelivered
<1>28. ASSUME NEW id \in Ids, Cancel(id) PROVE TruthInv'
  <2>1. \A i \in Ids : row'[i].status = "succeeded" => row[i].status = "succeeded"
    BY <1>28 DEF Cancel, RowsTyped, Rows
  <2> QED
    BY <1>28, <2>1 DEF Cancel, worker, TruthInv, SucceededMeansDelivered
<1>29. ASSUME NEW id \in Ids, NEW f \in BOOLEAN, Requeue(id, f) PROVE TruthInv'
  <2>1. \A i \in Ids : row'[i].status = "succeeded" => row[i].status = "succeeded"
    BY <1>29 DEF Requeue, RowsTyped, Upserted
  <2> QED
    BY <1>29, <2>1 DEF Requeue, worker, history, TruthInv, SucceededMeansDelivered
<1>30. ASSUME NEW w \in Workers, WorkerStep(w) PROVE TruthInv'
  BY <1>30, <1>1, <1>2, <1>3, <1>4, <1>5, <1>6, <1>7, <1>8, <1>9, <1>10, <1>11, <1>12, <1>13,
     <1>14, <1>15, <1>16 DEF WorkerStep
<1>31. ASSUME NEW w \in Workers, FailureStep(w) PROVE TruthInv'
  BY <1>31, <1>17, <1>18, <1>19, <1>20, <1>21, <1>22, <1>23, <1>24, <1>25 DEF FailureStep
<1>32. CASE QueueStep
  BY <1>32, <1>26 DEF QueueStep
<1>33. CASE RowStep
  BY <1>33, <1>27, <1>28, <1>29 DEF RowStep
<1>34. CASE UNCHANGED vars
  BY <1>34 DEF vars, rows, worker, history, TruthInv, SucceededMeansDelivered
<1> QED
  BY <1>30, <1>31, <1>32, <1>33, <1>34 DEF Next

LEMMA TruthInvariant == Spec => []TruthInv
<1>1. Init => TruthInv
  BY DEF Init, TruthInv, SucceededMeansDelivered, NoRow
<1> QED
  BY <1>1, TruthStep, QueueTypeInit, QueueTypeStep, PTL DEF Spec

\* No row says that a job succeeded before the handler did.
THEOREM RowsTellTheTruth == Spec => []SucceededMeansDelivered
<1>1. TruthInv => SucceededMeansDelivered
  BY DEF TruthInv
<1> QED
  BY <1>1, TruthInvariant, PTL

-----------------------------------------------------------------------------
(* Jobs are not lost                                                       *)

\* The steps at which what makes the settlement of the delivery safe is done.
Settling == {"ack", "report", "markRetry", "markDead", "ackRecovered"}

InQueue(m) == ready[m] > 0 \/ waiting[m] > 0

Queued(j) == \E m \in Messages : JobOf(m) = j /\ InQueue(m)

\* The broker would bring the job back, and nothing has taken its place yet.
Owes(w, j) == w \in unsettled /\ JobOf(msg[w]) = j /\ pc[w] \notin Settling

Safe(j) ==
  \/ delivered[j] > 0 \/ j \in deadLetters \/ Queued(j)
  \/ \E w \in Workers : Owes(w, j)

\* A delivery that is being settled does not count.
SafeInv == \A j \in Jobs \ skipped : Safe(j)

LEMMA SafeKept ==
  ASSUME SafeInv, NEW w \in Workers, Elsewhere(w), skipped \subseteq skipped',
         deadLetters \subseteq deadLetters',
         \A j \in Jobs : delivered[j] > 0 => delivered'[j] > 0,
         \A m \in Messages : InQueue(m) => InQueue(m)' \/ Owes(w, JobOf(m))',
         \A j \in Jobs \ skipped' : Owes(w, j) =>
           Owes(w, j)' \/ delivered'[j] > 0 \/ j \in deadLetters' \/ Queued(j)'
  PROVE  SafeInv'
<1> SUFFICES ASSUME NEW j \in Jobs \ skipped' PROVE Safe(j)'
  BY DEF SafeInv
<1>1. \A v \in Workers \ {w} : Owes(v, j) => Owes(v, j)'
  BY DEF Elsewhere, Owes
<1>2. Queued(j) => Queued(j)' \/ Owes(w, j)'
  BY DEF Queued
<1> QED
  BY <1>1, <1>2 DEF SafeInv, Safe

\* A worker that goes on with its delivery.
LEMMA SafeArrives ==
  ASSUME SafeInv, NEW w \in Workers, NEW step, Arrives(w, step),
         UNCHANGED <<ready, waiting, deadLetters, delivered>>, skipped \subseteq skipped',
         \A j \in Jobs \ skipped' : Owes(w, j) /\ step \in Settling => delivered[j] > 0
  PROVE  SafeInv'
<1>1. \A j \in Jobs : Owes(w, j) => Owes(w, j)' \/ step \in Settling
  BY DEF Arrives, Owes
<1>2. \A m \in Messages : InQueue(m) => InQueue(m)'
  BY DEF InQueue
<1> QED
  BY <1>1, <1>2, SafeKept DEF Arrives

\* A worker whose call is over, with what the broker does about the delivery.
LEMMA SafeDone ==
  ASSUME SafeInv, QueuesTyped, NEW w \in Workers, Elsewhere(w), UNCHANGED <<waiting, deadLetters, delivered, skipped>>,
         w \in unsettled /\ pc[w] \notin Settling =>
           msg[w] \in Messages /\ ready' = [ready EXCEPT ![msg[w]] = @ + 1],
         \A m \in Messages : ready[m] > 0 => ready'[m] > 0
  PROVE  SafeInv'
<1>1. \A m \in Messages : InQueue(m) => InQueue(m)'
  BY DEF InQueue
<1>2. ASSUME NEW j \in Jobs, Owes(w, j) PROVE Queued(j)'
  <2>1. msg[w] \in Messages /\ ready'[msg[w]] > 0 /\ JobOf(msg[w]) = j
    BY <1>2 DEF Owes, QueuesTyped
  <2> QED
    BY <2>1 DEF Queued, InQueue, JobOf
<1> QED
  BY <1>1, <1>2, SafeKept

\* What the broker takes back is in its queue again.
LEMMA GivenBack ==
  ASSUME QueuesTyped, WorkersTyped, NEW w \in Workers,
         ready' = IF w \in unsettled THEN [ready EXCEPT ![msg[w]] = @ + 1] ELSE ready
  PROVE  /\ w \in unsettled => msg[w] \in Messages /\ ready' = [ready EXCEPT ![msg[w]] = @ + 1]
         /\ \A m \in Messages : ready[m] > 0 => ready'[m] > 0
<1>1. w \in unsettled => msg[w] \in Messages
  BY DEF WorkersTyped
<1> QED
  BY <1>1 DEF QueuesTyped

LEMMA SafeUnchanged ==
  ASSUME SafeInv, UNCHANGED <<waiting, deadLetters, delivered, skipped, pc, msg, unsettled>>,
         \A m \in Messages : InQueue(m) => InQueue(m)'
  PROVE  SafeInv'
BY DEF SafeInv, Safe, Queued, Owes

\* Whatever settles a delivery, or forgets it, comes after what makes that safe.
LEMMA SafeStep == TypeInv /\ TruthInv /\ SafeInv /\ [Next]_vars => SafeInv'
<1> SUFFICES ASSUME TypeInv, TruthInv, SafeInv, [Next]_vars PROVE SafeInv'
  OBVIOUS
<1> QueuesTyped /\ RowsTyped /\ WorkersTyped /\ HistoryTyped
  BY DEF TypeInv, Typed
<1> \A step \in {"find", "completed", "lock", "handle", "markSucceeded", "markFailed", "stuck",
                 "publishDead", "publishRetry", "nack"} : step \notin Settling
  BY DEF Settling
<1>1. ASSUME NEW w \in Workers, NEW m \in Messages, Take(w, m) PROVE SafeInv'
  <2>1. Elsewhere(w) /\ UNCHANGED <<waiting, deadLetters, delivered, skipped>>
    BY <1>1 DEF Take, Elsewhere, WorkersTyped, history
  <2>2. Owes(w, JobOf(m))'
    BY <1>1 DEF Take, Owes, WorkersTyped, Settling
  <2>3. \A n \in Messages : InQueue(n) => InQueue(n)' \/ Owes(w, JobOf(n))'
    BY <1>1, <2>1, <2>2 DEF Take, InQueue, QueuesTyped
  <2>4. w \notin unsettled
    BY <1>1 DEF Take, WorkersTyped
  <2> QED
    BY <2>1, <2>3, <2>4, SafeKept DEF Owes
<1>2. ASSUME NEW w \in Workers, Record(w) PROVE SafeInv'
  BY <1>2, SafeArrives, GotoArrives DEF Record, queues, history
<1>3. ASSUME NEW w \in Workers, FindRow(w) PROVE SafeInv'
  <2>1. JobOf(msg[w]) = msg[w].id[1]
    BY DEF JobOf
  <2>2. \/ Goto(w, "ack") /\ skipped' = skipped \cup {JobOf(msg[w])}
        \/ Goto(w, "completed") /\ skipped' = skipped
    BY <1>3, <2>1 DEF FindRow
  <2>3. UNCHANGED <<ready, waiting, deadLetters, delivered>>
    BY <1>3 DEF FindRow, queues
  <2>4. CASE Goto(w, "ack") /\ skipped' = skipped \cup {JobOf(msg[w])}
    BY <2>3, <2>4, SafeArrives, GotoArrives DEF Owes
  <2>5. CASE Goto(w, "completed") /\ skipped' = skipped
    BY <2>3, <2>5, SafeArrives, GotoArrives
  <2> QED
    BY <2>2, <2>4, <2>5
<1>4. ASSUME NEW w \in Workers, FindCompleted(w) PROVE SafeInv'
  <2>1. UNCHANGED <<ready, waiting, deadLetters, delivered, skipped>>
    BY <1>4 DEF FindCompleted, queues, history
  <2>2. CASE HasCompleted(msg[w])
    <3>1. JobOf(msg[w]) \in Jobs
      BY <1>4, MessageParts DEF FindCompleted, WorkersTyped
    <3>2. \A n \in 0..MaxRequests : <<JobOf(msg[w]), n>> \in Ids /\ <<JobOf(msg[w]), n>>[1] = JobOf(msg[w])
      BY <3>1 DEF Ids
    <3>3. delivered[JobOf(msg[w])] > 0
      BY <2>2, <3>2 DEF HasCompleted, TruthInv, SucceededMeansDelivered
    <3>4. Arrives(w, "ack")
      BY <1>4, <2>2, GotoArrives DEF FindCompleted
    <3> QED
      BY <2>1, <3>3, <3>4, SafeArrives DEF Owes
  <2>3. CASE ~HasCompleted(msg[w])
    BY <1>4, <2>1, <2>3, SafeArrives, GotoArrives DEF FindCompleted
  <2> QED
    BY <2>2, <2>3
<1>5. ASSUME NEW w \in Workers, Lock(w) PROVE SafeInv'
  BY <1>5, SafeArrives, GotoArrives DEF Lock, queues
<1>6. ASSUME NEW w \in Workers, HandlerEnds(w) PROVE SafeInv'
  <2>1. \A j \in Jobs : delivered[j] > 0 => delivered'[j] > 0
    BY <1>6 DEF HandlerEnds, HistoryTyped
  <2>2. Arrives(w, "markSucceeded") /\ UNCHANGED <<ready, waiting, deadLetters, skipped>>
    BY <1>6, GotoArrives DEF HandlerEnds, queues
  <2>3. \A j \in Jobs : Owes(w, j) => Owes(w, j)'
    BY <2>2 DEF Arrives, Owes
  <2>4. \A m \in Messages : InQueue(m) => InQueue(m)'
    BY <2>2 DEF InQueue
  <2> QED
    BY <2>1, <2>2, <2>3, <2>4, SafeKept DEF Arrives
<1>7. ASSUME NEW w \in Workers, MarkSucceeded(w) PROVE SafeInv'
  <2>1. Arrives(w, "ack") /\ UNCHANGED <<ready, waiting, deadLetters, delivered, skipped>>
    BY <1>7, GotoArrives DEF MarkSucceeded, queues
  <2>2. \A j \in Jobs : Owes(w, j) => delivered[j] > 0
    BY <1>7 DEF MarkSucceeded, Owes, TruthInv
  <2> QED
    BY <2>1, <2>2, SafeArrives
<1>8. ASSUME NEW w \in Workers, MarkFailed(w) PROVE SafeInv'
  BY <1>8, SafeArrives, RecoverArrives DEF MarkFailed, queues
<1>9. ASSUME NEW w \in Workers, Ack(w) PROVE SafeInv'
  <2>1. CASE w \in channel
    <3>1. Elsewhere(w) /\ \A j \in Jobs : ~Owes(w, j)
      BY <1>9, <2>1 DEF Ack, Elsewhere, Owes, Settling, WorkersTyped
    <3>2. UNCHANGED <<ready, waiting, deadLetters, delivered, skipped>>
      BY <1>9 DEF Ack, queues, history
    <3>3. \A m \in Messages : InQueue(m) => InQueue(m)'
      BY <3>2 DEF InQueue
    <3> QED
      BY <3>1, <3>2, <3>3, SafeKept
  <2>2. CASE w \notin channel
    BY <1>9, <2>2, SafeArrives, RecoverArrives DEF Ack, queues, history
  <2> QED
    BY <2>1, <2>2
<1>10. ASSUME NEW w \in Workers, Report(w) PROVE SafeInv'
  <2>1. Elsewhere(w) /\ pc[w] \in Settling /\ UNCHANGED <<ready, waiting, deadLetters, delivered, skipped>>
    BY <1>10, DoneLeaves DEF Report, queues, history, Settling
  <2> QED
    BY <2>1, SafeDone
<1>11. ASSUME NEW w \in Workers, PublishRetry(w) PROVE SafeInv'
  <2>1. /\ msg[w] \in Messages /\ Retried(msg[w]) \in Messages
        /\ JobOf(Retried(msg[w])) = JobOf(msg[w])
    <3>1. msg[w] \in Messages /\ msg[w].attempt < MaxAttempts
      BY <1>11 DEF PublishRetry, WorkersTyped
    <3>2. msg[w].attempt + 1 \in 0..MaxAttempts
      BY <3>1, MessageParts, QueueAssumption
    <3> QED
      BY <3>1, <3>2 DEF Retried, Messages, Routes, JobOf
  <2>2. /\ UNCHANGED <<ready, deadLetters, delivered, skipped>> /\ Arrives(w, "markRetry")
        /\ waiting' = [waiting EXCEPT ![Retried(msg[w])] = @ + 1]
    BY <1>11, GotoArrives DEF PublishRetry, history
  <2>3. waiting'[Retried(msg[w])] > 0 /\ \A m \in Messages : waiting[m] > 0 => waiting'[m] > 0
    BY <2>1, <2>2 DEF QueuesTyped
  <2>4. \A m \in Messages : InQueue(m) => InQueue(m)'
    BY <2>2, <2>3 DEF InQueue
  <2>5. \A j \in Jobs : Owes(w, j) => Queued(j)'
    BY <2>1, <2>3 DEF Owes, Queued, InQueue, JobOf
  <2> QED
    BY <2>2, <2>4, <2>5, SafeKept DEF Arrives
<1>12. ASSUME NEW w \in Workers, MarkRetryScheduled(w) PROVE SafeInv'
  <2>1. \A j \in Jobs : ~Owes(w, j)
    BY <1>12 DEF MarkRetryScheduled, Owes, Settling
  <2> QED
    BY <1>12, <2>1, SafeArrives, GotoArrives DEF MarkRetryScheduled, queues
<1>13. ASSUME NEW w \in Workers, PublishDeadLetter(w) PROVE SafeInv'
  <2>1. /\ UNCHANGED <<ready, waiting, delivered, skipped>> /\ Arrives(w, "markDead")
        /\ deadLetters' = deadLetters \cup {JobOf(msg[w])}
    BY <1>13, GotoArrives DEF PublishDeadLetter, history
  <2>2. \A m \in Messages : InQueue(m) => InQueue(m)'
    BY <2>1 DEF InQueue
  <2> QED
    BY <2>1, <2>2, SafeKept DEF Arrives, Owes
<1>14. ASSUME NEW w \in Workers, MarkDeadLettered(w) PROVE SafeInv'
  <2>1. \A j \in Jobs : ~Owes(w, j)
    BY <1>14 DEF MarkDeadLettered, Owes, Settling
  <2> QED
    BY <1>14, <2>1, SafeArrives, GotoArrives DEF MarkDeadLettered, queues
<1>15. ASSUME NEW w \in Workers, AckRecovered(w) PROVE SafeInv'
  <2>1. Elsewhere(w) /\ pc[w] \in Settling /\ UNCHANGED <<ready, waiting, deadLetters, delivered, skipped>>
    BY <1>15, DoneLeaves DEF AckRecovered, queues, history, Settling
  <2> QED
    BY <2>1, SafeDone
<1>16. ASSUME NEW w \in Workers, Nack(w) PROVE SafeInv'
  <2>1. Elsewhere(w) /\ UNCHANGED <<waiting, deadLetters, delivered, skipped>>
    BY <1>16, DoneLeaves DEF Nack, history
  <2> QED
    BY <1>16, <2>1, GivenBack, SafeDone DEF Nack
<1>17. ASSUME NEW w \in Workers, BeginFails(w) PROVE SafeInv'
  BY <1>17, SafeArrives, RecoverArrives DEF BeginFails, queues, history
<1>18. ASSUME NEW w \in Workers, HandlerThrows(w) PROVE SafeInv'
  BY <1>18, SafeArrives, FailsWithArrives DEF HandlerThrows, queues, history
<1>19. ASSUME NEW w \in Workers, MarkSucceededFails(w) PROVE SafeInv'
  BY <1>19, SafeArrives, FailsWithArrives DEF MarkSucceededFails, queues
<1>20. ASSUME NEW w \in Workers, MarkFailedFails(w) PROVE SafeInv'
  BY <1>20, SafeArrives, RecoverArrives DEF MarkFailedFails, queues, history
<1>21. ASSUME NEW w \in Workers, ReportFails(w) PROVE SafeInv'
  BY <1>21, SafeArrives, RecoverArrives DEF ReportFails, queues, history
<1>22. ASSUME NEW w \in Workers, RecoveryFails(w) PROVE SafeInv'
  <2>1. UNCHANGED <<ready, waiting, deadLetters, delivered, skipped>>
    BY <1>22 DEF RecoveryFails, queues, history
  <2>2. CASE Arrives(w, "stuck")
    BY <2>1, <2>2, SafeArrives
  <2>3. CASE w \notin unsettled /\ Elsewhere(w)
    BY <2>1, <2>3, SafeDone
  <2> QED
    BY <1>22, <2>2, <2>3, AbandonLeaves DEF RecoveryFails
<1>23. ASSUME NEW w \in Workers, Disconnect(w) PROVE SafeInv'
  <2>1. Elsewhere(w) /\ UNCHANGED <<waiting, deadLetters, delivered, skipped>>
    BY <1>23 DEF Disconnect, GiveBack, Done, Elsewhere, WorkersTyped, history
  <2> QED
    BY <1>23, <2>1, GivenBack, SafeDone DEF Disconnect, GiveBack
<1>24. ASSUME NEW w \in Workers, Crash(w) PROVE SafeInv'
  <2>1. Elsewhere(w) /\ UNCHANGED <<waiting, deadLetters, delivered, skipped>>
    BY <1>24, DoneLeaves DEF Crash, GiveBack
  <2> QED
    BY <1>24, <2>1, GivenBack, SafeDone DEF Crash, GiveBack
<1>25. ASSUME NEW w \in Workers, StartWorker(w) PROVE SafeInv'
  BY <1>25, SafeUnchanged DEF StartWorker, queues, history, InQueue
<1>26. ASSUME NEW m \in Messages, Expire(m) PROVE SafeInv'
  <2>1. \A n \in Messages : InQueue(n) => InQueue(n)'
    BY <1>26 DEF Expire, InQueue, QueuesTyped
  <2> QED
    BY <1>26, <2>1 DEF Expire, worker, history, SafeInv, Safe, Queued, Owes
<1>27. ASSUME NEW id \in Ids, GrowStale(id) PROVE SafeInv'
  BY <1>27, SafeUnchanged DEF GrowStale, queues, worker, history, InQueue
<1>28. ASSUME NEW id \in Ids, Cancel(id) PROVE SafeInv'
  BY <1>28, SafeUnchanged DEF Cancel, queues, worker, InQueue
<1>29. ASSUME NEW id \in Ids, NEW f \in BOOLEAN, Requeue(id, f) PROVE SafeInv'
  <2>1. \A n \in Messages : ready[n] > 0 => ready'[n] > 0
    BY <1>29 DEF Requeue, QueuesTyped
  <2> QED
    BY <1>29, <2>1, SafeUnchanged DEF Requeue, worker, history, InQueue
<1>30. ASSUME NEW w \in Workers, WorkerStep(w) PROVE SafeInv'
  BY <1>30, <1>1, <1>2, <1>3, <1>4, <1>5, <1>6, <1>7, <1>8, <1>9, <1>10, <1>11, <1>12, <1>13,
     <1>14, <1>15, <1>16 DEF WorkerStep
<1>31. ASSUME NEW w \in Workers, FailureStep(w) PROVE SafeInv'
  BY <1>31, <1>17, <1>18, <1>19, <1>20, <1>21, <1>22, <1>23, <1>24, <1>25 DEF FailureStep
<1>32. CASE QueueStep
  BY <1>32, <1>26 DEF QueueStep
<1>33. CASE RowStep
  BY <1>33, <1>27, <1>28, <1>29 DEF RowStep
<1>34. CASE UNCHANGED vars
  BY <1>34, SafeUnchanged DEF vars, queues, worker, history, InQueue
<1> QED
  BY <1>30, <1>31, <1>32, <1>33, <1>34 DEF Next

\* A job that no lock made a worker skip is in flight, delivered, or in the
\* dead-letter queue, whichever call fails and whichever connection closes.
THEOREM JobsAreNotLost == Spec => []NotLostUnlessSkipped
<1>1. ASSUME Init PROVE SafeInv
  <2> SUFFICES ASSUME NEW j \in Jobs PROVE Queued(j)
    BY DEF SafeInv, Safe
  <2> DEFINE m == [id |-> <<j, 0>>, attempt |-> 0, routingKey |-> "delivery"]
  <2>1. m \in Messages
    BY QueueAssumption DEF Messages, Ids, Routes
  <2>2. JobOf(m) = j /\ ready[m] > 0
    BY <1>1, <2>1 DEF Init, JobOf
  <2> QED
    BY <2>1, <2>2 DEF Queued, InQueue
<1>2. TypeInv /\ SafeInv => NotLostUnlessSkipped
  <2> SUFFICES ASSUME TypeInv, SafeInv, NEW j \in Jobs \ skipped
               PROVE  InFlight(j) \/ delivered[j] > 0 \/ j \in deadLetters
    BY DEF NotLostUnlessSkipped
  <2>1. Queued(j) => InFlight(j)
    BY DEF Queued, InQueue, InFlight, TypeInv, Typed, QueuesTyped
  <2>2. \A w \in Workers : Owes(w, j) => InFlight(j)
    BY DEF Owes, InFlight
  <2> QED
    BY <2>1, <2>2 DEF SafeInv, Safe
<1> QED
  BY <1>1, <1>2, SafeStep, TruthInvariant, QueueTypeInit, QueueTypeStep, PTL DEF Spec

-----------------------------------------------------------------------------
(* The ids of messages                                                     *)

\* A request has come before an id that names it.
Issued(id) == id[2] <= requests

\* So the id of a requeued message is new.
IdsInv ==
  /\ \A id \in Ids : Exists(id) => Issued(id)
  /\ \A m \in Messages : InQueue(m) => Issued(m.id)
  /\ \A w \in Workers : pc[w] # "idle" => Issued(msg[w].id)

LEMMA IdsKept ==
  ASSUME IdsInv, NEW w \in Workers, Elsewhere(w), UNCHANGED requests,
         pc'[w] = "idle" \/ (pc[w] # "idle" /\ msg'[w] = msg[w]),
         \A id \in Ids : Exists(id)' => Exists(id) \/ (pc[w] # "idle" /\ id = msg[w].id),
         \A m \in Messages : InQueue(m)' => InQueue(m) \/ (pc[w] # "idle" /\ m.id = msg[w].id)
  PROVE  IdsInv'
BY DEF IdsInv, Elsewhere, Issued

LEMMA IdsUnchanged ==
  ASSUME IdsInv, HistoryTyped, WorkersTyped, requests' \in {requests, requests + 1}, UNCHANGED <<pc, msg>>,
         \A id \in Ids : Exists(id)' => Exists(id) \/ Issued(id)',
         \A m \in Messages : InQueue(m)' => InQueue(m) \/ Issued(m.id)'
  PROVE  IdsInv'
<1>1. requests \in Nat /\ requests' \in Nat /\ requests <= requests'
  BY QueueAssumption DEF HistoryTyped
<1>2. \A i \in Ids : Issued(i) => Issued(i)'
  BY <1>1 DEF Issued, Ids
<1>3. (\A i \in Ids : Exists(i) => Issued(i))'
  BY <1>2 DEF IdsInv
<1>4. (\A m \in Messages : InQueue(m) => Issued(m.id))'
  BY <1>2, MessageParts DEF IdsInv
<1>5. ASSUME NEW w \in Workers, pc'[w] # "idle" PROVE Issued(msg[w].id)'
  <2>1. pc[w] # "idle" /\ msg'[w] = msg[w] /\ msg[w].id \in Ids
    BY <1>5, MessageParts DEF WorkersTyped
  <2> QED
    BY <1>2, <2>1 DEF IdsInv, Issued
<1> QED
  BY <1>3, <1>4, <1>5 DEF IdsInv

\* Rows, copies and deliveries carry ids that are already issued.
LEMMA IdsStep == TypeInv /\ IdsInv /\ [Next]_vars => IdsInv'
<1> SUFFICES ASSUME TypeInv, IdsInv, [Next]_vars PROVE IdsInv'
  OBVIOUS
<1> QueuesTyped /\ RowsTyped /\ WorkersTyped /\ HistoryTyped
  BY DEF TypeInv, Typed
<1>q. ASSUME UNCHANGED <<ready, waiting>> PROVE \A m \in Messages : InQueue(m)' => InQueue(m)
  BY <1>q DEF InQueue
<1>1. ASSUME NEW w \in Workers, NEW m \in Messages, Take(w, m) PROVE IdsInv'
  <2>1. \A n \in Messages : InQueue(n)' => InQueue(n)
    BY <1>1 DEF Take, InQueue, QueuesTyped
  <2>2. InQueue(m) /\ UNCHANGED <<row, requests>>
    BY <1>1 DEF Take, InQueue, rows
  <2>3. \A v \in Workers : pc'[v] # "idle" => msg'[v] = m \/ (pc[v] # "idle" /\ msg'[v] = msg[v])
    BY <1>1 DEF Take, WorkersTyped
  <2> QED
    BY <2>1, <2>2, <2>3 DEF IdsInv, Issued, Exists
<1>2. ASSUME NEW w \in Workers, Record(w) PROVE IdsInv'
  <2>1. msg[w] \in Messages /\ Arrives(w, "find")
    BY <1>2, GotoArrives DEF Record, WorkersTyped
  <2> QED
    BY <1>2, <1>q, <2>1, IdsKept, UpsertKeeps DEF Record, Arrives, queues
<1>3. ASSUME NEW w \in Workers, FindRow(w) PROVE IdsInv'
  BY <1>3, <1>q, IdsKept, RowsUnchanged, GotoArrives DEF FindRow, Arrives, queues, rows
<1>4. ASSUME NEW w \in Workers, FindCompleted(w) PROVE IdsInv'
  BY <1>4, <1>q, IdsKept, RowsUnchanged, GotoArrives DEF FindCompleted, Arrives, queues, rows
<1>5. ASSUME NEW w \in Workers, Lock(w) PROVE IdsInv'
  <2>1. msg[w].id \in Ids /\ Arrives(w, "handle")
    BY <1>5, GotoArrives, MessageParts DEF Lock, WorkersTyped
  <2>2. \A id \in Ids \ {msg[w].id} : row'[id] = row[id]
    BY <1>5, <2>1 DEF Lock, RowsTyped
  <2> QED
    BY <1>5, <1>q, <2>1, <2>2, IdsKept DEF Lock, Arrives, Exists, queues
<1>6. ASSUME NEW w \in Workers, HandlerEnds(w) PROVE IdsInv'
  BY <1>6, <1>q, IdsKept, RowsUnchanged, GotoArrives DEF HandlerEnds, Arrives, queues, rows
<1>7. ASSUME NEW w \in Workers, MarkSucceeded(w) PROVE IdsInv'
  <2>1. msg[w].id \in Ids /\ Arrives(w, "ack")
    BY <1>7, GotoArrives, MessageParts DEF MarkSucceeded, WorkersTyped
  <2>2. \A id \in Ids : Exists(id)' => Exists(id) \/ id = msg[w].id
    BY <1>7, <2>1 DEF MarkSucceeded, Mark, RowsTyped, Exists
  <2> QED
    BY <1>7, <1>q, <2>1, <2>2, IdsKept DEF MarkSucceeded, Arrives, queues
<1>8. ASSUME NEW w \in Workers, MarkFailed(w) PROVE IdsInv'
  <2>1. msg[w] \in Messages /\ pc[w] # "idle"
    BY <1>8 DEF MarkFailed, WorkersTyped
  <2> QED
    BY <1>8, <1>q, <2>1, IdsKept, MarkKeeps, RecoverArrives DEF MarkFailed, Arrives, Statuses, queues
<1>9. ASSUME NEW w \in Workers, Ack(w) PROVE IdsInv'
  <2>1. Elsewhere(w) /\ msg'[w] = msg[w] /\ pc[w] # "idle"
    BY <1>9, RecoverArrives DEF Ack, Arrives, Elsewhere, WorkersTyped
  <2> QED
    BY <1>9, <1>q, <2>1, IdsKept, RowsUnchanged DEF Ack, queues, rows
<1>10. ASSUME NEW w \in Workers, Report(w) PROVE IdsInv'
  BY <1>10, <1>q, IdsKept, RowsUnchanged, DoneLeaves DEF Report, Arrives, queues, rows
<1>11. ASSUME NEW w \in Workers, PublishRetry(w) PROVE IdsInv'
  <2>1. msg[w] \in Messages /\ Retried(msg[w]).id = msg[w].id
    BY <1>11 DEF PublishRetry, WorkersTyped, Retried, Messages
  <2>2. \A m \in Messages : InQueue(m)' => InQueue(m) \/ m.id = msg[w].id
    BY <1>11, <2>1 DEF PublishRetry, InQueue, QueuesTyped
  <2> QED
    BY <1>11, <2>2, IdsKept, RowsUnchanged, GotoArrives DEF PublishRetry, Arrives, rows
<1>12. ASSUME NEW w \in Workers, MarkRetryScheduled(w) PROVE IdsInv'
  <2>1. msg[w] \in Messages /\ pc[w] # "idle" /\ Arrives(w, "ackRecovered")
    BY <1>12, GotoArrives DEF MarkRetryScheduled, WorkersTyped
  <2> QED
    BY <1>12, <1>q, <2>1, IdsKept, MarkKeeps DEF MarkRetryScheduled, Arrives, Statuses, queues
<1>13. ASSUME NEW w \in Workers, PublishDeadLetter(w) PROVE IdsInv'
  BY <1>13, <1>q, IdsKept, RowsUnchanged, GotoArrives DEF PublishDeadLetter, Arrives, rows
<1>14. ASSUME NEW w \in Workers, MarkDeadLettered(w) PROVE IdsInv'
  <2>1. msg[w] \in Messages /\ pc[w] # "idle" /\ Arrives(w, "ackRecovered")
    BY <1>14, GotoArrives DEF MarkDeadLettered, WorkersTyped
  <2> QED
    BY <1>14, <1>q, <2>1, IdsKept, MarkKeeps DEF MarkDeadLettered, Arrives, Statuses, queues
<1>15. ASSUME NEW w \in Workers, AckRecovered(w) PROVE IdsInv'
  BY <1>15, <1>q, IdsKept, RowsUnchanged, DoneLeaves DEF AckRecovered, Arrives, queues, rows
<1>16. ASSUME NEW w \in Workers, Nack(w) PROVE IdsInv'
  <2>1. pc[w] # "idle" /\ \A m \in Messages : InQueue(m)' => InQueue(m) \/ m = msg[w]
    BY <1>16 DEF Nack, InQueue, QueuesTyped
  <2> QED
    BY <1>16, <2>1, IdsKept, RowsUnchanged, DoneLeaves DEF Nack, rows
<1>17. ASSUME NEW w \in Workers, BeginFails(w) PROVE IdsInv'
  <2>1. msg[w] \in Messages /\ pc[w] # "idle"
    BY <1>17 DEF BeginFails, WorkersTyped
  <2>2. \A id \in Ids : Exists(id)' => Exists(id) \/ id = msg[w].id
    BY <1>17, <2>1, RowsUnchanged, UpsertKeeps DEF BeginFails
  <2> QED
    BY <1>17, <1>q, <2>1, <2>2, IdsKept, RecoverArrives DEF BeginFails, Arrives, queues
<1>18. ASSUME NEW w \in Workers, HandlerThrows(w) PROVE IdsInv'
  BY <1>18, <1>q, IdsKept, RowsUnchanged, FailsWithArrives DEF HandlerThrows, Arrives, queues, rows
<1>19. ASSUME NEW w \in Workers, MarkSucceededFails(w) PROVE IdsInv'
  BY <1>19, <1>q, IdsKept, RowsUnchanged, FailsWithArrives DEF MarkSucceededFails, Arrives, queues, rows
<1>20. ASSUME NEW w \in Workers, MarkFailedFails(w) PROVE IdsInv'
  BY <1>20, <1>q, IdsKept, RowsUnchanged, RecoverArrives DEF MarkFailedFails, Arrives, queues, rows
<1>21. ASSUME NEW w \in Workers, ReportFails(w) PROVE IdsInv'
  BY <1>21, <1>q, IdsKept, RowsUnchanged, RecoverArrives DEF ReportFails, Arrives, queues, rows
<1>22. ASSUME NEW w \in Workers, RecoveryFails(w) PROVE IdsInv'
  BY <1>22, <1>q, IdsKept, RowsUnchanged, AbandonLeaves DEF RecoveryFails, Arrives, queues, rows
<1>23. ASSUME NEW w \in Workers, Disconnect(w) PROVE IdsInv'
  <2>1. \A m \in Messages : InQueue(m)' => InQueue(m) \/ (pc[w] # "idle" /\ m = msg[w])
    BY <1>23 DEF Disconnect, GiveBack, InQueue, QueuesTyped, WorkersTyped
  <2>2. \A v \in Workers : pc'[v] # "idle" => pc[v] # "idle" /\ msg'[v] = msg[v]
    BY <1>23 DEF Disconnect, Done, WorkersTyped
  <2> QED
    BY <1>23, <2>1, <2>2 DEF Disconnect, rows, IdsInv, Exists, Issued
<1>24. ASSUME NEW w \in Workers, Crash(w) PROVE IdsInv'
  <2>1. \A m \in Messages : InQueue(m)' => InQueue(m) \/ (pc[w] # "idle" /\ m = msg[w])
    BY <1>24 DEF Crash, GiveBack, InQueue, QueuesTyped, WorkersTyped
  <2> QED
    BY <1>24, <2>1, IdsKept, RowsUnchanged, DoneLeaves DEF Crash, GiveBack, rows
<1>25. ASSUME NEW w \in Workers, StartWorker(w) PROVE IdsInv'
  BY <1>25, <1>q, IdsUnchanged, RowsUnchanged DEF StartWorker, queues, rows
<1>26. ASSUME NEW m \in Messages, Expire(m) PROVE IdsInv'
  <2>1. \A n \in Messages : InQueue(n)' => InQueue(n)
    BY <1>26 DEF Expire, InQueue, QueuesTyped
  <2> QED
    BY <1>26, <2>1, IdsUnchanged, RowsUnchanged DEF Expire, worker, rows
<1>27. ASSUME NEW id \in Ids, GrowStale(id) PROVE IdsInv'
  BY <1>27, <1>q, IdsUnchanged, RowsUnchanged DEF GrowStale, queues, worker
<1>28. ASSUME NEW id \in Ids, Cancel(id) PROVE IdsInv'
  <2>1. \A i \in Ids : Exists(i)' => Exists(i)
    BY <1>28 DEF Cancel, Exists, RowsTyped, Rows
  <2> QED
    BY <1>28, <1>q, <2>1, IdsUnchanged DEF Cancel, Request, queues, worker
<1>29. ASSUME NEW id \in Ids, NEW f \in BOOLEAN, Requeue(id, f) PROVE IdsInv'
  <2> DEFINE new == <<id[1], requests + 1>>
             m == [id |-> new, attempt |-> IF f THEN 0 ELSE row[id].attempt, routingKey |-> row[id].route]
  <2>1. /\ row' = [row EXCEPT ![m.id] = Upserted(m, "queued")]
        /\ ready' = IF m.routingKey = "delivery" THEN [ready EXCEPT ![m] = @ + 1] ELSE ready
        /\ UNCHANGED <<waiting, pc, msg>> /\ requests' = requests + 1 /\ m.id = new
    BY <1>29 DEF Requeue, Request, worker
  <2>2. requests + 1 <= requests + 1
    BY QueueAssumption DEF HistoryTyped
  <2>3. new[2] <= requests'
    BY <2>1, <2>2
  <2> HIDE DEF new, m
  <2>4. \A i \in Ids : Exists(i)' => Exists(i) \/ i = new
    BY <2>1 DEF Exists, RowsTyped
  <2>5. \A n \in Messages : InQueue(n)' => InQueue(n) \/ n = m
    BY <2>1 DEF InQueue, QueuesTyped
  <2> QED
    BY <2>1, <2>3, <2>4, <2>5, IdsUnchanged DEF Issued
<1>30. ASSUME NEW w \in Workers, WorkerStep(w) PROVE IdsInv'
  BY <1>30, <1>1, <1>2, <1>3, <1>4, <1>5, <1>6, <1>7, <1>8, <1>9, <1>10, <1>11, <1>12, <1>13,
     <1>14, <1>15, <1>16 DEF WorkerStep
<1>31. ASSUME NEW w \in Workers, FailureStep(w) PROVE IdsInv'
  BY <1>31, <1>17, <1>18, <1>19, <1>20, <1>21, <1>22, <1>23, <1>24, <1>25 DEF FailureStep
<1>32. CASE QueueStep
  BY <1>32, <1>26 DEF QueueStep
<1>33. CASE RowStep
  BY <1>33, <1>27, <1>28, <1>29 DEF RowStep
<1>34. CASE UNCHANGED vars
  BY <1>34, <1>q, IdsUnchanged, RowsUnchanged DEF vars, queues, rows, worker
<1> QED
  BY <1>30, <1>31, <1>32, <1>33, <1>34 DEF Next

LEMMA IdsInvariant == Spec => []IdsInv
<1>1. Init => IdsInv
  BY QueueAssumption DEF Init, IdsInv, InQueue, Issued, Exists, NoRow
<1> QED
  BY <1>1, IdsStep, QueueTypeInit, QueueTypeStep, PTL DEF Spec

-----------------------------------------------------------------------------
(* The handler of a job succeeds once                                      *)

\* The worker has the job between its lock and the record of its outcome.
Has(w, j) == pc[w] \in Holding /\ JobOf(msg[w]) = j

\* A row of the job says that it succeeded.
Told(j) == \E id \in Ids : id[1] = j /\ row[id].status = "succeeded"

\* One worker at a time has the job.  While its handler has not succeeded
\* nobody has delivered it, and a delivery is about to be told or told.
OnceFor(j) ==
  /\ delivered[j] <= 1
  /\ \A v, w \in Workers : Has(v, j) /\ Has(w, j) => v = w
  /\ \A w \in Workers : Has(w, j) /\ pc[w] # "markSucceeded" => delivered[j] = 0
  /\ delivered[j] > 0 => Told(j) \/ \E w \in Workers : Has(w, j) /\ pc[w] = "markSucceeded"

OnceInv ==
  /\ \A w \in Workers : pc[w] \in Holding => Exists(msg[w].id)
  /\ \A j \in Jobs \ disturbed : OnceFor(j)

\* A row that succeeded stays, or its job is disturbed.
LEMMA ToldStays ==
  ASSUME NEW j \in Jobs \ disturbed', Told(j), \A id \in Ids : Keeps(id)
  PROVE  Told(j)'
BY DEF Told, Keeps

\* A worker that takes no job up and tells of none.
LEMMA OnceKept ==
  ASSUME OnceInv, WorkersTyped, NEW w \in Workers, Elsewhere(w), UNCHANGED delivered,
         disturbed \subseteq disturbed', \A id \in Ids : Keeps(id),
         \/ pc'[w] \notin Holding
         \/ pc'[w] = "markFailed" /\ pc[w] \in Holding /\ msg'[w] = msg[w]
         \/ pc'[w] = pc[w] /\ msg'[w] = msg[w],
         pc[w] = "markSucceeded" => pc'[w] = "markSucceeded" \/ JobOf(msg[w]) \in disturbed'
  PROVE  OnceInv'
<1>1. \A v \in Workers, j \in Jobs : Has(v, j)' => Has(v, j)
  BY DEF Has, Elsewhere
<1>2. ASSUME NEW v \in Workers, pc'[v] \in Holding PROVE Exists(msg[v].id)'
  <2>1. pc[v] \in Holding /\ msg'[v] = msg[v]
    BY <1>2 DEF Elsewhere
  <2>2. msg[v].id \in Ids
    BY <2>1, MessageParts DEF WorkersTyped, Holding
  <2> QED
    BY <2>1, <2>2 DEF OnceInv, Keeps, Exists
<1>3. ASSUME NEW j \in Jobs \ disturbed' PROVE OnceFor(j)'
  <2>1. OnceFor(j)
    BY DEF OnceInv
  <2>2. \A v \in Workers : pc[v] = "markSucceeded" /\ Has(v, j) => Has(v, j)' /\ pc'[v] = "markSucceeded"
    BY DEF Has, Elsewhere
  <2>3. \A v \in Workers : Has(v, j)' /\ pc'[v] # "markSucceeded" => Has(v, j) /\ pc[v] # "markSucceeded"
    BY DEF Has, Elsewhere
  <2> QED
    BY <1>1, <2>1, <2>2, <2>3, ToldStays DEF OnceFor
<1> QED
  BY <1>2, <1>3 DEF OnceInv

LEMMA OnceUnchanged ==
  ASSUME OnceInv, WorkersTyped, UNCHANGED <<pc, msg, delivered>>, disturbed \subseteq disturbed',
         \A id \in Ids : Keeps(id)
  PROVE  OnceInv'
<1>1. ASSUME NEW v \in Workers, pc'[v] \in Holding PROVE Exists(msg[v].id)'
  <2>1. msg[v].id \in Ids
    BY <1>1, MessageParts DEF WorkersTyped, Holding
  <2> QED
    BY <1>1, <2>1 DEF OnceInv, Keeps, Exists
<1>2. ASSUME NEW j \in Jobs \ disturbed' PROVE OnceFor(j)'
  BY <1>2, ToldStays DEF OnceInv, OnceFor, Has
<1> QED
  BY <1>1, <1>2 DEF OnceInv

\* The lock is taken by one worker, of a job that no row tells of, or the job
\* is disturbed.
LEMMA OnceLock ==
  ASSUME TypeInv, OnceInv, NEW w \in Workers, Lock(w)
  PROVE  OnceInv'
<1> RowsTyped /\ WorkersTyped /\ HistoryTyped
  BY DEF TypeInv, Typed
<1> DEFINE m == msg[w]
<1>1. m \in Messages /\ m.id \in Ids /\ Arrives(w, "handle") /\ pc[w] = "lock"
  BY GotoArrives, MessageParts DEF Lock, WorkersTyped
<1>2. /\ row'[m.id].status = "processing"
      /\ \A id \in Ids \ {m.id} : row'[id] = row[id]
  BY <1>1 DEF Lock, RowsTyped, Upserted
<1>3. disturbed \subseteq disturbed' /\ UNCHANGED delivered
  BY DEF Lock
<1>4. ASSUME NEW v \in Workers, pc'[v] \in Holding PROVE Exists(msg[v].id)'
  <2>1. CASE v = w
    BY <1>1, <1>2, <2>1 DEF Exists, Arrives
  <2>2. CASE v # w
    <3>1. pc[v] \in Holding /\ msg'[v] = msg[v]
      BY <1>1, <1>4, <2>2 DEF Arrives, Elsewhere
    <3>2. Exists(msg[v].id) /\ msg[v].id \in Ids
      BY <3>1, MessageParts DEF OnceInv, WorkersTyped, Holding
    <3> QED
      BY <1>2, <3>1, <3>2 DEF Exists
  <2> QED
    BY <2>1, <2>2
<1>5. ASSUME NEW j \in Jobs \ disturbed' PROVE OnceFor(j)'
  <2>1. OnceFor(j)
    BY <1>3 DEF OnceInv
  <2>2. \A v \in Workers \ {w} : (Has(v, j)' <=> Has(v, j)) /\ pc'[v] = pc[v]
    BY <1>1 DEF Has, Arrives, Elsewhere
  <2>3. CASE JobOf(m) # j
    <3>1. ~Has(w, j) /\ ~Has(w, j)'
      BY <1>1, <2>3 DEF Has, Arrives, Holding
    <3>2. \A id \in Ids : id[1] = j => row'[id] = row[id]
      BY <1>2, <2>3 DEF JobOf
    <3>3. Told(j) <=> Told(j)'
      BY <3>2 DEF Told
    <3> QED
      BY <1>3, <2>1, <2>2, <3>1, <3>3 DEF OnceFor
  <2>4. CASE JobOf(m) = j
    <3>1. (\A v \in Workers \ {w} : ~Has(v, j)) /\ ~HasCompleted(m)
      BY <2>4 DEF Lock, Has
    <3>2. ~Told(j)
      <4>1. \A id \in Ids : id[1] = j => id[2] \in 0..MaxRequests /\ id = <<j, id[2]>>
        BY DEF Ids
      <4> QED
        BY <2>4, <3>1, <4>1 DEF HasCompleted, Told
    <3>3. ~Has(w, j)
      BY <1>1 DEF Has, Holding
    <3>4. delivered[j] = 0
      BY <2>1, <3>1, <3>2, <3>3 DEF OnceFor, HistoryTyped
    <3> QED
      BY <1>3, <2>2, <3>1, <3>4 DEF OnceFor
  <2> QED
    BY <2>3, <2>4
<1> QED
  BY <1>4, <1>5 DEF OnceInv

\* The handler answers the one worker that has the job, and the row is there
\* that will tell of it.
LEMMA OnceHandled ==
  ASSUME TypeInv, OnceInv, NEW w \in Workers, HandlerEnds(w)
  PROVE  OnceInv'
<1> RowsTyped /\ WorkersTyped /\ HistoryTyped
  BY DEF TypeInv, Typed
<1> DEFINE i == JobOf(msg[w])
<1>1. i \in Jobs /\ Arrives(w, "markSucceeded") /\ pc[w] = "handle"
  BY GotoArrives, MessageParts DEF HandlerEnds, WorkersTyped
<1>2. UNCHANGED <<row, disturbed>> /\ delivered' = [delivered EXCEPT ![i] = @ + 1]
  BY DEF HandlerEnds, rows
<1>3. \A v \in Workers, j \in Jobs : Has(v, j)' <=> Has(v, j)
  BY <1>1 DEF Has, Arrives, Elsewhere, Holding
<1>4. \A v \in Workers : pc'[v] \in Holding => pc[v] \in Holding /\ msg'[v] = msg[v]
  BY <1>1 DEF Arrives, Elsewhere, Holding
<1>5. ASSUME NEW j \in Jobs \ disturbed' PROVE OnceFor(j)'
  <2>1. OnceFor(j)
    BY <1>2 DEF OnceInv
  <2>2. Told(j)' <=> Told(j)
    BY <1>2 DEF Told
  <2>3. CASE j = i
    <3>1. Has(w, j) /\ Has(w, j)' /\ pc'[w] = "markSucceeded"
      BY <1>1, <1>3, <2>3 DEF Has, Arrives, Holding
    <3>2. delivered[j] = 0
      BY <1>1, <2>1, <3>1 DEF OnceFor
    <3>3. delivered'[j] = 1
      BY <1>2, <2>3, <3>2 DEF HistoryTyped
    <3>4. \A v \in Workers : Has(v, j)' => v = w
      BY <1>3, <2>1, <3>1 DEF OnceFor
    <3> QED
      BY <3>1, <3>3, <3>4 DEF OnceFor
  <2>4. CASE j # i
    <3>1. delivered'[j] = delivered[j] /\ ~Has(w, j)
      BY <1>2, <2>4 DEF HistoryTyped, Has
    <3>2. \A v \in Workers : Has(v, j) => pc'[v] = pc[v]
      BY <1>1, <3>1 DEF Arrives, Elsewhere
    <3> QED
      BY <1>3, <2>1, <2>2, <3>1, <3>2 DEF OnceFor
  <2> QED
    BY <2>3, <2>4
<1>6. (\A v \in Workers : pc[v] \in Holding => Exists(msg[v].id))'
  BY <1>2, <1>4 DEF OnceInv, Exists
<1> QED
  BY <1>5, <1>6 DEF OnceInv

\* The row tells of the success, and the worker has the job no more.
LEMMA OnceTold ==
  ASSUME TypeInv, OnceInv, NEW w \in Workers, MarkSucceeded(w)
  PROVE  OnceInv'
<1> RowsTyped /\ WorkersTyped /\ HistoryTyped
  BY DEF TypeInv, Typed
<1> DEFINE m == msg[w]
<1>1. m.id \in Ids /\ Arrives(w, "ack") /\ pc[w] = "markSucceeded" /\ Exists(m.id)
  BY GotoArrives, MessageParts DEF MarkSucceeded, WorkersTyped, OnceInv, Holding
<1>2. /\ row'[m.id].status = "succeeded" /\ \A id \in Ids \ {m.id} : row'[id] = row[id]
      /\ disturbed \subseteq disturbed' /\ UNCHANGED delivered
  BY <1>1 DEF MarkSucceeded, Mark, RowsTyped, Rows
<1>3. \A v \in Workers, j \in Jobs : Has(v, j)' <=> Has(v, j) /\ v # w
  BY <1>1 DEF Has, Arrives, Elsewhere, Holding
<1>4. ASSUME NEW v \in Workers, pc'[v] \in Holding PROVE Exists(msg[v].id)'
  <2>1. pc[v] \in Holding /\ msg'[v] = msg[v]
    BY <1>1, <1>4 DEF Arrives, Elsewhere, Holding
  <2>2. Exists(msg[v].id) /\ msg[v].id \in Ids
    BY <2>1, MessageParts DEF OnceInv, WorkersTyped, Holding
  <2> QED
    BY <1>2, <2>1, <2>2 DEF Exists
<1>5. ASSUME NEW j \in Jobs \ disturbed' PROVE OnceFor(j)'
  <2>1. OnceFor(j)
    BY <1>2 DEF OnceInv
  <2>2. Told(j) => Told(j)'
    BY <1>2 DEF Told
  <2>3. Has(w, j) => Told(j)'
    BY <1>1, <1>2 DEF Has, Told, JobOf
  <2>4. \A v \in Workers \ {w} : pc'[v] = pc[v]
    BY <1>1 DEF Arrives, Elsewhere
  <2> QED
    BY <1>2, <1>3, <2>1, <2>2, <2>3, <2>4 DEF OnceFor
<1> QED
  BY <1>4, <1>5 DEF OnceInv

\* Every other step takes no job up, and hides no success without disturbing.
LEMMA OnceStep == TypeInv /\ IdsInv /\ OnceInv /\ [Next]_vars => OnceInv'
<1> SUFFICES ASSUME TypeInv, IdsInv, OnceInv, [Next]_vars PROVE OnceInv'
  OBVIOUS
<1> RowsTyped /\ WorkersTyped /\ HistoryTyped
  BY DEF TypeInv, Typed
<1> "markFailed" \in Holding /\ \A step \in Holding : step \notin {"idle", "record", "find", "completed", "lock", "ack", "report",
          "publishRetry", "markRetry", "publishDead", "markDead", "ackRecovered", "nack", "stuck"}
  BY DEF Holding
<1>1. ASSUME NEW w \in Workers, NEW m \in Messages, Take(w, m) PROVE OnceInv'
  <2>1. Elsewhere(w) /\ pc'[w] \in {"publishDead", "record"} /\ pc[w] = "idle"
    BY <1>1 DEF Take, Elsewhere, WorkersTyped
  <2> QED
    BY <1>1, <2>1, OnceKept, RowsUnchanged DEF Take, rows, history
<1>2. ASSUME NEW w \in Workers, Record(w) PROVE OnceInv'
  <2>1. msg[w] \in Messages /\ Arrives(w, "find")
    BY <1>2, GotoArrives DEF Record, WorkersTyped
  <2> QED
    BY <1>2, <2>1, OnceKept, UpsertKeeps DEF Record, Arrives, history
<1>3. ASSUME NEW w \in Workers, FindRow(w) PROVE OnceInv'
  BY <1>3, OnceKept, RowsUnchanged, GotoArrives DEF FindRow, Arrives, rows
<1>4. ASSUME NEW w \in Workers, FindCompleted(w) PROVE OnceInv'
  BY <1>4, OnceKept, RowsUnchanged, GotoArrives DEF FindCompleted, Arrives, rows, history
<1>5. ASSUME NEW w \in Workers, Lock(w) PROVE OnceInv'
  BY <1>5, OnceLock
<1>6. ASSUME NEW w \in Workers, HandlerEnds(w) PROVE OnceInv'
  BY <1>6, OnceHandled
<1>7. ASSUME NEW w \in Workers, MarkSucceeded(w) PROVE OnceInv'
  BY <1>7, OnceTold
<1>8. ASSUME NEW w \in Workers, MarkFailed(w) PROVE OnceInv'
  <2>1. msg[w] \in Messages /\ disturbed \subseteq disturbed'
    BY <1>8 DEF MarkFailed, Mark, WorkersTyped
  <2> QED
    BY <1>8, <2>1, OnceKept, MarkKeeps, RecoverArrives DEF MarkFailed, Arrives, Statuses
<1>9. ASSUME NEW w \in Workers, Ack(w) PROVE OnceInv'
  <2>1. Elsewhere(w) /\ pc'[w] \notin Holding
    BY <1>9, RecoverArrives DEF Ack, Arrives, Elsewhere, WorkersTyped
  <2> QED
    BY <1>9, <2>1, OnceKept, RowsUnchanged DEF Ack, rows, history
<1>10. ASSUME NEW w \in Workers, Report(w) PROVE OnceInv'
  BY <1>10, OnceKept, RowsUnchanged, DoneLeaves DEF Report, Arrives, rows, history
<1>11. ASSUME NEW w \in Workers, PublishRetry(w) PROVE OnceInv'
  BY <1>11, OnceKept, RowsUnchanged, GotoArrives DEF PublishRetry, Arrives, rows, history
<1>12. ASSUME NEW w \in Workers, MarkRetryScheduled(w) PROVE OnceInv'
  <2>1. msg[w] \in Messages /\ disturbed \subseteq disturbed'
    BY <1>12 DEF MarkRetryScheduled, Mark, WorkersTyped
  <2> QED
    BY <1>12, <2>1, OnceKept, MarkKeeps, GotoArrives DEF MarkRetryScheduled, Arrives, Statuses
<1>13. ASSUME NEW w \in Workers, PublishDeadLetter(w) PROVE OnceInv'
  BY <1>13, OnceKept, RowsUnchanged, GotoArrives DEF PublishDeadLetter, Arrives, rows, history
<1>14. ASSUME NEW w \in Workers, MarkDeadLettered(w) PROVE OnceInv'
  <2>1. msg[w] \in Messages /\ disturbed \subseteq disturbed'
    BY <1>14 DEF MarkDeadLettered, Mark, WorkersTyped
  <2> QED
    BY <1>14, <2>1, OnceKept, MarkKeeps, GotoArrives DEF MarkDeadLettered, Arrives, Statuses
<1>15. ASSUME NEW w \in Workers, AckRecovered(w) PROVE OnceInv'
  BY <1>15, OnceKept, RowsUnchanged, DoneLeaves DEF AckRecovered, Arrives, rows, history
<1>16. ASSUME NEW w \in Workers, Nack(w) PROVE OnceInv'
  BY <1>16, OnceKept, RowsUnchanged, DoneLeaves DEF Nack, Arrives, rows, history
<1>17. ASSUME NEW w \in Workers, BeginFails(w) PROVE OnceInv'
  <2>1. msg[w] \in Messages
    BY <1>17 DEF BeginFails, WorkersTyped
  <2>2. \A id \in Ids : Keeps(id)
    BY <1>17, <2>1, RowsUnchanged, UpsertKeeps DEF BeginFails
  <2> QED
    BY <1>17, <2>2, OnceKept, RecoverArrives DEF BeginFails, Arrives, history
<1>18. ASSUME NEW w \in Workers, HandlerThrows(w) PROVE OnceInv'
  BY <1>18, OnceKept, RowsUnchanged, FailsWithArrives DEF HandlerThrows, Arrives, rows, history, Holding
<1>19. ASSUME NEW w \in Workers, MarkSucceededFails(w) PROVE OnceInv'
  BY <1>19, OnceKept, RowsUnchanged, FailsWithArrives DEF MarkSucceededFails, Arrives, rows, Holding
<1>20. ASSUME NEW w \in Workers, MarkFailedFails(w) PROVE OnceInv'
  BY <1>20, OnceKept, RowsUnchanged, RecoverArrives DEF MarkFailedFails, Arrives, rows, history
<1>21. ASSUME NEW w \in Workers, ReportFails(w) PROVE OnceInv'
  BY <1>21, OnceKept, RowsUnchanged, RecoverArrives DEF ReportFails, Arrives, rows, history
<1>22. ASSUME NEW w \in Workers, RecoveryFails(w) PROVE OnceInv'
  BY <1>22, OnceKept, RowsUnchanged, AbandonLeaves DEF RecoveryFails, Arrives, rows, history
<1>23. ASSUME NEW w \in Workers, Disconnect(w) PROVE OnceInv'
  <2>1. Elsewhere(w)
    BY <1>23 DEF Disconnect, GiveBack, Done, Elsewhere, WorkersTyped
  <2>2. \/ pc'[w] = "idle" /\ pc[w] = "stuck"
        \/ pc'[w] = pc[w] /\ msg'[w] = msg[w]
    BY <1>23 DEF Disconnect, Done, WorkersTyped
  <2> QED
    BY <1>23, <2>1, <2>2, OnceKept, RowsUnchanged DEF Disconnect, rows, history
<1>24. ASSUME NEW w \in Workers, Crash(w) PROVE OnceInv'
  BY <1>24, OnceKept, RowsUnchanged, DoneLeaves DEF Crash, Arrives, GiveBack, rows
<1>25. ASSUME NEW w \in Workers, StartWorker(w) PROVE OnceInv'
  BY <1>25, OnceUnchanged, RowsUnchanged DEF StartWorker, rows, history
<1>26. ASSUME NEW m \in Messages, Expire(m) PROVE OnceInv'
  BY <1>26, OnceUnchanged, RowsUnchanged DEF Expire, rows, worker, history
<1>27. ASSUME NEW id \in Ids, GrowStale(id) PROVE OnceInv'
  BY <1>27, OnceUnchanged, RowsUnchanged DEF GrowStale, worker, history
<1>28. ASSUME NEW id \in Ids, Cancel(id) PROVE OnceInv'
  <2>1. /\ row'[id].status = "cancelled" /\ \A i \in Ids \ {id} : row'[i] = row[i]
        /\ row[id].status = "succeeded" => id[1] \in disturbed'
    BY <1>28 DEF Cancel, RowsTyped, Rows
  <2>2. \A i \in Ids : Keeps(i)
    BY <2>1 DEF Keeps, Exists
  <2> QED
    BY <1>28, <2>2, OnceUnchanged DEF Cancel, worker
<1>29. ASSUME NEW id \in Ids, NEW f \in BOOLEAN, Requeue(id, f) PROVE OnceInv'
  <2> DEFINE new == <<id[1], requests + 1>>
  <2>1. new \in Ids /\ ~(new[2] <= requests)
    BY <1>29, QueueAssumption DEF Requeue, Request, Ids, HistoryTyped
  <2>2. row[new].status = "none"
    BY <2>1 DEF IdsInv, Issued, Exists
  <2>3. row'[new].status = "queued" /\ \A i \in Ids \ {new} : row'[i] = row[i]
    BY <1>29, <2>1 DEF Requeue, RowsTyped, Upserted
  <2> HIDE DEF new
  <2>4. \A i \in Ids : Keeps(i)
    BY <2>2, <2>3 DEF Keeps, Exists
  <2> QED
    BY <1>29, <2>4, OnceUnchanged DEF Requeue, worker, history
<1>30. ASSUME NEW w \in Workers, WorkerStep(w) PROVE OnceInv'
  BY <1>30, <1>1, <1>2, <1>3, <1>4, <1>5, <1>6, <1>7, <1>8, <1>9, <1>10, <1>11, <1>12, <1>13,
     <1>14, <1>15, <1>16 DEF WorkerStep
<1>31. ASSUME NEW w \in Workers, FailureStep(w) PROVE OnceInv'
  BY <1>31, <1>17, <1>18, <1>19, <1>20, <1>21, <1>22, <1>23, <1>24, <1>25 DEF FailureStep
<1>32. CASE QueueStep
  BY <1>32, <1>26 DEF QueueStep
<1>33. CASE RowStep
  BY <1>33, <1>27, <1>28, <1>29 DEF RowStep
<1>34. CASE UNCHANGED vars
  BY <1>34, OnceUnchanged, RowsUnchanged DEF vars, rows, worker, history
<1> QED
  BY <1>30, <1>31, <1>32, <1>33, <1>34 DEF Next

\* The handler of a job succeeds once, however often the job is redelivered,
\* retried, requeued or given back, unless the job is disturbed.
THEOREM DeliveredOnce == Spec => []DeliveredOnceUnlessDisturbed
<1>1. Init => OnceInv
  BY DEF Init, OnceInv, OnceFor, Has, Holding
<1>2. OnceInv => DeliveredOnceUnlessDisturbed
  BY DEF OnceInv, OnceFor, DeliveredOnceUnlessDisturbed
<1> QED
  BY <1>1, <1>2, OnceStep, IdsInvariant, QueueTypeInit, QueueTypeStep, PTL DEF Spec

=============================================================================
