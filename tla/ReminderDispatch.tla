-------------------------- MODULE ReminderDispatch --------------------------
(***************************************************************************)
(* Reminders and notifications of the notification service:                *)
(*   notification-service/src/services/reminder.service.js                 *)
(*   notification-service/src/services/notification.service.js             *)
(*   their repositories, and the reminder and dispatch jobs of scheduler.js*)
(* A reminder tick turns due reminders into notifications, a dispatch tick *)
(* hands queued notifications over, and users create, send, retry, cancel  *)
(* and read notifications.  Every replica runs both ticks.  Each step is   *)
(* one await; all updates are blind updates by id.  Reminders make in-app  *)
(* notifications, which no provider sees; users make e-mails.  Templates,  *)
(* events and audit entries are left out.  Reminders are due from the      *)
(* start, and nothing cancels one (cancelReminder has no caller).          *)
(***************************************************************************)
EXTENDS Integers, Sequences, FiniteSets

CONSTANTS
  Jobs,         \* reminders, scheduled when the model starts
  None,         \* no reminder
  Reminders,    \* executeDueReminders: the reminder ticks
  Dispatchers,  \* dispatchQueuedNotifications: the dispatch ticks
  Users,        \* requests about notifications
  MaxAttempts,  \* maxAttempts of a reminder
  MaxRetries,   \* maxRetries of a notification
  MaxTroubles   \* bound: requests, failing calls and crashes

ASSUME DispatchAssumption ==
  /\ None \notin Jobs
  /\ Reminders \cap Dispatchers = {} /\ Reminders \cap Users = {} /\ Dispatchers \cap Users = {}
  /\ MaxAttempts \in Nat \ {0} /\ MaxRetries \in Nat
  /\ MaxTroubles \in Nat

Actors == Reminders \cup Dispatchers \cup Users

JobStatuses == {"scheduled", "processing", "sent", "failed"}
NoteStatuses == {"queued", "sent", "delivered", "failed", "cancelled", "read"}

VARIABLES
  job,       \* reminder jobs: status, attemptCount
  notes,     \* notifications, in the order of their creation
  pc,        \* the await each actor is at
  todo,      \* what a tick found: the ids, with the counts it read
  item,      \* the one an actor works on: a reminder, or a notification
  note,      \* the notification a reminder tick queued
  tries,     \* history: how often each reminder was taken
  shared,    \* history: reminders and notifications two ticks found at once
  disturbed, \* history: those whose bookkeeping failed, or a user sent again
  troubles   \* requests, failing calls and crashes so far

stores == <<job, notes>>
actors == <<pc, todo, item, note>>
history == <<tries, shared, disturbed>>
vars == <<stores, actors, history, troubles>>

Ids == DOMAIN notes

\* A notification of a reminder, or of a user; "handed" counts the e-mails.
Note(of) == [of |-> of, status |-> "queued", retries |-> 0, handed |-> 0]

\* A reminder with its attemptCount, a notification with its retryCount.
Found == [id : Jobs \cup Ids, count : Nat]
Nothing == [id |-> None, count |-> 0]

TypeOK ==
  /\ job \in [Jobs -> [status : JobStatuses, attempts : 0..MaxAttempts]]
  /\ notes \in Seq([of : Jobs \cup {None}, status : NoteStatuses, retries : Nat, handed : Nat])
  /\ pc \in [Actors -> {"idle", "job", "queue", "mark", "finish", "recover",
                        "dispatch", "send", "update", "markFailed", "requeue", "load"}]
  /\ \A a \in Actors :
       /\ todo[a] \subseteq Found
       /\ item[a] \in Found \cup {Nothing}
  /\ note \in [Actors -> {0} \cup Ids]
  /\ tries \in [Jobs -> Nat]
  /\ shared \subseteq Jobs \cup Ids
  /\ disturbed \subseteq Jobs \cup Ids
  /\ troubles \in 0..MaxTroubles

Init ==
  /\ job = [j \in Jobs |-> [status |-> "scheduled", attempts |-> 0]]
  /\ notes = << >>
  /\ pc = [a \in Actors |-> "idle"]
  /\ todo = [a \in Actors |-> {}]
  /\ item = [a \in Actors |-> Nothing]
  /\ note = [a \in Actors |-> 0]
  /\ tries = [j \in Jobs |-> 0]
  /\ shared = {} /\ disturbed = {}
  /\ troubles = 0

-----------------------------------------------------------------------------

\* The actor goes on to step, with what it found left to do.
Now(a, step, left, it, n) ==
  /\ pc' = [pc EXCEPT ![a] = step]
  /\ todo' = [todo EXCEPT ![a] = left]
  /\ item' = [item EXCEPT ![a] = it]
  /\ note' = [note EXCEPT ![a] = n]

Step(a, step) == Now(a, step, todo[a], item[a], note[a])

\* The call returned, or threw.
Rest(a) == Now(a, "idle", {}, Nothing, 0)

\* The next of what a tick found.
Proceed(a) ==
  LET left == todo[a] \ {item[a]}
  IN IF left = {} THEN Rest(a)
     ELSE Now(a, IF a \in Reminders THEN "job" ELSE "dispatch", left, Nothing, 0)

Has(a, id) == id = item[a].id \/ \E f \in todo[a] : f.id = id

Trouble == troubles < MaxTroubles /\ troubles' = troubles + 1

SetNote(n, s) == notes' = [notes EXCEPT ![n].status = s]

-----------------------------------------------------------------------------
(* executeDueReminders                                                     *)

\* Mutant: a reminder that failed is not found again.
UntriedJobs == {j \in Jobs : job[j].status = "scheduled" /\ job[j].attempts = 0}

DueJobs == {j \in Jobs : job[j].status = "scheduled"}

FindDue(k) ==
  /\ pc[k] = "idle" /\ DueJobs # {}
  /\ Now(k, "job", {[id |-> j, count |-> job[j].attempts] : j \in DueJobs}, Nothing, 0)
  /\ shared' = shared \cup {j \in DueJobs : \E o \in Reminders \ {k} : Has(o, j)}
  /\ UNCHANGED <<stores, tries, disturbed, troubles>>

Take(k, f) ==
  /\ pc[k] = "job" /\ f \in todo[k]
  /\ job' = [job EXCEPT ![f.id] = [status |-> "processing", attempts |-> f.count + 1]]
  /\ tries' = [tries EXCEPT ![f.id] = @ + 1]
  /\ Now(k, "queue", todo[k], f, 0)
  /\ UNCHANGED <<notes, shared, disturbed, troubles>>

\* queueNotification
Queue(k) ==
  /\ pc[k] = "queue"
  /\ notes' = Append(notes, Note(item[k].id))
  /\ Now(k, "mark", todo[k], item[k], Len(notes) + 1)
  /\ UNCHANGED <<job, history, troubles>>

\* sendNotification is given the id and takes it for the notification: it
\* knows no channel, calls no provider, and marks the notification sent.
Mark(k) ==
  /\ pc[k] = "mark"
  /\ SetNote(note[k], "sent")
  /\ Step(k, "finish")
  /\ UNCHANGED <<job, history, troubles>>

Finish(k) ==
  /\ pc[k] = "finish"
  /\ job' = [job EXCEPT ![item[k].id].status = "sent"]
  /\ Proceed(k)
  /\ UNCHANGED <<notes, history, troubles>>

\* Mutant: the reminder is put back however often it was tried.
RecoverAlways(k) ==
  /\ pc[k] = "recover"
  /\ job' = [job EXCEPT ![item[k].id].status = "scheduled"]
  /\ Proceed(k)
  /\ UNCHANGED <<notes, history, troubles>>

\* Mutant: one attempt too many.
RecoverOnceMore(k) ==
  LET attempts == item[k].count + 1
  IN /\ pc[k] = "recover"
     /\ job' = [job EXCEPT ![item[k].id] =
          [status |-> IF attempts > MaxAttempts THEN "failed" ELSE "scheduled",
           attempts |-> attempts]]
     /\ Proceed(k)
     /\ UNCHANGED <<notes, history, troubles>>

\* The catch block of executeDueReminders.
Recover(k) ==
  LET attempts == item[k].count + 1
  IN /\ pc[k] = "recover"
     /\ job' = [job EXCEPT ![item[k].id] =
          [status |-> IF attempts >= MaxAttempts THEN "failed" ELSE "scheduled",
           attempts |-> attempts]]
     /\ Proceed(k)
     /\ UNCHANGED <<notes, history, troubles>>

-----------------------------------------------------------------------------
(* dispatchQueuedNotifications and sendNotification                        *)

\* Mutant: what was sent and not yet delivered is found again.
UndeliveredNotes == {n \in Ids : notes[n].status \in {"queued", "sent"}}

QueuedNotes == {n \in Ids : notes[n].status = "queued"}

FindQueued(d) ==
  /\ pc[d] = "idle" /\ QueuedNotes # {}
  /\ Now(d, "dispatch", {[id |-> n, count |-> notes[n].retries] : n \in QueuedNotes}, Nothing, 0)
  /\ shared' = shared \cup {n \in QueuedNotes : \E o \in Actors \ {d} : Has(o, n)}
  /\ UNCHANGED <<stores, tries, disturbed, troubles>>

\* dispatchViaProvider
Send(a, f) ==
  /\ \/ pc[a] = "dispatch" /\ f \in todo[a]
     \/ pc[a] = "send" /\ f = item[a]
  /\ notes' = IF notes[f.id].of = None THEN [notes EXCEPT ![f.id].handed = @ + 1] ELSE notes
  /\ Now(a, "update", todo[a], f, 0)
  /\ UNCHANGED <<job, history, troubles>>

Update(a) ==
  LET n == item[a].id
  IN /\ pc[a] = "update"
     /\ SetNote(n, IF notes[n].of = None THEN "sent" ELSE "delivered")
     /\ Proceed(a)
     /\ UNCHANGED <<job, history, troubles>>

\* The catch block of sendNotification, which returns as if it were sent; of
\* the id that a reminder tick passes, it reads no retryCount.
MarkFailed(a) ==
  LET n == IF a \in Reminders THEN note[a] ELSE item[a].id
      count == IF a \in Reminders THEN 0 ELSE item[a].count
  IN /\ pc[a] = "markFailed"
     /\ notes' = [notes EXCEPT ![n].status = "failed", ![n].retries = count + 1]
     /\ IF a \in Reminders THEN Step(a, "finish") ELSE Proceed(a)
     /\ UNCHANGED <<job, history, troubles>>

-----------------------------------------------------------------------------
(* Requests about notifications                                            *)

Create(u) ==
  /\ pc[u] = "idle" /\ Trouble
  /\ notes' = Append(notes, Note(None))
  /\ UNCHANGED <<job, actors, history>>

\* sendNotification and retryFailedNotification load the notification; neither
\* asks for its status.
LoadToSend(u, n) ==
  /\ pc[u] = "idle" /\ Trouble
  /\ Now(u, "send", {}, [id |-> n, count |-> notes[n].retries], 0)
  /\ disturbed' = disturbed \cup {n}
  /\ UNCHANGED <<stores, tries, shared>>

LoadToRetry(u, n) ==
  /\ pc[u] = "idle" /\ Trouble
  /\ notes[n].retries < MaxRetries
  /\ Now(u, "requeue", {}, [id |-> n, count |-> 0], 0)
  /\ disturbed' = disturbed \cup {n}
  /\ UNCHANGED <<stores, tries, shared>>

Requeue(u) ==
  /\ pc[u] = "requeue"
  /\ SetNote(item[u].id, "queued")
  /\ Step(u, "load")
  /\ UNCHANGED <<job, history, troubles>>

LoadAgain(u) ==
  /\ pc[u] = "load"
  /\ Now(u, "send", {}, [id |-> item[u].id, count |-> notes[item[u].id].retries], 0)
  /\ UNCHANGED <<stores, history, troubles>>

\* cancelNotification and markRead write over any status.
Cancel(u, n) ==
  /\ pc[u] = "idle" /\ Trouble
  /\ SetNote(n, "cancelled")
  /\ UNCHANGED <<job, actors, history>>

MarkRead(u, n) ==
  /\ pc[u] = "idle" /\ Trouble
  /\ SetNote(n, "read")
  /\ UNCHANGED <<job, actors, history>>

-----------------------------------------------------------------------------

\* What is disturbed when the step of an actor does not take place: an e-mail
\* that was handed over, a reminder whose notification exists.
Disturb(a) ==
  disturbed' = disturbed \cup
    (IF pc[a] = "update" \/ (pc[a] \in {"markFailed", "finish"} /\ a \in Reminders)
     THEN {item[a].id} ELSE {})

\* A call throws: which catch block is next.
Throw(a) ==
  /\ Trouble
  /\ Disturb(a)
  /\ \/ \E f \in todo[a] : pc[a] = "job" /\ Now(a, "recover", todo[a], f, 0)
     \/ \E f \in todo[a] : pc[a] = "dispatch" /\ Now(a, "markFailed", todo[a], f, 0)
     \/ pc[a] \in {"queue", "finish"} /\ Step(a, "recover")
     \/ pc[a] \in {"mark", "send", "update"} /\ Step(a, "markFailed")
     \/ pc[a] = "markFailed" /\ a \in Reminders /\ Step(a, "recover")
     \/ pc[a] \in {"recover", "requeue", "load"} /\ Rest(a)
     \/ pc[a] = "markFailed" /\ a \notin Reminders /\ Rest(a)
  /\ UNCHANGED <<stores, tries, shared>>

Crash(a) ==
  /\ pc[a] # "idle" /\ Trouble
  /\ Disturb(a)
  /\ Rest(a)
  /\ UNCHANGED <<stores, tries, shared>>

Remind(k) ==
  \/ FindDue(k) \/ Queue(k) \/ Mark(k) \/ MarkFailed(k) \/ Finish(k) \/ Recover(k)
  \/ \E f \in todo[k] : Take(k, f)

Dispatch(d) ==
  \/ FindQueued(d) \/ Update(d) \/ MarkFailed(d)
  \/ \E f \in todo[d] : Send(d, f)

Request(u) ==
  \/ Create(u) \/ Requeue(u) \/ LoadAgain(u) \/ Send(u, item[u]) \/ Update(u) \/ MarkFailed(u)
  \/ \E n \in Ids : LoadToSend(u, n) \/ LoadToRetry(u, n) \/ Cancel(u, n) \/ MarkRead(u, n)

Next ==
  \/ \E k \in Reminders : Remind(k)
  \/ \E d \in Dispatchers : Dispatch(d)
  \/ \E u \in Users : Request(u)
  \/ \E a \in Actors : Throw(a) \/ Crash(a)

Spec == Init /\ [][Next]_vars

\* setInterval runs both ticks, and their awaits return.
FairSpec ==
  /\ Spec
  /\ \A k \in Reminders : WF_vars(Remind(k))
  /\ \A d \in Dispatchers : WF_vars(Dispatch(d))

-----------------------------------------------------------------------------

\* A reminder is taken at most maxAttempts times, however its attempts fail,
\* unless two ticks found it at once (executeDueReminders writes the count that
\* it found, plus one).
TriesAreBounded == \A j \in Jobs \ shared : tries[j] <= MaxAttempts

\* Nobody hears twice: a reminder makes one notification and an e-mail is handed
\* over once, unless two ticks had it at once, a user sent it again, or the
\* update that would have recorded it failed.
NothingTwiceUnlessDisturbed ==
  /\ \A j \in Jobs \ (shared \cup disturbed) :
       Cardinality({n \in Ids : notes[n].of = j}) <= 1
  /\ \A n \in Ids \ (shared \cup disturbed) : notes[n].handed <= 1

\* Failing calls hold nothing up for ever: every due reminder is sent or given up,
\* or left in processing by a tick that died, and every queued notification
\* leaves the queue.
WorkSettles ==
  /\ []<>(\A j \in Jobs : job[j].status # "scheduled")
  /\ []<>(\A n \in Ids : notes[n].status # "queued")

=============================================================================
