----------------------- MODULE ReminderDispatchProofs -----------------------
(***************************************************************************)
(* For any number of reminders, ticks, users and failures: the types, that *)
(* a reminder is tried a bounded number of times, and that nobody hears    *)
(* twice of a reminder or a notification that was not disturbed.           *)
(***************************************************************************)
EXTENDS ReminderDispatch, SequenceTheorems, FiniteSetTheorems, TLAPS

-----------------------------------------------------------------------------
(* Notifications                                                           *)

Notes == [of : Jobs \cup {None}, status : NoteStatuses, retries : Nat, handed : Nat]

\* A step adds no notification, and leaves whom they are of, how often they
\* were handed over, and the status of all but n.
Rewrites(n) ==
  /\ notes' \in Seq(Notes)
  /\ Ids' = Ids
  /\ \A m \in Ids : notes'[m].of = notes[m].of /\ notes'[m].handed = notes[m].handed
  /\ \A m \in Ids \ {n} : notes'[m].status = notes[m].status

LEMMA IdsAreNumbers ==
  ASSUME notes \in Seq(Notes)
  PROVE  Ids = 1..Len(notes) /\ Len(notes) \in Nat /\ \A n \in Ids : notes[n] \in Notes
BY LenProperties, ElementOfSeq DEF Ids

\* What a step may write into the place of a notification.
LEMMA NoteReplaced ==
  ASSUME notes \in Seq(Notes), NEW n \in Ids, NEW x \in Notes, notes' = [notes EXCEPT ![n] = x]
  PROVE  /\ notes' \in Seq(Notes) /\ Ids' = Ids
         /\ notes'[n] = x /\ \A m \in Ids \ {n} : notes'[m] = notes[m]
<1>1. n \in 1..Len(notes) /\ Ids = 1..Len(notes)
  BY IdsAreNumbers
<1>2. /\ notes' \in Seq(Notes) /\ Len(notes') = Len(notes)
      /\ \A j \in 1..Len(notes) : notes'[j] = IF j = n THEN x ELSE notes[j]
  BY <1>1, ExceptSeq
<1>3. Ids' = Ids
  BY <1>1, <1>2, LenProperties DEF Ids
<1> QED
  BY <1>1, <1>2, <1>3

LEMMA StatusWritten ==
  ASSUME notes \in Seq(Notes), NEW n \in Ids, NEW s \in NoteStatuses, SetNote(n, s)
  PROVE  Rewrites(n) /\ notes'[n].status = s
<1> DEFINE x == [notes[n] EXCEPT !.status = s]
<1>1. notes[n] \in Notes
  BY IdsAreNumbers
<1>2. x \in Notes /\ x.status = s /\ x.of = notes[n].of /\ x.handed = notes[n].handed
  BY <1>1 DEF Notes
<1>3. notes' = [notes EXCEPT ![n] = x]
  BY DEF SetNote
<1> HIDE DEF x
<1> QED
  BY <1>2, <1>3, NoteReplaced DEF Rewrites

\* The catch block of sendNotification.
LEMMA FailureWritten ==
  ASSUME notes \in Seq(Notes), NEW n \in Ids, NEW c \in Nat,
         notes' = [notes EXCEPT ![n].status = "failed", ![n].retries = c + 1]
  PROVE  Rewrites(n) /\ notes'[n].status = "failed"
<1> DEFINE d == c + 1
           x == [notes[n] EXCEPT !.status = "failed", !.retries = d]
<1>1. notes[n] \in Notes /\ d \in Nat
  BY IdsAreNumbers
<1> HIDE DEF d
<1>2. x \in Notes /\ x.status = "failed" /\ x.of = notes[n].of /\ x.handed = notes[n].handed
  BY <1>1 DEF Notes, NoteStatuses
<1>3. notes' = [notes EXCEPT ![n] = x]
  BY DEF d
<1> HIDE DEF x
<1>4. /\ notes' \in Seq(Notes) /\ Ids' = Ids
      /\ notes'[n] = x /\ \A m \in Ids \ {n} : notes'[m] = notes[m]
  BY <1>2, <1>3, NoteReplaced
<1> QED
  BY <1>2, <1>4 DEF Rewrites

\* A notification that is added.
LEMMA NoteAdded ==
  ASSUME notes \in Seq(Notes), NEW o \in Jobs \cup {None}, notes' = Append(notes, Note(o))
  PROVE  /\ notes' \in Seq(Notes)
         /\ Len(notes) + 1 \notin Ids /\ Ids' = Ids \cup {Len(notes) + 1}
         /\ \A m \in Ids : notes'[m] = notes[m]
         /\ notes'[Len(notes) + 1] = Note(o)
<1>1. Note(o) \in Notes
  BY DEF Note, Notes, NoteStatuses
<1>2. /\ notes' \in Seq(Notes) /\ Len(notes') = Len(notes) + 1
      /\ \A i \in 1..Len(notes) : notes'[i] = notes[i]
      /\ notes'[Len(notes) + 1] = Note(o)
  BY <1>1, AppendProperties
<1>3. Ids = 1..Len(notes) /\ Len(notes) \in Nat
  BY IdsAreNumbers
<1>4. Ids' = 1..(Len(notes) + 1)
  BY <1>2, LenProperties DEF Ids
<1> QED
  BY <1>2, <1>3, <1>4

\* An e-mail that is handed over.
LEMMA NoteHanded ==
  ASSUME notes \in Seq(Notes), NEW n \in Ids,
         notes' = IF notes[n].of = None THEN [notes EXCEPT ![n].handed = @ + 1] ELSE notes
  PROVE  /\ notes' \in Seq(Notes) /\ Ids' = Ids
         /\ \A m \in Ids : notes'[m].of = notes[m].of /\ notes'[m].status = notes[m].status
         /\ \A m \in Ids \ {n} : notes'[m].handed = notes[m].handed
         /\ notes'[n].handed \in {notes[n].handed, notes[n].handed + 1}
<1> DEFINE x == [notes[n] EXCEPT !.handed = @ + 1]
<1>1. notes[n] \in Notes
  BY IdsAreNumbers
<1>2. /\ x \in Notes /\ x.of = notes[n].of /\ x.status = notes[n].status
      /\ x.handed = notes[n].handed + 1
  <2> DEFINE h == notes[n].handed + 1
  <2>1. h \in Nat
    BY <1>1 DEF Notes
  <2> HIDE DEF h
  <2>2. x = [notes[n] EXCEPT !.handed = h]
    BY DEF h
  <2>3. x \in Notes /\ x.of = notes[n].of /\ x.status = notes[n].status /\ x.handed = h
    BY <1>1, <2>1, <2>2 DEF Notes
  <2> QED
    BY <2>3 DEF h
<1>3. CASE notes[n].of = None
  <2>1. notes' = [notes EXCEPT ![n] = x]
    BY <1>3
  <2> HIDE DEF x
  <2>2. /\ notes' \in Seq(Notes) /\ Ids' = Ids
        /\ notes'[n] = x /\ \A m \in Ids \ {n} : notes'[m] = notes[m]
    BY <1>2, <2>1, NoteReplaced
  <2> QED
    BY <1>2, <2>2
<1>4. CASE notes[n].of # None
  BY <1>4 DEF Ids
<1> QED
  BY <1>3, <1>4

-----------------------------------------------------------------------------
(* Types                                                                   *)

\* The steps at which a tick, or a request, has something in hand.
RemindSteps == {"queue", "mark", "finish", "recover", "markFailed"}
DispatchSteps == {"update", "markFailed"}
RequestSteps == {"requeue", "load", "send", "update", "markFailed"}

FoundJobs == [id : Jobs, count : 0..(MaxAttempts - 1)]
FoundNotes(ids) == [id : ids, count : Nat]

\* Where an actor may be, with what: a reminder tick has reminders that have
\* attempts left, the others have notifications.
Fits(ids, a, step, left, it, n) ==
  /\ n \in {0} \cup ids
  /\ \A f, g \in left : f.id = g.id => f = g
  /\ a \in Reminders =>
       /\ step \in {"idle", "job"} \cup RemindSteps
       /\ left \subseteq FoundJobs
       /\ it = Nothing \/ it \in left
       /\ step \in RemindSteps => it \in left
       /\ step \in {"mark", "markFailed"} => n \in ids
  /\ a \in Dispatchers =>
       /\ step \in {"idle", "dispatch"} \cup DispatchSteps
       /\ left \subseteq FoundNotes(ids)
       /\ it = Nothing \/ it \in left
       /\ step \in DispatchSteps => it \in left
  /\ a \in Users =>
       /\ step \in {"idle"} \cup RequestSteps
       /\ left = {}
       /\ it = Nothing \/ it \in FoundNotes(ids)
       /\ step \in RequestSteps => it \in FoundNotes(ids)

ActorsTyped ==
  /\ pc = [a \in Actors |-> pc[a]] /\ todo = [a \in Actors |-> todo[a]]
  /\ item = [a \in Actors |-> item[a]] /\ note = [a \in Actors |-> note[a]]
  /\ \A a \in Actors : Fits(Ids, a, pc[a], todo[a], item[a], note[a])

StoresTyped ==
  /\ job \in [Jobs -> [status : JobStatuses, attempts : 0..MaxAttempts]]
  /\ \A j \in Jobs : job[j].status = "scheduled" => job[j].attempts < MaxAttempts
  /\ notes \in Seq(Notes)

HistoryTyped ==
  /\ tries \in [Jobs -> Nat]
  /\ shared \subseteq Jobs \cup Ids
  /\ disturbed \subseteq Jobs \cup Ids
  /\ troubles \in 0..MaxTroubles

TypeInv == ActorsTyped /\ StoresTyped /\ HistoryTyped

LEMMA ReminderTypes == TypeInv => TypeOK
<1> SUFFICES ASSUME TypeInv PROVE TypeOK
  OBVIOUS
<1> USE DEF TypeInv
<1>1. FoundJobs \subseteq Found /\ FoundNotes(Ids) \subseteq Found
  BY DispatchAssumption DEF FoundJobs, FoundNotes, Found
<1>2. ASSUME NEW a \in Actors
      PROVE  /\ todo[a] \subseteq Found /\ item[a] \in Found \cup {Nothing} /\ note[a] \in {0} \cup Ids
             /\ pc[a] \in {"idle", "job", "queue", "mark", "finish", "recover",
                           "dispatch", "send", "update", "markFailed", "requeue", "load"}
  <2>1. Fits(Ids, a, pc[a], todo[a], item[a], note[a])
    BY DEF ActorsTyped
  <2>2. CASE a \in Reminders
    BY <1>1, <2>1, <2>2 DEF Fits, RemindSteps
  <2>3. CASE a \in Dispatchers
    BY <1>1, <2>1, <2>3 DEF Fits, DispatchSteps
  <2>4. CASE a \in Users
    BY <1>1, <2>1, <2>4 DEF Fits, RequestSteps
  <2> QED
    BY <2>2, <2>3, <2>4 DEF Actors
<1>3. note \in [Actors -> {0} \cup Ids]
  BY <1>2 DEF ActorsTyped
<1>4. pc \in [Actors -> {"idle", "job", "queue", "mark", "finish", "recover",
                         "dispatch", "send", "update", "markFailed", "requeue", "load"}]
  BY <1>2 DEF ActorsTyped
<1> QED
  BY <1>2, <1>3, <1>4 DEF StoresTyped, HistoryTyped, TypeOK, Notes

LEMMA Kinds ==
  ASSUME NEW a \in Actors
  PROVE  /\ a \in Reminders => a \notin Dispatchers /\ a \notin Users
         /\ a \in Dispatchers => a \notin Reminders /\ a \notin Users
         /\ a \in Users => a \notin Reminders /\ a \notin Dispatchers
         /\ a \in Reminders \/ a \in Dispatchers \/ a \in Users
BY DispatchAssumption DEF Actors

\* More notifications leave every actor where it may be.
LEMMA FitsMore ==
  ASSUME NEW ids, NEW more, ids \subseteq more, NEW a, NEW step, NEW left, NEW it, NEW n,
         Fits(ids, a, step, left, it, n)
  PROVE  Fits(more, a, step, left, it, n)
<1>1. FoundNotes(ids) \subseteq FoundNotes(more)
  BY DEF FoundNotes
<1> QED
  BY <1>1 DEF Fits

LEMMA NowTyped ==
  ASSUME ActorsTyped, NEW a \in Actors, NEW step, NEW left, NEW it, NEW n,
         Now(a, step, left, it, n), Ids \subseteq Ids', Fits(Ids', a, step, left, it, n)
  PROVE  ActorsTyped'
<1>1. /\ pc'[a] = step /\ todo'[a] = left /\ item'[a] = it /\ note'[a] = n
      /\ \A b \in Actors \ {a} : /\ pc'[b] = pc[b] /\ todo'[b] = todo[b]
                                 /\ item'[b] = item[b] /\ note'[b] = note[b]
  BY DEF ActorsTyped, Now
<1>2. /\ pc' = [b \in Actors |-> pc'[b]] /\ todo' = [b \in Actors |-> todo'[b]]
      /\ item' = [b \in Actors |-> item'[b]] /\ note' = [b \in Actors |-> note'[b]]
  BY DEF ActorsTyped, Now
<1>3. ASSUME NEW b \in Actors PROVE Fits(Ids', b, pc'[b], todo'[b], item'[b], note'[b])
  <2>1. CASE b = a
    BY <1>1, <2>1
  <2>2. CASE b # a
    BY <1>1, <2>2, FitsMore DEF ActorsTyped
  <2> QED
    BY <2>1, <2>2
<1> QED
  BY <1>2, <1>3 DEF ActorsTyped

LEMMA StayTyped ==
  ASSUME ActorsTyped, UNCHANGED actors, Ids \subseteq Ids'
  PROVE  ActorsTyped'
BY FitsMore DEF ActorsTyped, actors

LEMMA RestTyped ==
  ASSUME ActorsTyped, NEW a \in Actors, Rest(a), Ids \subseteq Ids'
  PROVE  ActorsTyped'
<1>1. Fits(Ids', a, "idle", {}, Nothing, 0)
  BY DEF Fits, RemindSteps, DispatchSteps, RequestSteps
<1> QED
  BY <1>1, NowTyped DEF Rest

\* The next of what was found is found as well.
LEMMA ProceedTyped ==
  ASSUME ActorsTyped, NEW a \in Actors, Proceed(a), Ids \subseteq Ids'
  PROVE  ActorsTyped'
<1> DEFINE left == todo[a] \ {item[a]}
<1>1. CASE left = {}
  BY <1>1, RestTyped DEF Proceed
<1>2. CASE left # {}
  <2> DEFINE step == IF a \in Reminders THEN "job" ELSE "dispatch"
  <2>1. Fits(Ids, a, pc[a], todo[a], item[a], note[a])
    BY DEF ActorsTyped
  <2>2. Fits(Ids, a, step, left, Nothing, 0)
    BY <1>2, <2>1, Kinds DEF Fits, RemindSteps, DispatchSteps, RequestSteps
  <2>3. Now(a, step, left, Nothing, 0)
    BY <1>2 DEF Proceed
  <2> HIDE DEF left, step
  <2> QED
    BY <2>2, <2>3, NowTyped, FitsMore
<1> QED
  BY <1>1, <1>2

\* An actor that keeps what it has goes to a step that fits it.
LEMMA StepTyped ==
  ASSUME ActorsTyped, NEW a \in Actors, NEW step, Step(a, step), Ids \subseteq Ids',
         \/ a \in Reminders /\ pc[a] \in RemindSteps /\ step \in {"finish", "recover"}
         \/ a \in Reminders /\ pc[a] \in {"mark", "markFailed"} /\ step \in {"mark", "markFailed"}
         \/ a \in Dispatchers /\ pc[a] \in DispatchSteps /\ step \in DispatchSteps
         \/ a \in Users /\ pc[a] \in RequestSteps /\ step \in RequestSteps
  PROVE  ActorsTyped'
<1>1. Fits(Ids, a, pc[a], todo[a], item[a], note[a])
  BY DEF ActorsTyped
<1>2. Fits(Ids, a, step, todo[a], item[a], note[a])
  BY <1>1, Kinds DEF Fits, RemindSteps, DispatchSteps, RequestSteps
<1> QED
  BY <1>2, NowTyped, FitsMore DEF Step

LEMMA HistoryKept ==
  ASSUME HistoryTyped, Ids \subseteq Ids', UNCHANGED history,
         troubles' = troubles \/ Trouble
  PROVE  HistoryTyped'
BY DispatchAssumption DEF HistoryTyped, history, Trouble

LEMMA ReminderTypeInit == Init => TypeInv
<1> SUFFICES ASSUME Init PROVE TypeInv
  OBVIOUS
<1>1. ActorsTyped
  <2>1. \A a \in Actors : Fits(Ids, a, "idle", {}, Nothing, 0)
    BY DEF Fits, RemindSteps, DispatchSteps, RequestSteps
  <2> QED
    BY <2>1 DEF Init, ActorsTyped
<1>2. StoresTyped
  BY EmptySeq, DispatchAssumption DEF Init, StoresTyped, JobStatuses
<1>3. HistoryTyped
  BY DispatchAssumption DEF Init, HistoryTyped
<1> QED
  BY <1>1, <1>2, <1>3 DEF TypeInv

\* What the actors of each kind have at their steps.
LEMMA ReminderHas ==
  ASSUME ActorsTyped, NEW k \in Reminders
  PROVE  /\ k \in Actors /\ pc[k] \in {"idle", "job"} \cup RemindSteps
         /\ \A f \in todo[k] : f \in FoundJobs /\ f.id \in Jobs /\ f.count \in 0..(MaxAttempts - 1)
         /\ pc[k] \in RemindSteps => item[k] \in todo[k]
         /\ pc[k] \in {"mark", "markFailed"} => note[k] \in Ids
         /\ \A f, g \in todo[k] : f.id = g.id => f = g
         /\ item[k] = Nothing \/ item[k] \in todo[k]
<1>1. k \in Actors /\ Fits(Ids, k, pc[k], todo[k], item[k], note[k])
  BY DEF ActorsTyped, Actors
<1> QED
  BY <1>1 DEF Fits, FoundJobs

LEMMA DispatcherHas ==
  ASSUME ActorsTyped, NEW d \in Dispatchers
  PROVE  /\ d \in Actors /\ pc[d] \in {"idle", "dispatch"} \cup DispatchSteps
         /\ \A f \in todo[d] : f.id \in Ids /\ f.count \in Nat
         /\ pc[d] \in DispatchSteps => item[d] \in todo[d]
         /\ \A f, g \in todo[d] : f.id = g.id => f = g
         /\ item[d] = Nothing \/ item[d] \in todo[d]
<1>1. d \in Actors /\ Fits(Ids, d, pc[d], todo[d], item[d], note[d])
  BY DEF ActorsTyped, Actors
<1> QED
  BY <1>1 DEF Fits, FoundNotes

LEMMA UserHas ==
  ASSUME ActorsTyped, NEW u \in Users
  PROVE  /\ u \in Actors /\ pc[u] \in {"idle"} \cup RequestSteps /\ todo[u] = {}
         /\ pc[u] \in RequestSteps => item[u].id \in Ids /\ item[u].count \in Nat
<1>1. u \in Actors /\ Fits(Ids, u, pc[u], todo[u], item[u], note[u])
  BY DEF ActorsTyped, Actors
<1> QED
  BY <1>1 DEF Fits, FoundNotes

\* Where a call that throws takes an actor.
LEMMA ThrowTyped ==
  ASSUME ActorsTyped, NEW a \in Actors, Throw(a)
  PROVE  ActorsTyped'
<1>1. UNCHANGED notes
  BY DEF Throw, stores
<1>2. Ids' = Ids
  BY <1>1 DEF Ids
<1>3. Fits(Ids, a, pc[a], todo[a], item[a], note[a])
  BY DEF ActorsTyped
<1>4. ASSUME NEW f \in todo[a], pc[a] = "job", Now(a, "recover", todo[a], f, 0) PROVE ActorsTyped'
  <2>1. Fits(Ids, a, "recover", todo[a], f, 0)
    BY <1>3, <1>4, Kinds DEF Fits, RemindSteps, DispatchSteps, RequestSteps
  <2> QED
    BY <1>2, <1>4, <2>1, NowTyped
<1>5. ASSUME NEW f \in todo[a], pc[a] = "dispatch", Now(a, "markFailed", todo[a], f, 0) PROVE ActorsTyped'
  <2>1. Fits(Ids, a, "markFailed", todo[a], f, 0)
    BY <1>3, <1>5, Kinds DEF Fits, RemindSteps, DispatchSteps, RequestSteps
  <2> QED
    BY <1>2, <1>5, <2>1, NowTyped
<1>6. CASE pc[a] \in {"queue", "finish"} /\ Step(a, "recover")
  <2>1. a \in Reminders
    BY <1>3, <1>6, Kinds DEF Fits, DispatchSteps, RequestSteps
  <2> QED
    BY <1>2, <1>6, <2>1, StepTyped DEF RemindSteps
<1>7. CASE pc[a] \in {"mark", "send", "update"} /\ Step(a, "markFailed")
  <2>1. \/ a \in Reminders /\ pc[a] = "mark"
        \/ a \in Dispatchers /\ pc[a] = "update"
        \/ a \in Users /\ pc[a] \in {"send", "update"}
    BY <1>3, <1>7, Kinds DEF Fits, RemindSteps, DispatchSteps, RequestSteps
  <2> QED
    BY <1>2, <1>7, <2>1, StepTyped DEF DispatchSteps, RequestSteps
<1>8. CASE pc[a] = "markFailed" /\ a \in Reminders /\ Step(a, "recover")
  BY <1>2, <1>8, StepTyped DEF RemindSteps
<1>9. CASE Rest(a)
  BY <1>2, <1>9, RestTyped
<1> QED
  BY <1>4, <1>5, <1>6, <1>7, <1>8, <1>9 DEF Throw

\* What a step that does not take place disturbs is a reminder or a notification.
LEMMA DisturbTyped ==
  ASSUME ActorsTyped, HistoryTyped, NEW a \in Actors, Disturb(a), Trouble,
         UNCHANGED <<stores, tries, shared>>
  PROVE  HistoryTyped'
<1>1. pc[a] = "update" \/ (pc[a] \in {"markFailed", "finish"} /\ a \in Reminders) => item[a].id \in Jobs \cup Ids
  BY Kinds, ReminderHas, DispatcherHas, UserHas DEF RemindSteps, DispatchSteps, RequestSteps
<1>2. Ids' = Ids
  BY DEF stores, Ids
<1> QED
  BY <1>1, <1>2, DispatchAssumption DEF HistoryTyped, Disturb, Trouble

\* Every await of a tick or a request keeps the types.
LEMMA ReminderTypeStep == TypeInv /\ [Next]_vars => TypeInv'
<1> SUFFICES ASSUME TypeInv, [Next]_vars PROVE TypeInv'
  OBVIOUS
<1> ActorsTyped /\ StoresTyped /\ HistoryTyped /\ notes \in Seq(Notes)
  BY DEF TypeInv, StoresTyped
<1>n. ASSUME UNCHANGED notes PROVE Ids' = Ids
  BY <1>n DEF Ids
<1>1. ASSUME NEW k \in Reminders, FindDue(k) PROVE TypeInv'
  <2> k \in Actors
    BY DEF Actors
  <2> DEFINE found == {[id |-> j, count |-> job[j].attempts] : j \in DueJobs}
  <2>1. UNCHANGED stores /\ Ids' = Ids
    BY <1>1, <1>n DEF FindDue, stores
  <2>2. \A j \in DueJobs : j \in Jobs /\ job[j].attempts \in 0..(MaxAttempts - 1)
    BY DispatchAssumption DEF DueJobs, StoresTyped
  <2>3. found \subseteq FoundJobs /\ \A f, g \in found : f.id = g.id => f = g
    BY <2>2 DEF FoundJobs
  <2>4. Now(k, "job", found, Nothing, 0)
    BY <1>1 DEF FindDue
  <2> HIDE DEF found
  <2>5. Fits(Ids, k, "job", found, Nothing, 0)
    BY <2>3, Kinds DEF Fits, RemindSteps
  <2>6. ActorsTyped'
    BY <2>1, <2>4, <2>5, NowTyped
  <2>7. HistoryTyped'
    BY <1>1, <2>1 DEF FindDue, HistoryTyped, DueJobs
  <2> QED
    BY <2>1, <2>6, <2>7 DEF TypeInv, StoresTyped, stores
<1>2. ASSUME NEW k \in Reminders, NEW f \in todo[k], Take(k, f) PROVE TypeInv'
  <2>1. /\ k \in Actors /\ f.id \in Jobs /\ f.count \in 0..(MaxAttempts - 1)
        /\ Fits(Ids, k, pc[k], todo[k], item[k], note[k])
    BY ReminderHas DEF ActorsTyped
  <2>2. UNCHANGED notes /\ Ids' = Ids
    BY <1>2, <1>n DEF Take
  <2>3. Fits(Ids, k, "queue", todo[k], f, 0)
    BY <2>1, Kinds DEF Fits, RemindSteps
  <2>4. ActorsTyped'
    BY <1>2, <2>1, <2>2, <2>3, NowTyped DEF Take
  <2>5. f.count + 1 \in 0..MaxAttempts
    BY <2>1, DispatchAssumption
  <2>6. StoresTyped'
    BY <1>2, <2>1, <2>2, <2>5 DEF Take, StoresTyped, JobStatuses
  <2>7. HistoryTyped'
    BY <1>2, <2>1, <2>2 DEF Take, HistoryTyped
  <2> QED
    BY <2>4, <2>6, <2>7 DEF TypeInv
<1>3. ASSUME NEW k \in Reminders, Queue(k) PROVE TypeInv'
  <2>1. /\ k \in Actors /\ item[k] \in todo[k] /\ item[k].id \in Jobs
        /\ Fits(Ids, k, pc[k], todo[k], item[k], note[k])
    BY <1>3, ReminderHas DEF ActorsTyped, Queue, RemindSteps
  <2>2. notes' \in Seq(Notes) /\ Ids' = Ids \cup {Len(notes) + 1}
    BY <1>3, <2>1, NoteAdded DEF Queue
  <2>3. Fits(Ids', k, "mark", todo[k], item[k], Len(notes) + 1)
    BY <2>1, <2>2, Kinds DEF Fits, RemindSteps
  <2>4. ActorsTyped'
    BY <1>3, <2>1, <2>2, <2>3, NowTyped DEF Queue
  <2> QED
    BY <1>3, <2>2, <2>4, HistoryKept DEF Queue, TypeInv, StoresTyped
<1>4. ASSUME NEW k \in Reminders, Mark(k) PROVE TypeInv'
  <2>1. k \in Actors /\ note[k] \in Ids
    BY <1>4, ReminderHas DEF Mark
  <2>2. notes' \in Seq(Notes) /\ Ids' = Ids
    BY <1>4, <2>1, StatusWritten DEF Mark, NoteStatuses, Rewrites
  <2>3. ActorsTyped'
    BY <1>4, <2>1, <2>2, StepTyped DEF Mark, RemindSteps
  <2> QED
    BY <1>4, <2>2, <2>3, HistoryKept DEF Mark, TypeInv, StoresTyped
<1>5. ASSUME NEW k \in Reminders, Finish(k) PROVE TypeInv'
  <2>1. k \in Actors /\ item[k].id \in Jobs
    BY <1>5, ReminderHas DEF Finish, RemindSteps
  <2>2. UNCHANGED notes /\ Ids' = Ids
    BY <1>5, <1>n DEF Finish
  <2>3. ActorsTyped'
    BY <1>5, <2>1, <2>2, ProceedTyped DEF Finish
  <2>4. StoresTyped'
    BY <1>5, <2>1, <2>2 DEF Finish, StoresTyped, JobStatuses
  <2> QED
    BY <1>5, <2>2, <2>3, <2>4, HistoryKept DEF Finish, TypeInv
<1>6. ASSUME NEW k \in Reminders, Recover(k) PROVE TypeInv'
  <2>1. k \in Actors /\ item[k].id \in Jobs /\ item[k].count \in 0..(MaxAttempts - 1)
    BY <1>6, ReminderHas DEF Recover, RemindSteps
  <2>2. UNCHANGED notes /\ Ids' = Ids
    BY <1>6, <1>n DEF Recover
  <2>3. ActorsTyped'
    BY <1>6, <2>1, <2>2, ProceedTyped DEF Recover
  <2> DEFINE attempts == item[k].count + 1
             s == IF attempts >= MaxAttempts THEN "failed" ELSE "scheduled"
  <2>4. attempts \in 0..MaxAttempts /\ s \in JobStatuses /\ (s = "scheduled" => attempts < MaxAttempts)
    BY <2>1, DispatchAssumption DEF JobStatuses
  <2>5. job' = [job EXCEPT ![item[k].id] = [status |-> s, attempts |-> attempts]]
    BY <1>6 DEF Recover
  <2> HIDE DEF attempts, s
  <2>6. StoresTyped'
    BY <2>1, <2>2, <2>4, <2>5 DEF StoresTyped
  <2> QED
    BY <1>6, <2>2, <2>3, <2>6, HistoryKept DEF Recover, TypeInv
<1>7. ASSUME NEW d \in Dispatchers, FindQueued(d) PROVE TypeInv'
  <2> d \in Actors
    BY DEF Actors
  <2> DEFINE found == {[id |-> n, count |-> notes[n].retries] : n \in QueuedNotes}
  <2>1. UNCHANGED stores /\ Ids' = Ids
    BY <1>7, <1>n DEF FindQueued, stores
  <2>2. \A n \in QueuedNotes : n \in Ids /\ notes[n].retries \in Nat
    BY IdsAreNumbers DEF QueuedNotes, Notes
  <2>3. found \subseteq FoundNotes(Ids) /\ \A f, g \in found : f.id = g.id => f = g
    BY <2>2 DEF FoundNotes
  <2>4. Now(d, "dispatch", found, Nothing, 0)
    BY <1>7 DEF FindQueued
  <2> HIDE DEF found
  <2>5. Fits(Ids, d, "dispatch", found, Nothing, 0)
    BY <2>3, Kinds DEF Fits, DispatchSteps
  <2>6. ActorsTyped'
    BY <2>1, <2>4, <2>5, NowTyped
  <2>7. HistoryTyped'
    BY <1>7, <2>1 DEF FindQueued, HistoryTyped, QueuedNotes
  <2> QED
    BY <2>1, <2>6, <2>7 DEF TypeInv, StoresTyped, stores
<1>8. ASSUME NEW d \in Dispatchers, NEW f \in todo[d], Send(d, f) PROVE TypeInv'
  <2>1. d \in Actors /\ f.id \in Ids /\ Fits(Ids, d, pc[d], todo[d], item[d], note[d])
    BY DispatcherHas DEF ActorsTyped
  <2>2. notes' \in Seq(Notes) /\ Ids' = Ids
    BY <1>8, <2>1, NoteHanded DEF Send
  <2>3. Fits(Ids, d, "update", todo[d], f, 0)
    BY <2>1, Kinds DEF Fits, DispatchSteps
  <2>4. ActorsTyped'
    BY <1>8, <2>1, <2>2, <2>3, NowTyped DEF Send
  <2> QED
    BY <1>8, <2>2, <2>4, HistoryKept DEF Send, TypeInv, StoresTyped
<1>9. ASSUME NEW u \in Users, Send(u, item[u]) PROVE TypeInv'
  <2>1. pc[u] \in RequestSteps
    BY <1>9, UserHas DEF Send, RequestSteps
  <2>2. u \in Actors /\ item[u].id \in Ids /\ Fits(Ids, u, pc[u], todo[u], item[u], note[u])
    BY <2>1, UserHas DEF ActorsTyped
  <2>3. notes' \in Seq(Notes) /\ Ids' = Ids
    BY <1>9, <2>2, NoteHanded DEF Send
  <2>4. Fits(Ids, u, "update", todo[u], item[u], 0)
    BY <2>1, <2>2, Kinds DEF Fits, RequestSteps
  <2>5. ActorsTyped'
    BY <1>9, <2>2, <2>3, <2>4, NowTyped DEF Send
  <2> QED
    BY <1>9, <2>3, <2>5, HistoryKept DEF Send, TypeInv, StoresTyped
<1>10. ASSUME NEW a \in Dispatchers \cup Users, Update(a) PROVE TypeInv'
  <2>1. a \in Actors /\ item[a].id \in Ids
    BY <1>10, DispatcherHas, UserHas DEF Update, DispatchSteps, RequestSteps
  <2>2. notes' \in Seq(Notes) /\ Ids' = Ids
    BY <1>10, <2>1, StatusWritten DEF Update, NoteStatuses, Rewrites
  <2>3. ActorsTyped'
    BY <1>10, <2>1, <2>2, ProceedTyped DEF Update
  <2> QED
    BY <1>10, <2>2, <2>3, HistoryKept DEF Update, TypeInv, StoresTyped
<1>11. ASSUME NEW k \in Reminders, MarkFailed(k) PROVE TypeInv'
  <2>1. k \in Actors /\ note[k] \in Ids
    BY <1>11, ReminderHas DEF MarkFailed
  <2>2. notes' \in Seq(Notes) /\ Ids' = Ids
    BY <1>11, <2>1, FailureWritten DEF MarkFailed, Rewrites
  <2>3. ActorsTyped'
    BY <1>11, <2>1, <2>2, StepTyped DEF MarkFailed, RemindSteps
  <2> QED
    BY <1>11, <2>2, <2>3, HistoryKept DEF MarkFailed, TypeInv, StoresTyped
<1>12. ASSUME NEW a \in Dispatchers \cup Users, MarkFailed(a) PROVE TypeInv'
  <2>1. a \in Actors /\ a \notin Reminders /\ item[a].id \in Ids /\ item[a].count \in Nat
    BY <1>12, Kinds, DispatcherHas, UserHas DEF MarkFailed, DispatchSteps, RequestSteps, Actors
  <2>2. notes' \in Seq(Notes) /\ Ids' = Ids
    BY <1>12, <2>1, FailureWritten DEF MarkFailed, Rewrites
  <2>3. ActorsTyped'
    BY <1>12, <2>1, <2>2, ProceedTyped DEF MarkFailed
  <2> QED
    BY <1>12, <2>2, <2>3, HistoryKept DEF MarkFailed, TypeInv, StoresTyped
<1>13. ASSUME NEW u \in Users, Create(u) PROVE TypeInv'
  <2>1. notes' \in Seq(Notes) /\ Ids' = Ids \cup {Len(notes) + 1}
    BY <1>13, NoteAdded DEF Create
  <2> QED
    BY <1>13, <2>1, StayTyped, HistoryKept DEF Create, TypeInv, StoresTyped
<1>14. ASSUME NEW u \in Users, NEW n \in Ids, LoadToSend(u, n) \/ LoadToRetry(u, n) PROVE TypeInv'
  <2>1. u \in Actors /\ UNCHANGED stores /\ Ids' = Ids /\ UNCHANGED <<tries, shared>>
        /\ disturbed' = disturbed \cup {n} /\ Trouble
    BY <1>14, <1>n DEF LoadToSend, LoadToRetry, stores, Actors
  <2>2. notes[n].retries \in Nat
    BY IdsAreNumbers DEF Notes
  <2>3. \E step \in RequestSteps, it \in FoundNotes(Ids) : Now(u, step, {}, it, 0)
    BY <1>14, <2>2 DEF LoadToSend, LoadToRetry, RequestSteps, FoundNotes
  <2>4. \A step \in RequestSteps, it \in FoundNotes(Ids) : Fits(Ids, u, step, {}, it, 0)
    BY <2>1, Kinds DEF Fits
  <2>5. ActorsTyped'
    BY <2>1, <2>3, <2>4, NowTyped
  <2> QED
    BY <2>1, <2>5, DispatchAssumption DEF Trouble, HistoryTyped, TypeInv, StoresTyped, stores
<1>15. ASSUME NEW u \in Users, Requeue(u) PROVE TypeInv'
  <2>1. u \in Actors /\ item[u].id \in Ids
    BY <1>15, UserHas DEF Requeue, RequestSteps
  <2>2. notes' \in Seq(Notes) /\ Ids' = Ids
    BY <1>15, <2>1, StatusWritten DEF Requeue, NoteStatuses, Rewrites
  <2>3. ActorsTyped'
    BY <1>15, <2>1, <2>2, StepTyped DEF Requeue, RequestSteps
  <2> QED
    BY <1>15, <2>2, <2>3, HistoryKept DEF Requeue, TypeInv, StoresTyped
<1>16. ASSUME NEW u \in Users, LoadAgain(u) PROVE TypeInv'
  <2>1. u \in Actors /\ item[u].id \in Ids
    BY <1>16, UserHas DEF LoadAgain, RequestSteps
  <2>2. UNCHANGED stores /\ Ids' = Ids /\ notes[item[u].id].retries \in Nat
    BY <1>16, <2>1, <1>n, IdsAreNumbers DEF LoadAgain, stores, Notes
  <2>3. Fits(Ids, u, "send", {}, [id |-> item[u].id, count |-> notes[item[u].id].retries], 0)
    BY <2>1, <2>2, Kinds DEF Fits, FoundNotes, RequestSteps
  <2>4. ActorsTyped'
    BY <1>16, <2>1, <2>2, <2>3, NowTyped DEF LoadAgain
  <2> QED
    BY <1>16, <2>2, <2>4, HistoryKept DEF LoadAgain, TypeInv, StoresTyped, stores
<1>17. ASSUME NEW u \in Users, NEW n \in Ids, Cancel(u, n) \/ MarkRead(u, n) PROVE TypeInv'
  <2>1. notes' \in Seq(Notes) /\ Ids' = Ids
    BY <1>17, StatusWritten DEF Cancel, MarkRead, NoteStatuses, Rewrites
  <2> QED
    BY <1>17, <2>1, StayTyped, HistoryKept DEF Cancel, MarkRead, TypeInv, StoresTyped
<1>18. ASSUME NEW a \in Actors, Throw(a) PROVE TypeInv'
  BY <1>18, ThrowTyped, DisturbTyped DEF Throw, TypeInv, StoresTyped, stores
<1>19. ASSUME NEW a \in Actors, Crash(a) PROVE TypeInv'
  <2>1. Ids' = Ids
    BY <1>19, <1>n DEF Crash, stores
  <2> QED
    BY <1>19, <2>1, RestTyped, DisturbTyped DEF Crash, TypeInv, StoresTyped, stores
<1>20. ASSUME NEW k \in Reminders, Remind(k) PROVE TypeInv'
  BY <1>20, <1>1, <1>2, <1>3, <1>4, <1>5, <1>6, <1>11 DEF Remind
<1>21. ASSUME NEW d \in Dispatchers, Dispatch(d) PROVE TypeInv'
  BY <1>21, <1>7, <1>8, <1>10, <1>12 DEF Dispatch
<1>22. ASSUME NEW u \in Users, Request(u) PROVE TypeInv'
  BY <1>22, <1>9, <1>10, <1>12, <1>13, <1>14, <1>15, <1>16, <1>17 DEF Request
<1>23. CASE UNCHANGED vars
  <2>1. Ids' = Ids
    BY <1>23, <1>n DEF vars, stores
  <2> QED
    BY <1>23, <2>1, StayTyped, HistoryKept DEF vars, stores, TypeInv, StoresTyped
<1> QED
  BY <1>18, <1>19, <1>20, <1>21, <1>22, <1>23 DEF Next

\* Reminders, notifications and what the ticks have of them keep their ranges.
THEOREM ReminderTypeCorrect == Spec => []TypeOK
BY ReminderTypeInit, ReminderTypeStep, ReminderTypes, PTL DEF Spec

-----------------------------------------------------------------------------
(* What a step does to the actors                                          *)

Others(a) ==
  \A b \in Actors \ {a} : pc'[b] = pc[b] /\ todo'[b] = todo[b] /\ item'[b] = item[b]

LEMMA NowAt ==
  ASSUME ActorsTyped, NEW a \in Actors, NEW step, NEW left, NEW it, NEW n,
         Now(a, step, left, it, n)
  PROVE  /\ pc'[a] = step /\ todo'[a] = left /\ item'[a] = it
         /\ Others(a)
BY DEF ActorsTyped, Now, Others

LEMMA StepAt ==
  ASSUME ActorsTyped, NEW a \in Actors, NEW step, Step(a, step)
  PROVE  /\ pc'[a] = step /\ todo'[a] = todo[a] /\ item'[a] = item[a]
         /\ Others(a)
BY NowAt DEF Step

LEMMA RestAt ==
  ASSUME ActorsTyped, NEW a \in Actors, Rest(a)
  PROVE  /\ pc'[a] = "idle" /\ todo'[a] = {} /\ item'[a] = Nothing
         /\ Others(a)
BY NowAt DEF Rest

LEMMA ProceedAt ==
  ASSUME ActorsTyped, NEW a \in Actors, Proceed(a)
  PROVE  /\ pc'[a] \in {"idle", IF a \in Reminders THEN "job" ELSE "dispatch"}
         /\ todo'[a] \subseteq todo[a] \ {item[a]} /\ item'[a] = Nothing
         /\ Others(a)
<1> DEFINE left == todo[a] \ {item[a]}
           step == IF a \in Reminders THEN "job" ELSE "dispatch"
<1>1. CASE left = {}
  BY <1>1, RestAt DEF Proceed
<1>2. CASE left # {}
  <2>1. Now(a, step, left, Nothing, 0)
    BY <1>2 DEF Proceed
  <2> HIDE DEF left, step
  <2>2. pc'[a] = step /\ todo'[a] = left /\ item'[a] = Nothing /\ Others(a)
    BY <2>1, NowAt
  <2> QED
    BY <2>2 DEF left, step
<1> QED
  BY <1>1, <1>2

\* What a call that throws, or a crash, does to the one that made it.
ThrowsAt(a) ==
  \/ pc[a] = "job" /\ a \in Reminders /\ pc'[a] = "recover" /\ item'[a] \in todo[a] /\ todo'[a] = todo[a]
  \/ pc[a] = "dispatch" /\ a \in Dispatchers /\ pc'[a] = "markFailed" /\ todo'[a] = todo[a]
  \/ /\ a \in Reminders /\ pc[a] \in {"queue", "finish", "markFailed"} /\ pc'[a] = "recover"
     /\ todo'[a] = todo[a] /\ item'[a] = item[a]
  \/ /\ pc[a] \in {"mark", "send", "update"} /\ pc'[a] = "markFailed"
     /\ todo'[a] = todo[a] /\ item'[a] = item[a]
  \/ pc'[a] = "idle" /\ todo'[a] = {} /\ item'[a] = Nothing

LEMMA ThrowAt ==
  ASSUME ActorsTyped, NEW a \in Actors, Throw(a) \/ Crash(a)
  PROVE  Others(a) /\ ThrowsAt(a)
<1>1. Fits(Ids, a, pc[a], todo[a], item[a], note[a])
  BY DEF ActorsTyped
<1>2. ASSUME NEW f \in todo[a], pc[a] = "job", Now(a, "recover", todo[a], f, 0)
      PROVE  Others(a) /\ ThrowsAt(a)
  <2>1. a \in Reminders
    BY <1>1, <1>2, Kinds DEF Fits, DispatchSteps, RequestSteps
  <2> QED
    BY <1>2, <2>1, NowAt DEF ThrowsAt
<1>3. ASSUME NEW f \in todo[a], pc[a] = "dispatch", Now(a, "markFailed", todo[a], f, 0)
      PROVE  Others(a) /\ ThrowsAt(a)
  <2>1. a \in Dispatchers
    BY <1>1, <1>3, Kinds DEF Fits, RemindSteps, RequestSteps
  <2> QED
    BY <1>3, <2>1, NowAt DEF ThrowsAt
<1>4. CASE pc[a] \in {"queue", "finish"} /\ Step(a, "recover")
  <2>1. a \in Reminders
    BY <1>1, <1>4, Kinds DEF Fits, DispatchSteps, RequestSteps
  <2> QED
    BY <1>4, <2>1, StepAt DEF ThrowsAt
<1>5. CASE pc[a] \in {"mark", "send", "update"} /\ Step(a, "markFailed")
  BY <1>5, StepAt DEF ThrowsAt
<1>6. CASE pc[a] = "markFailed" /\ a \in Reminders /\ Step(a, "recover")
  BY <1>6, StepAt DEF ThrowsAt
<1>7. CASE Rest(a)
  BY <1>7, RestAt DEF ThrowsAt
<1> QED
  BY <1>2, <1>3, <1>4, <1>5, <1>6, <1>7 DEF Throw, Crash

-----------------------------------------------------------------------------
(* One tick at a time has what no two found at once                        *)

AloneInv ==
  \A ticks \in {Reminders, Dispatchers} : \A a, b \in ticks :
    \A f \in todo[a], g \in todo[b] : f.id = g.id /\ f.id \notin shared => a = b

Shrinks == shared' = shared /\ \A a \in Actors : todo'[a] \subseteq todo[a]

\* But for the two queries, a step finds nothing.
LEMMA FindsNothing ==
  ASSUME TypeInv, Next
  PROVE  \/ Shrinks
         \/ \E k \in Reminders : FindDue(k)
         \/ \E d \in Dispatchers : FindQueued(d)
<1> ActorsTyped
  BY DEF TypeInv
<1>a. ASSUME NEW a \in Actors, Others(a), todo'[a] \subseteq todo[a], shared' = shared PROVE Shrinks
  BY <1>a DEF Others, Shrinks
<1>1. ASSUME NEW k \in Reminders, Remind(k) PROVE Shrinks \/ FindDue(k)
  <2> k \in Actors
    BY DEF Actors
  <2>1. ASSUME NEW f \in todo[k], Take(k, f) PROVE Shrinks
    BY <2>1, <1>a, NowAt DEF Take
  <2>2. CASE Queue(k)
    BY <2>2, <1>a, NowAt DEF Queue, history
  <2>3. CASE Mark(k)
    BY <2>3, <1>a, StepAt DEF Mark, history
  <2>4. CASE MarkFailed(k)
    BY <2>4, <1>a, StepAt DEF MarkFailed, history
  <2>5. CASE Finish(k)
    BY <2>5, <1>a, ProceedAt DEF Finish, history
  <2>6. CASE Recover(k)
    BY <2>6, <1>a, ProceedAt DEF Recover, history
  <2> QED
    BY <1>1, <2>1, <2>2, <2>3, <2>4, <2>5, <2>6 DEF Remind
<1>2. ASSUME UNCHANGED actors, UNCHANGED history PROVE Shrinks
  BY <1>2 DEF actors, history, Shrinks
<1>3. ASSUME NEW a \in Dispatchers \cup Users,
             Update(a) \/ MarkFailed(a) \/ \E f \in todo[a] \cup {item[a]} : Send(a, f)
      PROVE  Shrinks
  <2> a \in Actors /\ a \notin Reminders
    BY Kinds DEF Actors
  <2>1. CASE Update(a)
    BY <2>1, <1>a, ProceedAt DEF Update, history
  <2>2. CASE MarkFailed(a)
    BY <2>2, <1>a, ProceedAt DEF MarkFailed, history
  <2>3. ASSUME NEW f \in todo[a] \cup {item[a]}, Send(a, f) PROVE Shrinks
    BY <2>3, <1>a, NowAt DEF Send, history
  <2> QED
    BY <1>3, <2>1, <2>2, <2>3
<1>4. ASSUME NEW d \in Dispatchers, Dispatch(d) PROVE Shrinks \/ FindQueued(d)
  BY <1>3, <1>4 DEF Dispatch
<1>5. ASSUME NEW u \in Users, Request(u) PROVE Shrinks
  <2> u \in Actors
    BY DEF Actors
  <2>1. CASE Create(u) \/ \E n \in Ids : Cancel(u, n) \/ MarkRead(u, n)
    BY <1>2, <2>1 DEF Create, Cancel, MarkRead
  <2>2. CASE Requeue(u)
    BY <2>2, <1>a, StepAt DEF Requeue, history
  <2>3. CASE LoadAgain(u)
    BY <2>3, <1>a, NowAt DEF LoadAgain, history
  <2>4. ASSUME NEW n \in Ids, LoadToSend(u, n) PROVE Shrinks
    BY <2>4, <1>a, NowAt DEF LoadToSend
  <2>5. ASSUME NEW n \in Ids, LoadToRetry(u, n) PROVE Shrinks
    BY <2>5, <1>a, NowAt DEF LoadToRetry
  <2> QED
    BY <1>3, <1>5, <2>1, <2>2, <2>3, <2>4, <2>5 DEF Request
<1>6. ASSUME NEW a \in Actors, Throw(a) \/ Crash(a) PROVE Shrinks
  BY <1>6, <1>a, ThrowAt DEF ThrowsAt, Throw, Crash
<1> QED
  BY <1>1, <1>4, <1>5, <1>6 DEF Next

LEMMA AloneInit == Init => AloneInv
BY DEF Init, AloneInv, Actors

\* Whoever finds what another tick has makes it shared.
LEMMA AloneStep ==
  ASSUME TypeInv, AloneInv, [Next]_vars
  PROVE  AloneInv' /\ shared \subseteq shared'
<1> ActorsTyped
  BY DEF TypeInv
<1>1. CASE Shrinks
  BY <1>1 DEF Shrinks, AloneInv, Actors
<1>2. ASSUME NEW k \in Reminders, FindDue(k) PROVE AloneInv' /\ shared \subseteq shared'
  <2> DEFINE found == {[id |-> j, count |-> job[j].attempts] : j \in DueJobs}
  <2>0. k \in Actors /\ Now(k, "job", found, Nothing, 0)
    BY <1>2 DEF FindDue, Actors
  <2>1. \A f \in found : f.id \in DueJobs
    OBVIOUS
  <2> HIDE DEF found
  <2>2. todo'[k] = found /\ Others(k)
    BY <2>0, NowAt
  <2>3. shared' = shared \cup {j \in DueJobs : \E o \in Reminders \ {k} : Has(o, j)}
    BY <1>2 DEF FindDue
  <2>4. ASSUME NEW b \in Reminders \ {k}, NEW f \in todo'[k], NEW g \in todo'[b], f.id = g.id
        PROVE  f.id \in shared'
    BY <2>1, <2>2, <2>3, <2>4 DEF Others, Actors, Has
  <2>5. ASSUME NEW a \in Dispatchers PROVE todo'[a] = todo[a]
    BY <2>2, Kinds DEF Others, Actors
  <2>6. ASSUME NEW a \in Reminders, a # k PROVE todo'[a] = todo[a]
    BY <2>2, <2>6 DEF Others, Actors
  <2>7. ASSUME NEW a \in Dispatchers, NEW b \in Dispatchers, NEW f \in todo'[a], NEW g \in todo'[b],
               f.id = g.id, f.id \notin shared'
        PROVE  a = b
    BY <2>3, <2>5, <2>7 DEF AloneInv
  <2>8. ASSUME NEW a \in Reminders, NEW b \in Reminders, NEW f \in todo'[a], NEW g \in todo'[b],
               f.id = g.id, f.id \notin shared'
        PROVE  a = b
    <3>1. CASE a # k /\ b # k
      BY <2>3, <2>6, <2>8, <3>1 DEF AloneInv
    <3>2. CASE a = k /\ b # k
      BY <2>4, <2>8, <3>2
    <3>3. CASE a # k /\ b = k
      BY <2>4, <2>8, <3>3
    <3> QED
      BY <3>1, <3>2, <3>3
  <2> QED
    BY <2>3, <2>7, <2>8 DEF AloneInv
<1>3. ASSUME NEW d \in Dispatchers, FindQueued(d) PROVE AloneInv' /\ shared \subseteq shared'
  <2> DEFINE found == {[id |-> n, count |-> notes[n].retries] : n \in QueuedNotes}
  <2>0. d \in Actors /\ Now(d, "dispatch", found, Nothing, 0)
    BY <1>3 DEF FindQueued, Actors
  <2>1. \A f \in found : f.id \in QueuedNotes
    OBVIOUS
  <2> HIDE DEF found
  <2>2. todo'[d] = found /\ Others(d)
    BY <2>0, NowAt
  <2>3. shared' = shared \cup {n \in QueuedNotes : \E o \in Actors \ {d} : Has(o, n)}
    BY <1>3 DEF FindQueued
  <2>4. ASSUME NEW b \in Dispatchers \ {d}, NEW f \in todo'[d], NEW g \in todo'[b], f.id = g.id
        PROVE  f.id \in shared'
    BY <2>1, <2>2, <2>3, <2>4 DEF Others, Actors, Has
  <2>5. ASSUME NEW a \in Reminders PROVE todo'[a] = todo[a]
    BY <2>2, Kinds DEF Others, Actors
  <2>6. ASSUME NEW a \in Dispatchers, a # d PROVE todo'[a] = todo[a]
    BY <2>2, <2>6 DEF Others, Actors
  <2>7. ASSUME NEW a \in Reminders, NEW b \in Reminders, NEW f \in todo'[a], NEW g \in todo'[b],
               f.id = g.id, f.id \notin shared'
        PROVE  a = b
    BY <2>3, <2>5, <2>7 DEF AloneInv
  <2>8. ASSUME NEW a \in Dispatchers, NEW b \in Dispatchers, NEW f \in todo'[a], NEW g \in todo'[b],
               f.id = g.id, f.id \notin shared'
        PROVE  a = b
    <3>1. CASE a # d /\ b # d
      BY <2>3, <2>6, <2>8, <3>1 DEF AloneInv
    <3>2. CASE a = d /\ b # d
      BY <2>4, <2>8, <3>2
    <3>3. CASE a # d /\ b = d
      BY <2>4, <2>8, <3>3
    <3> QED
      BY <3>1, <3>2, <3>3
  <2> QED
    BY <2>3, <2>7, <2>8 DEF AloneInv
<1>4. CASE UNCHANGED vars
  BY <1>4 DEF vars, actors, history, AloneInv
<1> QED
  BY <1>1, <1>2, <1>3, <1>4, FindsNothing DEF Shrinks

\* Two reminder ticks do not have a reminder that is not shared.
LEMMA OneHasIt ==
  ASSUME AloneInv, NEW k \in Reminders, NEW f \in todo[k], f.id \notin shared,
         NEW l \in Reminders, NEW g \in todo[l], g.id = f.id
  PROVE  k = l
BY DEF AloneInv

-----------------------------------------------------------------------------
(* How often a reminder is tried                                           *)

\* A dispatch tick and a user leave the reminders, and who has them, as they
\* are, and no new notification is a reminder's.
RemindersRest ==
  /\ job' = job /\ tries' = tries
  /\ \A k \in Reminders : pc'[k] = pc[k] /\ todo'[k] = todo[k] /\ item'[k] = item[k]
  /\ \A n \in Ids' : notes'[n].of \in Jobs => n \in Ids /\ notes[n].of = notes'[n].of

LEMMA RemindersRestWhile ==
  ASSUME TypeInv,
         \/ \E d \in Dispatchers : Dispatch(d)
         \/ \E u \in Users : Request(u)
         \/ \E a \in Actors \ Reminders : Throw(a) \/ Crash(a)
         \/ UNCHANGED vars
  PROVE  RemindersRest
<1> ActorsTyped /\ notes \in Seq(Notes)
  BY DEF TypeInv, StoresTyped
<1>a. ASSUME NEW a \in Dispatchers \cup Users, Others(a)
      PROVE  \A k \in Reminders : pc'[k] = pc[k] /\ todo'[k] = todo[k] /\ item'[k] = item[k]
  BY <1>a, Kinds DEF Others, Actors
<1>b. ASSUME UNCHANGED notes \/ \E m \in Ids : Rewrites(m)
      PROVE  \A n \in Ids' : notes'[n].of \in Jobs => n \in Ids /\ notes[n].of = notes'[n].of
  BY <1>b DEF Rewrites, Ids
<1>1. ASSUME NEW a \in Dispatchers \cup Users, Update(a) PROVE RemindersRest
  <2>1. a \in Actors /\ item[a].id \in Ids
    BY <1>1, DispatcherHas, UserHas DEF Update, DispatchSteps, RequestSteps
  <2>2. Rewrites(item[a].id)
    BY <1>1, <2>1, StatusWritten DEF Update, NoteStatuses
  <2>3. Others(a)
    BY <1>1, <2>1, ProceedAt DEF Update
  <2> QED
    BY <1>1, <1>a, <1>b, <2>1, <2>2, <2>3 DEF RemindersRest, Update, history
<1>2. ASSUME NEW a \in Dispatchers \cup Users, MarkFailed(a) PROVE RemindersRest
  <2>1. a \in Actors /\ a \notin Reminders /\ item[a].id \in Ids /\ item[a].count \in Nat
    BY <1>2, Kinds, DispatcherHas, UserHas DEF MarkFailed, DispatchSteps, RequestSteps, Actors
  <2>2. Rewrites(item[a].id)
    BY <1>2, <2>1, FailureWritten DEF MarkFailed
  <2>3. Others(a)
    BY <1>2, <2>1, ProceedAt DEF MarkFailed
  <2> QED
    BY <1>2, <1>a, <1>b, <2>1, <2>2, <2>3 DEF RemindersRest, MarkFailed, history
<1>3. ASSUME NEW a \in Dispatchers \cup Users, NEW f, Send(a, f), f.id \in Ids PROVE RemindersRest
  <2>1. a \in Actors
    BY DEF Actors
  <2>2. Ids' = Ids /\ \A m \in Ids : notes'[m].of = notes[m].of
    BY <1>3, NoteHanded DEF Send
  <2>3. Others(a)
    BY <1>3, <2>1, NowAt DEF Send
  <2> QED
    BY <1>3, <1>a, <2>2, <2>3 DEF RemindersRest, Send, history
<1>4. ASSUME NEW d \in Dispatchers, Dispatch(d) PROVE RemindersRest
  <2>1. CASE FindQueued(d)
    <3>1. Others(d)
      BY <2>1, NowAt DEF FindQueued, Actors
    <3> QED
      BY <2>1, <3>1, <1>a, <1>b DEF RemindersRest, FindQueued, stores
  <2>2. ASSUME NEW f \in todo[d], Send(d, f) PROVE RemindersRest
    BY <2>2, <1>3, DispatcherHas
  <2> QED
    BY <1>1, <1>2, <1>4, <2>1, <2>2 DEF Dispatch
<1>5. ASSUME NEW u \in Users, Request(u) PROVE RemindersRest
  <2>0. u \in Actors /\ (pc[u] \in RequestSteps => item[u].id \in Ids)
    BY UserHas
  <2>1. CASE Create(u)
    <3>1. /\ Len(notes) + 1 \notin Ids /\ Ids' = Ids \cup {Len(notes) + 1}
          /\ \A m \in Ids : notes'[m] = notes[m]
          /\ notes'[Len(notes) + 1] = Note(None)
      BY <2>1, NoteAdded DEF Create
    <3>2. notes'[Len(notes) + 1].of = None
      BY <3>1 DEF Note
    <3> QED
      BY <2>1, <3>1, <3>2, DispatchAssumption DEF Create, RemindersRest, actors, history
  <2>2. ASSUME NEW n \in Ids, Cancel(u, n) \/ MarkRead(u, n) PROVE RemindersRest
    <3>1. Rewrites(n)
      BY <2>2, StatusWritten DEF Cancel, MarkRead, NoteStatuses
    <3> QED
      BY <2>2, <3>1, <1>b DEF Cancel, MarkRead, RemindersRest, actors, history
  <2>3. CASE Requeue(u)
    <3>1. Rewrites(item[u].id) /\ item[u].id \in Ids
      BY <2>0, <2>3, StatusWritten DEF Requeue, NoteStatuses, RequestSteps
    <3>2. Others(u)
      BY <2>0, <2>3, StepAt DEF Requeue
    <3> QED
      BY <2>3, <3>1, <3>2, <1>a, <1>b DEF Requeue, RemindersRest, history
  <2>4. CASE LoadAgain(u)
    <3>1. Others(u)
      BY <2>0, <2>4, NowAt DEF LoadAgain
    <3> QED
      BY <2>4, <3>1, <1>a, <1>b DEF LoadAgain, RemindersRest, history, stores
  <2>5. ASSUME NEW n \in Ids, LoadToSend(u, n) PROVE RemindersRest
    <3>1. Others(u)
      BY <2>0, <2>5, NowAt DEF LoadToSend
    <3> QED
      BY <2>5, <3>1, <1>a, <1>b DEF LoadToSend, RemindersRest, stores
  <2>6. ASSUME NEW n \in Ids, LoadToRetry(u, n) PROVE RemindersRest
    <3>1. Others(u)
      BY <2>0, <2>6, NowAt DEF LoadToRetry
    <3> QED
      BY <2>6, <3>1, <1>a, <1>b DEF LoadToRetry, RemindersRest, stores
  <2>7. CASE Send(u, item[u])
    <3>1. pc[u] \in RequestSteps
      BY <2>7, UserHas DEF Send, RequestSteps
    <3> QED
      BY <2>0, <2>7, <3>1, <1>3
  <2> QED
    BY <1>1, <1>2, <1>5, <2>1, <2>2, <2>3, <2>4, <2>5, <2>6, <2>7 DEF Request
<1>6. ASSUME NEW a \in Actors \ Reminders, Throw(a) \/ Crash(a) PROVE RemindersRest
  <2>1. Others(a) /\ a \in Dispatchers \cup Users /\ UNCHANGED <<stores, tries>>
    BY <1>6, ThrowAt, Kinds DEF Throw, Crash
  <2> QED
    BY <2>1, <1>a, <1>b DEF RemindersRest, stores
<1>7. CASE UNCHANGED vars
  BY <1>7, <1>b DEF vars, stores, actors, history, RemindersRest
<1> QED
  BY <1>4, <1>5, <1>6, <1>7

\* The count that a tick found is what was tried so far; once it took the
\* reminder, one less.
TriedBy(k, f, j) ==
  \/ tries[j] <= f.count
  \/ pc[k] \in RemindSteps /\ item[k] = f /\ tries[j] <= f.count + 1

TriesInv ==
  \A j \in Jobs \ shared :
    /\ tries[j] <= job[j].attempts
    /\ \A k \in Reminders : \A f \in todo[k] : f.id = j => TriedBy(k, f, j)

LEMMA TriesInit == Init => TriesInv
<1> SUFFICES ASSUME Init PROVE TriesInv
  OBVIOUS
<1>1. \A j \in Jobs : tries[j] = 0 /\ job[j].attempts = 0
  BY DEF Init
<1>2. \A k \in Reminders : todo[k] = {}
  BY DEF Init, Actors
<1> QED
  BY <1>1, <1>2 DEF TriesInv

LEMMA TriesStep ==
  ASSUME TypeInv, AloneInv, TriesInv, [Next]_vars
  PROVE  TriesInv'
<1> ActorsTyped /\ StoresTyped /\ HistoryTyped
  BY DEF TypeInv
<1> shared \subseteq shared'
  BY AloneStep
<1>0. \A j \in Jobs : tries[j] \in Nat /\ job[j].attempts \in Nat
  BY DispatchAssumption DEF StoresTyped, HistoryTyped
<1>1. ASSUME NEW k \in Reminders, FindDue(k) PROVE TriesInv'
  <2> DEFINE found == {[id |-> j, count |-> job[j].attempts] : j \in DueJobs}
  <2>1. k \in Actors /\ Now(k, "job", found, Nothing, 0) /\ UNCHANGED <<job, tries>>
    BY <1>1 DEF FindDue, stores, Actors
  <2>2. \A f \in found : f.count = job[f.id].attempts
    OBVIOUS
  <2> HIDE DEF found
  <2>3. todo'[k] = found /\ Others(k)
    BY <2>1, NowAt
  <2>4. ASSUME NEW j \in Jobs \ shared', NEW l \in Reminders, NEW f \in todo'[l], f.id = j
        PROVE  TriedBy(l, f, j)'
    <3>1. CASE l = k
      BY <2>1, <2>2, <2>3, <2>4, <3>1 DEF TriesInv, TriedBy
    <3>2. CASE l # k
      BY <2>1, <2>3, <2>4, <3>2 DEF TriesInv, TriedBy, Others, Actors
    <3> QED
      BY <3>1, <3>2
  <2> QED
    BY <2>1, <2>4 DEF TriesInv
<1>2. ASSUME NEW k \in Reminders, NEW f \in todo[k], Take(k, f) PROVE TriesInv'
  <2> DEFINE c == f.count + 1
  <2>1. k \in Actors /\ f.id \in Jobs /\ f.count \in Nat /\ c \in Nat /\ shared' = shared
    BY <1>2, ReminderHas, DispatchAssumption DEF Take
  <2>2. /\ pc[k] = "job" /\ pc'[k] = "queue" /\ todo'[k] = todo[k] /\ item'[k] = f
        /\ Others(k)
    BY <1>2, <2>1, NowAt DEF Take
  <2>3. /\ job'[f.id].attempts = c /\ tries'[f.id] = tries[f.id] + 1
        /\ \A j \in Jobs \ {f.id} : job'[j] = job[j] /\ tries'[j] = tries[j]
    BY <1>2, <2>1 DEF Take, StoresTyped, HistoryTyped
  <2>4. ASSUME NEW j \in Jobs \ shared', j # f.id
        PROVE  /\ tries'[j] <= job'[j].attempts
               /\ \A l \in Reminders : \A g \in todo'[l] : g.id = j => TriedBy(l, g, j)'
    <3>1. j \in Jobs \ shared /\ tries'[j] = tries[j] /\ job'[j] = job[j]
      BY <2>1, <2>3, <2>4
    <3>2. ASSUME NEW l \in Reminders, NEW g \in todo'[l], g.id = j PROVE TriedBy(l, g, j)'
      <4>1. CASE l = k
        BY <2>2, <3>1, <3>2, <4>1 DEF TriesInv, TriedBy, RemindSteps
      <4>2. CASE l # k
        BY <2>2, <3>1, <3>2, <4>2 DEF TriesInv, TriedBy, Others, Actors
      <4> QED
        BY <4>1, <4>2
    <3> QED
      BY <3>1, <3>2 DEF TriesInv
  <2>5. ASSUME f.id \notin shared
        PROVE  /\ tries'[f.id] <= job'[f.id].attempts
               /\ \A l \in Reminders : \A g \in todo'[l] : g.id = f.id => TriedBy(l, g, f.id)'
    <3>1. tries[f.id] <= f.count /\ tries[f.id] \in Nat
      BY <1>0, <2>1, <2>2, <2>5 DEF TriesInv, TriedBy, RemindSteps
    <3>2. tries'[f.id] <= c
      BY <2>1, <2>3, <3>1
    <3>3. ASSUME NEW l \in Reminders, NEW g \in todo'[l], g.id = f.id PROVE TriedBy(l, g, f.id)'
      <4>1. l = k
        BY <2>2, <2>5, <3>3, OneHasIt DEF Others, Actors
      <4>2. g = f
        BY <2>2, <3>3, <4>1, ReminderHas
      <4> QED
        BY <2>2, <3>2, <4>1, <4>2 DEF TriedBy, RemindSteps
    <3> QED
      BY <2>3, <3>2, <3>3
  <2> QED
    BY <2>1, <2>4, <2>5 DEF TriesInv
<1>3. ASSUME NEW k \in Reminders, pc[k] \in RemindSteps, pc'[k] \in RemindSteps,
             todo'[k] = todo[k], item'[k] = item[k], Others(k), UNCHANGED <<job, tries>>
      PROVE  TriesInv'
  <2>1. ASSUME NEW j \in Jobs \ shared', NEW l \in Reminders, NEW f \in todo'[l], f.id = j
        PROVE  TriedBy(l, f, j)'
    <3>1. CASE l = k
      BY <1>3, <2>1, <3>1 DEF TriesInv, TriedBy
    <3>2. CASE l # k
      BY <1>3, <2>1, <3>2 DEF TriesInv, TriedBy, Others, Actors
    <3> QED
      BY <3>1, <3>2
  <2> QED
    BY <1>3, <2>1 DEF TriesInv
<1>4. ASSUME NEW k \in Reminders, Queue(k) \/ Mark(k) \/ MarkFailed(k) PROVE TriesInv'
  <2>1. k \in Actors /\ UNCHANGED <<job, tries>> /\ pc[k] \in RemindSteps
    BY <1>4 DEF Queue, Mark, MarkFailed, history, Actors, RemindSteps
  <2>2. pc'[k] \in RemindSteps /\ todo'[k] = todo[k] /\ item'[k] = item[k] /\ Others(k)
    BY <1>4, <2>1, NowAt, StepAt DEF Queue, Mark, MarkFailed, RemindSteps
  <2> QED
    BY <1>3, <2>1, <2>2
<1>5. ASSUME NEW k \in Reminders, todo'[k] \subseteq todo[k] \ {item[k]}, Others(k),
             tries' = tries, \A j \in Jobs \ shared : tries[j] <= job'[j].attempts
      PROVE  TriesInv'
  <2>1. ASSUME NEW j \in Jobs \ shared', NEW l \in Reminders, NEW f \in todo'[l], f.id = j
        PROVE  TriedBy(l, f, j)'
    <3>1. CASE l = k
      BY <1>5, <2>1, <3>1 DEF TriesInv, TriedBy
    <3>2. CASE l # k
      BY <1>5, <2>1, <3>2 DEF TriesInv, TriedBy, Others, Actors
    <3> QED
      BY <3>1, <3>2
  <2> QED
    BY <1>5, <2>1 DEF TriesInv
<1>6. ASSUME NEW k \in Reminders, Finish(k) PROVE TriesInv'
  <2>1. k \in Actors /\ item[k].id \in Jobs /\ tries' = tries
    BY <1>6, ReminderHas DEF Finish, RemindSteps, history
  <2>2. \A j \in Jobs : job'[j].attempts = job[j].attempts
    BY <1>6, <2>1 DEF Finish, StoresTyped
  <2>3. todo'[k] \subseteq todo[k] \ {item[k]} /\ Others(k)
    BY <1>6, <2>1, ProceedAt DEF Finish
  <2> QED
    BY <1>5, <2>1, <2>2, <2>3 DEF TriesInv
<1>7. ASSUME NEW k \in Reminders, Recover(k) PROVE TriesInv'
  <2> DEFINE c == item[k].count + 1
  <2>1. /\ k \in Actors /\ item[k] \in todo[k] /\ item[k].id \in Jobs /\ item[k].count \in Nat
        /\ tries' = tries /\ c \in Nat
    BY <1>7, ReminderHas DEF Recover, RemindSteps, history
  <2>2. /\ job'[item[k].id].attempts = c
        /\ \A j \in Jobs \ {item[k].id} : job'[j] = job[j]
    BY <1>7, <2>1 DEF Recover, StoresTyped
  <2>3. todo'[k] \subseteq todo[k] \ {item[k]} /\ Others(k)
    BY <1>7, <2>1, ProceedAt DEF Recover
  <2>4. ASSUME item[k].id \notin shared PROVE tries[item[k].id] <= c
    <3>1. tries[item[k].id] <= item[k].count \/ tries[item[k].id] <= item[k].count + 1
      BY <2>1, <2>4 DEF TriesInv, TriedBy
    <3> QED
      BY <1>0, <2>1, <3>1
  <2> HIDE DEF c
  <2> QED
    BY <1>5, <2>1, <2>2, <2>3, <2>4 DEF TriesInv
<1>8. ASSUME NEW k \in Reminders, Throw(k) \/ Crash(k) PROVE TriesInv'
  <2>1. k \in Actors /\ UNCHANGED <<job, tries>> /\ Others(k) /\ ThrowsAt(k)
    BY <1>8, ThrowAt DEF Throw, Crash, stores, Actors
  <2>2. pc[k] \in {"idle", "job"} \cup RemindSteps
    BY ReminderHas
  <2>3. CASE pc[k] = "job" /\ pc'[k] = "recover" /\ todo'[k] = todo[k]
    <3>1. ASSUME NEW j \in Jobs \ shared', NEW l \in Reminders, NEW f \in todo'[l], f.id = j
          PROVE  TriedBy(l, f, j)'
      <4>1. CASE l = k
        BY <2>1, <2>3, <3>1, <4>1 DEF TriesInv, TriedBy, RemindSteps
      <4>2. CASE l # k
        BY <2>1, <3>1, <4>2 DEF TriesInv, TriedBy, Others, Actors
      <4> QED
        BY <4>1, <4>2
    <3> QED
      BY <2>1, <3>1 DEF TriesInv
  <2>4. CASE pc[k] \in RemindSteps /\ pc'[k] \in RemindSteps /\ todo'[k] = todo[k] /\ item'[k] = item[k]
    BY <1>3, <2>1, <2>4
  <2>5. CASE todo'[k] = {}
    BY <1>5, <2>1, <2>5 DEF TriesInv
  <2> QED
    BY <2>1, <2>2, <2>3, <2>4, <2>5, Kinds DEF ThrowsAt, RemindSteps
<1>9. CASE RemindersRest
  BY <1>9 DEF RemindersRest, TriesInv, TriedBy
<1> QED
  BY <1>1, <1>2, <1>4, <1>6, <1>7, <1>8, <1>9, RemindersRestWhile DEF Next, Remind

\* Whatever fails, and whoever dies, a reminder that no two ticks found at once
\* is taken at most maxAttempts times.
THEOREM ReminderTriesAreBounded == Spec => []TriesAreBounded
<1>1. Init => TypeInv /\ AloneInv /\ TriesInv
  BY ReminderTypeInit, AloneInit, TriesInit
<1>2. TypeInv /\ AloneInv /\ TriesInv /\ [Next]_vars => (TypeInv /\ AloneInv /\ TriesInv)'
  BY ReminderTypeStep, AloneStep, TriesStep
<1>3. TypeInv /\ TriesInv => TriesAreBounded
  <2> SUFFICES ASSUME TypeInv, TriesInv, NEW j \in Jobs \ shared PROVE tries[j] <= MaxAttempts
    BY DEF TriesAreBounded
  <2>1. tries[j] \in Nat /\ job[j].attempts \in 0..MaxAttempts /\ tries[j] <= job[j].attempts
    BY DEF TypeInv, StoresTyped, HistoryTyped, TriesInv
  <2> QED
    BY <2>1, DispatchAssumption
<1> QED
  BY <1>1, <1>2, <1>3, PTL DEF Spec

-----------------------------------------------------------------------------
(* A reminder makes one notification                                       *)

\* Nothing that was disturbed becomes undisturbed.
LEMMA DisturbedGrows == [Next]_vars => disturbed \subseteq disturbed'
<1> SUFFICES ASSUME [Next]_vars PROVE disturbed \subseteq disturbed'
  OBVIOUS
<1>1. ASSUME NEW k \in Reminders, Remind(k) PROVE disturbed' = disturbed
  BY <1>1 DEF Remind, FindDue, Take, Queue, Mark, MarkFailed, Finish, Recover, history
<1>2. ASSUME NEW d \in Dispatchers, Dispatch(d) PROVE disturbed' = disturbed
  BY <1>2 DEF Dispatch, FindQueued, Send, Update, MarkFailed, history
<1>3. ASSUME NEW u \in Users, Request(u) PROVE disturbed \subseteq disturbed'
  BY <1>3 DEF Request, Create, Requeue, LoadAgain, Send, Update, MarkFailed, LoadToSend,
     LoadToRetry, Cancel, MarkRead, history
<1>4. ASSUME NEW a \in Actors, Throw(a) \/ Crash(a) PROVE disturbed \subseteq disturbed'
  BY <1>4 DEF Throw, Crash, Disturb
<1>5. CASE UNCHANGED vars
  BY <1>5 DEF vars, history
<1> QED
  BY <1>1, <1>2, <1>3, <1>4, <1>5 DEF Next

\* Where the notification of a reminder exists, and where the reminder is taken.
NotedSteps == {"mark", "markFailed", "finish"}
TakenSteps == {"queue"} \cup NotedSteps

NoNote(j) == \A n \in Ids : notes[n].of # j

NotedOnce(j) ==
  /\ job[j].status = "scheduled" => NoNote(j)
  /\ \A m, n \in Ids : notes[m].of = j /\ notes[n].of = j => m = n
  /\ \A k \in Reminders : \A f \in todo[k] :
       f.id = j => NoNote(j) \/ (item[k] = f /\ pc[k] \in NotedSteps)
  /\ \A k \in Reminders :
       item[k].id = j /\ pc[k] \in TakenSteps => job[j].status = "processing"

NotedInv == \A j \in Jobs \ (shared \cup disturbed) : NotedOnce(j)

\* No notification of j is added, and the ticks have no more of it.
NoMoreOf(j) == \A n \in Ids' : notes'[n].of = j => n \in Ids /\ notes[n].of = j

HoldsNoMore(k, j) ==
  /\ \A f \in todo'[k] : f.id = j =>
       /\ f \in todo[k]
       /\ item[k] = f /\ pc[k] \in NotedSteps => item'[k] = f /\ pc'[k] \in NotedSteps
  /\ item'[k].id = j /\ pc'[k] \in TakenSteps => item[k].id = j /\ pc[k] \in TakenSteps

LEMMA NotedOnceKept ==
  ASSUME NEW j \in Jobs, NotedOnce(j), job'[j] = job[j], NoMoreOf(j),
         \A k \in Reminders : HoldsNoMore(k, j)
  PROVE  NotedOnce(j)'
<1>1. NoNote(j) => NoNote(j)'
  BY DEF NoNote, NoMoreOf
<1> QED
  BY <1>1 DEF NotedOnce, NoMoreOf, HoldsNoMore

\* The reminder that a tick has done with.
LEMMA NotedOnceDropped ==
  ASSUME ActorsTyped, AloneInv, NEW k \in Reminders, item[k] \in todo[k], NEW j \in Jobs \ shared,
         item[k].id = j, NotedOnce(j), NoMoreOf(j), Others(k),
         todo'[k] \subseteq todo[k] \ {item[k]}, item'[k] = Nothing,
         job'[j].status = "scheduled" => NoNote(j)
  PROVE  NotedOnce(j)'
<1>1. NoNote(j) => NoNote(j)'
  BY DEF NoNote, NoMoreOf
<1>2. ASSUME NEW l \in Reminders, NEW f \in todo'[l], f.id = j PROVE FALSE
  <2>1. CASE l = k
    BY <1>2, <2>1, ReminderHas
  <2>2. CASE l # k
    BY <1>2, <2>2, OneHasIt DEF Others, Actors
  <2> QED
    BY <2>1, <2>2
<1>3. ASSUME NEW l \in Reminders, item'[l].id = j, pc'[l] \in TakenSteps PROVE FALSE
  <2>1. CASE l = k
    BY <1>3, <2>1, DispatchAssumption DEF Nothing
  <2>2. CASE l # k
    <3>1. item[l].id = j /\ pc[l] \in RemindSteps
      BY <1>3, <2>2 DEF Others, Actors, TakenSteps, NotedSteps, RemindSteps
    <3>2. item[l] \in todo[l]
      BY <3>1, ReminderHas
    <3> QED
      BY <2>2, <3>1, <3>2, OneHasIt
  <2> QED
    BY <2>1, <2>2
<1> QED
  BY <1>1, <1>2, <1>3 DEF NotedOnce, NoMoreOf

LEMMA OthersHoldNoMore ==
  ASSUME NEW k \in Reminders, Others(k), NEW j, HoldsNoMore(k, j)
  PROVE  \A l \in Reminders : HoldsNoMore(l, j)
<1>1. ASSUME NEW l \in Reminders, l # k PROVE HoldsNoMore(l, j)
  BY <1>1 DEF Others, Actors, HoldsNoMore
<1> QED
  BY <1>1

LEMMA NotedInit == Init => NotedInv
<1> SUFFICES ASSUME Init PROVE NotedInv
  OBVIOUS
<1>1. Ids = {}
  BY DEF Init, Ids
<1>2. \A k \in Reminders : todo[k] = {} /\ pc[k] = "idle"
  BY DEF Init, Actors
<1> QED
  BY <1>1, <1>2 DEF NotedInv, NotedOnce, NoNote, TakenSteps, NotedSteps

LEMMA NotedStep ==
  ASSUME TypeInv, AloneInv, NotedInv, [Next]_vars
  PROVE  NotedInv'
<1> ActorsTyped /\ StoresTyped /\ HistoryTyped /\ notes \in Seq(Notes)
  BY DEF TypeInv, StoresTyped
<1>s. shared \subseteq shared' /\ disturbed \subseteq disturbed'
  BY AloneStep, DisturbedGrows
<1>n. ASSUME UNCHANGED notes \/ \E m \in Ids : Rewrites(m) PROVE \A j \in Jobs : NoMoreOf(j)
  BY <1>n DEF Rewrites, Ids, NoMoreOf
<1> SUFFICES ASSUME NEW j \in Jobs, j \notin shared', j \notin disturbed' PROVE NotedOnce(j)'
  BY DEF NotedInv
<1>j. j \notin shared /\ j \notin disturbed /\ NotedOnce(j)
  BY <1>s DEF NotedInv
<1>1. ASSUME NEW k \in Reminders, FindDue(k) PROVE NotedOnce(j)'
  <2> DEFINE found == {[id |-> i, count |-> job[i].attempts] : i \in DueJobs}
  <2>1. k \in Actors /\ Now(k, "job", found, Nothing, 0) /\ UNCHANGED <<job, notes>>
    BY <1>1 DEF FindDue, stores, Actors
  <2>2. \A f \in found : f.id = j => NoNote(j)
    BY <1>j DEF DueJobs, NotedOnce
  <2> HIDE DEF found
  <2>3. todo'[k] = found /\ pc'[k] = "job" /\ Others(k) /\ Ids' = Ids
    BY <2>1, NowAt DEF Ids
  <2>4. ASSUME NEW l \in Reminders, NEW f \in todo'[l], f.id = j
        PROVE  NoNote(j)' \/ (item'[l] = f /\ pc'[l] \in NotedSteps)
    <3>1. CASE l = k
      BY <2>1, <2>2, <2>3, <2>4, <3>1 DEF NoNote
    <3>2. CASE l # k
      BY <1>j, <2>1, <2>3, <2>4, <3>2 DEF NotedOnce, NoNote, Others, Actors
    <3> QED
      BY <3>1, <3>2
  <2>5. ASSUME NEW l \in Reminders, item'[l].id = j, pc'[l] \in TakenSteps
        PROVE  job'[j].status = "processing"
    <3>1. l # k
      BY <2>3, <2>5 DEF TakenSteps, NotedSteps
    <3> QED
      BY <1>j, <2>1, <2>3, <2>5, <3>1 DEF NotedOnce, Others, Actors
  <2> QED
    BY <1>j, <2>1, <2>3, <2>4, <2>5 DEF NotedOnce, NoNote
<1>2. ASSUME NEW k \in Reminders, NEW f \in todo[k], Take(k, f) PROVE NotedOnce(j)'
  <2>1. k \in Actors /\ f.id \in Jobs /\ UNCHANGED notes /\ NoMoreOf(j)
    BY <1>2, <1>n, ReminderHas DEF Take
  <2>2. /\ pc[k] = "job" /\ pc'[k] = "queue" /\ todo'[k] = todo[k] /\ item'[k] = f
        /\ Others(k)
    BY <1>2, <2>1, NowAt DEF Take
  <2>3. CASE j # f.id
    <3>1. job'[j] = job[j]
      BY <1>2, <2>1, <2>3 DEF Take, StoresTyped
    <3>2. HoldsNoMore(k, j)
      BY <2>2, <2>3 DEF HoldsNoMore, NotedSteps
    <3> QED
      BY <1>j, <2>1, <2>2, <3>1, <3>2, NotedOnceKept, OthersHoldNoMore
  <2>4. CASE j = f.id
    <3>1. job'[j].status = "processing"
      BY <1>2, <2>1, <2>4 DEF Take, StoresTyped
    <3>2. NoNote(j) /\ NoNote(j)'
      BY <1>j, <2>1, <2>2, <2>4 DEF NotedOnce, NotedSteps, NoNote, Ids
    <3> QED
      BY <3>1, <3>2 DEF NotedOnce, NoNote
  <2> QED
    BY <2>3, <2>4
<1>3. ASSUME NEW k \in Reminders, Queue(k) PROVE NotedOnce(j)'
  <2> DEFINE new == Len(notes) + 1
  <2>1. /\ k \in Actors /\ item[k] \in todo[k] /\ item[k].id \in Jobs /\ pc[k] = "queue" /\ job' = job
        /\ notes' = Append(notes, Note(item[k].id))
    BY <1>3, ReminderHas DEF Queue, RemindSteps
  <2>2. /\ pc'[k] = "mark" /\ todo'[k] = todo[k] /\ item'[k] = item[k]
        /\ Others(k)
    BY <1>3, <2>1, NowAt DEF Queue
  <2>3. /\ new \notin Ids /\ Ids' = Ids \cup {new}
        /\ \A m \in Ids : notes'[m] = notes[m]
        /\ notes'[new] = Note(item[k].id)
    BY <2>1, NoteAdded
  <2>n. notes'[new].of = item[k].id
    BY <2>3 DEF Note
  <2> HIDE DEF new
  <2>4. CASE j # item[k].id
    <3>1. NoMoreOf(j)
      BY <2>3, <2>n, <2>4 DEF NoMoreOf
    <3>2. HoldsNoMore(k, j)
      BY <2>1, <2>2, <2>4 DEF HoldsNoMore, NotedSteps
    <3> QED
      BY <1>j, <2>1, <2>2, <3>1, <3>2, NotedOnceKept, OthersHoldNoMore
  <2>5. CASE j = item[k].id
    <3>1. NoNote(j) /\ job'[j].status = "processing"
      BY <1>j, <2>1, <2>5 DEF NotedOnce, NotedSteps, TakenSteps
    <3>2. \A m \in Ids' : notes'[m].of = j => m = new
      BY <2>3, <3>1 DEF NoNote
    <3>3. ASSUME NEW l \in Reminders, NEW f \in todo'[l], f.id = j
          PROVE  item'[l] = f /\ pc'[l] \in NotedSteps
      <4>1. l = k
        BY <1>j, <2>1, <2>2, <2>5, <3>3, OneHasIt DEF Others, Actors
      <4> QED
        BY <2>1, <2>2, <2>5, <3>3, <4>1, ReminderHas DEF NotedSteps
    <3> QED
      BY <3>1, <3>2, <3>3 DEF NotedOnce
  <2> QED
    BY <2>4, <2>5
<1>4. ASSUME NEW k \in Reminders, Mark(k) \/ MarkFailed(k) PROVE NotedOnce(j)'
  <2>1. k \in Actors /\ job' = job /\ pc[k] \in NotedSteps /\ note[k] \in Ids
    BY <1>4, ReminderHas DEF Mark, MarkFailed, NotedSteps
  <2>2. Rewrites(note[k])
    <3>1. CASE Mark(k)
      BY <2>1, <3>1, StatusWritten DEF Mark, NoteStatuses
    <3>2. CASE MarkFailed(k)
      BY <2>1, <3>2, FailureWritten DEF MarkFailed
    <3> QED
      BY <1>4, <3>1, <3>2
  <2>3. pc'[k] = "finish" /\ todo'[k] = todo[k] /\ item'[k] = item[k] /\ Others(k)
    BY <1>4, <2>1, StepAt DEF Mark, MarkFailed
  <2>4. HoldsNoMore(k, j)
    BY <2>1, <2>3 DEF HoldsNoMore, NotedSteps, TakenSteps
  <2> QED
    BY <1>j, <1>n, <2>1, <2>2, <2>3, <2>4, NotedOnceKept, OthersHoldNoMore
<1>5. ASSUME NEW k \in Reminders, Finish(k) \/ Recover(k) PROVE NotedOnce(j)'
  <2>1. k \in Actors /\ item[k] \in todo[k] /\ item[k].id \in Jobs /\ UNCHANGED notes /\ NoMoreOf(j)
    BY <1>5, <1>n, ReminderHas DEF Finish, Recover, RemindSteps
  <2>2. /\ todo'[k] \subseteq todo[k] \ {item[k]} /\ item'[k] = Nothing
        /\ Others(k)
    BY <1>5, <2>1, ProceedAt DEF Finish, Recover
  <2>3. \A i \in Jobs \ {item[k].id} : job'[i] = job[i]
    BY <1>5, <2>1 DEF Finish, Recover, StoresTyped
  <2>4. CASE j # item[k].id
    <3>1. HoldsNoMore(k, j)
      BY <2>2, DispatchAssumption DEF HoldsNoMore, Nothing
    <3> QED
      BY <1>j, <2>1, <2>2, <2>3, <2>4, <3>1, NotedOnceKept, OthersHoldNoMore
  <2>5. CASE j = item[k].id
    <3>1. CASE Finish(k)
      <4>1. job'[j].status = "sent"
        BY <2>1, <2>5, <3>1 DEF Finish, StoresTyped
      <4> QED
        BY <1>j, <2>1, <2>2, <2>5, <4>1, NotedOnceDropped
    <3>2. CASE Recover(k)
      <4>1. NoNote(j)
        BY <1>j, <2>1, <2>5, <3>2 DEF Recover, NotedOnce, NotedSteps
      <4> QED
        BY <1>j, <2>1, <2>2, <2>5, <4>1, NotedOnceDropped
    <3> QED
      BY <1>5, <3>1, <3>2
  <2> QED
    BY <2>4, <2>5
<1>6. ASSUME NEW k \in Reminders, Throw(k) \/ Crash(k) PROVE NotedOnce(j)'
  <2>1. /\ k \in Actors /\ UNCHANGED <<job, notes>> /\ NoMoreOf(j)
        /\ Others(k) /\ ThrowsAt(k) /\ Disturb(k)
    BY <1>6, <1>n, ThrowAt DEF Throw, Crash, stores, Actors
  <2>2. pc[k] \in {"idle", "job"} \cup RemindSteps
    BY ReminderHas
  <2>3. pc[k] \in {"markFailed", "finish"} => j # item[k].id
    BY <2>1 DEF Disturb
  <2>4. HoldsNoMore(k, j)
    <3>1. CASE pc[k] = "job" /\ pc'[k] = "recover" /\ todo'[k] = todo[k]
      BY <3>1 DEF HoldsNoMore, NotedSteps, TakenSteps
    <3>2. CASE /\ pc[k] \in {"queue", "finish", "markFailed"} /\ pc'[k] = "recover"
               /\ todo'[k] = todo[k] /\ item'[k] = item[k]
      BY <2>3, <3>2 DEF HoldsNoMore, NotedSteps, TakenSteps
    <3>3. CASE /\ pc[k] = "mark" /\ pc'[k] = "markFailed"
               /\ todo'[k] = todo[k] /\ item'[k] = item[k]
      BY <3>3 DEF HoldsNoMore, NotedSteps, TakenSteps
    <3>4. CASE pc'[k] = "idle" /\ todo'[k] = {}
      BY <3>4 DEF HoldsNoMore, NotedSteps, TakenSteps
    <3> QED
      BY <2>1, <2>2, <3>1, <3>2, <3>3, <3>4, Kinds DEF ThrowsAt, RemindSteps
  <2> QED
    BY <1>j, <2>1, <2>4, NotedOnceKept, OthersHoldNoMore
<1>7. CASE RemindersRest
  <2>1. NoMoreOf(j) /\ job'[j] = job[j] /\ \A k \in Reminders : HoldsNoMore(k, j)
    BY <1>7 DEF RemindersRest, NoMoreOf, HoldsNoMore
  <2> QED
    BY <1>j, <2>1, NotedOnceKept
<1> QED
  BY <1>1, <1>2, <1>3, <1>4, <1>5, <1>6, <1>7, RemindersRestWhile DEF Next, Remind

-----------------------------------------------------------------------------
(* An e-mail is handed over once                                           *)

\* What a request has in hand to send is disturbed.
UsersInv == \A u \in Users : pc[u] \in RequestSteps => item[u].id \in disturbed

LEMMA UsersStep ==
  ASSUME TypeInv, UsersInv, [Next]_vars
  PROVE  UsersInv'
<1> ActorsTyped
  BY DEF TypeInv
<1>d. disturbed \subseteq disturbed'
  BY DisturbedGrows
<1>a. ASSUME NEW u \in Users, Others(u), pc'[u] \in RequestSteps => item'[u].id \in disturbed'
      PROVE  UsersInv'
  BY <1>a, <1>d DEF Others, Actors, UsersInv
<1>b. ASSUME NEW a \in Actors \ Users, Others(a) PROVE UsersInv'
  BY <1>b, <1>d DEF Others, Actors, UsersInv
<1>1. ASSUME NEW k \in Reminders, Remind(k) PROVE UsersInv'
  <2>1. k \in Actors \ Users
    BY DispatchAssumption DEF Actors
  <2>2. CASE FindDue(k) \/ Queue(k) \/ \E f \in todo[k] : Take(k, f)
    BY <1>b, <2>1, <2>2, NowAt DEF FindDue, Queue, Take
  <2>3. CASE Mark(k) \/ MarkFailed(k)
    BY <1>b, <2>1, <2>3, StepAt DEF Mark, MarkFailed
  <2>4. CASE Finish(k) \/ Recover(k)
    BY <1>b, <2>1, <2>4, ProceedAt DEF Finish, Recover
  <2> QED
    BY <1>1, <2>2, <2>3, <2>4 DEF Remind
<1>2. ASSUME NEW d \in Dispatchers, Dispatch(d) PROVE UsersInv'
  <2>1. d \in Actors \ Users /\ d \notin Reminders
    BY DispatchAssumption DEF Actors
  <2>2. CASE FindQueued(d) \/ \E f \in todo[d] : Send(d, f)
    BY <1>b, <2>1, <2>2, NowAt DEF FindQueued, Send
  <2>3. CASE Update(d) \/ MarkFailed(d)
    BY <1>b, <2>1, <2>3, ProceedAt DEF Update, MarkFailed
  <2> QED
    BY <1>2, <2>2, <2>3 DEF Dispatch
<1>3. ASSUME NEW u \in Users, Request(u) PROVE UsersInv'
  <2>1. u \in Actors /\ u \notin Reminders
    BY DispatchAssumption DEF Actors
  <2>2. CASE Create(u) \/ \E n \in Ids : Cancel(u, n) \/ MarkRead(u, n)
    BY <1>d, <2>2 DEF Create, Cancel, MarkRead, actors, UsersInv
  <2>3. CASE Update(u) \/ MarkFailed(u)
    <3>1. pc'[u] \in {"idle", "dispatch"} /\ Others(u)
      BY <2>1, <2>3, ProceedAt DEF Update, MarkFailed
    <3> QED
      BY <1>a, <3>1 DEF RequestSteps
  <2>4. CASE Requeue(u)
    <3>1. item'[u] = item[u] /\ pc[u] = "requeue" /\ Others(u)
      BY <2>1, <2>4, StepAt DEF Requeue
    <3> QED
      BY <1>a, <1>d, <3>1 DEF UsersInv, RequestSteps
  <2>5. CASE LoadAgain(u)
    <3>1. item'[u].id = item[u].id /\ pc[u] = "load" /\ Others(u)
      BY <2>1, <2>5, NowAt DEF LoadAgain
    <3> QED
      BY <1>a, <1>d, <3>1 DEF UsersInv, RequestSteps
  <2>6. ASSUME NEW n \in Ids, LoadToSend(u, n) PROVE UsersInv'
    <3>1. item'[u].id = n /\ n \in disturbed' /\ Others(u)
      BY <2>1, <2>6, NowAt DEF LoadToSend
    <3> QED
      BY <1>a, <3>1
  <2>7. ASSUME NEW n \in Ids, LoadToRetry(u, n) PROVE UsersInv'
    <3>1. item'[u].id = n /\ n \in disturbed' /\ Others(u)
      BY <2>1, <2>7, NowAt DEF LoadToRetry
    <3> QED
      BY <1>a, <3>1
  <2>8. CASE Send(u, item[u])
    <3>1. pc[u] \in RequestSteps
      BY <2>8, UserHas DEF Send, RequestSteps
    <3>2. item'[u] = item[u] /\ Others(u)
      BY <2>1, <2>8, NowAt DEF Send
    <3> QED
      BY <1>a, <1>d, <3>1, <3>2 DEF UsersInv
  <2> QED
    BY <1>3, <2>2, <2>3, <2>4, <2>5, <2>6, <2>7, <2>8 DEF Request
<1>4. ASSUME NEW a \in Actors, Throw(a) \/ Crash(a) PROVE UsersInv'
  <2>1. Others(a) /\ ThrowsAt(a)
    BY <1>4, ThrowAt
  <2>2. CASE a \in Users
    <3>1. \/ pc[a] \in {"send", "update"} /\ item'[a] = item[a]
          \/ pc'[a] = "idle"
      BY <2>1, <2>2, UserHas, Kinds DEF ThrowsAt, RequestSteps
    <3> QED
      BY <1>a, <1>d, <2>1, <2>2, <3>1 DEF UsersInv, RequestSteps
  <2>3. CASE a \notin Users
    BY <1>b, <2>1, <2>3
  <2> QED
    BY <2>2, <2>3
<1>5. CASE UNCHANGED vars
  BY <1>5, <1>d DEF vars, actors, UsersInv
<1> QED
  BY <1>1, <1>2, <1>3, <1>4, <1>5 DEF Next

HeardOnce(n) ==
  /\ notes[n].handed <= 1
  /\ notes[n].status = "queued" =>
       \/ notes[n].handed = 0
       \/ \E d \in Dispatchers : pc[d] = "update" /\ item[d].id = n
  /\ \A d \in Dispatchers : \A f \in todo[d] :
       f.id = n => notes[n].handed = 0 \/ (item[d] = f /\ pc[d] = "update")

HeardInv == \A n \in Ids \ (shared \cup disturbed) : HeardOnce(n)

\* A step hands nothing over, and n is queued only if it was.
Quiet(n) ==
  /\ n \in Ids
  /\ notes'[n].handed = notes[n].handed
  /\ notes'[n].status = "queued" => notes[n].status = "queued"

DispatchHoldsNoMore(d, n) ==
  /\ \A f \in todo'[d] : f.id = n =>
       /\ f \in todo[d]
       /\ item[d] = f /\ pc[d] = "update" => item'[d] = f /\ pc'[d] = "update"
  /\ pc[d] = "update" /\ item[d].id = n /\ notes'[n].status = "queued" =>
       pc'[d] = "update" /\ item'[d].id = n

LEMMA HeardOnceKept ==
  ASSUME NEW n, HeardOnce(n), Quiet(n), \A d \in Dispatchers : DispatchHoldsNoMore(d, n)
  PROVE  HeardOnce(n)'
BY DEF HeardOnce, Quiet, DispatchHoldsNoMore

LEMMA NotHandedOver ==
  ASSUME NEW n, notes'[n].handed = 0
  PROVE  HeardOnce(n)'
BY DEF HeardOnce

LEMMA OthersDispatchNoMore ==
  ASSUME NEW d \in Dispatchers, Others(d), NEW n, DispatchHoldsNoMore(d, n)
  PROVE  \A e \in Dispatchers : DispatchHoldsNoMore(e, n)
<1>1. ASSUME NEW e \in Dispatchers, e # d PROVE DispatchHoldsNoMore(e, n)
  BY <1>1 DEF Others, Actors, DispatchHoldsNoMore
<1> QED
  BY <1>1

\* A reminder tick and a user hand over nothing that is not disturbed.
DispatchersRest ==
  /\ \A d \in Dispatchers : pc'[d] = pc[d] /\ todo'[d] = todo[d] /\ item'[d] = item[d]
  /\ \A n \in Ids' \ disturbed' : notes'[n].handed = 0 \/ Quiet(n)

LEMMA DispatchersRestWhile ==
  ASSUME TypeInv, UsersInv,
         \/ \E k \in Reminders : Remind(k)
         \/ \E u \in Users : Request(u)
         \/ \E a \in Actors \ Dispatchers : Throw(a) \/ Crash(a)
         \/ UNCHANGED vars
  PROVE  DispatchersRest
<1> ActorsTyped /\ notes \in Seq(Notes)
  BY DEF TypeInv, StoresTyped
<1>d. disturbed \subseteq disturbed'
  BY DisturbedGrows DEF Next
<1>a. ASSUME NEW a \in Reminders \cup Users, Others(a) \/ UNCHANGED actors
      PROVE  \A d \in Dispatchers : pc'[d] = pc[d] /\ todo'[d] = todo[d] /\ item'[d] = item[d]
  BY <1>a, Kinds DEF Others, Actors, actors
<1>b. ASSUME NEW m \in Ids, Rewrites(m), notes'[m].status # "queued" \/ m \in disturbed
      PROVE  \A n \in Ids' \ disturbed' : notes'[n].handed = 0 \/ Quiet(n)
  <2> SUFFICES ASSUME NEW n \in Ids' \ disturbed' PROVE Quiet(n)
    OBVIOUS
  <2>1. n \in Ids /\ notes'[n].handed = notes[n].handed
    BY <1>b DEF Rewrites
  <2>2. CASE n = m
    BY <1>b, <1>d, <2>1, <2>2 DEF Quiet
  <2>3. CASE n # m
    BY <1>b, <2>1, <2>3 DEF Quiet, Rewrites
  <2> QED
    BY <2>2, <2>3
<1>c. ASSUME UNCHANGED notes
      PROVE  \A n \in Ids' \ disturbed' : notes'[n].handed = 0 \/ Quiet(n)
  BY <1>c DEF Ids, Quiet
<1>e. ASSUME NEW o \in Jobs \cup {None}, notes' = Append(notes, Note(o))
      PROVE  \A n \in Ids' \ disturbed' : notes'[n].handed = 0 \/ Quiet(n)
  <2>1. /\ Ids' = Ids \cup {Len(notes) + 1}
        /\ \A m \in Ids : notes'[m] = notes[m]
        /\ notes'[Len(notes) + 1] = Note(o)
    BY <1>e, NoteAdded
  <2>2. notes'[Len(notes) + 1].handed = 0
    BY <2>1 DEF Note
  <2> QED
    BY <2>1, <2>2 DEF Quiet
<1>1. ASSUME NEW k \in Reminders, Remind(k) PROVE DispatchersRest
  <2>0. k \in Actors
    BY DEF Actors
  <2>1. CASE FindDue(k) \/ \E f \in todo[k] : Take(k, f)
    <3>1. Others(k) /\ UNCHANGED notes
      BY <2>0, <2>1, NowAt DEF FindDue, Take, stores
    <3> QED
      BY <1>a, <1>c, <3>1 DEF DispatchersRest
  <2>2. CASE Queue(k)
    <3>1. item[k].id \in Jobs /\ Others(k)
      BY <2>0, <2>2, NowAt, ReminderHas DEF Queue, RemindSteps
    <3> QED
      BY <1>a, <1>e, <2>2, <3>1 DEF DispatchersRest, Queue
  <2>3. CASE Mark(k)
    <3>1. note[k] \in Ids /\ Others(k)
      BY <2>0, <2>3, StepAt, ReminderHas DEF Mark
    <3>2. Rewrites(note[k]) /\ notes'[note[k]].status = "sent"
      BY <2>3, <3>1, StatusWritten DEF Mark, NoteStatuses
    <3> QED
      BY <1>a, <1>b, <3>1, <3>2 DEF DispatchersRest
  <2>4. CASE MarkFailed(k)
    <3>1. note[k] \in Ids /\ Others(k)
      BY <2>0, <2>4, StepAt, ReminderHas DEF MarkFailed
    <3>2. Rewrites(note[k]) /\ notes'[note[k]].status = "failed"
      BY <2>4, <3>1, FailureWritten DEF MarkFailed
    <3> QED
      BY <1>a, <1>b, <3>1, <3>2 DEF DispatchersRest
  <2>5. CASE Finish(k) \/ Recover(k)
    <3>1. Others(k) /\ UNCHANGED notes
      BY <2>0, <2>5, ProceedAt DEF Finish, Recover
    <3> QED
      BY <1>a, <1>c, <3>1 DEF DispatchersRest
  <2> QED
    BY <1>1, <2>1, <2>2, <2>3, <2>4, <2>5 DEF Remind
<1>2. ASSUME NEW u \in Users, Request(u) PROVE DispatchersRest
  <2>0. u \in Actors /\ u \notin Reminders
    BY DispatchAssumption DEF Actors
  <2>1. pc[u] \in RequestSteps => item[u].id \in Ids /\ item[u].count \in Nat /\ item[u].id \in disturbed
    BY UserHas DEF UsersInv
  <2>2. CASE Create(u)
    BY <1>a, <1>e, <2>2 DEF DispatchersRest, Create
  <2>3. ASSUME NEW n \in Ids, Cancel(u, n) \/ MarkRead(u, n) PROVE DispatchersRest
    <3>1. Rewrites(n) /\ notes'[n].status # "queued" /\ UNCHANGED actors
      BY <2>3, StatusWritten DEF Cancel, MarkRead, NoteStatuses
    <3> QED
      BY <1>a, <1>b, <3>1 DEF DispatchersRest
  <2>4. CASE Requeue(u)
    <3>1. item[u].id \in Ids /\ item[u].id \in disturbed /\ Others(u)
      BY <2>0, <2>1, <2>4, StepAt DEF Requeue, RequestSteps
    <3>2. Rewrites(item[u].id)
      BY <2>4, <3>1, StatusWritten DEF Requeue, NoteStatuses
    <3> QED
      BY <1>a, <1>b, <3>1, <3>2 DEF DispatchersRest
  <2>5. CASE LoadAgain(u) \/ \E n \in Ids : LoadToSend(u, n) \/ LoadToRetry(u, n)
    <3>1. Others(u) /\ UNCHANGED notes
      BY <2>0, <2>5, NowAt DEF LoadAgain, LoadToSend, LoadToRetry, stores
    <3> QED
      BY <1>a, <1>c, <3>1 DEF DispatchersRest
  <2>6. CASE Send(u, item[u])
    <3>1. item[u].id \in Ids /\ item[u].id \in disturbed /\ Others(u)
      BY <2>0, <2>1, <2>6, NowAt, UserHas DEF Send, RequestSteps
    <3>2. /\ Ids' = Ids /\ \A m \in Ids : notes'[m].status = notes[m].status
          /\ \A m \in Ids \ {item[u].id} : notes'[m].handed = notes[m].handed
      BY <2>6, <3>1, NoteHanded DEF Send
    <3>3. \A n \in Ids' \ disturbed' : Quiet(n)
      BY <1>d, <3>1, <3>2 DEF Quiet
    <3> QED
      BY <1>a, <3>1, <3>3 DEF DispatchersRest
  <2>7. CASE Update(u)
    <3>1. item[u].id \in Ids /\ item[u].id \in disturbed /\ Others(u)
      BY <2>0, <2>1, <2>7, ProceedAt DEF Update, RequestSteps
    <3>2. Rewrites(item[u].id)
      BY <2>7, <3>1, StatusWritten DEF Update, NoteStatuses
    <3> QED
      BY <1>a, <1>b, <3>1, <3>2 DEF DispatchersRest
  <2>8. CASE MarkFailed(u)
    <3>1. item[u].id \in Ids /\ item[u].count \in Nat /\ item[u].id \in disturbed /\ Others(u)
      BY <2>0, <2>1, <2>8, ProceedAt DEF MarkFailed, RequestSteps
    <3>2. Rewrites(item[u].id)
      BY <2>0, <2>8, <3>1, FailureWritten DEF MarkFailed
    <3> QED
      BY <1>a, <1>b, <3>1, <3>2 DEF DispatchersRest
  <2> QED
    BY <1>2, <2>2, <2>3, <2>4, <2>5, <2>6, <2>7, <2>8 DEF Request
<1>3. ASSUME NEW a \in Actors \ Dispatchers, Throw(a) \/ Crash(a) PROVE DispatchersRest
  <2>1. Others(a) /\ a \in Reminders \cup Users /\ UNCHANGED notes
    BY <1>3, ThrowAt, Kinds DEF Throw, Crash, stores
  <2> QED
    BY <1>a, <1>c, <2>1 DEF DispatchersRest
<1>4. CASE UNCHANGED vars
  BY <1>4, <1>c DEF vars, stores, actors, DispatchersRest
<1> QED
  BY <1>1, <1>2, <1>3, <1>4

LEMMA HeardInit == Init => HeardInv /\ UsersInv
<1> SUFFICES ASSUME Init PROVE HeardInv /\ UsersInv
  OBVIOUS
<1>1. Ids = {} /\ \A u \in Users : pc[u] = "idle"
  BY DEF Init, Ids, Actors
<1> QED
  BY <1>1 DEF HeardInv, UsersInv, RequestSteps

LEMMA HeardStep ==
  ASSUME TypeInv, AloneInv, UsersInv, HeardInv, [Next]_vars
  PROVE  HeardInv'
<1> ActorsTyped /\ notes \in Seq(Notes)
  BY DEF TypeInv, StoresTyped
<1>s. shared \subseteq shared' /\ disturbed \subseteq disturbed'
  BY AloneStep, DisturbedGrows
<1> SUFFICES ASSUME NEW n \in Ids', n \notin shared', n \notin disturbed' PROVE HeardOnce(n)'
  BY DEF HeardInv
<1>j. n \notin shared /\ n \notin disturbed /\ (n \in Ids => HeardOnce(n))
  BY <1>s DEF HeardInv
<1>1. ASSUME NEW d \in Dispatchers, FindQueued(d) PROVE HeardOnce(n)'
  <2> DEFINE found == {[id |-> m, count |-> notes[m].retries] : m \in QueuedNotes}
  <2>1. /\ d \in Actors /\ Now(d, "dispatch", found, Nothing, 0)
        /\ UNCHANGED notes /\ Ids' = Ids /\ pc[d] = "idle"
        /\ shared' = shared \cup {m \in QueuedNotes : \E o \in Actors \ {d} : Has(o, m)}
    BY <1>1 DEF FindQueued, stores, Actors, Ids
  <2>2. \A f \in found : f.id \in QueuedNotes
    OBVIOUS
  <2> HIDE DEF found
  <2>3. todo'[d] = found /\ Others(d)
    BY <2>1, NowAt
  <2>4. n \in QueuedNotes => notes[n].handed = 0
    <3> SUFFICES ASSUME n \in QueuedNotes, NEW e \in Dispatchers, pc[e] = "update", item[e].id = n
                 PROVE  FALSE
      BY <1>j DEF HeardOnce, QueuedNotes
    <3>1. e \in Actors \ {d} /\ Has(e, n)
      BY <2>1 DEF Actors, Has
    <3> QED
      BY <2>1, <3>1
  <2>5. ASSUME NEW e \in Dispatchers, NEW f \in todo'[e], f.id = n
        PROVE  notes'[n].handed = 0 \/ (item'[e] = f /\ pc'[e] = "update")
    <3>1. CASE e = d
      BY <2>1, <2>2, <2>3, <2>4, <2>5, <3>1
    <3>2. CASE e # d
      BY <1>j, <2>1, <2>3, <2>5, <3>2 DEF HeardOnce, Others, Actors
    <3> QED
      BY <3>1, <3>2
  <2>6. notes'[n].status = "queued" => notes'[n].handed = 0
    BY <2>1, <2>4 DEF QueuedNotes
  <2> QED
    BY <1>j, <2>1, <2>5, <2>6 DEF HeardOnce
<1>2. ASSUME NEW d \in Dispatchers, NEW f \in todo[d], Send(d, f) PROVE HeardOnce(n)'
  <2>1. d \in Actors /\ f.id \in Ids /\ pc[d] = "dispatch"
    BY <1>2, DispatcherHas DEF Send, DispatchSteps
  <2>2. pc'[d] = "update" /\ todo'[d] = todo[d] /\ item'[d] = f /\ Others(d)
    BY <1>2, <2>1, NowAt DEF Send
  <2>3. /\ Ids' = Ids /\ \A m \in Ids : notes'[m].status = notes[m].status
        /\ \A m \in Ids \ {f.id} : notes'[m].handed = notes[m].handed
        /\ notes'[f.id].handed \in {notes[f.id].handed, notes[f.id].handed + 1}
    BY <1>2, <2>1, NoteHanded DEF Send
  <2>4. CASE n # f.id
    <3>1. Quiet(n) /\ DispatchHoldsNoMore(d, n)
      BY <2>1, <2>2, <2>3, <2>4 DEF Quiet, DispatchHoldsNoMore
    <3> QED
      BY <1>j, <2>2, <2>3, <3>1, HeardOnceKept, OthersDispatchNoMore
  <2>5. CASE n = f.id
    <3>1. notes[n].handed = 0
      BY <1>j, <2>1, <2>5 DEF HeardOnce
    <3>2. notes'[n].handed <= 1
      BY <2>3, <2>5, <3>1
    <3>3. ASSUME NEW e \in Dispatchers, NEW g \in todo'[e], g.id = n
          PROVE  item'[e] = g /\ pc'[e] = "update"
      <4>1. e = d
        BY <1>j, <2>2, <2>5, <3>3 DEF AloneInv, Others, Actors
      <4> QED
        BY <2>2, <2>5, <3>3, <4>1, DispatcherHas
    <3> QED
      BY <2>2, <2>5, <3>2, <3>3 DEF HeardOnce
  <2> QED
    BY <2>4, <2>5
<1>3. ASSUME NEW d \in Dispatchers, Update(d) \/ MarkFailed(d) PROVE HeardOnce(n)'
  <2>1. d \in Actors /\ d \notin Reminders /\ item[d].id \in Ids /\ item[d].count \in Nat
    BY <1>3, DispatcherHas, Kinds DEF Update, MarkFailed, DispatchSteps
  <2>2. Rewrites(item[d].id) /\ notes'[item[d].id].status # "queued"
    <3>1. CASE Update(d)
      BY <2>1, <3>1, StatusWritten DEF Update, NoteStatuses
    <3>2. CASE MarkFailed(d)
      BY <2>1, <3>2, FailureWritten DEF MarkFailed
    <3> QED
      BY <1>3, <3>1, <3>2
  <2>3. todo'[d] \subseteq todo[d] \ {item[d]} /\ Others(d)
    BY <1>3, <2>1, ProceedAt DEF Update, MarkFailed
  <2>4. Quiet(n)
    <3>1. n \in Ids /\ notes'[n].handed = notes[n].handed
      BY <2>2 DEF Rewrites
    <3> QED
      BY <2>2, <3>1 DEF Rewrites, Quiet
  <2>5. DispatchHoldsNoMore(d, n)
    BY <2>2, <2>3 DEF DispatchHoldsNoMore
  <2> QED
    BY <1>j, <2>3, <2>4, <2>5, HeardOnceKept, OthersDispatchNoMore DEF Quiet
<1>4. ASSUME NEW d \in Dispatchers, Throw(d) \/ Crash(d) PROVE HeardOnce(n)'
  <2>1. UNCHANGED notes /\ Ids' = Ids /\ Others(d) /\ ThrowsAt(d) /\ Disturb(d)
    BY <1>4, ThrowAt DEF Throw, Crash, stores, Ids, Actors
  <2>2. pc[d] = "update" => item[d].id # n
    BY <2>1 DEF Disturb
  <2>3. Quiet(n)
    BY <2>1 DEF Quiet
  <2>4. todo'[d] = todo[d] \/ todo'[d] = {}
    BY <2>1 DEF ThrowsAt
  <2>5. DispatchHoldsNoMore(d, n)
    BY <2>2, <2>4 DEF DispatchHoldsNoMore
  <2> QED
    BY <1>j, <2>1, <2>3, <2>5, HeardOnceKept, OthersDispatchNoMore
<1>5. CASE DispatchersRest
  <2>1. CASE notes'[n].handed = 0
    BY <2>1, NotHandedOver
  <2>2. CASE Quiet(n)
    <3>1. \A d \in Dispatchers : DispatchHoldsNoMore(d, n)
      BY <1>5 DEF DispatchersRest, DispatchHoldsNoMore
    <3> QED
      BY <1>j, <2>2, <3>1, HeardOnceKept DEF Quiet
  <2> QED
    BY <1>5, <2>1, <2>2 DEF DispatchersRest
<1> QED
  BY <1>1, <1>2, <1>3, <1>4, <1>5, DispatchersRestWhile DEF Next, Dispatch

\* Nobody hears twice of a reminder, or of a notification, that no two ticks
\* had at once and that was not disturbed.
THEOREM NobodyHearsTwice == Spec => []NothingTwiceUnlessDisturbed
<1> DEFINE Inv == TypeInv /\ AloneInv /\ NotedInv /\ UsersInv /\ HeardInv
<1>1. Init => Inv
  BY ReminderTypeInit, AloneInit, NotedInit, HeardInit
<1>2. Inv /\ [Next]_vars => Inv'
  BY ReminderTypeStep, AloneStep, NotedStep, UsersStep, HeardStep
<1>3. Inv => NothingTwiceUnlessDisturbed
  <2> SUFFICES ASSUME Inv PROVE NothingTwiceUnlessDisturbed
    OBVIOUS
  <2>1. ASSUME NEW j \in Jobs \ (shared \cup disturbed)
        PROVE  Cardinality({n \in Ids : notes[n].of = j}) <= 1
    <3> DEFINE S == {n \in Ids : notes[n].of = j}
    <3>1. \A m, n \in S : m = n
      <4>1. NotedOnce(j)
        BY <2>1 DEF NotedInv
      <4>2. \A m, n \in Ids : notes[m].of = j /\ notes[n].of = j => m = n
        BY <4>1 DEF NotedOnce
      <4> QED
        BY <4>2
    <3> HIDE DEF S
    <3>2. S = {} \/ \E n \in S : S = {n}
      BY <3>1
    <3>3. Cardinality(S) \in {0, 1}
      BY <3>2, FS_EmptySet, FS_Singleton
    <3>4. Cardinality(S) <= 1
      BY <3>3
    <3> QED
      BY <3>4 DEF S
  <2>2. \A n \in Ids \ (shared \cup disturbed) : notes[n].handed <= 1
    BY DEF HeardInv, HeardOnce
  <2> QED
    BY <2>1, <2>2 DEF NothingTwiceUnlessDisturbed
<1> QED
  BY <1>1, <1>2, <1>3, PTL DEF Spec

=============================================================================
