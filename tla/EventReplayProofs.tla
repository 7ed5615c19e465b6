------------------------- MODULE EventReplayProofs -------------------------
(***************************************************************************)
(* The derivation of a case's status settles after two recalculations, and *)
(* therefore replays, however many and however they overlap, never take a  *)
(* case beyond what two recalculations make of it.                         *)
(***************************************************************************)
EXTENDS EventReplay, TLAPS

-----------------------------------------------------------------------------
(* The two rules that look at the present status and change it to one that *)
(* another rule may change again are the completion of inspections and the *)
(* return to scrutiny; neither applies to the status it gave.              *)

\* A derived status is one of these, or the status the case had, which no
\* rule that looks at it wanted to change.
LEMMA DerivedStatusSettles ==
  ASSUME NEW status, NEW ts
  PROVE  LET once == DeriveAggregateCaseStatus(status, ts)
         IN  \/ DeriveAggregateCaseStatus(once, ts) = once
             \/ once = "inspection_completed"
BY DEF DeriveAggregateCaseStatus

\* Completed inspections are followed by what the later rules say, and the
\* case, no longer waiting for an inspection, stays there.
LEMMA CompletedInspectionSettles ==
  ASSUME NEW ts
  PROVE  LET twice == DeriveAggregateCaseStatus("inspection_completed", ts)
         IN  DeriveAggregateCaseStatus(twice, ts) = twice
BY DEF DeriveAggregateCaseStatus

\* deriveAggregateCaseStatus, for any departments, any statuses of their
\* tasks and any status of the case, settles after two recalculations.
THEOREM DerivationSettles ==
  ASSUME NEW status, NEW ts
  PROVE  LET twice == DeriveAggregateCaseStatus(
                        DeriveAggregateCaseStatus(status, ts), ts)
         IN  DeriveAggregateCaseStatus(twice, ts) = twice
<1> DEFINE once == DeriveAggregateCaseStatus(status, ts)
           twice == DeriveAggregateCaseStatus(once, ts)
<1>1. once = "inspection_completed" => DeriveAggregateCaseStatus(twice, ts) = twice
  BY CompletedInspectionSettles
<1>2. twice = once => DeriveAggregateCaseStatus(twice, ts) = twice
  OBVIOUS
<1>3. twice = once \/ once = "inspection_completed"
  BY DerivedStatusSettles
<1> QED
  BY <1>1, <1>2, <1>3

-----------------------------------------------------------------------------
(* Whatever a replay holds, it loaded from the path; and the path is       *)
(* closed under the derivation.                                            *)

PathInv ==
  /\ pc \in [Replays -> ReplaySteps]
  /\ loaded \in [Replays -> DerivationPath]
  /\ caseStatus \in DerivationPath

LEMMA DerivedOnPath ==
  ASSUME NEW status \in DerivationPath
  PROVE  DeriveAggregateCaseStatus(status, tasks) \in DerivationPath
BY DerivationSettles DEF DerivationPath

LEMMA PathStep == PathInv /\ [Next]_vars => PathInv'
<1> SUFFICES ASSUME PathInv, [Next]_vars PROVE PathInv'
  OBVIOUS
<1> USE DEF PathInv
<1>1. atRest' = atRest => DerivationPath' = DerivationPath
  BY DEF atRest, DerivationPath
<1>2. firstStatus \in DerivationPath
  BY DEF DerivationPath
<1>3. ASSUME NEW r \in Replays, BeginReplay(r) PROVE PathInv'
  BY <1>1, <1>3 DEF BeginReplay, Goto, ReplaySteps
<1>4. ASSUME NEW r \in Replays, EndReplay(r) \/ SaveCaseFails(r) \/ Fail(r)
      PROVE  PathInv'
  BY <1>1, <1>2, <1>4 DEF EndReplay, SaveCaseFails, Fail, Finish, ReplaySteps
<1>5. ASSUME NEW r \in Replays, LookUp(r) PROVE PathInv'
  BY <1>1, <1>5 DEF LookUp, Goto, ReplaySteps
<1>6. ASSUME NEW r \in Replays, LoadCase(r) PROVE PathInv'
  BY <1>1, <1>6 DEF LoadCase, Goto, ReplaySteps
<1>7. ASSUME NEW r \in Replays, SaveCase(r) PROVE PathInv'
  <2>1. Derived(r) \in DerivationPath
    BY DerivedOnPath DEF Derived
  <2> QED
    BY <1>1, <1>7, <2>1 DEF SaveCase, Goto, ReplaySteps
<1>8. ASSUME NEW r \in Replays, MarkProcessed(r) PROVE PathInv'
  BY <1>1, <1>8 DEF MarkProcessed, Goto, ReplaySteps
<1>9. CASE UNCHANGED vars
  BY <1>1, <1>9 DEF vars
<1> QED
  BY <1>3, <1>4, <1>5, <1>6, <1>7, <1>8, <1>9 DEF Next, Continue

\* Replays of any number of events, overlapping and cut short in any way,
\* keep the case within two recalculations of where it was.
THEOREM ReplayStaysOnDerivationPath == Spec => []CaseStaysOnDerivationPath
<1>1. Init => PathInv
  BY DEF Init, PathInv, DerivationPath, ReplaySteps
<1>2. PathInv => CaseStaysOnDerivationPath
  BY DEF PathInv, CaseStaysOnDerivationPath
<1> QED
  BY <1>1, <1>2, PathStep, PTL DEF Spec

-----------------------------------------------------------------------------
(* Types.  A replay that works on an event has one before the end.         *)

ReplayTypeInv ==
  /\ TypeOK
  /\ \A r \in Replays : pc[r] \in {"load", "save", "mark"} => position[r] \in Events

LEMMA DerivedIsCaseStatus ==
  ASSUME NEW status \in CaseStatuses, NEW ts
  PROVE  DeriveAggregateCaseStatus(status, ts) \in CaseStatuses
BY DEF DeriveAggregateCaseStatus, CaseStatuses

LEMMA ReplayTypeStep == ReplayTypeInv /\ [Next]_vars => ReplayTypeInv'
<1> SUFFICES ASSUME ReplayTypeInv, [Next]_vars PROVE ReplayTypeInv'
  OBVIOUS
<1>0. /\ 1 \in 1..(EventCount + 1)
      /\ \A p \in Events : p + 1 \in 1..(EventCount + 1)
      /\ \A p \in 1..(EventCount + 1) : p <= EventCount => p \in Events
  BY ReplayAssumption DEF Events
<1> USE ReplayAssumption DEF ReplayTypeInv, TypeOK, ReplaySteps, atRest
<1>1. ASSUME NEW r \in Replays, BeginReplay(r) PROVE ReplayTypeInv'
  BY <1>1 DEF BeginReplay, Goto
<1>2. ASSUME NEW r \in Replays, EndReplay(r) \/ SaveCaseFails(r) \/ Fail(r)
      PROVE  ReplayTypeInv'
  <2>1. Finish(r) /\ failures' \in 0..MaxFailures
    BY <1>2 DEF EndReplay, SaveCaseFails, Fail
  <2>2. UNCHANGED <<atRest, caseStatus, records, begun>>
    BY <1>2 DEF EndReplay, SaveCaseFails, Fail
  <2> QED
    BY <1>0, <2>1, <2>2 DEF Finish
<1>3. ASSUME NEW r \in Replays, LookUp(r) PROVE ReplayTypeInv'
  BY <1>0, <1>3 DEF LookUp, Goto
<1>4. ASSUME NEW r \in Replays, LoadCase(r) PROVE ReplayTypeInv'
  BY <1>4 DEF LoadCase, Goto
<1>5. ASSUME NEW r \in Replays, SaveCase(r) PROVE ReplayTypeInv'
  <2>1. Derived(r) \in CaseStatuses
    BY DerivedIsCaseStatus DEF Derived
  <2> QED
    BY <1>5, <2>1 DEF SaveCase, Goto
<1>6. ASSUME NEW r \in Replays, MarkProcessed(r) PROVE ReplayTypeInv'
  BY <1>0, <1>6 DEF MarkProcessed, Goto, UpdateOne
<1>7. CASE UNCHANGED vars
  BY <1>7 DEF vars
<1> QED
  BY <1>1, <1>2, <1>3, <1>4, <1>5, <1>6, <1>7 DEF Next, Continue

LEMMA ReplayTypeInit == Init => ReplayTypeInv
BY ReplayAssumption DEF Init, ReplayTypeInv, TypeOK, ReplaySteps, Events

\* No replay works on an event past the last one, or saves what is no status
\* of a case.
THEOREM ReplayTypeCorrectness == Spec => []TypeOK
<1>1. ReplayTypeInv => TypeOK
  BY DEF ReplayTypeInv
<1> QED
  BY <1>1, ReplayTypeInit, ReplayTypeStep, PTL DEF Spec

-----------------------------------------------------------------------------
(* A replay that runs alone.  It saves what it derived from the case as it *)
(* still is, so each event it has come past is one more application of the *)
(* derivation; after one the case is a derived status, after two it is     *)
(* settled, and a settled case is left as it is.                           *)

Recalculated(r, n) == position[r] + (IF pc[r] = "mark" THEN 1 ELSE 0) > n

AloneInv ==
  /\ ReplayTypeInv
  /\ records = {}
  /\ \A r \in Replays : pc[r] = "idle" => position[r] = 1
  /\ \A r \in Replays : alone[r] =>
       /\ \A q \in Replays \ {r} : pc[q] = "idle"
       /\ pc[r] # "idle"
       /\ pc[r] = "save" => loaded[r] = caseStatus
       /\ Recalculated(r, 1) =>
            \E s \in CaseStatuses : caseStatus = DeriveAggregateCaseStatus(s, tasks)
       /\ Recalculated(r, 2) => Settled(caseStatus)

LEMMA SaveRecalculates ==
  ASSUME AloneInv, NEW r \in Replays, alone[r], SaveCase(r)
  PROVE  /\ caseStatus' = DeriveAggregateCaseStatus(caseStatus, tasks)
         /\ Recalculated(r, 1) => Settled(caseStatus)'
         /\ ~Recalculated(r, 1) => ~Recalculated(r, 2)'
<1>1. caseStatus' = DeriveAggregateCaseStatus(caseStatus, tasks)
  BY DEF AloneInv, SaveCase, Goto, Derived
<1>2. tasks' = tasks
  BY DEF SaveCase, atRest
<1>3. ASSUME Recalculated(r, 1) PROVE Settled(caseStatus)'
  <2>1. PICK s \in CaseStatuses : caseStatus = DeriveAggregateCaseStatus(s, tasks)
    BY <1>3 DEF AloneInv
  <2> QED
    BY <1>1, <1>2, <2>1, DerivationSettles DEF Settled
<1>4. ~Recalculated(r, 1) => ~Recalculated(r, 2)'
  BY ReplayAssumption
     DEF SaveCase, Goto, Recalculated, AloneInv, ReplayTypeInv, TypeOK
<1> QED
  BY <1>1, <1>3, <1>4

LEMMA AloneStep == AloneInv /\ [Next]_vars => AloneInv'
<1> SUFFICES ASSUME AloneInv, [Next]_vars PROVE AloneInv'
  OBVIOUS
<1>0. ReplayTypeInv /\ ReplayTypeInv'
  BY ReplayTypeStep DEF AloneInv
<1>1. tasks' = tasks /\ (Settled(caseStatus)' <=> Settled(caseStatus'))
  BY DEF Next, BeginReplay, Continue, EndReplay, LookUp, LoadCase, SaveCase,
         SaveCaseFails, MarkProcessed, Fail, atRest, vars, Settled
<1> USE <1>0, <1>1, ReplayAssumption
<1> USE DEF AloneInv, ReplayTypeInv, TypeOK, Recalculated
<1>2. ASSUME NEW r \in Replays, BeginReplay(r) PROVE AloneInv'
  BY <1>2 DEF BeginReplay, Goto, Settled
<1>3. ASSUME NEW r \in Replays, EndReplay(r) \/ SaveCaseFails(r) \/ Fail(r)
      PROVE  AloneInv'
  BY <1>3 DEF EndReplay, SaveCaseFails, Fail, Finish, Settled
<1>4. ASSUME NEW r \in Replays, LookUp(r) PROVE AloneInv'
  BY <1>4 DEF LookUp, Goto, Settled
<1>5. ASSUME NEW r \in Replays, LoadCase(r) PROVE AloneInv'
  BY <1>5 DEF LoadCase, Goto, Settled
<1>6. ASSUME NEW r \in Replays, MarkProcessed(r) PROVE AloneInv'
  BY <1>6 DEF MarkProcessed, Goto, UpdateOne, Upsert, Settled
<1>7. ASSUME NEW r \in Replays, SaveCase(r) PROVE AloneInv'
  <2> SUFFICES ASSUME NEW q \in Replays, alone'[q]
               PROVE  /\ \A o \in Replays \ {q} : pc'[o] = "idle"
                      /\ pc'[q] # "idle"
                      /\ pc'[q] = "save" => loaded'[q] = caseStatus'
                      /\ \E s \in CaseStatuses :
                           caseStatus' = DeriveAggregateCaseStatus(s, tasks)
                      /\ Recalculated(q, 2)' => Settled(caseStatus)'
    BY <1>7 DEF SaveCase, Goto, Settled
  <2>1. q = r /\ alone[r]
    BY <1>7 DEF SaveCase, Goto
  <2> QED
    BY <1>7, <2>1, SaveRecalculates DEF SaveCase, Goto
<1>8. CASE UNCHANGED vars
  BY <1>8 DEF vars, Settled
<1> QED
  BY <1>2, <1>3, <1>4, <1>5, <1>6, <1>7, <1>8 DEF Next, Continue

LEMMA AloneInit == Init => AloneInv
BY ReplayTypeInit DEF Init, AloneInv

\* However many events a case has and however other replays went before, one
\* replay of two events or more, undisturbed, settles it.
THEOREM UndisturbedReplaySettles == Spec => ReplaySettlesCase
<1>1. AloneInv /\ [Next]_vars =>
        [\A r \in Replays :
           (EndReplay(r) /\ alone[r] /\ EventCount >= 2) => Settled(caseStatus)]_vars
  BY ReplayAssumption DEF AloneInv, EndReplay, Recalculated, ReplayTypeInv, TypeOK
<1> QED
  BY <1>1, AloneInit, AloneStep, PTL DEF Spec, ReplaySettlesCase
=============================================================================
