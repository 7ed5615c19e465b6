---------------------------- MODULE MCSlaTimers ----------------------------
(***************************************************************************)
(* SlaTimers for TLC, with two escalation policies: a short one, and one   *)
(* whose levels leave a gap and are not in order, which EscalationPolicy   *)
(* allows.                                                                 *)
(***************************************************************************)
EXTENDS SlaTimers, TLC

ShortPolicy == <<1, 2>>

UnorderedPolicy == <<1, 3, 2>>

\* Users are alike, which is sound to use where no property is temporal.
UserSymmetry == Permutations(Users)
=============================================================================
