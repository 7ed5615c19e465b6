--------------------------- MODULE EventDelivery ---------------------------
(***************************************************************************)
(* What the outbox promises for the events appended to it, whoever         *)
(* publishes them.  At-least-once delivery: an event is settled, as        *)
(* published or as dead-lettered, only after it was handed to its topic or *)
(* to the dead-letter topic.  And an end to it: a settled event is not     *)
(* settled again nor otherwise, not taken up again, and not handed over    *)
(* once more.  The end is promised of all but the disturbed events, which  *)
(* were open when they were disturbed, or settled by the very write whose  *)
(* answer was lost; at-least-once delivery is promised of those as well.   *)
(***************************************************************************)
EXTENDS Naturals

CONSTANT Events

VARIABLES
  copies,   \* how often each event is in its topic
  reported, \* events that are in the dead-letter topic
  outcome,  \* what the outbox says of each event
  disturbed \* events of which the end is not promised

vars == <<copies, reported, outcome, disturbed>>

Outcomes == {"open", "published", "dead_lettered"}

Init ==
  /\ copies = [e \in Events |-> 0]
  /\ reported = {}
  /\ outcome = [e \in Events |-> "open"]
  /\ disturbed = {}

InHand(e) == outcome[e] = "open" \/ e \in disturbed

Send(e) ==
  /\ InHand(e)
  /\ copies' = [copies EXCEPT ![e] = @ + 1]
  /\ UNCHANGED <<reported, outcome, disturbed>>

Report(e) ==
  /\ InHand(e)
  /\ reported' = reported \cup {e}
  /\ UNCHANGED <<copies, outcome, disturbed>>

Settle(e, result) ==
  /\ InHand(e)
  /\ \/ result = "published" /\ copies[e] > 0
     \/ result = "dead_lettered" /\ e \in reported
  /\ outcome' = [outcome EXCEPT ![e] = result]
  /\ disturbed' \in {disturbed, disturbed \cup {e}}
  /\ UNCHANGED <<copies, reported>>

Reopen(e) ==
  /\ e \in disturbed
  /\ outcome' = [outcome EXCEPT ![e] = "open"]
  /\ UNCHANGED <<copies, reported, disturbed>>

Disturb(some) ==
  /\ \A e \in some : outcome[e] = "open"
  /\ disturbed' = disturbed \cup some
  /\ UNCHANGED <<copies, reported, outcome>>

Next ==
  \/ \E e \in Events :
       \/ Send(e)
       \/ Report(e)
       \/ \E result \in Outcomes : Settle(e, result)
       \/ Reopen(e)
  \/ \E some \in SUBSET Events : Disturb(some)

Spec == Init /\ [][Next]_vars
=============================================================================
