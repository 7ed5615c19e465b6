------------------------ MODULE MCCaseOrchestration ------------------------
(***************************************************************************)
(* CaseOrchestration for TLC.  The view drops what no later step of the    *)
(* model depends on: the two logs, which are only written, and the locals  *)
(* of a worker past their last use.  States that agree on the view have    *)
(* the same successors up to the view, so it is sound for invariants and   *)
(* action properties over the documents and the live locals, which is all  *)
(* the runs of this module check.                                          *)
(***************************************************************************)
EXTENDS CaseOrchestration, TLC

\* Requests are alike; no property here is temporal, so symmetry is sound.
WorkerSymmetry == Permutations(Workers)

Live(local, steps, dead) ==
  [w \in Workers |-> IF pc[w] \in steps THEN local[w] ELSE dead]

CoreView ==
  <<documents, pc, stale, budget,
    Live(target, {"taskCase", "taskSave"}, CaseId),
    Live(loaded, {"taskCase", "taskSave", "aggTasks"}, Absent),
    Live(next, {"taskSave", "taskEvent", "aggSave", "caseSave"}, Absent),
    Live(loadedSubmittedAt, {"aggTasks", "caseSave"}, FALSE)>>
=============================================================================
