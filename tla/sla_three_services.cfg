SPECIFICATION Spec

CONSTANTS
  Grievances = {g1}
  None = None
  Ticks = {t1}
  Evaluators = {e1}
  Users = {u1, u2}
  Asked = {"resolved"}
  Policy <- UnorderedPolicy
  MaxLevel = 3
  MaxRequests = 2
  MaxFaults = 1

SYMMETRY UserSymmetry

INVARIANTS LevelsAreCarriedOut HistoryTellsStatus
PROPERTIES EndedStaysEnded
