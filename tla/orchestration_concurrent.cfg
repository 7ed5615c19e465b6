SPECIFICATION Spec
CONSTANTS
  Departments = {d1}
  MandatoryDepartments = {d1}
  LayoutMissing = {}
  DetailsMissing = {}
  CaseId = theCase
  Workers = {w1, w2}
  MaxOverlaps = 2
  MaxCrashes = 1
VIEW CoreView
SYMMETRY WorkerSymmetry
INVARIANTS
  TypeOK
  DecisionBeforeFinality
  UnsubmittedCaseStaysDraft
