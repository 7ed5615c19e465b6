SPECIFICATION Spec
CONSTANTS
  Departments = {d1, d2}
  MandatoryDepartments = {d1, d2}
  LayoutMissing = {}
  DetailsMissing = {}
  CaseId = theCase
  Workers = {w1, w2}
  MaxOverlaps = 1
  MaxCrashes = 0
VIEW CoreView
SYMMETRY WorkerSymmetry
PROPERTY RejectionStands
