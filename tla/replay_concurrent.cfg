SPECIFICATION Spec
CONSTANTS
  Departments = {d1, d2}
  MandatoryDepartments = {d1}
  LayoutMissing = {}
  DetailsMissing = {}
  EventCount = 3
  Replays = {r1, r2}
  MaxReplays = 2
  MaxFailures = 1
CHECK_DEADLOCK FALSE
INVARIANTS
  TypeOK
  CaseStaysOnDerivationPath
PROPERTY ReplaySettlesCase
