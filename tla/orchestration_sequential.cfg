SPECIFICATION FairSpec
CONSTANTS
  Departments = {d1, d2, d3}
  MandatoryDepartments = {d1, d2, d3}
  LayoutMissing = {d2}
  DetailsMissing = {d3}
  CaseId = theCase
  Workers = {w1}
  MaxOverlaps = 0
  MaxCrashes = 0
INVARIANTS
  CertificateNeedsApproval
  LogsTellStatusAtRest
PROPERTIES
  RejectionReachesCase
  BlockedDepartmentHoldsUpApproval
