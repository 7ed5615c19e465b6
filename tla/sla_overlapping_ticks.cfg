SPECIFICATION FairSpec

CONSTANTS
  Grievances = {g1}
  None = None
  Ticks = {t1, t2}
  Evaluators = {}
  Users = {u1}
  Asked = {"resolved"}
  Policy <- ShortPolicy
  MaxLevel = 2
  MaxRequests = 2
  MaxFaults = 1

INVARIANTS TypeOK WarnedOnceUnlessOverlapping
PROPERTIES OverdueIsBreached
