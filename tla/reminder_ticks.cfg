SPECIFICATION FairSpec

CONSTANTS
  Jobs = {j1}
  None = None
  Reminders = {k1, k2}
  Dispatchers = {d1}
  Users = {u1}
  MaxAttempts = 2
  MaxRetries = 1
  MaxTroubles = 2

INVARIANTS TypeOK TriesAreBounded 
PROPERTIES WorkSettles
CHECK_DEADLOCK FALSE
