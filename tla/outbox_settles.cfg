SPECIFICATION FairSpec
CONSTANTS
  Events = {e1}
  Invalid = {}
  Ticks = {t1, t2}
  None = None
  MaxAttempts = 2
  MaxFaults = 2
PROPERTY EveryEventSettles
