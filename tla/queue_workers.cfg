SPECIFICATION FairSpec
CONSTANTS
  Jobs = {j1}
  Workers = {w1, w2}
  None = None
  MaxAttempts = 1
  PoisonAttempts = 1
  MaxRequests = 1
  MaxFaults = 2
INVARIANTS TypeOK NotLostUnlessSkipped DeliveredOnceUnlessDisturbed SucceededMeansDelivered
PROPERTIES QueuesDrain
CHECK_DEADLOCK FALSE
