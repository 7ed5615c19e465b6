SPECIFICATION Spec
CONSTANTS
  Events = {e1, e2}
  Invalid = {e2}
  Ticks = {t1, t2}
  None = None
  MaxAttempts = 3
  MaxFaults = 2
INVARIANTS
  TypeOK
  SettledRowsWereHandedOver
  DuplicatesHaveCauses
PROPERTIES
  DeliverySpec
  SettledIsFinal
