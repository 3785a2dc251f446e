CONSTANTS
  Calls = {c1, c2, c3}
  Grace = 6
  PreStop = 1
  DrainTimeout = 6
  MaxFaults = 3
SPECIFICATION FairSpec
CHECK_DEADLOCK FALSE
INVARIANTS
  TypeOK
  ServedByOpenDatabase
PROPERTIES
  KilledOnlyIfHeldUp
  BackInService
