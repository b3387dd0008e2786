SPECIFICATION FairSpec
CONSTANTS
  Runner = {r1, r2}
  AtOnce = 1
  MaxFaults = 1
  Identity = {a, b}
  Status = {s, t}
  FirstIdentity = a
  FirstStatus = s
  Threshold = 1
  MaxChecks = 3
  None = None
CONSTRAINT CheckBound
INVARIANTS NothingLeftBehind DeliveredInOrder NewsIsCurrent RecoveryAnswersAlert
PROPERTY EveryEventDelivered
