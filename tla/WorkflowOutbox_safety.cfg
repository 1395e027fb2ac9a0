SPECIFICATION Spec
CONSTANTS
  Runs = {r1}
  Subscriptions = {s1}
  Target = Target
  Instances = {i1, i2}
  Requests = {q1}
  NoRun = NoRun
  NoOwner = NoOwner
  Lease = 1
  TickSpan = 1
  Backoff = 1
  HoldMax = 1
  Retention = 1
  AttemptCap = 2
  TargetAttempts = 2
  Concurrent = 1
  MaxTime = 3
  LastUse = 2
  MaxRequests = 2
  MaxRetries = 1
  MaxCrashes = 1
  MaxLate = 1
SYMMETRY SafetySymmetry
INVARIANTS TypeOK DeliveredOnce AttemptsBounded BodyKeptWhileOpen
PROPERTIES EndIsFinal DeliverySpec
CHECK_DEADLOCK FALSE
