SPECIFICATION FairSpec
CONSTANTS
  Runs = {r1, r2}
  Subscriptions = {}
  Target = Target
  Instances = {i1}
  Requests = {q1}
  NoRun = NoRun
  NoOwner = NoOwner
  Lease = 1
  TickSpan = 1
  Backoff = 1
  HoldMax = 1
  Retention = 1
  AttemptCap = 2
  TargetAttempts = 2
  Concurrent = 1
  MaxTime = 7
  LastUse = 1
  MaxRequests = 2
  MaxRetries = 0
  MaxCrashes = 1
  MaxLate = 0
INVARIANTS ConcurrencyKept
PROPERTIES EveryRunEnds
CHECK_DEADLOCK FALSE
