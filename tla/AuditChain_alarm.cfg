SPECIFICATION Spec
CONSTANTS
  i1 = i1
  i2 = i2
  Instances <- MCBoth
  Purgers <- MCFirst
  Servers <- MCSecond
  NoLease = NoLease
  NoAnchor = NoAnchor
  NoHead = NoHead
  Nobody = Nobody
  Attempts = 2
  Keep = 0
  Span = 0
  Lease = 0
  Batch = 1
  MaxTime = 2
  MaxRecords = 2
  MaxChecks = 1
  MaxDamage = 0
  MaxCrashes = 0
INVARIANTS NoFalseAlarm
CHECK_DEADLOCK FALSE
