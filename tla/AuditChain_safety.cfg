SPECIFICATION FairSpec
CONSTANTS
  i1 = i1
  i2 = i2
  Instances <- MCBoth
  Purgers <- MCFirst
  Servers <- MCSecond
  NoLease = NoLease
  NoAnchor = NoAnchor
  NoHead = NoHead
  Nobody = Nobody
  Attempts = 2
  Keep = 0
  Span = 0
  Lease = 0
  Batch = 1
  MaxTime = 1
  MaxRecords = 1
  MaxChecks = 1
  MaxDamage = 1
  MaxCrashes = 1
INVARIANTS TypeOK ChainIntact AnchorReaches DamageReported UndamagedPasses
PROPERTIES OldRowsGo
CHECK_DEADLOCK FALSE
