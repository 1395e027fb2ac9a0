SPECIFICATION Spec
CONSTANTS
  c1 = c1
  c2 = c2
  Off = Off
  NoSchedule = NoSchedule
  Contents <- MCContents
  Targets <- MCTargets
  Schedules = {s1, s2}
  Instances = {i1, i2}
  Requests = {}
  Actions <- MCRestorePublish
  MinLead = 1
  LastAt = 2
  MaxTime = 6
  Grace = 1
  RetryWindow = 1
  Lease = 2
  Deadline = 1
  ExecSpan = 1
  MaxActive = 2
  MaxAttempts = 2
  MaxCrashes = 1
  MaxSteals = 1
  MaxRequests = 2
  MaxEdits = 1
SYMMETRY SafetySymmetry
INVARIANTS TypeOK AppliedAtMostOnce OutcomeTruthful
PROPERTIES FailStop LiveOwnerKept LifeSpec
CHECK_DEADLOCK FALSE
