SPECIFICATION Spec
CONSTANTS
  c1 = c1
  c2 = c2
  Off = Off
  NoSchedule = NoSchedule
  Contents <- MCContents
  Targets <- MCTargets
  Schedules = {s1, s2, s3}
  Instances = {i1}
  Requests = {r1}
  Actions <- MCSwitch
  MinLead = 1
  LastAt = 3
  MaxTime = 6
  Grace = 1
  RetryWindow = 1
  Lease = 1
  Deadline = 0
  ExecSpan = 1
  MaxActive = 3
  MaxAttempts = 1
  MaxCrashes = 0
  MaxSteals = 0
  MaxRequests = 4
  MaxEdits = 0
SYMMETRY SafetySymmetry
PROPERTIES ChainKept StartsInOrder FailStop
CHECK_DEADLOCK FALSE
