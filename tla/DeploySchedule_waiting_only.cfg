SPECIFICATION Spec
CONSTANTS
  c1 = c1
  c2 = c2
  Off = Off
  NoSchedule = NoSchedule
  Contents <- MCContents
  Targets <- MCTargets
  Schedules = {s1}
  Instances = {i1}
  Requests = {r1}
  Actions <- MCRestorePublish
  MinLead = 1
  LastAt = 2
  MaxTime = 5
  Grace = 1
  RetryWindow = 1
  Lease = 1
  Deadline = 0
  ExecSpan = 1
  MaxActive = 2
  MaxAttempts = 2
  MaxCrashes = 1
  MaxSteals = 1
  MaxRequests = 2
  MaxEdits = 0
SYMMETRY SafetySymmetry
PROPERTIES WritesWaitingOnly
CHECK_DEADLOCK FALSE
