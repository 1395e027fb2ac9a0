SPECIFICATION FairSpec
CONSTANTS
  c1 = c1
  c2 = c2
  Off = Off
  NoSchedule = NoSchedule
  Contents <- MCContents
  Targets <- MCTargets
  Schedules = {s1, s2}
  Instances = {i1}
  Requests = {r1}
  Actions <- MCRestore
  MinLead = 1
  LastAt = 2
  MaxTime = 5
  Grace = 1
  RetryWindow = 1
  Lease = 1
  Deadline = 0
  ExecSpan = 1
  MaxActive = 2
  MaxAttempts = 2
  MaxCrashes = 1
  MaxSteals = 0
  MaxRequests = 3
  MaxEdits = 0
PROPERTIES EveryScheduleSettles
CHECK_DEADLOCK FALSE
