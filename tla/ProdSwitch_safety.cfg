SPECIFICATION Spec
CONSTANTS
  Users = {u1, u2}
  Scheduler = Scheduler
  Versions = {v1, v2}
  Asks = {q1, q2}
  Schedules = {s1}
  Off = Off
  NoUser = NoUser
  NoAsk = NoAsk
  NoSchedule = NoSchedule
  OffLocked = FALSE
  MaxLog = 4
  MaxCalls = 5
SYMMETRY Symmetry
INVARIANTS TypeOK FourEyes AppliedIsCommitted PolicyEnforced
PROPERTIES LedgerSpec ClosedIsFinal
CHECK_DEADLOCK FALSE
