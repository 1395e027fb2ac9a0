SPECIFICATION Spec
CONSTANTS
  agent = agent
  admin = admin
  r1 = r1
  r2 = r2
  Agents <- MCAgents
  Admins <- MCAdmins
  Nobody = Nobody
  Requests <- MCRequests
  PageSize = 2
  MaxHandoffs = 1
  MaxOps = 4
  MaxSends = 2
  MaxExtras = 1
  MaxFaults = 0
SYMMETRY Slots
INVARIANTS EndsOnce SpokenByAssignee OneHolder HolderNeverBot LegacyComplete
