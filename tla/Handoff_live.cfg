SPECIFICATION FairSpec
CONSTANTS
  agent = agent
  admin = admin
  r1 = r1
  r2 = r2
  Agents <- MCAgents
  Admins <- MCAdmins
  Nobody = Nobody
  Requests <- MCRequests
  PageSize = 2
  MaxHandoffs = 2
  MaxOps = 3
  MaxSends = 1
  MaxExtras = 1
  MaxFaults = 1
INVARIANTS TypeOK NothingSkipped
PROPERTIES HandoffsEnd RawGone PageReturns
