SPECIFICATION FairSpec
CONSTANTS
  u1 = u1  u2 = u2  s1 = s1  s2 = s2
  Definitions <- MCDefinitions
  Users = {u1, u2}
  Starters = {u1}
  Overseers = {u2}
  Sessions = {s1, s2}
  NoUser = NoUser
  MaxLoopIterations = 5
  MaxDisturbances <- MCDisturbances
  MaxIncidents = 2
INVARIANTS TypeOK OneOpenTaskPerNode JoinCountsArrivals StatusAgreesWithTokens AlertsPerTimer
PROPERTIES WorkIsKept EndedIsFinal WorkEnds
CHECK_DEADLOCK FALSE
