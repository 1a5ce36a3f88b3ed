SPECIFICATION Spec
CONSTANTS
  u1 = u1  u2 = u2  u3 = u3  r1 = r1  s1 = s1  s2 = s2
  Users <- MCTwoUsers
  Requests = {r1}
  Sessions = {s1, s2}
  Keys = {}
  NoUser = NoUser
  NoKey = NoKey
  Makers = {u1}
  Preparers = {NoUser}
  MaxRequired = 1
  StepPlans <- MCTwoLevels
  EscalationLevels = {2}
  MaxEscalationDepth = 1
  DepthCeiling = 2
  MaxDelegations = 1
  MaxRemarks = 0
INVARIANTS EscalationsCounted SegregationOfDuties
SYMMETRY SymmetrySessions
CHECK_DEADLOCK FALSE
