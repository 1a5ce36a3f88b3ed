SPECIFICATION Spec
CONSTANTS
  u1 = u1  u2 = u2  u3 = u3  r1 = r1  s1 = s1  s2 = s2
  Users <- MCUsers
  Requests = {r1}
  Sessions = {s1, s2}
  Keys = {}
  NoUser = NoUser
  NoKey = NoKey
  Makers = {u1}
  Preparers <- MCPreparers
  MaxRequired = 2
  StepPlans <- MCOneLevel
  EscalationLevels = {}
  MaxEscalationDepth = 0
  DepthCeiling = 0
  MaxDelegations = 0
  MaxRemarks = 1
INVARIANTS TypeOK SegregationOfDuties ApprovedByQuorum CountMatchesLedger ReleasedOnceApproved HistoryIsTheLife
PROPERTIES TerminalIsFinal KeepsPromise
SYMMETRY SymmetrySessions
CHECK_DEADLOCK FALSE
