SPECIFICATION Spec
CONSTANTS
  s1 = s1  s2 = s2  l1 = l1  l2 = l2  c1 = c1  c2 = c2
  Sessions = {s1}
  Logins = {l1, l2}
  Clients = {c1, c2}
  MaxFailures = 2
  Fallback = FALSE
  MaxRecorded = 3
  MaxTokens = 4
  MaxChanges = 1
  MaxFaults = 1
INVARIANTS TokensAreOneChain ReuseEndsTheFamily ChangeEndsSessions LockoutHolds
PROPERTY EndedMintsNothing
SYMMETRY Symmetry
CHECK_DEADLOCK FALSE
