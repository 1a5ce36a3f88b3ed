SPECIFICATION Spec
CONSTANTS
  s1 = s1  s2 = s2  l1 = l1  l2 = l2  c1 = c1  c2 = c2
  Sessions = {s1}
  Logins = {l1}
  Clients = {c1}
  MaxFailures = 2
  Fallback = FALSE
  MaxRecorded = 2
  MaxTokens = 2
  MaxChanges = 1
  MaxFaults = 0
INVARIANT PasswordChangeSticks
CHECK_DEADLOCK FALSE
