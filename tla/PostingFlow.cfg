SPECIFICATION Spec
CONSTANTS
  d1 = d1  s1 = s1  s2 = s2  q1 = q1  q2 = q2  u1 = u1  u2 = u2  k1 = k1
  Drafts = {d1}
  Sessions = {s1, s2}
  Amounts = {1}
  Currencies = {}
  NoCurrency = NoCurrency
  Openings <- MCOpenings
  MaxLines = 2
  MaxVersion = 3
  Requests = {q1, q2}
  Users = {u1, u2}
  NoUser = NoUser
  Makers = {u1}
  Keys = {k1}
  NoKey = NoKey
  MaxResults = 2
INVARIANTS AmountIsTheDrafts OneSuccessPerRequest PostedWasApproved KeyStandsForOne
SYMMETRY Symmetry
CHECK_DEADLOCK FALSE
