SPECIFICATION JournalSpec
CONSTANTS
  d1 = d1  s1 = s1  s2 = s2
  Drafts = {d1}
  Sessions = {s1, s2}
  Amounts = {1, 2}
  Currencies = {}
  NoCurrency = NoCurrency
  Openings <- MCOpenings
  MaxLines = 3
  MaxVersion = 4
INVARIANTS TotalsMatchLines SubmittedBalances
PROPERTY EveryLineEditCounts
SYMMETRY SymmetrySessions
CHECK_DEADLOCK FALSE
