SPECIFICATION FairSpec
CONSTANTS
  r1 = r1  w1 = w1  w2 = w2  d1 = d1
  Requests = {r1}
  InApp = {r1}
  Workers = {w1, w2}
  Destinations = {d1}
  MaxAttempts = 2
  MaxRetries = 1
  MaxChanges = 1
  MaxFaults = 1
  Policies <- MCPolicies
  MaxRepeats = 1
INVARIANTS DeliveredIsEvidenced SendsAreBounded LevelsFireInOrder
PROPERTIES NoSendOnceSettled RequestEnds MandatoryIsTried LadderEnds
CHECK_DEADLOCK FALSE
