SPECIFICATION Spec
CONSTANTS
  e1 = e1  e2 = e2  v1 = v1  p1 = p1  p2 = p2  d1 = d1  d2 = d2
  Endpoints = {e1}
  Events = {v1}
  People = {p1, p2}
  Dispatchers = {d1, d2}
  MaxDeliveryAttempts = 3
  MaxRows = 5
  MaxFaults = 1
INVARIANTS RecordIsSound CapIsReachedSoon EgressWasApproved
SYMMETRY Symmetry
CHECK_DEADLOCK FALSE
