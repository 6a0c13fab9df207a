SPECIFICATION Spec
CONSTANTS
  Clients = {c1}
  Ids = {a1}
  Backlog = 0
  UrlLineLen = 2
  MaxRequests = 2
  None = None
  Bad = Bad
  c1 = c1
  a1 = a1
INVARIANT EveryRequestAnswered
CHECK_DEADLOCK FALSE
