SPECIFICATION FairSpec
CONSTANTS
  Clients = {c1, c2}
  Ids = {a1, a2}
  Backlog = 1
  UrlLineLen = 2
  MaxRequests = 2
  None = None
  Bad = Bad
  c1 = c1
  c2 = c2
  a1 = a1
  a2 = a2
INVARIANTS LinesAnswerRequests OneLineEach StringsFreed
PROPERTIES SerialService QueuedClientServed
CHECK_DEADLOCK FALSE
