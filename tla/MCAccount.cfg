SPECIFICATION FairSpec
CONSTANTS
  Clients = {c1, c2}
  Backlog = 1
  BufferSize = 3
  HeaderLen = 2
  BodyLen = 2
  None = None
  c1 = c1
  c2 = c2
INVARIANTS DataOnlyForRoot WholeResponse HeapAccounted
PROPERTY SerialService
CHECK_DEADLOCK FALSE
