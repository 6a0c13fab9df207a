SPECIFICATION MCSpec
CONSTANTS
  DecryptClients = {c1}
  M3u8Clients = {c1}
  AccountClients = {c1}
  Backlog = 0
  None = None
  AdamIds = {zero}
  PreshareId = zero
  KeyUris = {u1}
  MaxSampleLen = 1
  MaxReplies = 1
  Ids = {a1}
  Bad = Bad
  UrlLineLen = 2
  MaxRequests = 1
  BufferSize = 1
  HeaderLen = 1
  BodyLen = 1
  c1 = c1
  zero = zero
  u1 = u1
  a1 = a1
INVARIANTS ReadyBeforeClients ServedTogether
PROPERTIES StartupSettles SilentClientsReleased
CHECK_DEADLOCK FALSE
