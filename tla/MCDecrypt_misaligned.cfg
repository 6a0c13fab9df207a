SPECIFICATION Spec
CONSTANTS
  Clients = {c1}
  Backlog = 0
  None = None
  AdamIds = {zero, song}
  PreshareId = zero
  KeyUris = {u1}
  MaxSampleLen = 1
  MaxReplies = 2
  c1 = c1
  zero = zero
  song = song
  u1 = u1
INVARIANT SameLengthReplies
CHECK_DEADLOCK FALSE
