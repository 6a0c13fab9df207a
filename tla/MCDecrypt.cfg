SPECIFICATION FairSpec
CONSTANTS
  Clients = {c1, c2}
  Backlog = 1
  None = None
  AdamIds = {zero, song}
  PreshareId = zero
  KeyUris = {u1, u2}
  MaxSampleLen = 2
  MaxReplies = 2
  c1 = c1
  c2 = c2
  zero = zero
  song = song
  u1 = u1
  u2 = u2
INVARIANTS ReplyMatchesTrack BuffersAccounted RepliesOneByOne
PROPERTIES SerialService QueuedClientServed
CHECK_DEADLOCK FALSE
