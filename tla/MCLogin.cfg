SPECIFICATION FairSpec
CONSTANTS
  Absent = Absent
  Empty = Empty
  MaxPolls = 2
  MaxSubmits = 3
  MaxRequests = 3
  MaxLogins = 2
INVARIANTS CodeUsedOnce AnswersCarryCode StaleCodeFirst PasswordFileShortLived
PROPERTIES  OnlyTimeoutEndsWait WaitEnds PasswordFileRemoved
CHECK_DEADLOCK FALSE
