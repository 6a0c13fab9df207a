SPECIFICATION Spec
CONSTANTS
  Absent = Absent
  Empty = Empty
  MaxPolls = 2
  MaxSubmits = 2
  MaxRequests = 2
  MaxLogins = 1
INVARIANT OneCodeBehindPassword
CHECK_DEADLOCK FALSE
