SPECIFICATION Spec
CONSTANTS
  Unaries = 1
  Streams = 1
  Replies = 2
INVARIANT NoAssertFails
CHECK_DEADLOCK FALSE
