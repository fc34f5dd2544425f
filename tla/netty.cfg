SPECIFICATION FairSpec
CONSTANTS
  MaxParts = 2
  MaxBytes = 5
INVARIANTS BuffersHeld AnswersFramed
PROPERTIES ClosesOnlyFor EchoImplemented
CHECK_DEADLOCK FALSE
