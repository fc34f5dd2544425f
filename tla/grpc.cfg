SPECIFICATION FairSpec
CONSTANTS
  Unaries = 1
  Streams = 2
  Replies = 2
INVARIANTS OneOperation OneWaits ResultExpected DeletedQuiet StreamWhole
PROPERTIES CallsServed
CHECK_DEADLOCK FALSE
