SPECIFICATION FairSpec
CONSTANTS
  Threads = {t1}
  NonThreads = {n1}
  Lines = 8
  WordBits = 4
  Sizes = {32}
  MaxAllocs = 1
  MaxInits = 2
INVARIANTS ListExact FreeFindsBlock
PROPERTY CallsReturn
