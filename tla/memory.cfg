SPECIFICATION Spec
CONSTANTS
  Threads = {t1}
  Interrupts = {isr}
  Blocks = {1, 2, 3}
  MaxAllocs = 3
INVARIANTS
  ListExact
PROPERTIES
  CheckTells
