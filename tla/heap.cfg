SPECIFICATION Spec
CONSTANTS
  Threads = {t1, t2}
  NonThreads = {}
  Lines = 8
  WordBits = 4
  Sizes = {32, 96}
  MaxAllocs = 3
  MaxInits = 1
SYMMETRY Symmetry
INVARIANTS MutualExclusion BlocksApart BitmapExact WholeHeapServes ListExact
  NoFalseReport LoopsAgree
PROPERTY PoolImplemented
