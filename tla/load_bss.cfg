SPECIFICATION Spec
CONSTANTS
  SlaveWords = 8
  VectorEnd = 2
  WordMod = 97
  Elfs <- BssElfs
  Codes = {5}
  Confs <- SmallConf
  MaxIds = 5
  ProgImage <- Prog
  WriteWords = 4
  PageWords = 2
  SectorWords = 8
  MaxImage = 32
  Tries = 2
  Polls = 2
  MemWords = 24
INVARIANT BssIsZero
CHECK_DEADLOCK FALSE
