SPECIFICATION FairSpec
CONSTANTS
  Torrents = {t1, t2}
  Ids = {1, 2}
  Versions = 1
  Junk = {j}
INVARIANTS
  RequestsMatch
  RowsTrue
PROPERTIES
  ListSettles
