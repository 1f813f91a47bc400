SPECIFICATION FairSpec
CONSTANTS
  Workers = {w}
  Puts = {p1}
  Deles = {d1}
  Junk = Junk
  None = None
  MaxBatch = 2
  MaxConns = 2
INVARIANTS TypeOK InStep NothingLost
PROPERTY Drains
CHECK_DEADLOCK FALSE
