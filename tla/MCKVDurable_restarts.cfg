SPECIFICATION FairDSpec
CONSTANTS
  Users = {u}
  Files = {f, g}
  a = a
  b = b
  ab = ab
  Values = {a, ab}
  FirstLine <- MCFirstLine
  Kinds = {"put", "cput", "dele", "rename"}
  None = None
  Workers = {w1, w2}
  MaxContent = 1
  MaxLog = 2
INVARIANTS TypeOK RestartExact ValuesOnDisk
PROPERTY CheckpointCompletes
