SPECIFICATION DSpec
CONSTANTS
  Users = {u}
  Files = {f}
  a = a
  b = b
  ab = ab
  Values = {a}
  FirstLine <- MCFirstLine
  Kinds = {"put"}
  None = None
  Workers = {w}
  MaxContent = 2
  MaxLog = 2
INVARIANT ValuesAlwaysOnDisk
