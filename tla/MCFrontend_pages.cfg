CONSTANTS
  a = a
  b = b
  p = p
  q = q
  Users = {a, b}
  Passwords = {p, q}
  Requests <- MCPages
  Registered <- MCPagesRegistered
  MaxThreads = 2
  MaxFds = 2
  Torn = Torn
  None = None
SPECIFICATION Spec
INVARIANTS ActsForItself
CHECK_DEADLOCK FALSE
