CONSTANTS
  a = a
  b = b
  p = p
  q = q
  Users = {a, b}
  Passwords = {p, q}
  Requests <- MCAccounts
  Registered <- MCAccountsRegistered
  MaxThreads = 2
  MaxFds = 2
  Torn = Torn
  None = None
SPECIFICATION Spec
INVARIANTS TypeOK RegisteredOnce OwnConnection CookieEarned
PROPERTY Served
CHECK_DEADLOCK FALSE
