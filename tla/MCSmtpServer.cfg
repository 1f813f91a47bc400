CONSTANTS
  Sessions = {s, t}
  Local = {a, b}
  Remote = {r}
  MaxMails = 1
  None = None
  FirstSession = s
  Heard <- MCHeard
SPECIFICATION Spec
INVARIANTS TypeOK UpToFirstLocal CommandsInOrder ForNobodyAfterReset
PROPERTY LeavingEnds
CHECK_DEADLOCK FALSE
