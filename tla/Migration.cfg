CONSTANTS
  Users = {a, b}
  NumFiles = 2
  Batch = 2
  MaxPuts = 1
SPECIFICATION Spec
INVARIANTS TypeOK NothingLost HandedOver
PROPERTY Ends
CHECK_DEADLOCK FALSE
