CONSTANTS
  Users = {a, b}
  NumFiles = 2
  Lengths = {1, 3, 5}
  Capacity = 4
  MaxRequests = 5
SPECIFICATION Spec
INVARIANTS TypeOK Kept Accounted LeastRecentFirst CrashHasCause
PROPERTIES OverOnlyByLoading Answered
