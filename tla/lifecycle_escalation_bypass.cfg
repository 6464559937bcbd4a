CONSTANTS
  Apps = {a1}
  Sessions = {s1}
  NoRequest = NoRequest
  MaxQcFailures = 4
SPECIFICATION Spec
INVARIANT SecondRoundIsFlagged
CHECK_DEADLOCK FALSE
