CONSTANTS
  Apps = {a1}
  Sessions = {s1, s2}
  NoRequest = NoRequest
  MaxQcFailures = 4
SYMMETRY Symmetry
SPECIFICATION Spec
INVARIANT CancelledAfterTwoRounds
INVARIANT StagesInOrder
CHECK_DEADLOCK FALSE
