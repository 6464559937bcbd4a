CONSTANTS
  Apps = {a1}
  Sessions = {s1, s2}
  NoRequest = NoRequest
  MaxQcFailures = 4
SPECIFICATION Spec
PROPERTY EveryTransitionLogged
CHECK_DEADLOCK FALSE
