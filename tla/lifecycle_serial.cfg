CONSTANTS
  Apps = {a1, a2}
  Sessions = {s1}
  NoRequest = NoRequest
  MaxQcFailures = 4
SPECIFICATION Spec
INVARIANT TypeOK
PROPERTY EveryTransitionLogged
PROPERTY KeepsJourney
CHECK_DEADLOCK FALSE
