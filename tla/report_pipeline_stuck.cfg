CONSTANTS
  Questions = {q1}
  Lists = {l1}
  Scores = {s1}
  Errors = {e1}
  Null = Null
  EmptyList = EmptyList
  Keep = Keep
  Workers = {w1, w2}
  NoSession = NoSession
SPECIFICATION Spec
INVARIANT RefusedOnlyWhileRunning
