CONSTANTS
  Questions = {q1, q2}
  Lists = {l1}
  Scores = {s1}
  Errors = {e1}
  Null = Null
  EmptyList = EmptyList
  Keep = Keep
  Workers = {w1, w2}
  NoSession = NoSession
SPECIFICATION Spec
INVARIANT TypeOK
INVARIANT AnsweredIsTriggered
INVARIANT DoneHasScores
PROPERTY GenerationEnds
PROPERTY ScoringEnds
