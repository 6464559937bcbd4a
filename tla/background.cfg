CONSTANTS
  Firms = {f1}
  Workers = {w1, w2}
  Keys = 2
  NoJob = NoJob
  None = None
  Instances = {i1, i2}
  LastFile = 2
  Length <- TwoFiles
  MaxFailures = 2
  Letters = {"x"}
  Signs = {"("}
  Scripts <- TheScripts
SPECIFICATION BackgroundSpec
INVARIANT BackgroundTypeOK
INVARIANT ResearchAgrees
INVARIANT SplitsAtBoundaries
PROPERTY ResearchSettles
PROPERTY ImplementsSchema
CHECK_DEADLOCK FALSE
