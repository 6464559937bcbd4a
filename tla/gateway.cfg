CONSTANTS
  r1 = r1
  r2 = r2
  Requests = {r1, r2}
  Prompts = {"which supplier?"}
  ListOf <- TheLists
  Models = {"large model", "small model"}
  EnvProviders = {"openai", "gemini"}
  DefaultModel <- TheDefaults
  Answers <- TheAnswers
  OldAnswers <- TheOldAnswers
  Threshold = 20
  LocalMax = 1
  MaxSwitches = 1
  MaxAged = 2
  NoText = NoText
  NoScore = NoScore
  NoConfig = NoConfig
  NoEntry = NoEntry
  Pending = Pending
  Missed = Missed
  Refused = Refused
  c1 = c1
  c2 = c2
  p1 = p1
  p2 = p2
  Callers = {c1, c2}
  Processes = {p1, p2}
  ProcessOf <- TheProcesses
  Limit = 2
  Window = 2
  MaxTime = 4
  Rows = {"row"}
  Secrets = {"old secret", "new secret"}
  NoSecret = NoSecret
  MasterKeys = {k1, k2}
  NoKey = NoKey
  Upserts = {u1, u2}
  Runs = {x1, x2}
  Absent = Absent
  Done = Done
  MaxDeploys = 2
SYMMETRY Symmetry
SPECIFICATION AllSpec
INVARIANT AllTypeOK
INVARIANT WindowIsRespected
INVARIANT AnswerNamesItsModel
INVARIANT AggregateAgreesWithScores
INVARIANT KeyReadsBack
PROPERTY AlertsFollowHistory
CHECK_DEADLOCK FALSE
