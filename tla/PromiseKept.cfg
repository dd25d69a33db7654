SPECIFICATION FairSpec
CONSTANTS
  r1 = r1
  r2 = r2
  s1 = s1
  s2 = s2
  t1 = t1
  t2 = t2
  Run <- TwoRuns
  NoRun = NoRun
  Story <- TwoStories
  Target <- OneTarget
  NoTarget = NoTarget
  Digest <- TwoChunks
  MaxDelivery = 1
  MaxChunk = 2
  MaxDate = 1
  MaxAttempts = 2
  MaxResolutions = 1
  RetryEnabled = TRUE
  MayForce <- NeverForced
  HonestOperator = FALSE
  BudgetMayElapse = TRUE
  MaxFaults = 1
PROPERTIES KeepsPromise Settles AttemptsClose
