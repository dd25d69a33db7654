SPECIFICATION Spec
CONSTANTS
  r1 = r1
  r2 = r2
  s1 = s1
  s2 = s2
  t1 = t1
  t2 = t2
  Run <- TwoRuns
  NoRun = NoRun
  Story <- TwoStories
  Target <- OneTarget
  NoTarget = NoTarget
  Digest <- TwoChunks
  MaxDelivery = 2
  MaxChunk = 2
  MaxDate = 2
  MaxAttempts = 1
  MaxResolutions = 1
  RetryEnabled = TRUE
  MayForce <- MaybeForced
  HonestOperator = TRUE
  BudgetMayElapse = FALSE
  MaxFaults = 1
SYMMETRY RunSymmetry
INVARIANTS OneOpenGeneration NoRepeatedStory
