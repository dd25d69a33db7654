SPECIFICATION StoreSpec
CONSTANTS
  r1 = r1
  r2 = r2
  s1 = s1
  s2 = s2
  t1 = t1
  t2 = t2
  Run <- MCRun
  NoRun = NoRun
  Story <- MCStory
  Target <- MCTarget
  NoTarget = NoTarget
  Digest <- OneDelivery
  MaxDelivery = 1
  MaxChunk = 2
  MaxDate = 1
  MaxAttempts = 2
  MaxResolutions = 1
SYMMETRY RunSymmetry
INVARIANTS StoreTypeOK OutboxOrder AmbiguityBlocks CompletedIffAllSent HistoryIsAcknowledged
PROPERTIES Frozen NoBlindReplay
