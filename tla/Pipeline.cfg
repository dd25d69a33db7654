SPECIFICATION Spec
CONSTANTS
  Source <- Sources
  Host <- Hosts
  HostOf <- HostOfSource
  HostLimit = 1
  MaxWorkers = 2
  MaxFaults = 1
  Topic <- Topics
  Alike <- AlikeTitles
  MissingDateOK = TRUE
  MinimumScore = 9
  FallbackScore = 5
  DailyMin = 2
  DailyMax = 3
  MaxPerTopic = 2
  MaxPerDomain = 1
  MaxCandidates = 3
  MaxComparisons = 2
  UnitLimit = 10
  HeaderUnits = 4
  ContinuationUnits = 2
  SeparatorUnits = 1
  NoteUnits = 2
  Item <- Catalogue
  MaxItems = 5
  SentUrls <- HistoryUrls
  SentKeys <- HistoryKeys
INVARIANTS EverySourceAnswers WorkersBounded CopiesAndOnlyCopies SelectionJustified AllPlaced
PROPERTIES CollectionEnds
