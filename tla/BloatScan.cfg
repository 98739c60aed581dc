SPECIFICATION Spec
CONSTANTS
  Rels = {r, s}
  TableReadings <- Tables
  IndexReadings <- Indexes
  MinBloats <- Thresholds
  ListLimit = 2
INVARIANTS TypeOK NothingLost CriticalIsListed RankingSound SummaryAddsUp AdviceMatches
PROPERTIES ScanEnds
CHECK_DEADLOCK FALSE
