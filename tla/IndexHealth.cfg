SPECIFICATION Spec
CONSTANTS
  Names = {1, 2, 3}
  Definitions <- Created
  Catalogs <- Initial
  Sizes = {0, 2}
  MinSize = 1
  AdviceLimit = 2
  ChangeBound = 1
INVARIANTS TypeOK CoverKept AdviceSuffices ScoreTells
CHECK_DEADLOCK FALSE
