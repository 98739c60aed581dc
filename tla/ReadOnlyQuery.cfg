SPECIFICATION Spec
CONSTANTS
  Conns = {c, d}
  None = None
  Texts <- MCTexts
INVARIANTS TypeOK NothingToCommit
PROPERTIES ReconnectsAfterLoss KeepsPromise QueryEnds
