SPECIFICATION Spec
CONSTANTS
  Uris = {x, y}
  None = None
  MaxLines = 3
  MaxQueries = 2
INVARIANTS TypeOK ClosedAtExit NeverNotConnected
PROPERTY InvocationEnds
