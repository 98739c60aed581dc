SPECIFICATION SerialSpec
CONSTANTS
  Procs = {p1, p2}
  Names = {a, b, Blank}
  quoted = quoted
  Dsns = {d}
  Blank = Blank
  None = None
  Corrupt = Corrupt
  ReadBack <- MCReadBack
  MaxSources = 3
INVARIANT UniqueNames
PROPERTY ImplementsRegistry
SYMMETRY Slots
