SPECIFICATION Spec
CONSTANTS
  Procs = {p1, p2}
  Names = {a, b, quoted}
  quoted = quoted
  Dsns = {d}
  Blank = Blank
  None = None
  Corrupt = Corrupt
  ReadBack <- MCReadBack
  MaxSources = 2
SYMMETRY Slots
INVARIANTS TypeOK ActiveIsListed
PROPERTY WedgedForever
