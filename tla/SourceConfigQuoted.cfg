SPECIFICATION SerialSpec
CONSTANTS
  Procs = {p1}
  Names = {a, quoted}
  quoted = quoted
  Dsns = {d}
  Blank = Blank
  None = None
  Corrupt = Corrupt
  ReadBack <- MCReadBack
  MaxSources = 2
INVARIANT SavedIsToml
