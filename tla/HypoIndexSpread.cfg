SPECIFICATION SteadySpec
CONSTANTS
  Specs = {s, t}
  BadMethod = {t}
  None = None
  Requests <- MCRequests
  MaxRequest = 1
  MaxSessions = 2
INVARIANT Isolated
