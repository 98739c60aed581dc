SPECIFICATION SteadySpec
CONSTANTS
  Specs = {s, t}
  BadMethod = {}
  None = None
  Requests <- MCRequests
  MaxRequest = 3
  MaxSessions = 1
INVARIANT Isolated
