SPECIFICATION Spec
CONSTANTS
  Specs = {s, t}
  BadMethod = {t}
  None = None
  Requests <- MCRequests
  MaxRequest = 1
  MaxSessions = 1
INVARIANT HiddenStaysHidden
