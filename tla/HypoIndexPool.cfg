SPECIFICATION Spec
CONSTANTS
  Specs = {s, t, u}
  BadMethod = {u}
  None = None
  Requests <- MCRequests
  MaxRequest = 3
  MaxSessions = 3
INVARIANTS TypeOK IsolatedAtHome
PROPERTIES CleansUp CommandsEnd
