SPECIFICATION Spec
CONSTANTS
  Reqs = {r1, r2}
  Sensitive = {v1}
  Values = {v1}
  EmptyValue = EmptyValue
  NoToken = NoToken
  Scopes = {session}
  Scope = session
  Classes = {"host", "key"}
  HardClasses = {"key"}
  TokenizedClass = "host"
  Hex = {h1}
  MaxEntries = 1
  MaxSequence = 3
  MaxTime = 1
  Ttl = 1
  DashboardLimit = 2
  MaxChunks = 0
  MaxFailures = 1
  MaxCrashes = 1
INVARIANT EgressReadable
CHECK_DEADLOCK FALSE
