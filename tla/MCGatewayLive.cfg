SPECIFICATION FairSpec
CONSTANTS
  Reqs = {r1, r2}
  Sensitive = {v1}
  Values = {v1}
  EmptyValue = EmptyValue
  NoToken = NoToken
  Scopes = {session}
  Scope = session
  Classes = {"host", "key"}
  HardClasses = {"key"}
  TokenizedClass = "host"
  Hex = {h1}
  MaxEntries = 1
  MaxSequence = 3
  MaxTime = 1
  Ttl = 1
  DashboardLimit = 1
  MaxChunks = 1
  MaxFailures = 1
  MaxCrashes = 0
PROPERTIES LateArrivalsHeld HandlersSettle
CHECK_DEADLOCK FALSE
