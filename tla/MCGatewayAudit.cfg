SPECIFICATION Spec
CONSTANTS
  Reqs = {r1, r2}
  Sensitive = {v1, v2}
  Values = {v1, v2}
  EmptyValue = EmptyValue
  NoToken = NoToken
  Scopes = {session}
  Scope = session
  Classes = {"host", "key"}
  HardClasses = {"key"}
  TokenizedClass = "host"
  Hex = {h1, h2}
  MaxEntries = 1
  MaxSequence = 3
  MaxTime = 1
  Ttl = 1
  DashboardLimit = 1
  MaxChunks = 1
  MaxFailures = 1
  MaxCrashes = 1
SYMMETRY Symmetry
INVARIANTS NoCrossSessionRestore EgressRecorded DoneIsAccounted RowsTellLifecycle
           DashboardAgrees
PROPERTY ImplementsGate
CHECK_DEADLOCK FALSE
