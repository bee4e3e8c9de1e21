SPECIFICATION Spec
CONSTANTS
  a = a
  b = b
  c = c
  k = k
  session = session
  Scope = session
  NoToken = NoToken
  EmptyValue <- MCEmpty
  Scopes <- MCScopes
  Classes <- MCClasses
  HardClasses <- MCHard
  Values <- MCValues
  Hex = {1, 2}
  MaxEntries = 2
  MaxSequence = 4
  MaxTime = 3
  Requests <- MCRequests
  Displays <- MCDisplays
  PolicyAction <- MCPolicy
  Ttl <- MCTtl
  TokenClass = "token"
INVARIANTS
  ForwardFaithful HardNeverForwarded UnforwardedLeavesNoMapping
  DanglingOnlyWhenFull RoundTrip DisplayExact
