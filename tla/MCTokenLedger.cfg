SPECIFICATION Spec
CONSTANTS
  s1 = s1
  s2 = s2
  v1 = v1
  v2 = v2
  h1 = h1
  h2 = h2
  h3 = h3
  NoToken = NoToken
  EmptyValue = EmptyValue
  Scopes = {s1, s2}
  Classes = {"email", "phone", "credential"}
  HardClasses = {"credential"}
  Values = {v1, v2, EmptyValue}
  Hex = {h1, h2, h3}
  MaxEntries = 2
  MaxSequence = 6
  MaxTime = 4
  Ttls = {1, 2}
SYMMETRY Symmetry
INVARIANTS TypeOK CapacityBound OneTokenPerValue RecencyStrict
PROPERTIES LiveTokenNeverRebound OnlyLruEvicted
