SPECIFICATION Spec
CONSTANTS
  Texts <- MCTexts
  ActionOf <- MCActionOf
  SecretClasses = {"key"}
  MaxDecodeLayers = 2
  MaxRegularViews = 8
  MaxScanViews = 12
  MaxGrowth = 4
INVARIANTS NoFormSkipped SpanCarriesMatch DisjointAscending NeverWeaker NothingInvented
CHECK_DEADLOCK FALSE
