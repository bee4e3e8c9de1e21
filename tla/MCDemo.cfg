SPECIFICATION FairSpec
CONSTANTS
  Slots = {r1, r2}
  MaxCodexWire = 2
INVARIANTS
  ProofHonest VerdictSound NoOrphans
PROPERTIES
  SuccessIsClean DemoEnds
\* A command ends.
CHECK_DEADLOCK FALSE
