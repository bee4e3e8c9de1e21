SPECIFICATION FairSpec
CONSTANTS
  Policies <- MCPolicies
  MaxInFlight = 2
INVARIANTS
  ServedPolicyEnforceable CodexNeedsGateway
PROPERTIES
  SuccessIsClean LauncherEnds
\* A command ends.
CHECK_DEADLOCK FALSE
