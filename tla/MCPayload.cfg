SPECIFICATION PayloadSpec
CONSTANTS
  Templates <- MCTemplates
  MaxEdits = 2
  EditNodes <- MCEditNodes
  EditKeys = {"secret", "id", ""}
  Sensitive = {"secret"}
  Replacement = "token"
INVARIANTS
  EveryStringOneTarget NothingSensitiveSent
  RewriteKeepsShape
\* A request ends when it is rejected, blocked or sent.
CHECK_DEADLOCK FALSE
