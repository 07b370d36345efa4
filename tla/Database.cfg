SPECIFICATION Spec
CONSTANTS
  MaxNodes = 4
  MaxKids = 3
  TransactionSize = 2
  Reported = {"BRANCH", "SOLVED", "SKIPPED"}
  NotedNodes = {2}
INVARIANTS
  StructureSound
  LoadedFaithful
  GapsAreFatal
  LogReplays
PROPERTIES
  ImplementsChildLists
CHECK_DEADLOCK FALSE
