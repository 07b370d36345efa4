SPECIFICATION Spec
CONSTANTS
  MaxNodes = 4
  MaxKids = 2
  MaxCommands = 2
  MaxEvents = 5
  Limits = {2}
INVARIANTS
  QuietIsUpToDate
  DrawnSafely
PROPERTIES
  CommandsExact
  CatchesUp
CHECK_DEADLOCK FALSE
