CONSTANTS
  Standard = {"error", "info"}
  Added = {"added"}
  FlagSets = {{"error"}, {"error", "info", "file"}}
  LogPriorities = {0, 1}
  Names = {"a", "b"}
  MsgLimit = 2
  Careful = FALSE
SPECIFICATION LoggingSpec
CHECK_DEADLOCK FALSE
INVARIANT SuspendedIsSilent
