SPECIFICATION ScopesSpec
CONSTANTS
  ScopePriorities = {0, 1, 2}
  StreamFlags = {"error", "file"}
  MaxDepth = 4
INVARIANT StaysSilent
CHECK_DEADLOCK FALSE
