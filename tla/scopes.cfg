CONSTANTS
  Threads = {t1}
  Users <- OneUser
  Sections = {1, 2}
  Warm = FALSE
  First = t1
  MaxClock = 2
  MaxTotal = 2
  None = None
  MaxDepth = 3
SPECIFICATION ScopedSpec
INVARIANT ScopedInv
