CONSTANTS
  Threads = {1, 2}
  Users <- EachItsOwn
  Sections = {1, 2}
  Warm = TRUE
  First = 1
  MaxClock = 2
  MaxTotal = 2
  None = None
SPECIFICATION Spec
INVARIANT TimingsInv
INVARIANT NoTimeAdded
