CONSTANTS
  c1 = c1  c2 = c2  c3 = c3
  Copies = {c1, c2, c3}
  Base = Base
  Work = {1, 2}
  WorkLimit = 4
  Ranks = {0, 1, 2}
  Sections = {0, 1, 2}
  Deltas <- MCDeltas
  t1 = t1  t2 = t2  t3 = t3
  Threads = {t1, t2, t3}
  TextLimit = 6
  None = None
  m1 = m1  m2 = m2  m3 = m3
  Managers = {m1, m2, m3}
  Levels <- MCLevels
  CopyLimit = 3
  NoManager = NoManager
  w1 = w1  w2 = w2  w3 = w3
  Workers = {w1, w2, w3}
  Initials = {0, 2}
  AddLimit = 4
  Shared = Shared
  Nobody = Nobody
  NoThread = NoThread
  Ids = {t1, t2, t3}
  Counts = {2, 3}
  Hardware = 4
  LiveLimit = 3
  Values = {0, 1}
SPECIFICATION MCSpec
CHECK_DEADLOCK FALSE
INVARIANT ResultsReachBase
INVARIANT OutputInv
INVARIANT InOrder
INVARIANT OnlyMetAreLost
INVARIANT LevelCountsManagers
INVARIANT EnabledWithinLimits
INVARIANT SumCountsEveryAdd
PROPERTY RanksPrint
PROPERTY SignalTerminates
INVARIANT DistinctNumbers
INVARIANT InBounds
INVARIANT Isolation
PROPERTY NumberingRefines
PROPERTY ThreadReturns
