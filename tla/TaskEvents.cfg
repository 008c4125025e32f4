SPECIFICATION Spec
CONSTANTS
  s1 = s1
  Sessions = {s1, s2}
  Watchers = {w1, w2}
  Filters <- SomeFilters
  QueueSize = 1
  EventQueue = 1
  MaxReports = 3
  MaxConns = 2
  MaxStarts = 2
  MaxFaults = 1
SYMMETRY WatcherSymmetry
INVARIANTS NothingSkipped OnceInOrder LatestIsNewest OneLossPerBreak
CHECK_DEADLOCK FALSE
