SPECIFICATION AccessSpec
CONSTANTS
  Grants = {g1, g2, g3, g4}
  Foreign = {g3, g4}
  Lapsing = {g4}
  Watchers = {w1, w2}
  BufferSize = 1
  ChanSize = 1
  MaxFaults = 2
  MaxRevoked = 3
SYMMETRY Symmetry
INVARIANTS RevocationNotLost SentOnce ValidGrantKept
CHECK_DEADLOCK FALSE
