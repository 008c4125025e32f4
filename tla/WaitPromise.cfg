SPECIFICATION WaitFairSpec
CONSTANTS
  Sessions = {s1, s2}
  Waiters = {w1}
  NoSession = NoSession
  EventBuf = 1

PROPERTY WaitEndsWithTarget
CHECK_DEADLOCK FALSE
