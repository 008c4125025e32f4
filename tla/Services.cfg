SPECIFICATION FairParts
CONSTANTS
  Viewers = {v1, v2}
  Kinds = {"attach", "watch"}
  MaxChunks = 2
  MaxKills = 1
  BufSize = 1
  Sessions = {s1, s2, s3}
  Waiters = {w1}
  NoSession = NoSession
  EventBuf = 1
  Namespaces = {ns1, ns2}
  Keys = {k1, k2}
  MaxSets = 3
  Conns = {c1, c2}
  NoConn = NoConn
  SSHSessions = {x1, x2}
  HubBuf = 1
INVARIANTS NoOutputGap AttachedCountExact
INVARIANTS BlockedHasEvent
INVARIANTS ArmedTimerIsCurrent StoredValueWillExpire BucketIffKeys
INVARIANTS HandOverIsSafe WaitsAreLive AcceptedNotLost
PROPERTIES WaitNotStuck TTLExpires SessionSettles
CHECK_DEADLOCK FALSE
