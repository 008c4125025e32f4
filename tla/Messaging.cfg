SPECIFICATION Spec
CONSTANTS
  Sessions = {s1, s2}
  Nobody = Nobody
  Here = Here
  Peers = {n2}
  Requests = {r1, r2}
  NoRequest = NoRequest
  Repliers = {p1, p2}
  NoReply = NoReply
  MaxHoles = 1
SYMMETRY Symmetry
INVARIANTS OneReplyAccepted AnswerByNumberOrToken PendingHasWaiter SentReplyReachesWaiter SentReplyInLog
PROPERTY ImplementsReplyCell
CHECK_DEADLOCK FALSE
