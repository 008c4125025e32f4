SPECIFICATION MCSpec
CONSTANTS
  Creds = {c1, c2}
  Uses = {u1, u2}
  Groups = {g1}
  Tags = {g1}
  Drifts <- BothWays
  TTL = 1
  Validity = 3
  Skew = 1
  NoCred = NoCred
  MaxTime = 2
  MaxEdits = 1
SYMMETRY Symmetry
INVARIANTS AcceptedOnce RefusedForCause StrangersRefused
CHECK_DEADLOCK FALSE
