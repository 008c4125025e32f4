SPECIFICATION Spec
CONSTANTS
  Requests = {r1, r2, r3}
  Invites = {i1}
  Enrollments = {e1}
  Flows = {f1}
  Subjects = {s1, s2}
  Names = {n1, n2}
  Uses = 1
  AnyName = AnyName
  NoID = NoID
  MaxMishaps = 1
SYMMETRY Symmetry
INVARIANTS UsesKept NodeIsSponsored LateClaimRefused
CHECK_DEADLOCK FALSE
