SPECIFICATION Spec
CONSTANTS
  User = {u1}
  Sid = {s1, s2, s3}
  Req = {r1, r2, r3}
  None = None
SYMMETRY Symmetry
CHECK_DEADLOCK FALSE
INVARIANT
  OneSuccessorPerToken
