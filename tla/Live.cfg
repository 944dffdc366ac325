SPECIFICATION Spec
CONSTANTS
  Host = Host
  User = {u1, u2}
  Stream = {s1, s2}
  Row = {v1, v2}
  Req = {r1, r2, r3}
  None = None
SYMMETRY Symmetry
INVARIANTS StreamsAgree
CHECK_DEADLOCK FALSE
