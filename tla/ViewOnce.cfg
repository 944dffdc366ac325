SPECIFICATION Spec
CONSTANTS
  User = {a, b}
  Chat = {c1}
  Message = {m1}
  Req = {r1, r2}
  None = None
INVARIANT ShownOnce
CHECK_DEADLOCK FALSE
