SPECIFICATION Spec
CONSTANTS
  User = {a, b, c}
  Req = {r1, r2}
  None = None
  GROUP_MIN_INVITES = 2
  GROUP_MAX_MEMBERS = 3
INVARIANT GroupKeepsAnAdmin
CHECK_DEADLOCK FALSE
