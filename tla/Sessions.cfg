SPECIFICATION Spec
CONSTANTS
  User = {u1, u2}
  Sid = {s1, s2, s3}
  Req = {r1, r2, r3}
  None = None
SYMMETRY Symmetry
INVARIANTS RotatedTokensAreDead RevokeAllReachesEverySeenSession SurvivorsAreExplained
PROPERTIES OnlyOwnRequestsEndSessions
CHECK_DEADLOCK FALSE
