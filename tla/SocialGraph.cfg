SPECIFICATION Spec
CONSTANTS
  User = {u1, u2}
  Row = {f1, f2}
  Req = {r1, r2, r3}
  None = None
SYMMETRY Symmetry
INVARIANTS BlockedPairsAreApart ShownIsExplained
PROPERTIES AudiencesAgree FollowsAreWilled
CHECK_DEADLOCK FALSE
