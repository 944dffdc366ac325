SPECIFICATION Spec
CONSTANTS
  Code = {c1, c2}
  Key = {k1, k2}
  Secret = {x1, x2}
  Backup = {b1, b2}
  Req = {r1, r2, r3}
  None = None
SYMMETRY Symmetry
INVARIANTS MailedCodesAreOneTime SecondFactorAgrees
PROPERTIES KeysAreOneTime
CHECK_DEADLOCK FALSE
