SPECIFICATION Spec
CONSTANTS
  Person = {a, b}
  Message = {m1}
  Req = {r1, r2, r3}
  Viewer = me
  Handler = {h1, h2}
  MaxRows = 4
  Window = 3
  Limit = 1
  Entry = {n1, n2, n3}
  Call = {q1, q2, q3, q4}
  MaxPins = 1
  Thing = {i1, i2}
  None = None
SYMMETRY Symmetry
INVARIANTS PairsHaveOneChat MessagesKeepTheirWord ContentIsGuarded NotificationsAgree NotesAgree ThreadsKeepShape
PROPERTIES ChatsAreKept
CHECK_DEADLOCK FALSE
