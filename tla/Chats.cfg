SPECIFICATION ChatsSpec
CONSTANTS
  User = {a, b, c, d}
  Req = {r1, r2, r3}
  Party = {a, b, c, d}
  Phone = {r1, r2, r3, r4}
  None = None
  GROUP_MIN_INVITES = 1
  GROUP_MAX_MEMBERS = 3
SYMMETRY Symmetry
INVARIANTS AdministrationIsExplained SizeIsExplained HistoryAgrees ScreensAgree
PROPERTIES NobodyLosesALiveChat
CHECK_DEADLOCK FALSE
