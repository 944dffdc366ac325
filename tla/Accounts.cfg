SPECIFICATION AccountsSpec
CONSTANTS
  User = {a, b}
  Row = {f}
  Req = {r1, r2}
  Socket = {s1, s2}
  TTL = 2
  Other = c
  Call = {1, 2, 3}
  TrialDays = 1
  PeriodDays = 2
  LastDay = 4
  MaxFaults = 1
  MaxChanges = 2
  Word = {w1, w2}
  None = None
INVARIANTS OthersKnow ProfilesAgree
PROPERTIES ClocksAreObeyed TermsAreKept AnswersAreJustified
CHECK_DEADLOCK FALSE
