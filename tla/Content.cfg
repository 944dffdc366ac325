SPECIFICATION ContentSpec
CONSTANTS
  Tag = {h}
  Req = {r1, r2}
  Job = Job
  None = None
  FAULTS = 1
  Item = {i1, i2, i3, i4}
  MaxPlace = 4
  MaxChanges = 2
  Limit = 1
  User = {u1, u2}
  Other = u3
  Call = {1, 2, 3}
  MaxFiles = 2
  Option = {0, 1, 2}
  MaxFeed = 3
  MaxExplore = 4
  Track = {t1, t2}
  MaxVersions = 1
  MaxSize = 4
INVARIANTS BookkeepingAgrees FollowersHearOnce MediaFollowThePost ListsAgree MarksAgree StickersAgree FilesAgree
PROPERTIES ScheduledPostsGoOut
CHECK_DEADLOCK FALSE
