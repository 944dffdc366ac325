SPECIFICATION FairSpec
CONSTANTS
  Story = {s1, s2}
  Post = {p}
  Highlight = {h}
  Req = {r1, r2}
  None = None
  ATTEMPTS = 2
  FAULTS = 1
INVARIANTS MediaAgree
PROPERTIES ExpiryIsJustified ExpiredStoriesGo
CHECK_DEADLOCK FALSE
