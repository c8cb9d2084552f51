SPECIFICATION FairSpec
CONSTANTS
  l1 = l1  f1 = f1  p1 = p1  w1 = w1  w2 = w2
  None = None
  Links = {l1}
  Files = {f1}
  Permissions = {"view", "download"}
  Passwords = {p1}
  Limits = {1}
  MaxCount = 3
  Workers = {w1, w2}
INVARIANTS TypeOK CountExact OvershootBounded
PROPERTY ExpiredDeactivated
CHECK_DEADLOCK FALSE
