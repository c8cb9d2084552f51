SPECIFICATION Spec
CONSTANTS
  i1 = i1  i2 = i2
  u1 = u1  n1 = n1  w1 = w1
  Root = Root
  Ids = {i1, i2}
  Users = {u1}
  Names = {n1}
  Sizes = {1}
  PutSizes = {1}
  Quota = 1
  Workers = {w1}
INVARIANT NoCycle
