SPECIFICATION FrontSpec
CONSTANTS
  i1 = i1  i2 = i2
  u1 = u1  u2 = u2
  n1 = n1 n2 = n2
  w1 = w1  w2 = w2
  Root = Root
  Ids = {i1, i2}
  Users = {u1, u2}
  Names = {n1, n2}
  Sizes = {1, 2}
  PutSizes = {2}
  Quota = 1
  Workers = {w1, w2}
SYMMETRY Symmetry
INVARIANTS TypeOK OwnersAgree PurgesOwnPaths DanglingOnlyByPurge QuotaOvershootBounded
PROPERTY OneUserPerStep
