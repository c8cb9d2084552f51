SPECIFICATION Spec
CONSTANTS
  u1 = u1  u2 = u2  t1 = t1  t2 = t2  t3 = t3  k1 = k1  s1 = s1  s2 = s2
  w1 = w1  w2 = w2
  None = None
  Users = {u1, u2}
  Tokens = {t1, t2, t3}
  Keys = {k1}
  Secrets = {s1, s2}
  MaxEpoch = 2
  MaxRequests = 4
  Workers = {w1, w2}
SYMMETRY Symmetry
INVARIANTS TypeOK ResetEndsSessions RefreshOnce OneFirstAdmin AdminRemains MfaSecretProved
CHECK_DEADLOCK FALSE
