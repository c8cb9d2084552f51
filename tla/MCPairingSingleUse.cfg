SPECIFICATION Spec
CONSTANTS
  s1 = s1  c1 = c1  d1 = d1  d2 = d2
  u1 = u1  a1 = a1  a2 = a2  r1 = r1
  None = None
  Sessions = {s1}
  Codes = {c1}
  Devices = {d1, d2}
  Users = {u1}
  Agents = {a1, a2}
  Approvals = {r1}
  MaxPolls = 2
INVARIANT SingleUse
