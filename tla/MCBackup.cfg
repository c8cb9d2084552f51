SPECIFICATION Spec
CONSTANTS
  f1 = f1
  f2 = f2
  c1 = c1
  c2 = c2
  l1 = l1
  l2 = l2
  w1 = w1
  w2 = w2
  b1 = b1
  b2 = b2
  b3 = b3
  None = None
  Files = {f1, f2}
  Contents = {c1, c2}
  Links = {l1, l2}
  LinkOf <- MCLinkOf
  Versions = {l2}
  Backups = {b1, b2, b3}
  InTrash = {f2}
  Existing <- MCExisting
  Keeps = {0, 1}
  Workers = {w1, w2}
  MaxChanges = 1
  MaxRequests = 2
INVARIANTS TypeOK CompletedIsSound VerdictTrue RestoreFaithful RetentionKeepsNewest
SYMMETRY Symmetry
CHECK_DEADLOCK FALSE
