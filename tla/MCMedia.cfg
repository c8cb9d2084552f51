SPECIFICATION Spec
CONSTANTS
  f1 = f1  f2 = f2  j1 = j1  j2 = j2
  None = None
  Files = {f1, f2}
  Jobs = {j1, j2}
  Segments = 2
INVARIANT StreamOfOwnFile
CHECK_DEADLOCK FALSE
