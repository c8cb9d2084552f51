SPECIFICATION AgentSpec
CONSTANTS
  t1 = t1
  t2 = t2
  t3 = t3
  t4 = t4
  a1 = a1
  a2 = a2
  Transfers = {t1, t2, t3, t4}
  Priority <- MCPriority
  Id <- MCId
  Callers = {a1, a2}
  Lengths = {0, 1, 2, 3, 4, 5, 6, 7, 8, 9, 10}
  MinChunk = 2
  MaxChunk = 4
INVARIANTS ChunksTile AllButLastByte QueueOrdered QueueExact
SYMMETRY Symmetry
CHECK_DEADLOCK FALSE
