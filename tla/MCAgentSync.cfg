SPECIFICATION FairSpec
CONSTANTS
  p1 = p1  p2 = p2  n1 = n1
  None = None
  Paths = {p1, p2}
  Names = {n1}
  NameOf <- SameName
  Large = {}
  MaxVersion = 2
  Writes <- Edited
  MaxEvents = 2
  Batch = 1
  MaxCrashes = 1
INVARIANTS TypeOK CacheCurrent SyncedIsThere
PROPERTY EditsIndexed
