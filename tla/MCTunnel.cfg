SPECIFICATION LanSpec
CONSTANTS
  r1 = r1
  r2 = r2
  c1 = c1
  c2 = c2
  d = d
  f = f
  Zero = Zero
  None = None
  Top = Top
  Paths = {d, f}
  ParentOf <- MCParent
  Offsets = {0, 1}
  Requests = {r1, r2}
  Commands <- MCCommands
  Conns = {c1, c2}
  Reads = {l1}
  Ranges <- MCRanges
INVARIANTS TypeOK InOrder LiveTunnelChosen LanBodyAsAnnounced
PROPERTIES ImplementsRemoteCall
SYMMETRY Symmetry
