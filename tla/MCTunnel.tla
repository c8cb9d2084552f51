------------------------------ MODULE MCTunnel ------------------------------
EXTENDS LanServer, TLC
CONSTANTS r1, r2, c1, c2, d, f

\* A folder d and a file f in it; a write to d makes a file of it.
MCParent == [p \in {d, f} |-> IF p = f THEN d ELSE Top]
MCCommands ==
  [op : {"write"}, path : {f}, offset : Offsets]
    \union {[op |-> "write", path |-> d, offset |-> 0], [op |-> "read", path |-> f, offset |-> 0]}
    \union [op : {"delete"}, path : {d}, recursive : BOOLEAN]
    \union [op : {"mkdir", "list"}, path : {d}]
    \union [op : {"checksum", "barred", "stat", "mkdir"}, path : {f}]
MCRanges == {[start |-> 1, end |-> None], [start |-> 0, end |-> 2]}
Symmetry == Permutations({r1, r2}) \union Permutations({c1, c2})
=============================================================================
