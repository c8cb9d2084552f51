------------------------------ MODULE MCBackup ------------------------------
EXTENDS Backup, TLC
CONSTANTS f1, f2, c1, c2, l1, l2, w1, w2, b1, b2, b3

MCLinkOf == [l \in {l1, l2} |-> IF l = l1 THEN f1 ELSE f2]
MCExisting == <<b1, b2>>
Symmetry == Permutations({w1, w2})
=============================================================================
