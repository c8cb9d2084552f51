------------------------------ MODULE MCShares ------------------------------
(* Shares on small instances. *)
EXTENDS Shares, TLC

Symmetry == Permutations(Links) \union Permutations(Files) \union Permutations(Workers)
=============================================================================
