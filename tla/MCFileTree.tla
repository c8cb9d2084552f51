----------------------------- MODULE MCFileTree -----------------------------
(* FileTree and FrontEnds on small instances: symmetric sets of ids, names,
   users and workers. *)
EXTENDS FrontEnds, TLC

Symmetry == Permutations(Ids) \union Permutations(Names)
              \union Permutations(Users) \union Permutations(Workers)
=============================================================================
