----------------------------- MODULE MCPairing ------------------------------
(* Pairing on small instances: ids and codes are interchangeable. *)
EXTENDS Pairing, TLC

Symmetry == Permutations(Sessions) \union Permutations(Codes) \union Permutations(Devices)
              \union Permutations(Agents) \union Permutations(Approvals)
=============================================================================
