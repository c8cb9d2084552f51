---------------------------- MODULE MCAccounts ------------------------------
(* Accounts on small instances: accounts, tokens, phrases and secrets are
   interchangeable. *)
EXTENDS Accounts, TLC

Symmetry == Permutations(Users) \union Permutations(Tokens) \union Permutations(Keys)
              \union Permutations(Secrets) \union Permutations(Workers)
=============================================================================
