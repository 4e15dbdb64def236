--------------------------- MODULE MCSessionStores ---------------------------
(* Three sessions of two users in two organizations, long and short lived.   *)
EXTENDS SessionStores, TLC

Symmetry == Permutations(Tokens) \union Permutations(Users) \union Permutations(Orgs)

=============================================================================
