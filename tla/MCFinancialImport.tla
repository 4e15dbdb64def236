------------------------- MODULE MCFinancialImport --------------------------
(* Two administrators, one source with or without its key, one import of    *)
(* either of two files, one plain intake, and two workers.                  *)
EXTENDS FinancialImport, TLC

Symmetry == Permutations(Users) \union Permutations(Workers)
            \union Permutations(Files) \union Permutations(Versions)

=============================================================================
