---------------------------- MODULE MCBankingCase ----------------------------
(* BankingCase on small instances. *)
EXTENDS BankingCase, TLC

CONSTANTS u1, u2, u3, c1, c2, s1, s2

UserSymmetry == Permutations({u1, u2, u3})

\* Either of two cases is explored, the one made from a preview candidate or the
\* other, and not both at once: a case's operations read no other case.
OneAtATime == \A b, c \in Cases : bcase[b] # NoCase /\ bcase[c] # NoCase => b = c
=============================================================================
