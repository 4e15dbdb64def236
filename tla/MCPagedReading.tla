---------------------------- MODULE MCPagedReading ----------------------------
(* PagedReading on small instances. *)
EXTENDS Slicing

CONSTANTS s1, s2

\* Two of the rows were created at the same time.
MCRows == {[key |-> 1, id |-> 2], [key |-> 2, id |-> 1], [key |-> 2, id |-> 3],
           [key |-> 3, id |-> 4]}

Symmetry == Permutations(Slots)

\* A traversal meets all of the rows, a list the first three.
ThreeListed == screen # NoScreen => \A r \in table : r.key < 3

==============================================================================
