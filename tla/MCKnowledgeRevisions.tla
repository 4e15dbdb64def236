------------------------ MODULE MCKnowledgeRevisions ------------------------
EXTENDS KnowledgeRevisions, TLC

CONSTANTS i1, s1, s2, r1, r2, w1, w2

\* The second replica's clock is ahead.
Apart == [r \in Replicas |-> IF r = r2 THEN 1 ELSE 0]

\* Two clocks that differ let decisions on a revision bear either time, in any
\* order, without time passing; it passes while an item has one revision, as
\* times of decisions on different revisions are never compared.
TimeOnFirst == now = 0 \/ \A i \in Items : Latest(i) <= 1

SourceSymmetry == Permutations(Sources)
=============================================================================
