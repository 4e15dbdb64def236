-------------------------------- MODULE Paging --------------------------------
(***************************************************************************)
(* A page of a tenant's records: both adapters read the rows of the tenant *)
(* in one statement, keep those that match the query, sort them, and cut   *)
(* the page out (querySpecification.ts).  The cursor of the next page      *)
(* names the last row of this one by its sort value and its id, so that    *)
(* reading can go on although that row is gone.                            *)
(***************************************************************************)
EXTENDS Naturals, FiniteSets

CONSTANTS
    Rows,        \* rows there may be: what they are sorted by, and their id
    PageSize,    \* the limit the reader asks for
    Start        \* no cursor, as a request's and as an answer's

\* key and id in the direction of the sort; neither changes while a row lives.
ASSUME RowsAssumption ==
    /\ IsFiniteSet(Rows)
    /\ Rows \subseteq [key : Nat, id : Nat]
    /\ \A r, q \in Rows : r.id = q.id => r = q
ASSUME PageSizeAssumption == PageSize \in Nat \ {0}
ASSUME StartAssumption == Start \notin Rows

VARIABLES
    table,      \* the rows that are there and match the query
    standing    \* those that have been all the while the reader has read them

Cursors == Rows \union {Start}

\* compareRecords, with the id that normalizeAndValidateOrderBy appends.
Comes(a, b) == a.key < b.key \/ (a.key = b.key /\ a.id < b.id)

\* Mutant: where the cursor's row is gone, nothing is found behind it.
BehindFound(T, c) == {r \in T : c = Start \/ (c \in T /\ Comes(c, r))}

\* What is left of T behind a cursor, its row being there or not.
Behind(T, c) == {r \in T : c = Start \/ Comes(c, r)}

\* The rows of T before r.
Ahead(T, r) == {q \in T : Comes(q, r)}

\* At most n rows from there on.
Page(T, c, n) == {r \in Behind(T, c) : Cardinality(Ahead(Behind(T, c), r)) < n}

\* Mutant: a last page that is full is taken for one with more behind it.
IsFull(T, c, n) == Cardinality(Page(T, c, n)) = n

HasMore(T, c, n) == Page(T, c, n) # Behind(T, c)

NextCursor(T, c, n) ==
    IF HasMore(T, c, n)
    THEN CHOOSE r \in Page(T, c, n) : \A q \in Page(T, c, n) : q = r \/ Comes(q, r)
    ELSE Start

Answer(T, c, n) ==
    [page |-> Page(T, c, n), next |-> NextCursor(T, c, n), more |-> HasMore(T, c, n)]

\* What a reader of the table is answered.
Read(c) == Answer(table, c, PageSize)

==============================================================================
