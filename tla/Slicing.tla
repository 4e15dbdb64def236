------------------------------- MODULE Slicing -------------------------------
(***************************************************************************)
(* applyQuerySpecificationPaginated as it is written: the rows are sorted, *)
(* the place behind the cursor is looked for in the array, and the page is *)
(* sliced out of it.                                                       *)
(***************************************************************************)
EXTENDS PagedReading, SequencesExt

\* filtered.sort(compareRecords).
Sorted(T) ==
    CHOOSE rows \in [1 .. Cardinality(T) -> T] :
        \A i, j \in DOMAIN rows : i < j => Comes(rows[i], rows[j])

\* findIndex, of the places that will do: 1 for the first place, 0 for none.
FirstIndex(places) == IF places = {} THEN 0 ELSE Min(places)

ExactIndex(rows, c) == FirstIndex({i \in DOMAIN rows : rows[i].id = c.id})
LaterIndex(rows, c) == FirstIndex({i \in DOMAIN rows : Comes(c, rows[i])})

\* How many of the sorted rows are passed over: up to the cursor's row, or up
\* to where it would be.
StartIndex(rows, c) ==
    LET exact == ExactIndex(rows, c)
        later == LaterIndex(rows, c)
    IN  CASE c = Start -> 0
          [] c # Start /\ exact # 0 -> exact
          [] c # Start /\ exact = 0 /\ later # 0 -> later - 1
          [] OTHER -> Len(rows)

Slice(rows, c, n) ==
    LET start == StartIndex(rows, c)
        items == SubSeq(rows, start + 1, Min({start + n, Len(rows)}))
        rest == start + Len(items) < Len(rows)
    IN  [page |-> ToSet(items), more |-> rest,
         next |-> IF rest /\ items # <<>> THEN Last(items) ELSE Start]

\* The answer of the model is the slice the code cuts out, of every table, at
\* every cursor and for pages of every size; a traversal meets every table
\* (querySpecification.ts:367-439).
PageIsSlice ==
    screen = NoScreen =>
        LET rows == Sorted(table) IN
        \A c \in Cursors, n \in 1 .. Cardinality(Rows) :
            Answer(table, c, n) = Slice(rows, c, n)

==============================================================================
