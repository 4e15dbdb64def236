------------------------------ MODULE Traversal ------------------------------
(***************************************************************************)
(* collectAllPages, and collectAllCollectionData in the browser: all pages *)
(* of a query one after another, each a read of its own, while rows come   *)
(* and go between them.                                                    *)
(***************************************************************************)
EXTENDS Paging

CONSTANT MaxPages   \* the safety bound: 10000 in the server, 1000 in the browser

ASSUME MaxPagesAssumption == MaxPages \in Nat \ {0}

VARIABLES
    status,   \* of the traversal
    from,     \* the cursor it goes on from
    seen,     \* cursors it has been given
    pages,    \* how many pages it has read
    times     \* how often each row is in what it has collected

collection == <<status, from, seen, pages, times>>

Statuses == {"going", "done", "repeated", "exceeded", "failed"}

TraversalInit ==
    /\ status = "going"
    /\ from = Start
    /\ seen = {}
    /\ pages = 0
    /\ times = [r \in Rows |-> 0]

Collect(page) == times' = [r \in Rows |-> IF r \in page THEN times[r] + 1 ELSE times[r]]

LastPage ==
    LET a == Read(from) IN
    /\ status = "going" /\ pages < MaxPages
    /\ ~a.more
    /\ Collect(a.page)
    /\ status' = "done"
    /\ UNCHANGED <<table, standing, from, seen, pages>>

AnotherPage ==
    LET a == Read(from) IN
    /\ status = "going" /\ pages < MaxPages
    /\ a.more
    /\ Collect(a.page)
    /\ status' = IF a.next \in seen THEN "repeated" ELSE "going"
    /\ seen' = seen \union {a.next}
    /\ from' = a.next
    /\ pages' = pages + 1
    /\ UNCHANGED <<table, standing>>

TooManyPages ==
    /\ status = "going" /\ pages = MaxPages
    /\ status' = "exceeded"
    /\ UNCHANGED <<table, standing, from, seen, pages, times>>

ReadFails ==
    /\ status = "going" /\ pages < MaxPages
    /\ status' = "failed"
    /\ UNCHANGED <<table, standing, from, seen, pages, times>>

TraversalNext == LastPage \/ AnotherPage \/ TooManyPages \/ ReadFails

=============================================================================
