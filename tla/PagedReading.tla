----------------------------- MODULE PagedReading -----------------------------
(***************************************************************************)
(* Those who read a query page by page, a traversal or a list on a screen, *)
(* beside a table that changes under them.                                 *)
(***************************************************************************)
EXTENDS Traversal, ListScreen

vars == <<table, standing, collection, screen, list, raised, ask>>

NoScreen == "none"

ScreenOff ==
    /\ screen = NoScreen
    /\ shown = {} /\ cursor = Start /\ more = FALSE
    /\ raised = {} /\ error = FALSE /\ torn = FALSE
    /\ ask = [s \in Slots |-> NoAsk]

Init ==
    /\ table \in SUBSET Rows
    /\ TraversalInit
    /\ \/ standing = table /\ ScreenOff
       \/ standing = {} /\ ScreenInit

\* A row is created, or comes to match the query.
Joins(r) ==
    /\ r \notin table
    /\ table' = table \union {r}
    /\ UNCHANGED <<standing, collection, screen, list, raised, ask>>

\* A row is deleted, or matches no more.
Leaves(r) ==
    /\ r \in table
    /\ table' = table \ {r}
    /\ standing' = standing \ {r}
    /\ ask' = [s \in Slots |->
           IF ask[s] = NoAsk THEN NoAsk ELSE [ask[s] EXCEPT !.stood = @ \ {r}]]
    /\ UNCHANGED <<collection, screen, list, raised>>

Next ==
    \/ \E r \in Rows : Joins(r) \/ Leaves(r)
    \/ screen = NoScreen /\ TraversalNext /\ UNCHANGED <<screen, list, raised, ask>>
    \/ screen # NoScreen /\ ScreenNext /\ UNCHANGED collection

Spec == Init /\ [][Next]_vars

-----------------------------------------------------------------------------

\* Every variable keeps to its domain.
TypeOK ==
    /\ table \in SUBSET Rows /\ standing \in SUBSET Rows
    /\ status \in Statuses /\ from \in Cursors /\ seen \in SUBSET Rows
    /\ pages \in Nat /\ times \in [Rows -> Nat]
    /\ screen \in Screens \union {NoScreen}
    /\ shown \in SUBSET Rows /\ cursor \in Cursors /\ more \in BOOLEAN
    /\ error \in BOOLEAN /\ torn \in BOOLEAN
    /\ raised \in SUBSET {"busy", "paging"}
    /\ ask \in [Slots -> Asks \union {NoAsk}]

\* A traversal that ends well has every row that was there all the time, and
\* no row twice; and no cursor comes again, however rows come and go
\* (paginationTraversal.ts:21-57, httpCollection.ts:32-74).
CollectsStanding ==
    /\ status # "repeated"
    /\ \A r \in Rows : times[r] <= 1
    /\ status = "done" => \A r \in standing : times[r] = 1

\* What a list claims to cover, all of it or what comes up to its cursor, it
\* shows as far as it has been there since it was read: as long as no refresh
\* failed and no further page arrived for a longer list than is shown
\* (app/work/cases/page.tsx:59-74, app/reviews/page.tsx:22-50,
\* components/banking-cases/BankingTaskWorkspace.tsx:51-115).
ListsComplete ==
    ~torn => \A r \in standing :
        screen # NoScreen /\ (more => r = cursor \/ Comes(r, cursor)) => r \in shown

=============================================================================
