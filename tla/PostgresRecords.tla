--------------------------- MODULE PostgresRecords ---------------------------
(***************************************************************************)
(* The PostgreSQL adapter: transactions of different replicas run at once, *)
(* each on the snapshot it began with, and a repository call reads, checks *)
(* and writes in statements of their own.  Nothing but the isolation level *)
(* the adapter asks for stops one transaction from adding a reference to a *)
(* record that another is deleting.                                        *)
(*                                                                         *)
(* Of the database this takes what its documentation promises at that      *)
(* level: snapshots; of two transactions that write one row the second     *)
(* waits for the first and fails if it commits; and the transactions that  *)
(* commit could have run one after another.                                *)
(***************************************************************************)
EXTENDS RecordRows

VARIABLE tx   \* each transaction: what it sees, has read and has written

Idle == [status |-> "idle", view |-> Empty, reads |-> {}, writes |-> {}, after |-> {}]

InStatus(s) == {c \in Transactions : tx[c].status = s}

PostgresInit == tx = [c \in Transactions |-> Idle]

\* c began while d ran, or d while c.
Concurrent(c, d) ==
    /\ c # d
    /\ "idle" \notin {tx[c].status, tx[d].status}
    /\ c \notin tx[d].after /\ d \notin tx[c].after

Begin(c) ==
    /\ tx[c].status = "idle"
    /\ tx' = [tx EXCEPT ![c] = [status |-> "open", view |-> rows, reads |-> {},
                                writes |-> {}, after |-> InStatus("committed")]]
    /\ UNCHANGED <<rows, unused, outcome>>

\* The row lock of FOR UPDATE, and of the write itself: not while another
\* holds it, nor once a concurrent transaction has changed the row.
MayLock(c, r) == \A d \in Transactions : Concurrent(c, d) => r \notin tx[d].writes

Called(t, r, row, read) ==
    [t EXCEPT !.view[r] = row, !.reads = @ \union read, !.writes = @ \union {r}]

Call(c, r, row, read) ==
    /\ tx' = [tx EXCEPT ![c] = Called(tx[c], r, row, read)]
    /\ UNCHANGED <<rows, outcome>>

Create(c, r, row) ==
    /\ tx[c].status = "open"
    /\ r \in unused
    /\ MayCreate(tx[c].view, r, row)
    /\ Call(c, r, row, {row.ref} \ {NoRecord})
    /\ unused' = unused \ {r}

Update(c, r, row) ==
    /\ tx[c].status = "open"
    /\ MayLock(c, r)
    /\ MayUpdate(tx[c].view, r, row)
    /\ Call(c, r, row, {r} \union ({row.ref} \ {NoRecord, tx[c].view[r].ref}))
    /\ UNCHANGED unused

\* The search for dependents reads each of their tables as a whole.
Delete(c, r) ==
    /\ tx[c].status = "open"
    /\ MayLock(c, r)
    /\ MayDelete(tx[c].view, r)
    /\ Call(c, r, NoRecord,
          {r} \union {d \in Records : KindOf[d] \in DependentKinds(KindOf[r])})
    /\ UNCHANGED unused

\* In any serial order a comes before b.
Precedes(a, b) ==
    IF Concurrent(a, b)
    THEN tx[a].reads \intersect tx[b].writes # {}
    ELSE /\ a \in tx[b].after
         /\ \/ (tx[a].reads \union tx[a].writes) \intersect tx[b].writes # {}
            \/ tx[a].writes \intersect tx[b].reads # {}

\* The level the connection begins with: nothing is asked of the order.
AnyOrder(C) == TRUE

Serializable(C) ==
    \E place \in [C -> 1 .. Cardinality(C)] :
        \A a, b \in C : a # b /\ Precedes(a, b) => place[a] < place[b]

\* A transaction that committed is remembered while another is open.
Leave(c, left) ==
    tx' = IF InStatus("open") = {c} THEN [d \in Transactions |-> Idle]
          ELSE [tx EXCEPT ![c] = left]

Commit(c) ==
    /\ tx[c].status = "open"
    /\ Serializable(InStatus("committed") \union {c})
    /\ rows' = [r \in Records |-> IF r \in tx[c].writes THEN tx[c].view[r] ELSE rows[r]]
    /\ outcome' = "committed"
    /\ Leave(c, [tx[c] EXCEPT !.status = "committed", !.view = Empty])
    /\ UNCHANGED unused

\* A check that fails, a conflict, a deadlock, a connection or replica lost.
Abort(c) ==
    /\ tx[c].status = "open"
    /\ outcome' = "failed"
    /\ Leave(c, Idle)
    /\ UNCHANGED <<rows, unused>>

PostgresNext ==
    \E c \in Transactions :
        \/ Begin(c)
        \/ \E r \in Records : \E row \in Row(r) : Create(c, r, row)
        \/ \E r \in Records : \E row \in Row(r) : Update(c, r, row)
        \/ \E r \in Records : Delete(c, r)
        \/ Commit(c)
        \/ Abort(c)

=============================================================================
