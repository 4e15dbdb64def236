---------------------------- MODULE MemoryRecords ----------------------------
(***************************************************************************)
(* The in-memory adapter (database/store.ts): one transaction at a time,   *)
(* in the order they asked, changes the maps in place.  One that throws    *)
(* puts back the copy of the whole store it took when its turn came.       *)
(***************************************************************************)
EXTENDS RecordRows, Sequences

VARIABLES
    queue,      \* inMemoryTransactionTail: whose turn it is comes first
    snapshot    \* the copy the running transaction took, or NoRecord

Waiting == {queue[i] : i \in DOMAIN queue}
Running(c) == queue # <<>> /\ c = Head(queue) /\ snapshot # NoRecord

Committed == IF snapshot = NoRecord THEN rows ELSE snapshot

MemoryInit == queue = <<>> /\ snapshot = NoRecord

Ask(c) ==
    /\ c \notin Waiting
    /\ queue' = Append(queue, c)
    /\ UNCHANGED <<rows, unused, outcome, snapshot>>

Start(c) ==
    /\ queue # <<>> /\ c = Head(queue) /\ snapshot = NoRecord
    /\ snapshot' = rows
    /\ UNCHANGED <<rows, unused, outcome, queue>>

Put(r, row) == rows' = [rows EXCEPT ![r] = row] /\ UNCHANGED <<outcome, queue, snapshot>>

CreateInPlace(c, r, row) ==
    /\ Running(c)
    /\ r \in unused
    /\ MayCreate(rows, r, row)
    /\ unused' = unused \ {r}
    /\ Put(r, row)

UpdateInPlace(c, r, row) ==
    /\ Running(c)
    /\ MayUpdate(rows, r, row)
    /\ Put(r, row)
    /\ UNCHANGED unused

DeleteInPlace(c, r) ==
    /\ Running(c)
    /\ MayDelete(rows, r)
    /\ Put(r, NoRecord)
    /\ UNCHANGED unused

End(result) ==
    /\ queue' = Tail(queue)
    /\ snapshot' = NoRecord
    /\ outcome' = result
    /\ UNCHANGED unused

Finish(c) == Running(c) /\ UNCHANGED rows /\ End("committed")

\* The documents' map left out of what is put back.
ThrowButDocuments(c) ==
    /\ Running(c)
    /\ rows' = [r \in Records |->
          IF KindOf[r] = "Document" THEN rows[r] ELSE snapshot[r]]
    /\ End("failed")

\* Any call may throw, and so may the work between two calls.
Throw(c) == Running(c) /\ rows' = snapshot /\ End("failed")

MemoryNext ==
    \E c \in Transactions :
        \/ Ask(c)
        \/ Start(c)
        \/ \E r \in Records : \E row \in Row(r) : CreateInPlace(c, r, row)
        \/ \E r \in Records : \E row \in Row(r) : UpdateInPlace(c, r, row)
        \/ \E r \in Records : DeleteInPlace(c, r)
        \/ Finish(c)
        \/ Throw(c)

=============================================================================
