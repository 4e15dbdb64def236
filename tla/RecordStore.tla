----------------------------- MODULE RecordStore -----------------------------
(***************************************************************************)
(* The store the services use: over PostgreSQL when a database is          *)
(* configured, in memory otherwise, and the same promise from both.        *)
(***************************************************************************)
EXTENDS MemoryRecords, PostgresRecords

VARIABLE adapter

vars == <<adapter, rows, unused, outcome, queue, snapshot, tx>>

Init ==
    /\ adapter \in {"memory", "postgres"}
    /\ RowsInit
    /\ MemoryInit
    /\ PostgresInit

Next ==
    \/ adapter = "memory" /\ MemoryNext /\ UNCHANGED <<adapter, tx>>
    \/ adapter = "postgres" /\ PostgresNext /\ UNCHANGED <<adapter, queue, snapshot>>

\* Over PostgreSQL there is no snapshot, and the rows are the committed ones.
Promise == INSTANCE RecordPromise WITH committed <- Committed

Spec == Init /\ [][Next]_vars

-----------------------------------------------------------------------------

\* A reference never dangles, not even in the rows a running in-memory
\* transaction shows to readers outside it: what an insert checks and what a
\* delete searches are the same references (relationshipValidator.ts:540-870,
\* PostgresPersistence.ts:446-570).
ReferencesHold == Consistent(rows)

\* Transactions are atomic, consistent and take no record's life backwards.
\* In memory because one runs at a time and a failed one restores every map
\* (store.ts:700-750); in PostgreSQL because a transaction is serializable
\* whether it is a service's or a single call's (PostgresIntegrityPersistence
\* .ts:124-140, 426-441).
StoreKeepsPromise == Promise!Spec

=============================================================================
