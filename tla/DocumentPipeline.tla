--------------------------- MODULE DocumentPipeline ---------------------------
(***************************************************************************)
(* The document pipeline: a Document row in PostgreSQL, its blob in the    *)
(* object store, and the audit-log events ("outbox") that coordinate the   *)
(* two.  Requests (upload, delete, retry) run concurrently on any replica; *)
(* each await of the source is a step of its own, a database transaction   *)
(* is one atomic step that may commit, abort, or commit without the caller *)
(* learning of it, and a request may be lost at any point.                 *)
(***************************************************************************)
EXTENDS Naturals, FiniteSets

CONSTANTS
    Docs,       \* document identifiers; an upload always takes a fresh one
    Workers,    \* request handlers, on any replica
    Drainers,   \* the handlers that may serve POST /documents/retry
    Limit,      \* the "limit" of a retry call
    MaxFaults,  \* bound on injected failures and crashes
    NoOp        \* no operation: a handler with nothing in hand

ASSUME PipelineAssumption ==
    /\ Limit \in Nat \ {0}
    /\ MaxFaults \in Nat
    /\ Drainers \subseteq Workers

StorageKinds == {"upload_cleanup", "delete_blob"}
ProcessKinds == {"process", "recovery"}

\* Audited operations.  A document has at most one of each kind: processDocument
\* is only called by uploadDocument, a delete transaction commits at most once,
\* and the recovery operation's id is derived from the document's.
Ops == [kind: StorageKinds \union ProcessKinds, doc: Docs]
Op(k, d) == [kind |-> k, doc |-> d]

ASSUME NoOpAssumption == NoOp \notin Ops

DocStates == {"absent", "processing", "indexed", "failed", "deleted"}
OpStates == {"none", "pending", "completed"}
PCs == {"idle",
        "put", "insert", "compensate", "settle",                  \* upload
        "announce", "run", "reopen", "extract", "index", "done",  \* processing
        "error", "report",
        "delete",                                                 \* delete
        "storage_lane", "drain_blob", "drain_settle",             \* retry
        "process_lane", "fetch"}

VARIABLES
    doc,     \* status of each document row
    blob,    \* documents whose blob is in the object store
    op,      \* state of each operation, as the audit log's readers derive it
    rank,    \* order in which operations first appeared in the audit log
    clock,   \* operations logged so far
    pc, cur, todo,   \* per handler: next step, operation in hand, batch left
    faults,  \* failures injected so far
    raced,   \* history: uploads whose cleanup was drained while in flight
    unacked  \* history: uploads whose row committed without acknowledgement

store == <<doc, blob, op, rank, clock>>
handlers == <<pc, cur, todo>>
history == <<raced, unacked>>
vars == <<store, handlers, faults, history>>

Live(d) == doc[d] \in {"processing", "indexed", "failed"}

Init ==
    /\ doc = [d \in Docs |-> "absent"]
    /\ blob = {}
    /\ op = [o \in Ops |-> "none"]
    /\ rank = [o \in Ops |-> 0]
    /\ clock = 0
    /\ pc = [w \in Workers |-> "idle"]
    /\ cur = [w \in Workers |-> NoOp]
    /\ todo = [w \in Workers |-> {}]
    /\ faults = 0
    /\ raced = {}
    /\ unacked = {}

-----------------------------------------------------------------------------
(* Helpers *)

At(w, label) == pc[w] = label
Goto(w, label) == pc' = [pc EXCEPT ![w] = label]
Doc(w) == cur[w].doc

\* The first event of an operation: it becomes pending and takes its place in
\* the log.  A later diagnostic event of the same operation changes neither.
LogPending(o) ==
    IF op[o] = "none"
    THEN /\ op' = [op EXCEPT ![o] = "pending"]
         /\ rank' = [rank EXCEPT ![o] = clock + 1]
         /\ clock' = clock + 1
    ELSE UNCHANGED <<op, rank, clock>>

LogCompleted(o) ==
    /\ op' = [op EXCEPT ![o] = "completed"]
    /\ UNCHANGED <<rank, clock>>

Fault ==
    /\ faults < MaxFaults
    /\ faults' = faults + 1

\* The first n members of S by the natural number key gives them.
FirstBy(S, key, n) ==
    {o \in S : Cardinality({p \in S : key[p] < key[o]}) < n}

Release(w) ==
    /\ Goto(w, "idle")
    /\ cur' = [cur EXCEPT ![w] = NoOp]
    /\ todo' = [todo EXCEPT ![w] = {}]

-----------------------------------------------------------------------------
(* uploadDocument *)

\* The first transaction records UPLOAD_PENDING under fresh ids.
BeginUpload(w) ==
    /\ At(w, "idle")
    /\ \E d \in Docs :
        LET o == Op("upload_cleanup", d) IN
        /\ op[o] = "none"
        /\ LogPending(o)
        /\ cur' = [cur EXCEPT ![w] = o]
    /\ Goto(w, "put")
    /\ UNCHANGED <<doc, blob, todo, faults, history>>

PutObject(w) ==
    /\ At(w, "put")
    /\ blob' = blob \union {Doc(w)}
    /\ Goto(w, "insert")
    /\ UNCHANGED <<doc, op, rank, clock, cur, todo, faults, history>>

\* putObject throws; the object may have been written all the same.
PutObjectFails(w) ==
    /\ At(w, "put")
    /\ Fault
    /\ blob' \in {blob, blob \union {Doc(w)}}
    /\ Goto(w, "compensate")
    /\ UNCHANGED <<doc, op, rank, clock, cur, todo, history>>

\* Mutant: the cleanup is left pending.
InsertRowOnly(w) ==
    /\ doc' = [doc EXCEPT ![Doc(w)] = "processing"]
    /\ UNCHANGED <<blob, op, rank, clock, todo>>

\* The second transaction: the row and COMPLETED(committed), together.
InsertRow(w) ==
    /\ doc' = [doc EXCEPT ![Doc(w)] = "processing"]
    /\ LogCompleted(cur[w])
    /\ UNCHANGED <<blob, todo>>

InsertCommits(w) ==
    /\ At(w, "insert")
    /\ InsertRow(w)
    /\ Goto(w, "announce")
    /\ cur' = [cur EXCEPT ![w] = Op("process", Doc(w))]
    /\ UNCHANGED <<faults, history>>

InsertAborts(w) ==
    /\ At(w, "insert")
    /\ Fault
    /\ Goto(w, "compensate")
    /\ UNCHANGED <<store, cur, todo, history>>

\* COMMIT is executed, but its acknowledgement is lost and the query rejects.
InsertUnacknowledged(w) ==
    /\ At(w, "insert")
    /\ Fault
    /\ InsertRow(w)
    /\ Goto(w, "compensate")
    /\ unacked' = unacked \union {Doc(w)}
    /\ UNCHANGED <<cur, raced>>

\* deleteBlobWithRetries, then COMPLETED, for compensateUpload, deleteDocument
\* ("compensate", "settle") and the storage lane ("drain_blob", "drain_settle").
RemoveBlob(w) ==
    /\ \/ At(w, "compensate") /\ Goto(w, "settle")
       \/ At(w, "drain_blob") /\ Goto(w, "drain_settle")
    /\ blob' = blob \ {Doc(w)}
    /\ UNCHANGED <<doc, op, rank, clock, cur, todo, faults, history>>

\* All inline attempts fail; recordStorageRetryRequired leaves the operation
\* pending.  The last attempt may have removed the object.
RemoveBlobFails(w) ==
    /\ Fault
    /\ \/ At(w, "compensate") /\ Release(w)
       \/ /\ At(w, "drain_blob")
          /\ Goto(w, "storage_lane")
          /\ UNCHANGED <<cur, todo>>
    /\ blob' \in {blob, blob \ {Doc(w)}}
    /\ UNCHANGED <<doc, op, rank, clock, history>>

CompleteStorageOperation(w) ==
    /\ \/ At(w, "settle") /\ Release(w)
       \/ /\ At(w, "drain_settle")
          /\ Goto(w, "storage_lane")
          /\ UNCHANGED <<cur, todo>>
    /\ LogCompleted(cur[w])
    /\ UNCHANGED <<doc, blob, faults, history>>

\* The COMPLETED event itself cannot be written.
CompleteStorageFails(w) ==
    /\ Fault
    /\ \/ At(w, "settle") /\ Release(w)
       \/ /\ At(w, "drain_settle")
          /\ Goto(w, "storage_lane")
          /\ UNCHANGED <<cur, todo>>
    /\ UNCHANGED <<store, history>>

-----------------------------------------------------------------------------
(* deleteDocument *)

BeginDelete(w) ==
    /\ At(w, "idle")
    /\ \E d \in Docs :
        /\ Live(d)
        /\ cur' = [cur EXCEPT ![w] = Op("delete_blob", d)]
    /\ Goto(w, "delete")
    /\ UNCHANGED <<store, todo, faults, history>>

\* Mutant: the deletion is not recorded.
DeleteRowUnrecorded(w) ==
    /\ doc' = [doc EXCEPT ![Doc(w)] = "deleted"]
    /\ UNCHANGED <<blob, op, rank, clock>>

\* One transaction: the row goes and DELETE_PENDING is recorded.
DeleteRow(w) ==
    /\ doc' = [doc EXCEPT ![Doc(w)] = "deleted"]
    /\ LogPending(cur[w])
    /\ UNCHANGED blob

DeleteCommits(w) ==
    /\ At(w, "delete")
    /\ Live(Doc(w))
    /\ DeleteRow(w)
    /\ Goto(w, "compensate")
    /\ UNCHANGED <<cur, todo, faults, history>>

\* A concurrent delete committed first: delete throws NotFound.
DeleteFindsNothing(w) ==
    /\ At(w, "delete")
    /\ ~Live(Doc(w))
    /\ Release(w)
    /\ UNCHANGED <<store, faults, history>>

DeleteUnacknowledged(w) ==
    /\ At(w, "delete")
    /\ Live(Doc(w))
    /\ Fault
    /\ DeleteRow(w)
    /\ Release(w)
    /\ UNCHANGED history

-----------------------------------------------------------------------------
(* processDocument and runProcessingOperation *)

\* PROCESS_PENDING is recorded by a write of its own, after the row committed.
AnnounceProcessing(w) ==
    /\ At(w, "announce")
    /\ LogPending(cur[w])
    /\ Goto(w, "run")
    /\ UNCHANGED <<doc, blob, cur, todo, faults, history>>

AnnounceFails(w) ==
    /\ At(w, "announce")
    /\ Fault
    /\ Release(w)
    /\ UNCHANGED <<store, history>>

\* The status read that decides how to go on.
ReadStatus(w) ==
    /\ At(w, "run")
    /\ Goto(w, CASE doc[Doc(w)] = "indexed"    -> "done"
                 [] doc[Doc(w)] = "failed"     -> "reopen"
                 [] doc[Doc(w)] = "processing" -> "extract"
                 [] OTHER                      -> "error")
    /\ UNCHANGED <<store, cur, todo, faults, history>>

\* documents.update within a transaction: the repository locks the row and
\* checks the transition against the status it finds then.
MayBecome(d, s) ==
    \/ doc[d] = s
    \/ <<doc[d], s>> \in {<<"processing", "indexed">>, <<"processing", "failed">>,
                          <<"failed", "processing">>}

UpdateStatus(w, label, s, next) ==
    /\ At(w, label)
    /\ \/ /\ MayBecome(Doc(w), s)
          /\ doc' = [doc EXCEPT ![Doc(w)] = s]
          /\ Goto(w, next)
          /\ UNCHANGED faults
       \/ /\ ~MayBecome(Doc(w), s)
          /\ Goto(w, "error")
          /\ UNCHANGED <<doc, faults>>
       \/ /\ Fault
          /\ Goto(w, "error")
          /\ UNCHANGED doc
       \/ /\ Fault                                  \* commit unacknowledged
          /\ MayBecome(Doc(w), s)
          /\ doc' = [doc EXCEPT ![Doc(w)] = s]
          /\ Goto(w, "error")
    /\ UNCHANGED <<blob, op, rank, clock, cur, todo, history>>

Reopen(w) == UpdateStatus(w, "reopen", "processing", "extract")
IndexRow(w) == UpdateStatus(w, "index", "indexed", "done")

\* Mutant: completion is recorded before the row is updated.
ExtractThenRecord(w) ==
    /\ At(w, "extract")
    /\ Goto(w, IF Live(Doc(w)) THEN "done" ELSE "error")
    /\ UNCHANGED <<store, cur, todo, faults, history>>

\* findById again, extraction, and the index's own look for the row.
Extract(w) ==
    /\ At(w, "extract")
    /\ Goto(w, IF Live(Doc(w)) THEN "index" ELSE "error")
    /\ UNCHANGED <<store, cur, todo, faults, history>>

\* Either read of the row, the extraction, or the indexing throws.
ExtractFails(w) ==
    /\ At(w, "run") \/ At(w, "extract")
    /\ Fault
    /\ Goto(w, "error")
    /\ UNCHANGED <<store, cur, todo, history>>

\* PROCESS_COMPLETED.
RecordProcessed(w) ==
    /\ At(w, "done")
    /\ LogCompleted(cur[w])
    /\ Goto(w, "process_lane")
    /\ UNCHANGED <<doc, blob, cur, todo, faults, history>>

RecordProcessedFails(w) ==
    /\ At(w, "done")
    /\ Fault
    /\ Goto(w, "error")
    /\ UNCHANGED <<store, cur, todo, history>>

\* Mutant: the row's status is not read again.
MarkAnyFailed(w) ==
    /\ At(w, "error")
    /\ doc' = [doc EXCEPT ![Doc(w)] = IF Live(Doc(w)) THEN "failed" ELSE @]
    /\ Goto(w, "report")
    /\ UNCHANGED <<blob, op, rank, clock, cur, todo, faults, history>>

\* markProcessingFailed: only a row still processing becomes failed, and the
\* method swallows its own errors.
MarkProcessingFailed(w) ==
    /\ At(w, "error")
    /\ doc' = [doc EXCEPT ![Doc(w)] = IF @ = "processing" THEN "failed" ELSE @]
    /\ Goto(w, "report")
    /\ UNCHANGED <<blob, op, rank, clock, cur, todo, faults, history>>

MarkProcessingFailedFails(w) ==
    /\ At(w, "error")
    /\ Fault
    /\ Goto(w, "report")
    /\ UNCHANGED <<store, cur, todo, history>>

\* PROCESS_RETRY_REQUIRED.
ReportRetry(w) ==
    /\ At(w, "report")
    /\ LogPending(cur[w])
    /\ Goto(w, "process_lane")
    /\ UNCHANGED <<doc, blob, cur, todo, faults, history>>

ReportRetryFails(w) ==
    /\ At(w, "report")
    /\ Fault
    /\ Goto(w, "process_lane")
    /\ UNCHANGED <<store, cur, todo, history>>

-----------------------------------------------------------------------------
(* retryPendingDocumentOperations: the storage lane, then the process lane *)

\* Mutants: completed operations are not filtered out; only deletes are drained.
RecordedStorage == {o \in Ops : o.kind \in StorageKinds /\ op[o] # "none"}
PendingDeletes == {o \in Ops : o.kind = "delete_blob" /\ op[o] = "pending"}

PendingStorage == {o \in Ops : o.kind \in StorageKinds /\ op[o] = "pending"}

\* The audit log is read newest first.
StorageBatch ==
    FirstBy(PendingStorage, [o \in PendingStorage |-> clock - rank[o]], Limit)

InFlight(d) ==
    \E w \in Workers : /\ pc[w] \in {"put", "insert"}
                       /\ cur[w] = Op("upload_cleanup", d)

BeginRetry(w) ==
    /\ w \in Drainers
    /\ At(w, "idle")
    /\ todo' = [todo EXCEPT ![w] = StorageBatch]
    /\ raced' = raced \union {d \in Docs : InFlight(d) /\ Op("upload_cleanup", d) \in StorageBatch}
    /\ Goto(w, "storage_lane")
    /\ UNCHANGED <<store, cur, faults, unacked>>

TakeStorageOperation(w) ==
    /\ At(w, "storage_lane")
    /\ \E o \in todo[w] :
        /\ cur' = [cur EXCEPT ![w] = o]
        /\ todo' = [todo EXCEPT ![w] = @ \ {o}]
    /\ Goto(w, "drain_blob")
    /\ UNCHANGED <<store, faults, history>>

LoggedProcessing == {o \in Ops : o.kind \in ProcessKinds /\ op[o] = "pending"}

\* Mutant: only failed rows are recovered.
StrandedFailed ==
    {Op("recovery", d) : d \in {e \in Docs :
        /\ doc[e] = "failed"
        /\ ~\E o \in LoggedProcessing : o.doc = e}}

\* Rows in processing or failed that no pending operation covers.
Stranded ==
    {Op("recovery", d) : d \in {e \in Docs :
        /\ doc[e] \in {"processing", "failed"}
        /\ ~\E o \in LoggedProcessing : o.doc = e}}

\* Logged operations oldest first, then stranded rows, newest document first.
ProcessBatch ==
    LET all == LoggedProcessing \union Stranded
        place == [o \in all |->
                    IF o \in LoggedProcessing
                    THEN rank[o]
                    ELSE 2 * clock + 1 - rank[Op("upload_cleanup", o.doc)]]
    IN  FirstBy(all, place, Limit)

EnterProcessLane(w) ==
    /\ At(w, "storage_lane")
    /\ todo[w] = {}
    /\ todo' = [todo EXCEPT ![w] = ProcessBatch]
    /\ Goto(w, "process_lane")
    /\ UNCHANGED <<store, cur, faults, history>>

\* The loop head of retryProcessingOperations reads the row: a missing row is
\* only reported (PROCESS_RETRY_REQUIRED of an operation already pending), an
\* indexed one completes the operation, any other needs its blob.
TakeProcessOperation(w) ==
    /\ At(w, "process_lane")
    /\ \E o \in todo[w] :
        /\ cur' = [cur EXCEPT ![w] = o]
        /\ todo' = [todo EXCEPT ![w] = @ \ {o}]
        /\ \/ ~Live(o.doc) /\ Goto(w, "process_lane") /\ UNCHANGED <<op, rank, clock>>
           \/ doc[o.doc] = "indexed" /\ Goto(w, "process_lane") /\ LogCompleted(o)
           \/ /\ doc[o.doc] \in {"processing", "failed"}
              /\ Goto(w, "fetch")
              /\ UNCHANGED <<op, rank, clock>>
    /\ UNCHANGED <<doc, blob, faults, history>>

\* The read throws, or PROCESS_COMPLETED cannot be written: on to the next.
TakeProcessOperationFails(w) ==
    /\ At(w, "process_lane")
    /\ Fault
    /\ \E o \in todo[w] :
        /\ cur' = [cur EXCEPT ![w] = o]
        /\ todo' = [todo EXCEPT ![w] = @ \ {o}]
    /\ UNCHANGED <<store, pc, history>>

\* getObject: without the blob there is no durable input to process.
FetchBlob(w) ==
    /\ At(w, "fetch")
    /\ Goto(w, IF Doc(w) \in blob THEN "run" ELSE "process_lane")
    /\ UNCHANGED <<store, cur, todo, faults, history>>

FetchBlobFails(w) ==
    /\ At(w, "fetch")
    /\ Fault
    /\ Goto(w, "process_lane")
    /\ UNCHANGED <<store, cur, todo, history>>

\* The request (an upload's processing, or a whole retry call) is answered.
Finish(w) ==
    /\ At(w, "process_lane")
    /\ todo[w] = {}
    /\ Release(w)
    /\ UNCHANGED <<store, faults, history>>

\* The replica serving the request stops.
Crash(w) ==
    /\ ~At(w, "idle")
    /\ Fault
    /\ Release(w)
    /\ UNCHANGED <<store, history>>

-----------------------------------------------------------------------------

\* What a request in progress does next when nothing fails.
Progress(w) ==
    \/ PutObject(w) \/ InsertCommits(w)
    \/ RemoveBlob(w) \/ CompleteStorageOperation(w)
    \/ DeleteCommits(w) \/ DeleteFindsNothing(w)
    \/ AnnounceProcessing(w) \/ ReadStatus(w) \/ Reopen(w) \/ Extract(w) \/ IndexRow(w)
    \/ RecordProcessed(w) \/ MarkProcessingFailed(w) \/ ReportRetry(w)
    \/ TakeStorageOperation(w) \/ EnterProcessLane(w)
    \/ TakeProcessOperation(w) \/ FetchBlob(w) \/ Finish(w)

Failure(w) ==
    \/ PutObjectFails(w) \/ InsertAborts(w) \/ InsertUnacknowledged(w)
    \/ RemoveBlobFails(w) \/ CompleteStorageFails(w) \/ DeleteUnacknowledged(w)
    \/ AnnounceFails(w) \/ ExtractFails(w) \/ RecordProcessedFails(w)
    \/ MarkProcessingFailedFails(w) \/ ReportRetryFails(w) \/ FetchBlobFails(w)
    \/ TakeProcessOperationFails(w) \/ Crash(w)

Next ==
    \E w \in Workers :
        BeginUpload(w) \/ BeginDelete(w) \/ BeginRetry(w) \/ Progress(w) \/ Failure(w)

Spec == Init /\ [][Next]_vars

\* A request in progress goes on, and retry calls keep arriving.  Uploads and
\* deletes need never come.
FairSpec ==
    /\ Spec
    /\ \A w \in Workers : WF_vars(Progress(w))
    /\ WF_vars(\E w \in Drainers : BeginRetry(w))

-----------------------------------------------------------------------------

TypeOK ==
    /\ doc \in [Docs -> DocStates]
    /\ blob \subseteq Docs
    /\ op \in [Ops -> OpStates]
    /\ rank \in [Ops -> Nat]
    /\ clock \in Nat
    /\ pc \in [Workers -> PCs]
    /\ cur \in [Workers -> Ops \union {NoOp}]
    /\ todo \in [Workers -> SUBSET Ops]
    /\ faults \in 0..MaxFaults
    /\ raced \subseteq Docs
    /\ unacked \subseteq Docs

\* A live row has its blob, unless its upload's cleanup was drained while the
\* upload was in flight, or the upload compensated a commit it did not hear of
\* (documentService.ts: compensateUpload, retryPendingStorageOperations).
RowHasBlob ==
    \A d \in Docs \ (raced \union unacked) : Live(d) => d \in blob

\* A blob without a live row is never forgotten: some storage operation for
\* the document is still pending, whatever crashed, except for an upload whose
\* cleanup was drained while it was in flight.
NoForgottenBlob ==
    \A d \in blob \ raced :
        ~Live(d) => \E k \in StorageKinds : op[Op(k, d)] = "pending"

\* PROCESS_COMPLETED is only ever recorded of a document that is indexed, and
\* stays true of it until the row is deleted, however many requests process
\* the same document at once (documentConsistencyService.ts).
CompletedMeansSettled ==
    \A d \in Docs, k \in ProcessKinds :
        op[Op(k, d)] = "completed" => doc[d] \in {"indexed", "deleted"}

\* No step takes an indexed row back to processing or failed, and none brings
\* a deleted row back, even with stale reads in other handlers.
IndexedIsStable ==
    [][\A d \in Docs :
        /\ doc[d] = "indexed" => doc'[d] \in {"indexed", "deleted"}
        /\ doc[d] = "deleted" => doc'[d] = "deleted"]_vars

\* A deletion of the document's blob is on record and still to be confirmed.
Owed(d) == \E k \in StorageKinds : op[Op(k, d)] = "pending"

\* Every blob the outbox owes a deletion is removed in the end, be it that of a
\* deleted document or one that a failed or crashed upload left behind, unless
\* the upload was only in flight: then its row commits, or its cleanup was
\* drained under it (retryPendingStorageOperations).
OwedDeletionsHappen ==
    \A d \in Docs :
        (d \in blob /\ Owed(d))
            ~> (d \notin blob \/ Live(d) \/ (d \in raced /\ doc[d] = "absent"))

Unsettled(d) == doc[d] \in {"processing", "failed"}

\* Operations in a retry's reach that no attempt can complete: the document is
\* gone, or its blob is.
Hopeless ==
    {o \in LoggedProcessing \union Stranded :
        ~Live(o.doc) \/ (Unsettled(o.doc) /\ o.doc \notin blob)}

\* Whatever crashed, also between the row's commit and PROCESS_PENDING: a
\* document left in processing or failed with its blob in place is indexed in
\* the end, or deleted, provided that operations which never complete leave
\* room in a batch (NotStranded is the claim without this proviso).
RecoveredIfReached ==
    \A d \in Docs :
        (Unsettled(d) /\ d \in blob)
            ~> \/ doc[d] \in {"indexed", "deleted"} \/ d \notin blob
               \/ Cardinality(Hopeless) >= Limit

\* documentConsistencyService.ts:246-249: the recovery of rows without an
\* operation exists "so the document cannot remain permanently stranded in
\* processing/failed".
NotStranded ==
    \A d \in Docs :
        (Unsettled(d) /\ d \in blob)
            ~> (doc[d] \in {"indexed", "deleted"} \/ d \notin blob)

\* The outbox comment's reading of the drain: a delete it retries is safe, so
\* a live row always has its blob.
DrainIsSafe == \A d \in Docs : Live(d) /\ d \notin unacked => d \in blob

-----------------------------------------------------------------------------
(* The promise *)

\* The upload was compensated, or the document deleted, to the end.
Settled(d) ==
    \/ doc[d] = "absent" /\ op[Op("upload_cleanup", d)] = "completed"
    \/ doc[d] = "deleted" /\ op[Op("delete_blob", d)] = "completed"

AbstractDocument(d) ==
    IF d \in raced \union unacked
    THEN [row |-> "waived", stored |-> FALSE, owed |-> FALSE]
    ELSE [row |-> IF Settled(d) THEN "gone" ELSE doc[d], stored |-> d \in blob, owed |-> Owed(d)]

abstract == [d \in Docs |-> AbstractDocument(d)]

Promise == INSTANCE DocumentPromise WITH document <- abstract

\* Row, blob and outbox keep the promise of DocumentPromise, whatever fails.
KeepsPromise == Promise!Spec

-----------------------------------------------------------------------------
(* The inductive invariant behind CompletedMeansSettled and IndexedIsStable *)

UploadPCs == {"put", "insert"}
StoragePCs == {"compensate", "settle", "drain_blob", "drain_settle"}
ProcessPCs == {"announce", "run", "reopen", "extract", "index", "done", "error", "report", "fetch"}

\* What a handler holds fits the step it is at.
InHand ==
    \A w \in Workers :
        /\ pc[w] \in UploadPCs => cur[w] \in [kind: {"upload_cleanup"}, doc: Docs]
        /\ pc[w] \in StoragePCs => cur[w] \in [kind: StorageKinds, doc: Docs]
        /\ pc[w] \in ProcessPCs => cur[w] \in [kind: ProcessKinds, doc: Docs]
        /\ pc[w] = "delete" => cur[w] \in [kind: {"delete_blob"}, doc: Docs]
        /\ todo[w] \subseteq
             [kind: IF pc[w] \in {"storage_lane", "drain_blob", "drain_settle"}
                    THEN StorageKinds ELSE ProcessKinds,
              doc: Docs]

\* A row exists only after its upload was announced.
FreshRows == \A d \in Docs : op[Op("upload_cleanup", d)] = "none" => doc[d] = "absent"

\* An upload in flight is announced, has no row yet, and is one handler's alone.
UploadsApart ==
    \A w \in Workers : pc[w] \in UploadPCs =>
        /\ op[cur[w]] # "none"
        /\ doc[cur[w].doc] = "absent"
        /\ \A v \in Workers : pc[v] \in UploadPCs /\ v # w => cur[v].doc # cur[w].doc

\* A handler about to record PROCESS_COMPLETED holds a settled document.
DoneSettled ==
    \A w \in Workers : pc[w] = "done" => doc[cur[w].doc] \in {"indexed", "deleted"}

IInv ==
    /\ TypeOK /\ InHand /\ FreshRows /\ UploadsApart /\ DoneSettled /\ CompletedMeansSettled

-----------------------------------------------------------------------------
(* The inductive invariant behind RowHasBlob and NoForgottenBlob *)

\* Storage operations handler w is to carry out.
Assigned(w) ==
    (IF pc[w] \in StoragePCs THEN {cur[w]} ELSE {})
        \union {o \in todo[w] : o.kind \in StorageKinds}

\* A delete operation exists only once the row is gone; an upload's cleanup is
\* pending only as long as there is no row.
OpsMatchRows ==
    \A d \in Docs :
        /\ op[Op("delete_blob", d)] # "none" => doc[d] = "deleted"
        /\ op[Op("upload_cleanup", d)] = "pending" => doc[d] = "absent"

\* An operation assigned to a handler concerns a document that has no row and
\* no upload in flight, up to the two histories.
AssignedSafely ==
    \A w \in Workers : \A o \in Assigned(w) :
        /\ op[o] # "none"
        /\ Live(o.doc) => o.doc \in raced \union unacked
        /\ \A v \in Workers : pc[v] \in UploadPCs /\ cur[v].doc = o.doc => o.doc \in raced

\* The cleanup of an upload in flight is pending, and its blob is there once put.
UploadsCovered ==
    \A w \in Workers : pc[w] \in UploadPCs /\ cur[w].doc \notin raced =>
        /\ op[cur[w]] = "pending"
        /\ pc[w] = "insert" => cur[w].doc \in blob

\* A storage operation is completed only when its blob is gone.
SettledGone ==
    \A w \in Workers : pc[w] \in {"settle", "drain_settle"} => cur[w].doc \notin blob \ raced

BlobInv ==
    /\ OpsMatchRows /\ AssignedSafely /\ UploadsCovered /\ SettledGone
    /\ RowHasBlob /\ NoForgottenBlob
=============================================================================
