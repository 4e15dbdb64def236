------------------------ MODULE DocumentPipelineProofs ------------------------
(***************************************************************************)
(* Proofs about DocumentPipeline, for any documents, handlers, retry limit *)
(* and number of failures.  IInv and BlobInv are inductive; the theorems   *)
(* are read off them, and with them every step is one of DocumentPromise.  *)
(***************************************************************************)
EXTENDS DocumentPipeline, TLAPS

LEMMA Initially == Init => IInv
  BY PipelineAssumption DEF Init, IInv, TypeOK, InHand, FreshRows, UploadsApart, DoneSettled,
     CompletedMeansSettled, Op, Ops, DocStates, OpStates, PCs, UploadPCs, StoragePCs,
     ProcessPCs, StorageKinds, ProcessKinds

\* The first event of an operation makes it pending; another changes nothing.
LEMMA LogPendingEffect ==
  ASSUME TypeOK, NEW o \in Ops, LogPending(o)
  PROVE  /\ op' \in [Ops -> OpStates]
         /\ rank' \in [Ops -> Nat]
         /\ clock' \in Nat
         /\ \A p \in Ops : op'[p] = IF p = o /\ op[p] = "none" THEN "pending" ELSE op[p]
<1>1. CASE op[o] = "none"  BY <1>1 DEF LogPending, TypeOK, OpStates
<1>2. CASE op[o] # "none"  BY <1>2 DEF LogPending, TypeOK
<1>3. QED BY <1>1, <1>2

\* A new upload takes a document no other handler holds: the others' cleanup
\* operations are already in the log, this one's is not.
LEMMA BeginUploadStep ==
  ASSUME IInv, NEW w \in Workers, BeginUpload(w)
  PROVE  IInv'
<1> USE PipelineAssumption DEF IInv, Op, Ops, StorageKinds, ProcessKinds
<1>1. PICK d \in Docs :
        /\ op[Op("upload_cleanup", d)] = "none"
        /\ op' = [op EXCEPT ![Op("upload_cleanup", d)] = "pending"]
        /\ rank' = [rank EXCEPT ![Op("upload_cleanup", d)] = clock + 1]
        /\ clock' = clock + 1
        /\ cur' = [cur EXCEPT ![w] = Op("upload_cleanup", d)]
  BY DEF BeginUpload, LogPending
<1>2. /\ pc[w] = "idle" /\ pc' = [pc EXCEPT ![w] = "put"]
      /\ UNCHANGED <<doc, blob, todo, faults, raced, unacked>>
  BY DEF BeginUpload, At, Goto, history
<1>3. doc[d] = "absent"
  BY <1>1 DEF FreshRows
<1>4. TypeOK'
  BY <1>1, <1>2 DEF TypeOK, OpStates, PCs
<1>5. InHand'
  BY <1>1, <1>2 DEF TypeOK, InHand, UploadPCs, StoragePCs, ProcessPCs
<1>6. FreshRows'
  BY <1>1, <1>2 DEF TypeOK, FreshRows
<1>7. UploadsApart'
  <2>1. ASSUME NEW v \in Workers, v # w, pc[v] \in UploadPCs
        PROVE  cur[v].doc # d /\ op'[cur[v]] # "none" /\ doc'[cur[v].doc] = "absent"
    <3>1. cur[v] = Op("upload_cleanup", cur[v].doc) /\ cur[v].doc \in Docs
      BY <2>1 DEF InHand
    <3>2. cur[v].doc # d
      BY <2>1, <3>1, <1>1 DEF UploadsApart
    <3>3. QED
      BY <1>1, <1>2, <2>1, <3>1, <3>2 DEF TypeOK, UploadsApart
  <2>2. \A v \in Workers : v # w => cur'[v] = cur[v] /\ pc'[v] = pc[v]
    BY <1>1, <1>2 DEF TypeOK
  <2>3. cur'[w] = Op("upload_cleanup", d) /\ op'[Op("upload_cleanup", d)] # "none"
    BY <1>1 DEF TypeOK
  <2>4. QED
    BY <1>2, <1>3, <2>1, <2>2, <2>3 DEF UploadsApart
<1>8. DoneSettled'
  BY <1>1, <1>2 DEF TypeOK, DoneSettled
<1>9. CompletedMeansSettled'
  BY <1>1, <1>2 DEF TypeOK, CompletedMeansSettled
<1>10. QED
  BY <1>4, <1>5, <1>6, <1>7, <1>8, <1>9

LEMMA UploadSteps ==
  ASSUME IInv, NEW w \in Workers,
         PutObject(w) \/ PutObjectFails(w) \/ InsertCommits(w)
         \/ InsertAborts(w) \/ InsertUnacknowledged(w)
  PROVE  IInv'
<1> USE PipelineAssumption
    DEF IInv, TypeOK, InHand, FreshRows, UploadsApart, DoneSettled, CompletedMeansSettled,
        Op, Ops, DocStates, OpStates, PCs, UploadPCs, StoragePCs, ProcessPCs,
        StorageKinds, ProcessKinds, At, Goto, Doc, LogCompleted, Fault, Release,
        InsertRow, store, history
<1>1. CASE PutObject(w)  BY <1>1 DEF PutObject
<1>2. CASE PutObjectFails(w)  BY <1>2 DEF PutObjectFails
<1>3. CASE InsertCommits(w)  BY <1>3 DEF InsertCommits
<1>4. CASE InsertAborts(w)  BY <1>4 DEF InsertAborts
<1>5. CASE InsertUnacknowledged(w)  BY <1>5 DEF InsertUnacknowledged
<1>6. QED BY <1>1, <1>2, <1>3, <1>4, <1>5

LEMMA StorageSteps ==
  ASSUME IInv, NEW w \in Workers,
         RemoveBlob(w) \/ RemoveBlobFails(w) \/ CompleteStorageOperation(w)
         \/ CompleteStorageFails(w) \/ Finish(w) \/ Crash(w)
  PROVE  IInv'
<1> USE PipelineAssumption
    DEF IInv, TypeOK, InHand, FreshRows, UploadsApart, DoneSettled, CompletedMeansSettled,
        Op, Ops, DocStates, OpStates, PCs, UploadPCs, StoragePCs, ProcessPCs,
        StorageKinds, ProcessKinds, At, Goto, Doc, LogCompleted, Fault, Release,
        store, history
<1>1. CASE RemoveBlob(w)  BY <1>1 DEF RemoveBlob
<1>2. CASE RemoveBlobFails(w)  BY <1>2 DEF RemoveBlobFails
<1>3. CASE CompleteStorageOperation(w)  BY <1>3 DEF CompleteStorageOperation
<1>4. CASE CompleteStorageFails(w)  BY <1>4 DEF CompleteStorageFails
<1>5. CASE Finish(w)  BY <1>5 DEF Finish
<1>6. CASE Crash(w)  BY <1>6 DEF Crash
<1>7. QED BY <1>1, <1>2, <1>3, <1>4, <1>5, <1>6

LEMMA DeleteSteps ==
  ASSUME IInv, NEW w \in Workers,
         BeginDelete(w) \/ DeleteCommits(w) \/ DeleteFindsNothing(w) \/ DeleteUnacknowledged(w)
  PROVE  IInv'
<1> USE PipelineAssumption
    DEF IInv, TypeOK, InHand, FreshRows, UploadsApart, DoneSettled, CompletedMeansSettled,
        Op, Ops, DocStates, OpStates, PCs, UploadPCs, StoragePCs, ProcessPCs,
        StorageKinds, ProcessKinds, At, Goto, Doc, Fault, Release, Live,
        DeleteRow, store, history
<1>1. CASE BeginDelete(w)  BY <1>1 DEF BeginDelete
<1>2. CASE DeleteCommits(w)
  <2>1. cur[w] \in Ops /\ LogPending(cur[w])  BY <1>2 DEF DeleteCommits
  <2>2. QED BY <1>2, <2>1, LogPendingEffect DEF DeleteCommits
<1>3. CASE DeleteFindsNothing(w)  BY <1>3 DEF DeleteFindsNothing
<1>4. CASE DeleteUnacknowledged(w)
  <2>1. cur[w] \in Ops /\ LogPending(cur[w])  BY <1>4 DEF DeleteUnacknowledged
  <2>2. QED BY <1>4, <2>1, LogPendingEffect DEF DeleteUnacknowledged
<1>5. QED BY <1>1, <1>2, <1>3, <1>4

LEMMA ProcessingSteps ==
  ASSUME IInv, NEW w \in Workers,
         AnnounceProcessing(w) \/ AnnounceFails(w) \/ ReadStatus(w) \/ Reopen(w)
         \/ IndexRow(w) \/ Extract(w) \/ ExtractFails(w) \/ RecordProcessed(w)
         \/ RecordProcessedFails(w)
  PROVE  IInv'
<1> USE PipelineAssumption
    DEF IInv, TypeOK, InHand, FreshRows, UploadsApart, DoneSettled, CompletedMeansSettled,
        Op, Ops, DocStates, OpStates, PCs, UploadPCs, StoragePCs, ProcessPCs,
        StorageKinds, ProcessKinds, At, Goto, Doc, LogCompleted, Fault,
        Release, MayBecome, UpdateStatus, store, history
<1>1. CASE AnnounceProcessing(w)
  <2>1. cur[w] \in Ops /\ LogPending(cur[w])  BY <1>1 DEF AnnounceProcessing
  <2>2. QED BY <1>1, <2>1, LogPendingEffect DEF AnnounceProcessing
<1>2. CASE AnnounceFails(w)  BY <1>2 DEF AnnounceFails
<1>3. CASE ReadStatus(w)  BY <1>3 DEF ReadStatus
<1>4. CASE Reopen(w)  BY <1>4 DEF Reopen
<1>5. CASE IndexRow(w)  BY <1>5 DEF IndexRow
<1>6. CASE Extract(w)  BY <1>6 DEF Extract
<1>7. CASE ExtractFails(w)  BY <1>7 DEF ExtractFails
<1>8. CASE RecordProcessed(w)  BY <1>8 DEF RecordProcessed
<1>9. CASE RecordProcessedFails(w)  BY <1>9 DEF RecordProcessedFails
<1>10. QED BY <1>1, <1>2, <1>3, <1>4, <1>5, <1>6, <1>7, <1>8, <1>9

LEMMA FailureReports ==
  ASSUME IInv, NEW w \in Workers,
         MarkProcessingFailed(w) \/ MarkProcessingFailedFails(w) \/ ReportRetry(w)
         \/ ReportRetryFails(w) \/ FetchBlob(w) \/ FetchBlobFails(w)
  PROVE  IInv'
<1> USE PipelineAssumption
    DEF IInv, TypeOK, InHand, FreshRows, UploadsApart, DoneSettled, CompletedMeansSettled,
        Op, Ops, DocStates, OpStates, PCs, UploadPCs, StoragePCs, ProcessPCs,
        StorageKinds, ProcessKinds, At, Goto, Doc, Fault, store, history
<1>1. CASE MarkProcessingFailed(w)  BY <1>1 DEF MarkProcessingFailed
<1>2. CASE MarkProcessingFailedFails(w)  BY <1>2 DEF MarkProcessingFailedFails
<1>3. CASE ReportRetry(w)
  <2>1. cur[w] \in Ops /\ LogPending(cur[w])  BY <1>3 DEF ReportRetry
  <2>2. QED BY <1>3, <2>1, LogPendingEffect DEF ReportRetry
<1>4. CASE ReportRetryFails(w)  BY <1>4 DEF ReportRetryFails
<1>5. CASE FetchBlob(w)  BY <1>5 DEF FetchBlob
<1>6. CASE FetchBlobFails(w)  BY <1>6 DEF FetchBlobFails
<1>7. QED BY <1>1, <1>2, <1>3, <1>4, <1>5, <1>6

\* A batch holds operations of its lane's kinds only.
LEMMA Batches ==
  /\ StorageBatch \subseteq [kind: StorageKinds, doc: Docs]
  /\ ProcessBatch \subseteq [kind: ProcessKinds, doc: Docs]
<1>1. \A S, key, n : FirstBy(S, key, n) \subseteq S
  BY DEF FirstBy
<1>2. PendingStorage \subseteq [kind: StorageKinds, doc: Docs]
  BY DEF PendingStorage, Ops
<1>3. LoggedProcessing \union Stranded \subseteq [kind: ProcessKinds, doc: Docs]
  BY DEF LoggedProcessing, Stranded, Ops, Op, ProcessKinds
<1>4. QED
  BY <1>1, <1>2, <1>3 DEF StorageBatch, ProcessBatch

LEMMA RetrySteps ==
  ASSUME IInv, NEW w \in Workers,
         BeginRetry(w) \/ TakeStorageOperation(w) \/ EnterProcessLane(w)
         \/ TakeProcessOperation(w) \/ TakeProcessOperationFails(w)
  PROVE  IInv'
<1> USE PipelineAssumption, Batches
    DEF IInv, TypeOK, InHand, FreshRows, UploadsApart, DoneSettled, CompletedMeansSettled,
        Op, Ops, DocStates, OpStates, PCs, UploadPCs, StoragePCs, ProcessPCs,
        StorageKinds, ProcessKinds, At, Goto, LogCompleted, Live, store, history
<1>1. CASE BeginRetry(w)  BY <1>1 DEF BeginRetry
<1>2. CASE TakeStorageOperation(w)  BY <1>2 DEF TakeStorageOperation
<1>3. CASE EnterProcessLane(w)  BY <1>3 DEF EnterProcessLane
<1>4. CASE TakeProcessOperation(w)
  <2>1. PICK o \in todo[w] :
          /\ cur' = [cur EXCEPT ![w] = o]
          /\ todo' = [todo EXCEPT ![w] = @ \ {o}]
          /\ \/ ~Live(o.doc) /\ Goto(w, "process_lane") /\ UNCHANGED <<op, rank, clock>>
             \/ doc[o.doc] = "indexed" /\ Goto(w, "process_lane") /\ LogCompleted(o)
             \/ /\ doc[o.doc] \in {"processing", "failed"}
                /\ Goto(w, "fetch")
                /\ UNCHANGED <<op, rank, clock>>
    BY <1>4 DEF TakeProcessOperation
  <2>2. /\ o \in [kind: ProcessKinds, doc: Docs]
        /\ pc[w] = "process_lane"
        /\ UNCHANGED <<doc, blob, faults, raced, unacked>>
    BY <1>4 DEF TakeProcessOperation
  <2>3. CASE Goto(w, "process_lane") /\ UNCHANGED <<op, rank, clock>>
    BY <2>1, <2>2, <2>3
  <2>4. CASE doc[o.doc] = "indexed" /\ Goto(w, "process_lane") /\ LogCompleted(o)
    BY <2>1, <2>2, <2>4
  <2>5. CASE Goto(w, "fetch") /\ UNCHANGED <<op, rank, clock>>
    BY <2>1, <2>2, <2>5
  <2>6. QED BY <2>1, <2>3, <2>4, <2>5
<1>5. CASE TakeProcessOperationFails(w)
  <2>1. PICK o \in todo[w] :
          /\ cur' = [cur EXCEPT ![w] = o]
          /\ todo' = [todo EXCEPT ![w] = @ \ {o}]
    BY <1>5 DEF TakeProcessOperationFails
  <2>2. /\ o \in [kind: ProcessKinds, doc: Docs]
        /\ pc[w] = "process_lane" /\ Fault
        /\ UNCHANGED <<doc, blob, op, rank, clock, pc, raced, unacked>>
    BY <1>5 DEF TakeProcessOperationFails
  <2>3. faults' \in 0..MaxFaults
    BY <2>2 DEF Fault
  <2>4. QED BY <2>1, <2>2, <2>3
<1>6. QED BY <1>1, <1>2, <1>3, <1>4, <1>5

LEMMA StepInvariant == IInv /\ [Next]_vars => IInv'
<1> SUFFICES ASSUME IInv, [Next]_vars PROVE IInv'
  OBVIOUS
<1>1. CASE UNCHANGED vars
  BY <1>1 DEF vars, store, handlers, history, IInv, TypeOK, InHand, FreshRows,
     UploadsApart, DoneSettled, CompletedMeansSettled
<1>2. ASSUME NEW w \in Workers,
             BeginUpload(w) \/ BeginDelete(w) \/ BeginRetry(w) \/ Progress(w) \/ Failure(w)
      PROVE  IInv'
  BY <1>2, BeginUploadStep, UploadSteps, StorageSteps, DeleteSteps, ProcessingSteps,
     FailureReports, RetrySteps DEF Progress, Failure
<1>3. QED
  BY <1>1, <1>2 DEF Next

\* The inductive invariant holds throughout.
THEOREM Invariance == Spec => []IInv
  BY Initially, StepInvariant, PTL DEF Spec

\* Every variable keeps its type.
THEOREM TypeCorrect == Spec => []TypeOK
<1>1. IInv => TypeOK  BY DEF IInv
<1>2. QED BY <1>1, Invariance, PTL

\* PROCESS_COMPLETED is only recorded of indexed documents, and they stay so.
THEOREM CompletionSettles == Spec => []CompletedMeansSettled
<1>1. IInv => CompletedMeansSettled  BY DEF IInv
<1>2. QED BY <1>1, Invariance, PTL

-----------------------------------------------------------------------------

LEMMA BlobInitially == Init => BlobInv
  BY DEF Init, BlobInv, OpsMatchRows, AssignedSafely, Assigned, UploadsCovered, SettledGone,
     RowHasBlob, NoForgottenBlob, Live, Op, Ops, StorageKinds, ProcessKinds, UploadPCs, StoragePCs

\* An operation is its kind and its document.
LEMMA OpIdentity ==
  \A j, k \in StorageKinds \union ProcessKinds : \A d, e \in Docs :
    Op(j, e) \in Ops /\ (Op(j, e) = Op(k, d) <=> j = k /\ e = d)
  BY DEF Op, Ops

LEMMA KindsApart ==
  /\ "upload_cleanup" \in StorageKinds \union ProcessKinds
  /\ "delete_blob" \in StorageKinds \union ProcessKinds
  /\ "upload_cleanup" \in StorageKinds /\ "delete_blob" \in StorageKinds
  /\ "upload_cleanup" # "delete_blob"
  BY DEF StorageKinds

LEMMA AnnouncedUploadOps ==
  ASSUME TypeOK, OpsMatchRows, NEW d \in Docs, doc[d] = "absent", UNCHANGED doc,
         op' = [op EXCEPT ![Op("upload_cleanup", d)] = "pending"]
  PROVE  OpsMatchRows'
<1>1. \A j \in StorageKinds \union ProcessKinds, e \in Docs :
        op'[Op(j, e)] = IF j = "upload_cleanup" /\ e = d THEN "pending" ELSE op[Op(j, e)]
  BY OpIdentity, KindsApart DEF TypeOK
<1>2. QED  BY <1>1, KindsApart DEF OpsMatchRows

LEMMA InsertedRowOps ==
  ASSUME TypeOK, OpsMatchRows, NEW d \in Docs, doc[d] = "absent",
         doc' = [doc EXCEPT ![d] = "processing"],
         op' = [op EXCEPT ![Op("upload_cleanup", d)] = "completed"]
  PROVE  OpsMatchRows'
<1>1. doc \in [Docs -> DocStates]  BY DEF TypeOK
<1>2. \A j \in StorageKinds \union ProcessKinds, e \in Docs :
        op'[Op(j, e)] = IF j = "upload_cleanup" /\ e = d THEN "completed" ELSE op[Op(j, e)]
  BY OpIdentity, KindsApart DEF TypeOK
<1>3. QED  BY <1>1, <1>2, KindsApart DEF OpsMatchRows

LEMMA DeletedRowOps ==
  ASSUME TypeOK, OpsMatchRows, NoForgottenBlob, NEW d \in Docs, Live(d),
         doc' = [doc EXCEPT ![d] = "deleted"], UNCHANGED <<blob, raced>>,
         LogPending(Op("delete_blob", d))
  PROVE  /\ op' = [op EXCEPT ![Op("delete_blob", d)] = "pending"]
         /\ OpsMatchRows' /\ NoForgottenBlob'
<1>1. doc \in [Docs -> DocStates]  BY DEF TypeOK
<1>2. op[Op("delete_blob", d)] = "none"
  BY DEF OpsMatchRows, Live
<1>3. op' = [op EXCEPT ![Op("delete_blob", d)] = "pending"]
  BY <1>2 DEF LogPending
<1>4. \A j \in StorageKinds \union ProcessKinds, e \in Docs :
        op'[Op(j, e)] = IF j = "delete_blob" /\ e = d THEN "pending" ELSE op[Op(j, e)]
  BY <1>3, OpIdentity, KindsApart DEF TypeOK
<1>5. OpsMatchRows'
  BY <1>1, <1>4, KindsApart DEF OpsMatchRows, Live
<1>6. NoForgottenBlob'
  <2>1. StorageKinds \subseteq StorageKinds \union ProcessKinds
    OBVIOUS
  <2>2. \A e \in Docs : e # d => (Live(e)' <=> Live(e))
    BY <1>1 DEF Live
  <2>3. \A e \in blob \ raced : e \in Docs
    BY DEF TypeOK
  <2>4. QED BY <1>4, <2>1, <2>2, <2>3, KindsApart DEF NoForgottenBlob
<1>7. QED  BY <1>3, <1>5, <1>6

LEMMA BlobUploadSteps ==
  ASSUME IInv, BlobInv, NEW w \in Workers,
         PutObject(w) \/ PutObjectFails(w) \/ InsertCommits(w)
         \/ InsertAborts(w) \/ InsertUnacknowledged(w)
  PROVE  BlobInv'
<1> USE DEF IInv, TypeOK, InHand, FreshRows, UploadsApart, BlobInv, OpsMatchRows,
        AssignedSafely, Assigned, UploadsCovered, SettledGone, RowHasBlob, NoForgottenBlob,
        Live, Op, Ops, UploadPCs, StoragePCs, ProcessPCs, StorageKinds, ProcessKinds,
        At, Goto, Doc, LogCompleted, InsertRow, store, history
<1>1. CASE PutObject(w)  BY <1>1 DEF PutObject
<1>2. CASE PutObjectFails(w)  BY <1>2 DEF PutObjectFails
<1>3. CASE InsertCommits(w)
  <2>1. /\ cur[w] \in [kind: {"upload_cleanup"}, doc: Docs] /\ pc[w] = "insert"
        /\ cur[w] = Op("upload_cleanup", cur[w].doc)
    BY <1>3 DEF InsertCommits
  <2>2. /\ doc' = [doc EXCEPT ![cur[w].doc] = "processing"]
        /\ op' = [op EXCEPT ![cur[w]] = "completed"]
        /\ UNCHANGED <<blob, todo, raced>>
    BY <1>3 DEF InsertCommits
  <2>3. OpsMatchRows'
    <3>1. doc[cur[w].doc] = "absent" /\ cur[w].doc \in Docs
      BY <2>1
    <3>2. QED BY <2>1, <2>2, <3>1, InsertedRowOps
  <2>4. AssignedSafely'  BY <1>3, <2>1, <2>2 DEF InsertCommits
  <2>5. UploadsCovered'  BY <1>3, <2>1, <2>2 DEF InsertCommits
  <2>6. SettledGone'  BY <1>3, <2>1, <2>2 DEF InsertCommits
  <2>7. RowHasBlob'  BY <1>3, <2>1, <2>2 DEF InsertCommits
  <2>8. NoForgottenBlob'  BY <1>3, <2>1, <2>2 DEF InsertCommits
  <2>9. QED BY <2>3, <2>4, <2>5, <2>6, <2>7, <2>8
<1>4. CASE InsertAborts(w)  BY <1>4 DEF InsertAborts
<1>5. CASE InsertUnacknowledged(w)
  <2>1. /\ cur[w] \in [kind: {"upload_cleanup"}, doc: Docs] /\ pc[w] = "insert"
        /\ cur[w] = Op("upload_cleanup", cur[w].doc)
    BY <1>5 DEF InsertUnacknowledged
  <2>2. /\ doc' = [doc EXCEPT ![cur[w].doc] = "processing"]
        /\ op' = [op EXCEPT ![cur[w]] = "completed"]
        /\ UNCHANGED <<blob, todo, raced>>
    BY <1>5 DEF InsertUnacknowledged
  <2>3. OpsMatchRows'
    <3>1. doc[cur[w].doc] = "absent" /\ cur[w].doc \in Docs
      BY <2>1
    <3>2. QED BY <2>1, <2>2, <3>1, InsertedRowOps
  <2>4. AssignedSafely'  BY <1>5, <2>1, <2>2 DEF InsertUnacknowledged
  <2>5. UploadsCovered'  BY <1>5, <2>1, <2>2 DEF InsertUnacknowledged
  <2>6. SettledGone'  BY <1>5, <2>1, <2>2 DEF InsertUnacknowledged
  <2>7. RowHasBlob'  BY <1>5, <2>1, <2>2 DEF InsertUnacknowledged
  <2>8. NoForgottenBlob'  BY <1>5, <2>1, <2>2 DEF InsertUnacknowledged
  <2>9. QED BY <2>3, <2>4, <2>5, <2>6, <2>7, <2>8
<1>6. QED BY <1>1, <1>2, <1>3, <1>4, <1>5

LEMMA BlobStorageSteps ==
  ASSUME IInv, BlobInv, NEW w \in Workers,
         RemoveBlob(w) \/ RemoveBlobFails(w) \/ CompleteStorageOperation(w)
         \/ CompleteStorageFails(w) \/ Finish(w) \/ Crash(w)
  PROVE  BlobInv'
<1> USE DEF IInv, TypeOK, InHand, FreshRows, UploadsApart, BlobInv, OpsMatchRows,
        AssignedSafely, Assigned, UploadsCovered, SettledGone, RowHasBlob, NoForgottenBlob,
        Live, Op, Ops, UploadPCs, StoragePCs, ProcessPCs, StorageKinds, ProcessKinds,
        At, Goto, Doc, LogCompleted, Release, store, history
<1>1. CASE RemoveBlob(w)  BY <1>1 DEF RemoveBlob
<1>2. CASE RemoveBlobFails(w)  BY <1>2 DEF RemoveBlobFails
<1>3. CASE CompleteStorageOperation(w)  BY <1>3 DEF CompleteStorageOperation
<1>4. CASE CompleteStorageFails(w)  BY <1>4 DEF CompleteStorageFails
<1>5. CASE Finish(w)  BY <1>5 DEF Finish
<1>6. CASE Crash(w)  BY <1>6 DEF Crash
<1>7. QED BY <1>1, <1>2, <1>3, <1>4, <1>5, <1>6

LEMMA DeleteRowEffect ==
  ASSUME IInv, BlobInv, NEW w \in Workers, pc[w] = "delete", Live(Doc(w)),
         DeleteRow(w), UNCHANGED raced
  PROVE  /\ op' = [op EXCEPT ![cur[w]] = "pending"]
         /\ OpsMatchRows' /\ NoForgottenBlob'
<1>1. cur[w] = Op("delete_blob", Doc(w)) /\ Doc(w) \in Docs
  BY DEF IInv, InHand, Op, Doc
<1>2. /\ doc' = [doc EXCEPT ![Doc(w)] = "deleted"] /\ UNCHANGED <<blob, raced>>
      /\ LogPending(Op("delete_blob", Doc(w)))
  BY <1>1 DEF DeleteRow
<1>3. TypeOK /\ OpsMatchRows /\ NoForgottenBlob
  BY DEF IInv, BlobInv
<1>4. QED  BY <1>1, <1>2, <1>3, DeletedRowOps

LEMMA BlobDeleteSteps ==
  ASSUME IInv, BlobInv, NEW w \in Workers,
         BeginDelete(w) \/ DeleteCommits(w) \/ DeleteFindsNothing(w) \/ DeleteUnacknowledged(w)
  PROVE  BlobInv'
<1> USE DEF IInv, TypeOK, InHand, FreshRows, UploadsApart, BlobInv, OpsMatchRows,
        AssignedSafely, Assigned, UploadsCovered, SettledGone, RowHasBlob, NoForgottenBlob,
        Live, Op, Ops, UploadPCs, StoragePCs, ProcessPCs, StorageKinds, ProcessKinds,
        At, Goto, Doc, DeleteRow, Release, store, history
<1>1. CASE BeginDelete(w)  BY <1>1 DEF BeginDelete
<1>2. CASE DeleteCommits(w)
  <2>1. /\ cur[w] = Op("delete_blob", cur[w].doc) /\ cur[w].doc \in Docs
        /\ pc[w] = "delete" /\ Live(cur[w].doc)
    BY <1>2 DEF DeleteCommits
  <2>2. /\ doc' = [doc EXCEPT ![cur[w].doc] = "deleted"]
        /\ UNCHANGED <<blob, raced, unacked>>
        /\ \A v \in Workers : v # w => pc'[v] = pc[v] /\ cur'[v] = cur[v] /\ todo'[v] = todo[v]
    BY <1>2, <2>1 DEF DeleteCommits
  <2>3. /\ op' = [op EXCEPT ![cur[w]] = "pending"]
        /\ OpsMatchRows' /\ NoForgottenBlob'
    <3> HIDE DEF OpsMatchRows, NoForgottenBlob, Op
    <3>1. pc[w] = "delete" /\ Live(Doc(w)) /\ DeleteRow(w) /\ UNCHANGED raced
      BY <1>2, <2>1 DEF DeleteCommits
    <3> HIDE DEF IInv, BlobInv, Live, Doc, DeleteRow
    <3>2. QED BY <3>1, DeleteRowEffect
  <2>4. AssignedSafely'
    <3>1. \A v \in Workers : v # w => Assigned(v)' = Assigned(v)
      BY <2>2
    <3>2. Assigned(w)' = {cur[w]}
      BY <1>2, <2>1, <2>2 DEF DeleteCommits
    <3>3. \A o \in Ops : op'[o] = IF o = cur[w] THEN "pending" ELSE op[o]
      <4>1. op \in [Ops -> OpStates]
        OBVIOUS
      <4> HIDE DEF Ops, Op, Live, IInv, BlobInv
      <4>2. QED BY <2>3, <4>1
    <3>4. \A v \in Workers : pc'[v] \in UploadPCs =>
            /\ v # w /\ pc[v] \in UploadPCs /\ cur'[v] = cur[v]
            /\ cur[v].doc # cur[w].doc
      BY <1>2, <2>1, <2>2 DEF DeleteCommits
    <3>5. \A v \in Workers : \A o \in Assigned(v) : o \in Ops /\ o.doc \in Docs
      OBVIOUS
    <3>6. \A e \in Docs : Live(e)' => Live(e) /\ e # cur[w].doc
      BY <2>1, <2>2
    <3>7. \A v \in Workers : \A o \in Assigned(v) :
            /\ op'[o] # "none"
            /\ Live(o.doc)' => o.doc \in (raced \union unacked)'
            /\ \A u \in Workers : pc'[u] \in UploadPCs /\ cur'[u].doc = o.doc => o.doc \in raced'
      <4> HIDE DEF Live, Assigned, Op, Ops, InHand, OpsMatchRows
      <4>1. QED BY <2>2, <3>3, <3>4, <3>5, <3>6
    <3>8. cur[w] \in Ops /\ cur[w].doc \in Docs
      BY <2>1
    <3> HIDE DEF Live, Assigned, Op, Ops, InHand, OpsMatchRows, FreshRows, UploadsApart,
             UploadsCovered, SettledGone, RowHasBlob, NoForgottenBlob, UploadPCs, StorageKinds,
             ProcessKinds, IInv, BlobInv, TypeOK
    <3>9. op'[cur[w]] # "none" /\ \A e \in Docs : e = cur[w].doc => ~Live(e)'
      BY <3>3, <3>6, <3>8
    <3>10. \A u \in Workers : ~(pc'[u] \in UploadPCs /\ cur'[u].doc = cur[w].doc)
      BY <3>4
    <3>11. ASSUME NEW v \in Workers, NEW o \in Assigned(v)'
           PROVE  /\ op'[o] # "none"
                  /\ Live(o.doc)' => o.doc \in (raced \union unacked)'
                  /\ \A u \in Workers :
                       pc'[u] \in UploadPCs /\ cur'[u].doc = o.doc => o.doc \in raced'
      <4>1. CASE v # w
        BY <4>1, <3>1, <3>7
      <4>2. CASE v = w
        <5>1. o = cur[w]
          BY <4>2, <3>2
        <5>2. o \in Ops /\ o.doc \in Docs
          BY <5>1, <3>8
        <5>3. QED BY <5>1, <5>2, <3>9, <3>10
      <4>3. QED BY <4>1, <4>2
    <3>12. QED BY <3>11
  <2>5. UploadsCovered'  BY <1>2, <2>1, <2>2, <2>3 DEF DeleteCommits
  <2>6. SettledGone'  BY <1>2, <2>1, <2>2, <2>3 DEF DeleteCommits
  <2>7. RowHasBlob'  BY <1>2, <2>1, <2>2, <2>3 DEF DeleteCommits
  <2>8. QED BY <2>3, <2>4, <2>5, <2>6, <2>7
<1>3. CASE DeleteFindsNothing(w)  BY <1>3 DEF DeleteFindsNothing
<1>4. CASE DeleteUnacknowledged(w)
  <2>1. /\ cur[w] = Op("delete_blob", cur[w].doc) /\ cur[w].doc \in Docs
        /\ pc[w] = "delete" /\ Live(cur[w].doc)
    BY <1>4 DEF DeleteUnacknowledged
  <2>2. /\ doc' = [doc EXCEPT ![cur[w].doc] = "deleted"]
        /\ UNCHANGED <<blob, raced, unacked>>
        /\ \A v \in Workers : v # w => pc'[v] = pc[v] /\ cur'[v] = cur[v] /\ todo'[v] = todo[v]
    BY <1>4, <2>1 DEF DeleteUnacknowledged
  <2>3. /\ op' = [op EXCEPT ![cur[w]] = "pending"]
        /\ OpsMatchRows' /\ NoForgottenBlob'
    <3> HIDE DEF OpsMatchRows, NoForgottenBlob, Op
    <3>1. pc[w] = "delete" /\ Live(Doc(w)) /\ DeleteRow(w) /\ UNCHANGED raced
      BY <1>4, <2>1 DEF DeleteUnacknowledged
    <3> HIDE DEF IInv, BlobInv, Live, Doc, DeleteRow
    <3>2. QED BY <3>1, DeleteRowEffect
  <2>4. AssignedSafely'  BY <1>4, <2>1, <2>2, <2>3 DEF DeleteUnacknowledged
  <2>5. UploadsCovered'  BY <1>4, <2>1, <2>2, <2>3 DEF DeleteUnacknowledged
  <2>6. SettledGone'  BY <1>4, <2>1, <2>2, <2>3 DEF DeleteUnacknowledged
  <2>7. RowHasBlob'  BY <1>4, <2>1, <2>2, <2>3 DEF DeleteUnacknowledged
  <2>8. QED BY <2>3, <2>4, <2>5, <2>6, <2>7
<1>5. QED BY <1>1, <1>2, <1>3, <1>4

LEMMA BlobProcessingSteps ==
  ASSUME IInv, BlobInv, NEW w \in Workers,
         AnnounceProcessing(w) \/ AnnounceFails(w) \/ ReadStatus(w) \/ Reopen(w)
         \/ IndexRow(w) \/ Extract(w) \/ ExtractFails(w) \/ RecordProcessed(w)
         \/ RecordProcessedFails(w)
  PROVE  BlobInv'
<1> USE DEF IInv, TypeOK, InHand, FreshRows, UploadsApart, BlobInv, OpsMatchRows,
        AssignedSafely, Assigned, UploadsCovered, SettledGone, RowHasBlob, NoForgottenBlob,
        Live, Op, Ops, UploadPCs, StoragePCs, ProcessPCs, StorageKinds, ProcessKinds,
        At, Goto, Doc, LogPending, LogCompleted, MayBecome, UpdateStatus, Release, store, history
<1>1. CASE AnnounceProcessing(w)  BY <1>1 DEF AnnounceProcessing
<1>2. CASE AnnounceFails(w)  BY <1>2 DEF AnnounceFails
<1>3. CASE ReadStatus(w)  BY <1>3 DEF ReadStatus
<1>4. CASE Reopen(w)  BY <1>4 DEF Reopen
<1>5. CASE IndexRow(w)  BY <1>5 DEF IndexRow
<1>6. CASE Extract(w)  BY <1>6 DEF Extract
<1>7. CASE ExtractFails(w)  BY <1>7 DEF ExtractFails
<1>8. CASE RecordProcessed(w)  BY <1>8 DEF RecordProcessed
<1>9. CASE RecordProcessedFails(w)  BY <1>9 DEF RecordProcessedFails
<1>10. QED BY <1>1, <1>2, <1>3, <1>4, <1>5, <1>6, <1>7, <1>8, <1>9

LEMMA BlobFailureReports ==
  ASSUME IInv, BlobInv, NEW w \in Workers,
         MarkProcessingFailed(w) \/ MarkProcessingFailedFails(w) \/ ReportRetry(w) \/ ReportRetryFails(w)
         \/ FetchBlob(w) \/ FetchBlobFails(w)
  PROVE  BlobInv'
<1> USE DEF IInv, TypeOK, InHand, FreshRows, UploadsApart, BlobInv, OpsMatchRows,
        AssignedSafely, Assigned, UploadsCovered, SettledGone, RowHasBlob, NoForgottenBlob,
        Live, Op, Ops, UploadPCs, StoragePCs, ProcessPCs, StorageKinds, ProcessKinds,
        At, Goto, Doc, LogPending, Release, store, history
<1>1. CASE MarkProcessingFailed(w)  BY <1>1 DEF MarkProcessingFailed
<1>2. CASE MarkProcessingFailedFails(w)  BY <1>2 DEF MarkProcessingFailedFails
<1>3. CASE ReportRetry(w)  BY <1>3 DEF ReportRetry
<1>4. CASE ReportRetryFails(w)  BY <1>4 DEF ReportRetryFails
<1>5. CASE FetchBlob(w)  BY <1>5 DEF FetchBlob
<1>6. CASE FetchBlobFails(w)  BY <1>6 DEF FetchBlobFails
<1>7. QED BY <1>1, <1>2, <1>3, <1>4, <1>5, <1>6

LEMMA BlobRetrySteps ==
  ASSUME IInv, BlobInv, NEW w \in Workers,
         BeginUpload(w) \/ BeginRetry(w) \/ TakeStorageOperation(w) \/ EnterProcessLane(w)
         \/ TakeProcessOperation(w) \/ TakeProcessOperationFails(w)
  PROVE  BlobInv'
<1> USE DEF IInv, TypeOK, InHand, FreshRows, UploadsApart, BlobInv, OpsMatchRows,
        AssignedSafely, Assigned, UploadsCovered, SettledGone, RowHasBlob, NoForgottenBlob,
        Live, Op, Ops, UploadPCs, StoragePCs, ProcessPCs, StorageKinds, ProcessKinds,
        At, Goto, Doc, LogPending, LogCompleted, InFlight, Release, store, history
<1>1. CASE BeginUpload(w)
  <2>1. PICK d \in Docs :
          /\ op[Op("upload_cleanup", d)] = "none"
          /\ op' = [op EXCEPT ![Op("upload_cleanup", d)] = "pending"]
          /\ cur' = [cur EXCEPT ![w] = Op("upload_cleanup", d)]
    BY <1>1 DEF BeginUpload, LogPending
  <2>2. /\ pc[w] = "idle" /\ pc' = [pc EXCEPT ![w] = "put"]
        /\ UNCHANGED <<doc, blob, todo, raced, unacked>>
    BY <1>1 DEF BeginUpload
  <2>3. doc[d] = "absent" /\ op[Op("delete_blob", d)] = "none"
    BY <2>1
  <2>4. OpsMatchRows'
    BY <2>1, <2>2, <2>3, AnnouncedUploadOps
  <2>5. AssignedSafely'
    <3>1. Assigned(w)' = Assigned(w)
      BY <2>1, <2>2
    <3>2. \A v \in Workers : Assigned(v)' = Assigned(v)
      BY <2>1, <2>2, <3>1
    <3>3. \A v \in Workers : \A o \in Assigned(v) : o \in Ops /\ o.doc # d
      <4> SUFFICES ASSUME NEW v \in Workers, NEW o \in Assigned(v)
                   PROVE  o \in Ops /\ o.doc # d
        OBVIOUS
      <4>1. o \in [kind: StorageKinds, doc: Docs] /\ op[o] # "none"
        OBVIOUS
      <4>2. o = Op(o.kind, o.doc)
        BY <4>1
      <4>3. QED BY <2>1, <2>3, <4>1, <4>2
    <3>4. QED BY <2>1, <2>2, <3>2, <3>3
  <2>6. UploadsCovered'
    <3>1. ASSUME NEW v \in Workers, v # w, pc[v] \in UploadPCs, cur[v].doc \notin raced
          PROVE  op'[cur[v]] = "pending"
      BY <2>1, <3>1
    <3>2. \A v \in Workers : v # w => cur'[v] = cur[v] /\ pc'[v] = pc[v]
      BY <2>1, <2>2
    <3>3. cur'[w] = Op("upload_cleanup", d) /\ pc'[w] = "put"
      BY <2>1, <2>2
    <3>4. op'[Op("upload_cleanup", d)] = "pending"
      <4>1. op \in [Ops -> OpStates] /\ Op("upload_cleanup", d) \in Ops
        OBVIOUS
      <4> HIDE DEF Ops, Op, IInv, BlobInv
      <4>2. QED BY <2>1, <4>1
    <3>5. QED BY <2>2, <3>1, <3>2, <3>3, <3>4
  <2>7. SettledGone'  BY <2>1, <2>2
  <2>8. RowHasBlob'  BY <2>2
  <2>9. NoForgottenBlob'  BY <2>1, <2>2
  <2>10. QED BY <2>4, <2>5, <2>6, <2>7, <2>8, <2>9
<1>2. CASE BeginRetry(w)
  <2>1. /\ pc[w] = "idle" /\ pc' = [pc EXCEPT ![w] = "storage_lane"]
        /\ todo' = [todo EXCEPT ![w] = StorageBatch]
        /\ raced' = raced \union
             {d \in Docs : InFlight(d) /\ Op("upload_cleanup", d) \in StorageBatch}
        /\ UNCHANGED <<doc, blob, op, cur, unacked>>
    BY <1>2 DEF BeginRetry
  <2>2. \A o \in StorageBatch :
          /\ o \in [kind: StorageKinds, doc: Docs] /\ op[o] = "pending"
          /\ o = Op(o.kind, o.doc) /\ ~Live(o.doc)
    <3>1. \A o \in StorageBatch : o \in Ops /\ o.kind \in StorageKinds /\ op[o] = "pending"
      BY DEF StorageBatch, FirstBy, PendingStorage
    <3>2. \A o \in StorageBatch : o = Op(o.kind, o.doc) /\ o.doc \in Docs
      BY <3>1
    <3>3. ASSUME NEW o \in StorageBatch  PROVE  ~Live(o.doc)
      <4>1. CASE o.kind = "upload_cleanup"
        <5>1. o = Op("upload_cleanup", o.doc) /\ op[o] = "pending" /\ o.doc \in Docs
          BY <3>1, <3>2, <4>1
        <5>2. op[Op("upload_cleanup", o.doc)] = "pending"  BY <5>1
        <5>3. doc[o.doc] = "absent"  BY <5>1, <5>2
        <5>4. QED BY <5>3
      <4>2. CASE o.kind = "delete_blob"
        <5>1. o = Op("delete_blob", o.doc) /\ op[o] = "pending" /\ o.doc \in Docs
          BY <3>1, <3>2, <4>2
        <5>2. op[Op("delete_blob", o.doc)] = "pending"  BY <5>1
        <5>3. doc[o.doc] = "deleted"  BY <5>1, <5>2
        <5>4. QED BY <5>3
      <4>3. QED BY <3>1, <4>1, <4>2
    <3>4. QED BY <3>1, <3>2, <3>3
  <2>3. AssignedSafely'
    <3>1. \A v \in Workers : v # w => Assigned(v)' = Assigned(v)
      BY <2>1
    <3>2. Assigned(w)' = StorageBatch
      BY <2>1, <2>2
    <3>3. ASSUME NEW o \in StorageBatch, NEW v \in Workers, pc[v] \in UploadPCs, cur[v].doc = o.doc
          PROVE  o.doc \in raced'
      <4>1. cur[v] = Op("upload_cleanup", o.doc) /\ o.doc \in Docs /\ doc[o.doc] = "absent"
        BY <3>3, <2>2
      <4>2. o.kind = "upload_cleanup"
        BY <4>1, <2>2
      <4>3. InFlight(o.doc) /\ o = Op("upload_cleanup", o.doc)
        BY <3>3, <4>1, <4>2, <2>2
      <4>4. QED BY <2>1, <4>1, <4>3
    <3>4. \A v \in Workers : v # w => pc'[v] = pc[v]
      BY <2>1
    <3>5. pc'[w] \notin UploadPCs /\ pc[w] \notin UploadPCs
      BY <2>1
    <3>6. QED BY <2>1, <2>2, <3>1, <3>2, <3>3, <3>4, <3>5
  <2>4. /\ OpsMatchRows' /\ UploadsCovered' /\ SettledGone'
        /\ RowHasBlob' /\ NoForgottenBlob'
    BY <2>1
  <2>5. QED BY <2>3, <2>4
<1>3. CASE TakeStorageOperation(w)  BY <1>3 DEF TakeStorageOperation
<1>4. CASE EnterProcessLane(w)
  <2>1. \A o \in ProcessBatch : o.kind \notin StorageKinds
    BY Batches
  <2>2. QED BY <1>4, <2>1 DEF EnterProcessLane
<1>5. CASE TakeProcessOperation(w)  BY <1>5 DEF TakeProcessOperation
<1>6. CASE TakeProcessOperationFails(w)  BY <1>6 DEF TakeProcessOperationFails
<1>7. QED BY <1>1, <1>2, <1>3, <1>4, <1>5, <1>6

LEMMA BlobStepInvariant == IInv /\ BlobInv /\ [Next]_vars => BlobInv'
<1> SUFFICES ASSUME IInv, BlobInv, [Next]_vars PROVE BlobInv'
  OBVIOUS
<1>1. CASE UNCHANGED vars
  BY <1>1 DEF vars, store, handlers, history, BlobInv, OpsMatchRows, AssignedSafely,
     Assigned, UploadsCovered, SettledGone, RowHasBlob, NoForgottenBlob, Live
<1>2. ASSUME NEW w \in Workers,
             BeginUpload(w) \/ BeginDelete(w) \/ BeginRetry(w) \/ Progress(w) \/ Failure(w)
      PROVE  BlobInv'
  BY <1>2, BlobUploadSteps, BlobStorageSteps, BlobDeleteSteps, BlobProcessingSteps,
     BlobFailureReports, BlobRetrySteps DEF Progress, Failure
<1>3. QED
  BY <1>1, <1>2 DEF Next

\* The strengthened blob invariant holds throughout.
THEOREM BlobInvariance == Spec => []BlobInv
  BY BlobInitially, BlobStepInvariant, Invariance, PTL DEF Spec

\* A live row has its blob, outside the two histories.
THEOREM RowsHaveBlobs == Spec => []RowHasBlob
<1>1. BlobInv => RowHasBlob  BY DEF BlobInv
<1>2. QED BY <1>1, BlobInvariance, PTL

\* No blob without a live row escapes the outbox, outside the drained race.
THEOREM NoBlobForgotten == Spec => []NoForgottenBlob
<1>1. BlobInv => NoForgottenBlob  BY DEF BlobInv
<1>2. QED BY <1>1, BlobInvariance, PTL

-----------------------------------------------------------------------------

\* The only step that writes a row without checking its status inserts it, and
\* then there was none.
LEMMA StepKeepsIndexed ==
  ASSUME IInv, [Next]_vars, NEW d \in Docs
  PROVE  /\ doc[d] = "indexed" => doc'[d] \in {"indexed", "deleted"}
         /\ doc[d] = "deleted" => doc'[d] = "deleted"
<1>1. CASE UNCHANGED vars
  BY <1>1 DEF vars, store
<1>2. ASSUME NEW w \in Workers,
             BeginUpload(w) \/ BeginDelete(w) \/ BeginRetry(w) \/ Progress(w) \/ Failure(w)
      PROVE  \/ UNCHANGED doc
             \/ At(w, "insert") /\ doc' = [doc EXCEPT ![Doc(w)] = "processing"]
             \/ Live(Doc(w)) /\ doc' = [doc EXCEPT ![Doc(w)] = "deleted"]
             \/ doc' = [doc EXCEPT ![Doc(w)] = IF @ = "processing" THEN "failed" ELSE @]
             \/ \E s \in {"processing", "indexed"} :
                   MayBecome(Doc(w), s) /\ doc' = [doc EXCEPT ![Doc(w)] = s]
  BY <1>2 DEF Progress, Failure, store, BeginUpload, BeginDelete, BeginRetry, PutObject,
     PutObjectFails, InsertCommits, InsertAborts, InsertUnacknowledged, InsertRow, RemoveBlob,
     RemoveBlobFails, CompleteStorageOperation, CompleteStorageFails, DeleteCommits, DeleteRow,
     DeleteFindsNothing, DeleteUnacknowledged, AnnounceProcessing, AnnounceFails, ReadStatus,
     Reopen, IndexRow, UpdateStatus, Extract, ExtractFails, RecordProcessed,
     RecordProcessedFails, MarkProcessingFailed, MarkProcessingFailedFails, ReportRetry,
     ReportRetryFails, TakeStorageOperation, EnterProcessLane, TakeProcessOperation,
     TakeProcessOperationFails, FetchBlob, FetchBlobFails, Finish, Crash
<1>3. QED
  BY <1>1, <1>2 DEF Next, IInv, TypeOK, InHand, UploadsApart, UploadPCs, At, Doc, Live, MayBecome

\* An indexed row stays indexed until it is deleted, a deleted one stays gone.
THEOREM IndexedStays == Spec => IndexedIsStable
<1>1. IInv /\ [Next]_vars =>
        [\A d \in Docs :
            /\ doc[d] = "indexed" => doc'[d] \in {"indexed", "deleted"}
            /\ doc[d] = "deleted" => doc'[d] = "deleted"]_vars
  BY StepKeepsIndexed
<1>2. QED
  BY <1>1, Invariance, PTL DEF Spec, IndexedIsStable

-----------------------------------------------------------------------------
(* The promise.                                                            *)

Up(d) == Op("upload_cleanup", d)
Del(d) == Op("delete_blob", d)
Broken(d) == d \in raced \union unacked

\* What readers of DocumentPromise see of a document.
SameView(d) ==
    /\ doc'[d] = doc[d] /\ (d \in blob' <=> d \in blob)
    /\ op'[Up(d)] = op[Up(d)] /\ op'[Del(d)] = op[Del(d)]
    /\ Broken(d)' <=> Broken(d)

LEMMA OwedKinds ==
  /\ \A d : Owed(d) <=> op[Up(d)] = "pending" \/ op[Del(d)] = "pending"
  /\ \A d : Owed(d)' <=> op'[Up(d)] = "pending" \/ op'[Del(d)] = "pending"
  BY DEF Owed, StorageKinds, Up, Del

LEMMA SameDocument ==
  ASSUME NEW d, SameView(d) \/ (Broken(d) /\ Broken(d)')
  PROVE  AbstractDocument(d)' = AbstractDocument(d)
<1>1. CASE Broken(d) /\ Broken(d)'
  BY <1>1 DEF AbstractDocument, Broken
<1>2. CASE SameView(d) /\ ~Broken(d)
  <2>1. (Owed(d)' <=> Owed(d)) /\ (Settled(d)' <=> Settled(d))
    BY <1>2, OwedKinds DEF SameView, Settled, Up, Del
  <2>2. (Owed(d)' = Owed(d)) /\ (d \in blob') = (d \in blob)
    BY <2>1, <1>2 DEF SameView, Owed
  <2> QED
    BY <1>2, <2>1, <2>2 DEF AbstractDocument, Broken, SameView
<1> QED
  BY <1>1, <1>2 DEF SameView

LEMMA OneDocument ==
  ASSUME NEW d \in Docs,
         \A e \in Docs : e # d => AbstractDocument(e)' = AbstractDocument(e)
  PROVE  /\ abstract' = [abstract EXCEPT ![d] = AbstractDocument(d)']
         /\ AbstractDocument(d)' = AbstractDocument(d) => abstract' = abstract
  BY DEF abstract

\* How a document shows itself.
Shown(d) ==
    /\ Live(d) => AbstractDocument(d) = Promise!Standing(doc[d])
    /\ doc[d] = "absent" =>
         /\ op[Up(d)] = "none" => AbstractDocument(d) = Promise!Fresh /\ d \notin blob
         /\ op[Up(d)] = "pending" =>
              AbstractDocument(d) = [row |-> "absent", stored |-> d \in blob, owed |-> TRUE]
         /\ op[Up(d)] = "completed" => AbstractDocument(d) = Promise!Gone
    /\ doc[d] = "deleted" =>
         /\ op[Del(d)] = "pending" =>
              AbstractDocument(d) = [row |-> "deleted", stored |-> d \in blob, owed |-> TRUE]
         /\ op[Del(d)] = "completed" => AbstractDocument(d) = Promise!Gone

AllShown == \A d \in Docs : Broken(d) \/ Shown(d)

\* How a document shows itself.
LEMMA Shapes == IInv /\ BlobInv => AllShown
<1> SUFFICES ASSUME IInv, BlobInv, NEW d \in Docs, ~Broken(d)
             PROVE  Shown(d)
  BY DEF AllShown
<1>1. AbstractDocument(d)
        = [row |-> IF Settled(d) THEN "gone" ELSE doc[d], stored |-> d \in blob, owed |-> Owed(d)]
  BY DEF AbstractDocument, Broken
<1>2. /\ op[Del(d)] # "none" => doc[d] = "deleted"
      /\ op[Up(d)] = "pending" => doc[d] = "absent"
  BY DEF BlobInv, OpsMatchRows, Up, Del
<1>3. Live(d) => d \in blob
  BY DEF BlobInv, RowHasBlob, Broken
<1>4. d \in blob /\ ~Live(d) => Owed(d)
  BY DEF BlobInv, NoForgottenBlob, Broken, Owed
<1>5. Owed(d) \in BOOLEAN
  BY DEF Owed
<1>6. Settled(d) <=> \/ doc[d] = "absent" /\ op[Up(d)] = "completed"
                     \/ doc[d] = "deleted" /\ op[Del(d)] = "completed"
  BY DEF Settled, Up, Del
<1> HIDE DEF Broken
<1>7. Owed(d) <=> op[Up(d)] = "pending" \/ op[Del(d)] = "pending"
  BY OwedKinds
<1>8. CASE Live(d)
  <2>1. doc[d] \notin {"absent", "deleted"}
    BY <1>8 DEF Live
  <2>2. ~Settled(d) /\ Owed(d) = FALSE /\ (d \in blob) = TRUE
    BY <2>1, <1>2, <1>3, <1>5, <1>6, <1>7, <1>8
  <2> QED
    BY <2>1, <2>2, <1>1, <1>8 DEF Promise!Standing, Shown
<1>9. CASE doc[d] = "absent"
  <2>1. ~Live(d) /\ op[Del(d)] # "pending" /\ (Settled(d) <=> op[Up(d)] = "completed")
    BY <1>9, <1>2, <1>6 DEF Live
  <2>2. op[Up(d)] # "pending" => Owed(d) = FALSE /\ (d \in blob) = FALSE
    BY <2>1, <1>4, <1>5, <1>7
  <2>3. op[Up(d)] = "pending" => Owed(d) = TRUE
    BY <1>5, <1>7
  <2> QED
    BY <2>1, <2>2, <2>3, <1>1, <1>9 DEF Promise!Fresh, Promise!Gone, Shown
<1>10. CASE doc[d] = "deleted"
  <2>1. ~Live(d) /\ op[Up(d)] # "pending" /\ (Settled(d) <=> op[Del(d)] = "completed")
    BY <1>10, <1>2, <1>6 DEF Live
  <2>2. op[Del(d)] # "pending" => Owed(d) = FALSE /\ (d \in blob) = FALSE
    BY <2>1, <1>4, <1>5, <1>7
  <2>3. op[Del(d)] = "pending" => Owed(d) = TRUE
    BY <1>5, <1>7
  <2> QED
    BY <2>1, <2>2, <2>3, <1>1, <1>10 DEF Promise!Gone, Shown
<1> QED
  BY <1>8, <1>9, <1>10 DEF Live, IInv, TypeOK, DocStates

LEMMA ShapesNext == IInv' /\ BlobInv' => AllShown'
  BY Shapes, PTL

\* Steps that rows, blobs and storage operations do not show in.
LEMMA InvisibleSteps ==
  ASSUME IInv, UNCHANGED <<doc, blob, raced, unacked>>,
         \/ UNCHANGED op
         \/ \E o \in [kind: ProcessKinds, doc: Docs] : LogPending(o) \/ LogCompleted(o)
  PROVE  abstract' = abstract
<1>1. \A d \in Docs : op'[Up(d)] = op[Up(d)] /\ op'[Del(d)] = op[Del(d)]
  <2>1. ASSUME NEW o \in [kind: ProcessKinds, doc: Docs], LogPending(o) \/ LogCompleted(o)
        PROVE  \A p \in Ops : p # o => op'[p] = op[p]
    BY <2>1 DEF LogPending, LogCompleted, IInv, TypeOK
  <2>2. \A d \in Docs : /\ Up(d) \in Ops /\ Up(d) \notin [kind: ProcessKinds, doc: Docs]
                        /\ Del(d) \in Ops /\ Del(d) \notin [kind: ProcessKinds, doc: Docs]
    BY DEF Up, Del, Op, Ops, ProcessKinds, StorageKinds
  <2> QED
    BY <2>1, <2>2
<1>2. \A d \in Docs : SameView(d)
  BY <1>1 DEF SameView, Broken
<1>3. \A d \in Docs : AbstractDocument(d)' = AbstractDocument(d)
  BY <1>2, SameDocument
<1> QED
  BY <1>3 DEF abstract

\* A storage operation that is logged concerns one document only.
LEMMA StorageOps ==
  /\ \A d \in Docs : Up(d) \in Ops /\ Del(d) \in Ops
  /\ \A d, e \in Docs : Up(d) # Del(e) /\ (Up(d) = Up(e) <=> d = e) /\ (Del(d) = Del(e) <=> d = e)
  /\ \A o \in [kind: StorageKinds, doc: Docs] :
        o.doc \in Docs /\ (o = Up(o.doc) \/ o = Del(o.doc))
  /\ \A o \in [kind: {"upload_cleanup"}, doc: Docs] : o.doc \in Docs /\ o = Up(o.doc)
  /\ \A o \in [kind: {"delete_blob"}, doc: Docs] : o.doc \in Docs /\ o = Del(o.doc)
  BY DEF Up, Del, Op, Ops, StorageKinds, ProcessKinds

\* A step that concerns one document, at most.
LEMMA OneDocumentStep ==
  ASSUME NEW d \in Docs, \A e \in Docs : e # d => SameView(e),
         \/ AbstractDocument(d)' = AbstractDocument(d)
         \/ abstract[d] = AbstractDocument(d) /\ Promise!Becomes(d, AbstractDocument(d)') =>
              \/ Promise!Announce(d) \/ Promise!Put(d) \/ Promise!Commit(d) \/ Promise!Process(d)
              \/ Promise!Delete(d) \/ Promise!Remove(d) \/ Promise!Settle(d)
  PROVE  Promise!Next \/ abstract' = abstract
<1>1. \A e \in Docs : e # d => AbstractDocument(e)' = AbstractDocument(e)
  BY SameDocument
<1>2. CASE AbstractDocument(d)' = AbstractDocument(d)
  BY <1>1, <1>2, OneDocument
<1>3. CASE AbstractDocument(d)' # AbstractDocument(d)
  <2>1. abstract[d] = AbstractDocument(d)
    BY DEF abstract
  <2>2. Promise!Becomes(d, AbstractDocument(d)')
    BY <1>1, OneDocument DEF Promise!Becomes
  <2> QED
    BY <1>3, <2>1, <2>2 DEF Promise!Next
<1> QED
  BY <1>2, <1>3

LEMMA UploadImplements ==
  ASSUME IInv, BlobInv, IInv', BlobInv', NEW w \in Workers,
         BeginUpload(w) \/ PutObject(w) \/ PutObjectFails(w) \/ InsertCommits(w)
  PROVE  Promise!Next \/ abstract' = abstract
<1>1. CASE BeginUpload(w)
  <2>1. PICK d \in Docs :
          /\ op[Up(d)] = "none"
          /\ op' = [op EXCEPT ![Up(d)] = "pending"]
          /\ UNCHANGED <<doc, blob, raced, unacked>>
    BY <1>1 DEF BeginUpload, LogPending, Up, history
  <2>2. /\ op'[Up(d)] = "pending"
        /\ \A e \in Docs : e # d => SameView(e)
    BY <2>1, StorageOps DEF IInv, TypeOK, SameView, Broken
  <2>3. doc[d] = "absent"
    BY <2>1 DEF IInv, FreshRows, Up
  <2>4. CASE Broken(d)
    <3>1. Broken(d)'
      BY <2>1, <2>4 DEF Broken
    <3> QED
      BY <2>2, <2>4, <3>1, SameDocument, OneDocumentStep
  <2>5. CASE ~Broken(d)
    <3>1. ~Broken(d)'
      BY <2>1, <2>5 DEF Broken
    <3>2. AbstractDocument(d) = Promise!Fresh
      BY <2>1, <2>3, <2>5, Shapes DEF AllShown, Shown
    <3>3. AbstractDocument(d)' = [row |-> "absent", stored |-> d \in blob', owed |-> TRUE]
      BY <2>1, <2>2, <2>3, <3>1, ShapesNext DEF AllShown, Shown
    <3>5. (d \in blob') = FALSE
      BY <2>1, <2>3, <2>5, Shapes DEF AllShown, Shown
    <3>6. AbstractDocument(d)' = Promise!Announced
      BY <3>3, <3>5 DEF Promise!Announced
    <3> QED
      BY <2>2, <3>2, <3>6, OneDocumentStep
        DEF Promise!Announce
  <2> QED
    BY <2>4, <2>5
<1>2. CASE PutObject(w) \/ PutObjectFails(w)
  <2>1. PICK d \in Docs :
        /\ pc[w] = "put" /\ cur[w] = Up(d) /\ cur[w].doc = d
        /\ blob' = blob \/ blob' = blob \union {d}
        /\ UNCHANGED <<doc, op, raced, unacked>>
    BY <1>2, StorageOps DEF PutObject, PutObjectFails, At, Doc, history, IInv, InHand, UploadPCs
  <2>2. \A e \in Docs : e # d => SameView(e)
    BY <2>1 DEF SameView, Broken
  <2>3. CASE Broken(d) \/ blob' = blob
    <3>1. SameView(d) \/ (Broken(d) /\ Broken(d)')
      BY <2>1, <2>3 DEF Broken, SameView
    <3> QED
      BY <2>1, <2>2, <3>1, SameDocument, OneDocumentStep
  <2>4. CASE ~Broken(d) /\ blob' = blob \union {d}
    <3>1. ~Broken(d)'
      BY <2>1, <2>4 DEF Broken
    <3>2. doc[d] = "absent" /\ op[Up(d)] = "pending"
      BY <2>1, <2>4 DEF IInv, UploadsApart, BlobInv, UploadsCovered, UploadPCs, Broken
    <3>3. AbstractDocument(d) = [row |-> "absent", stored |-> d \in blob, owed |-> TRUE]
      BY <2>1, <3>2, <2>4, Shapes DEF AllShown, Shown
    <3>4. AbstractDocument(d)' = [row |-> "absent", stored |-> d \in blob', owed |-> TRUE]
      BY <2>1, <3>1, <3>2, ShapesNext DEF AllShown, Shown
    <3>5. (d \in blob') = TRUE
      BY <2>4
    <3>6. AbstractDocument(d)' = Promise!Uploaded
      BY <3>4, <3>5 DEF Promise!Uploaded
    <3>7. CASE d \in blob
      <4>1. (d \in blob) = TRUE
        BY <3>7
      <4> QED
        BY <2>1, <2>2, <3>3, <3>6, <4>1, OneDocumentStep DEF Promise!Uploaded
    <3>8. CASE d \notin blob
      <4>1. AbstractDocument(d) = Promise!Announced
        <5>1. (d \in blob) = FALSE
          BY <3>8
        <5> QED
          BY <3>3, <5>1 DEF Promise!Announced
      <4> QED
        BY <2>1, <2>2, <3>6, <4>1, OneDocumentStep DEF Promise!Put
    <3> QED
      BY <3>7, <3>8
  <2> QED
    BY <2>1, <2>3, <2>4
<1>3. CASE InsertCommits(w)
  <2>1. PICK d \in Docs :
        /\ pc[w] = "insert" /\ cur[w] = Up(d) /\ cur[w].doc = d
        /\ doc' = [doc EXCEPT ![d] = "processing"]
        /\ op' = [op EXCEPT ![Up(d)] = "completed"]
        /\ UNCHANGED <<blob, raced, unacked>>
    <3>1. pc[w] = "insert" /\ cur[w] \in [kind: {"upload_cleanup"}, doc: Docs]
      BY <1>3 DEF InsertCommits, At, IInv, InHand, UploadPCs
    <3>2. cur[w].doc \in Docs /\ cur[w] = Up(cur[w].doc)
      BY <3>1, StorageOps
    <3> QED
      BY <1>3, <3>1, <3>2 DEF InsertCommits, InsertRow, LogCompleted, Doc, history
  <2>2. /\ \A e \in Docs : e # d => SameView(e)
        /\ doc'[d] = "processing"
    BY <2>1, StorageOps DEF SameView, Broken, IInv, TypeOK
  <2>3. CASE Broken(d)
    <3>1. Broken(d)'
      BY <2>1, <2>3 DEF Broken
    <3> QED
      BY <2>1, <2>2, <2>3, <3>1, SameDocument, OneDocumentStep
  <2>4. CASE ~Broken(d)
    <3>1. ~Broken(d)'
      BY <2>1, <2>4 DEF Broken
    <3>2. doc[d] = "absent" /\ op[Up(d)] = "pending" /\ d \in blob
      BY <2>1, <2>4 DEF IInv, UploadsApart, BlobInv, UploadsCovered, UploadPCs, Broken
    <3>3. AbstractDocument(d) = [row |-> "absent", stored |-> d \in blob, owed |-> TRUE]
      BY <2>1, <3>2, <2>4, Shapes DEF AllShown, Shown
    <3>4. AbstractDocument(d) = Promise!Uploaded
      <4>1. (d \in blob) = TRUE
        BY <3>2
      <4> QED
        BY <3>3, <4>1 DEF Promise!Uploaded
    <3>5. AbstractDocument(d)' = Promise!Standing("processing")
      BY <2>1, <2>2, <3>1, ShapesNext DEF AllShown, Shown, Live
    <3> QED
      BY <2>1, <2>2, <3>4, <3>5, OneDocumentStep DEF Promise!Commit
  <2> QED
    BY <2>3, <2>4
<1> QED
  BY <1>1, <1>2, <1>3

\* Uploads are given up only in flight.
LEMMA WaiveImplements ==
  ASSUME IInv, BlobInv, NEW w \in Workers, InsertUnacknowledged(w) \/ BeginRetry(w)
  PROVE  Promise!Next \/ abstract' = abstract
<1> DEFINE Given == {d \in Docs : ~Broken(d) /\ Broken(d)'}
<1>1. \A d \in Given : AbstractDocument(d) \in {Promise!Announced, Promise!Uploaded}
  <2>1. ASSUME NEW d \in Given PROVE doc[d] = "absent" /\ op[Up(d)] = "pending"
    <3>1. CASE InsertUnacknowledged(w)
      <4>1. pc[w] = "insert" /\ cur[w] \in [kind: {"upload_cleanup"}, doc: Docs]
        BY <3>1 DEF InsertUnacknowledged, At, IInv, InHand, UploadPCs
      <4>2. d = cur[w].doc /\ cur[w] = Up(d)
        BY <2>1, <3>1, <4>1, StorageOps DEF InsertUnacknowledged, Doc, Broken
      <4> QED
        BY <2>1, <4>1, <4>2 DEF IInv, UploadsApart, BlobInv, UploadsCovered, UploadPCs, Broken
    <3>2. CASE BeginRetry(w)
      <4>1. InFlight(d)
        BY <2>1, <3>2 DEF BeginRetry, Broken
      <4>2. PICK v \in Workers : pc[v] \in UploadPCs /\ cur[v] = Up(d)
        BY <4>1 DEF InFlight, UploadPCs, Up
      <4>3. cur[v].doc = d
        BY <4>2 DEF Up, Op
      <4> QED
        BY <2>1, <4>2, <4>3 DEF IInv, UploadsApart, BlobInv, UploadsCovered, Broken
    <3> QED
      BY <3>1, <3>2
  <2> TAKE d \in Given
  <2>2. AbstractDocument(d) = [row |-> "absent", stored |-> d \in blob, owed |-> TRUE]
    BY <2>1, Shapes DEF AllShown, Shown
  <2>3. (d \in blob) = TRUE \/ (d \in blob) = FALSE
    <3>1. CASE d \in blob
      <4>1. (d \in blob) = TRUE
        BY <3>1
      <4> QED BY <4>1
    <3>2. CASE d \notin blob
      <4>1. (d \in blob) = FALSE
        BY <3>2
      <4> QED BY <4>1
    <3> QED BY <3>1, <3>2
  <2> QED
    BY <2>2, <2>3 DEF Promise!Announced, Promise!Uploaded
<1>2. ASSUME NEW d \in Docs
      PROVE  AbstractDocument(d)' = IF d \in Given THEN Promise!Waived ELSE AbstractDocument(d)
  <2>1. CASE d \in Given
    BY <2>1 DEF AbstractDocument, Broken, Promise!Waived
  <2>2. CASE d \notin Given /\ Broken(d)
    <3>1. Broken(d)'
      BY <2>2 DEF Broken, InsertUnacknowledged, BeginRetry
    <3> QED
      BY <2>2, <3>1, SameDocument
  <2>3. CASE d \notin Given /\ ~Broken(d)
    <3>1. ~Broken(d)'
      BY <2>3
    <3>2. doc'[d] = doc[d] /\ blob' = blob /\ op'[Up(d)] = op[Up(d)] /\ op'[Del(d)] = op[Del(d)]
      <4>1. CASE BeginRetry(w)
        BY <4>1 DEF BeginRetry, store
      <4>2. CASE InsertUnacknowledged(w)
        <5>1. pc[w] = "insert" /\ cur[w] \in [kind: {"upload_cleanup"}, doc: Docs]
          BY <4>2 DEF InsertUnacknowledged, At, IInv, InHand, UploadPCs
        <5>2. /\ cur[w].doc # d /\ cur[w] = Up(cur[w].doc) /\ cur[w].doc \in Docs
          BY <3>1, <4>2, <5>1, StorageOps DEF InsertUnacknowledged, Doc, Broken
        <5>3. /\ doc' = [doc EXCEPT ![cur[w].doc] = "processing"]
              /\ op' = [op EXCEPT ![Up(cur[w].doc)] = "completed"]
              /\ blob' = blob
          BY <4>2, <5>2 DEF InsertUnacknowledged, InsertRow, LogCompleted, Doc
        <5> QED
          BY <5>2, <5>3, StorageOps DEF IInv, TypeOK
      <4> QED
        BY <4>1, <4>2
    <3> QED
      BY <2>3, <3>1, <3>2, SameDocument DEF SameView
  <2> QED
    BY <2>1, <2>2, <2>3
<1> HIDE DEF Given
<1>3. abstract' = [d \in Docs |-> IF d \in Given THEN Promise!Waived ELSE abstract[d]]
  BY <1>2 DEF abstract
<1>4. CASE Given = {}
  BY <1>3, <1>4 DEF abstract
<1>5. CASE Given # {}
  <2>1. Given \in SUBSET Docs
    BY DEF Given
  <2>2. \A d \in Given : abstract[d] \in {Promise!Announced, Promise!Uploaded}
    BY <1>1, <2>1 DEF abstract
  <2> QED
    BY <1>3, <1>5, <2>1, <2>2 DEF Promise!Next, Promise!Waive
<1> QED
  BY <1>4, <1>5

\* Processing moves a row; deletion removes it and owes the blob.
LEMMA RowImplements ==
  ASSUME IInv, BlobInv, IInv', BlobInv', NEW w \in Workers,
         \/ Reopen(w) \/ IndexRow(w) \/ MarkProcessingFailed(w)
         \/ DeleteCommits(w) \/ DeleteUnacknowledged(w)
  PROVE  Promise!Next \/ abstract' = abstract
<1>1. CASE Reopen(w) \/ IndexRow(w) \/ MarkProcessingFailed(w)
  <2>1. PICK d \in Docs, s \in {"processing", "indexed", "failed"} :
          /\ doc' = doc \/ doc' = [doc EXCEPT ![d] = s]
          /\ doc[d] = s \/ <<doc[d], s>> \in Promise!Moves \/ doc' = doc
          /\ UNCHANGED <<blob, op, raced, unacked>>
    <3>1. cur[w].doc \in Docs
      BY <1>1 DEF Reopen, IndexRow, MarkProcessingFailed, UpdateStatus, At, IInv, InHand, ProcessPCs
    <3>2. CASE Reopen(w) \/ IndexRow(w)
      BY <3>1, <3>2 DEF Reopen, IndexRow, UpdateStatus, Doc, MayBecome, history, Promise!Moves
    <3>3. CASE MarkProcessingFailed(w)
      BY <3>1, <3>3 DEF MarkProcessingFailed, Doc, history, Promise!Moves, IInv, TypeOK
    <3> QED
      BY <1>1, <3>2, <3>3
  <2>2. \A e \in Docs : e # d => SameView(e)
    BY <2>1 DEF SameView, Broken, IInv, TypeOK
  <2>3. Broken(d)' <=> Broken(d)
    BY <2>1 DEF Broken
  <2>4. CASE Broken(d) \/ doc' = doc \/ doc[d] = s
    <3>1. SameView(d) \/ (Broken(d) /\ Broken(d)')
      BY <2>1, <2>3, <2>4 DEF SameView, IInv, TypeOK
    <3> QED
      BY <2>2, <3>1, SameDocument, OneDocumentStep
  <2>5. CASE ~Broken(d) /\ <<doc[d], s>> \in Promise!Moves /\ doc' = [doc EXCEPT ![d] = s]
    <3>1. Live(d) /\ doc'[d] = s /\ Live(d)'
      BY <2>1, <2>5 DEF Promise!Moves, Live, IInv, TypeOK
    <3>2. AbstractDocument(d) = Promise!Standing(doc[d])
      BY <2>5, <3>1, Shapes DEF AllShown, Shown
    <3>3. AbstractDocument(d)' = Promise!Standing(s)
      BY <2>3, <2>5, <3>1, ShapesNext DEF AllShown, Shown
    <3>4. abstract[d] = AbstractDocument(d) /\ Promise!Becomes(d, AbstractDocument(d)')
            => Promise!Process(d)
      <4> DEFINE move == <<doc[d], s>>
      <4>1. move \in Promise!Moves /\ move[1] = doc[d] /\ move[2] = s
        BY <2>5
      <4> HIDE DEF move
      <4> QED
        BY <3>2, <3>3, <4>1 DEF Promise!Process
    <3> QED
      BY <2>2, <3>4, OneDocumentStep
  <2> QED
    BY <2>1, <2>4, <2>5
<1>2. CASE DeleteCommits(w) \/ DeleteUnacknowledged(w)
  <2>1. PICK d \in Docs : cur[w] = Del(d) /\ Doc(w) = d /\ pc[w] = "delete"
    BY <1>2, StorageOps DEF DeleteCommits, DeleteUnacknowledged, At, IInv, InHand, Doc
  <2>2. /\ Live(d) /\ doc' = [doc EXCEPT ![d] = "deleted"]
        /\ DeleteRow(w) /\ UNCHANGED <<blob, raced, unacked>>
    BY <1>2, <2>1 DEF DeleteCommits, DeleteUnacknowledged, DeleteRow, history
  <2>3. op' = [op EXCEPT ![Del(d)] = "pending"]
    BY <2>1, <2>2, DeleteRowEffect
  <2>4. /\ \A e \in Docs : e # d => SameView(e)
        /\ doc'[d] = "deleted" /\ op'[Del(d)] = "pending"
    BY <2>2, <2>3, StorageOps DEF SameView, Broken, IInv, TypeOK
  <2>5. Broken(d)' <=> Broken(d)
    BY <2>2 DEF Broken
  <2>6. CASE Broken(d)
    BY <2>4, <2>5, <2>6, SameDocument, OneDocumentStep
  <2>7. CASE ~Broken(d)
    <3>1. AbstractDocument(d) = Promise!Standing(doc[d]) /\ doc[d] \in Promise!Statuses
      BY <2>2, <2>7, Shapes DEF AllShown, Shown, Live, Promise!Statuses
    <3>2. AbstractDocument(d)' = [row |-> "deleted", stored |-> d \in blob', owed |-> TRUE]
      BY <2>4, <2>5, <2>7, ShapesNext DEF AllShown, Shown
    <3>3. (d \in blob') = TRUE
      BY <2>2, <2>7 DEF BlobInv, RowHasBlob, Broken
    <3>4. AbstractDocument(d)' = Promise!Deleted
      BY <3>2, <3>3 DEF Promise!Deleted
    <3> QED
      BY <2>4, <3>1, <3>4, OneDocumentStep DEF Promise!Delete
  <2> QED
    BY <2>6, <2>7
<1> QED
  BY <1>1, <1>2

\* Blobs are removed, and that is recorded, only where no row needs them.
LEMMA StorageImplements ==
  ASSUME IInv, BlobInv, IInv', BlobInv', NEW w \in Workers,
         RemoveBlob(w) \/ RemoveBlobFails(w) \/ CompleteStorageOperation(w)
  PROVE  Promise!Next \/ abstract' = abstract
<1>1. PICK d \in Docs : cur[w].doc = d /\ (cur[w] = Up(d) \/ cur[w] = Del(d)) /\ cur[w] \in Assigned(w)
  <2>1. pc[w] \in StoragePCs
    BY DEF RemoveBlob, RemoveBlobFails, CompleteStorageOperation, At, StoragePCs
  <2>2. cur[w] \in [kind: StorageKinds, doc: Docs] /\ cur[w] \in Assigned(w)
    BY <2>1 DEF IInv, InHand, Assigned
  <2> QED
    BY <2>2, StorageOps
<1>2. UNCHANGED <<doc, raced, unacked>>
  BY DEF RemoveBlob, RemoveBlobFails, CompleteStorageOperation, history
<1>3. \A e \in Docs : Broken(e)' <=> Broken(e)
  BY <1>2 DEF Broken
<1>4. /\ op[cur[w]] # "none"
      /\ ~Broken(d) => doc[d] \in {"absent", "deleted"}
  BY <1>1 DEF BlobInv, AssignedSafely, Broken, Live, IInv, TypeOK, DocStates
<1>5. CASE RemoveBlob(w) \/ RemoveBlobFails(w)
  <2>1. UNCHANGED op /\ (blob' = blob \/ blob' = blob \ {d})
    BY <1>1, <1>5 DEF RemoveBlob, RemoveBlobFails, Doc
  <2>2. \A e \in Docs : e # d => SameView(e)
    BY <1>2, <1>3, <2>1 DEF SameView
  <2>3. CASE Broken(d) \/ blob' = blob \/ d \notin blob
    <3>1. SameView(d) \/ (Broken(d) /\ Broken(d)')
      BY <1>2, <1>3, <2>1, <2>3 DEF SameView
    <3> QED
      BY <2>2, <3>1, SameDocument, OneDocumentStep
  <2>4. CASE ~Broken(d) /\ d \in blob /\ d \notin blob'
    <3>1. (d \in blob) = TRUE /\ (d \in blob') = FALSE
      BY <2>4
    <3>2. Owed(d)
      BY <1>4, <2>4 DEF BlobInv, NoForgottenBlob, Broken, Owed, Live
    <3>3. \/ doc[d] = "absent" /\ op[Up(d)] = "pending"
          \/ doc[d] = "deleted" /\ op[Del(d)] = "pending"
      BY <3>2, OwedKinds DEF BlobInv, OpsMatchRows, Up, Del
    <3>4. /\ AbstractDocument(d) = [row |-> doc[d], stored |-> TRUE, owed |-> TRUE]
          /\ AbstractDocument(d)' = [row |-> doc[d], stored |-> FALSE, owed |-> TRUE]
      <4>1. Shown(d) /\ Shown(d)'
        BY <1>3, <2>4, Shapes, ShapesNext DEF AllShown
      <4>2. /\ AbstractDocument(d) = [row |-> doc[d], stored |-> d \in blob, owed |-> TRUE]
            /\ AbstractDocument(d)' = [row |-> doc[d], stored |-> d \in blob', owed |-> TRUE]
        BY <4>1, <3>3, <1>2, <2>1 DEF Shown
      <4>3. AbstractDocument(d) = [row |-> doc[d], stored |-> TRUE, owed |-> TRUE]
        BY <4>2, <3>1
      <4>4. AbstractDocument(d)' = [row |-> doc[d], stored |-> FALSE, owed |-> TRUE]
        <5>1. (d \in blob') = FALSE
          BY <3>1
        <5> QED
          BY <4>2, <5>1
      <4> QED
        BY <4>3, <4>4
    <3>5. abstract[d] = AbstractDocument(d) /\ Promise!Becomes(d, AbstractDocument(d)')
            => Promise!Remove(d)
      <4>1. AbstractDocument(d) \in {Promise!Uploaded, Promise!Deleted}
        BY <3>3, <3>4 DEF Promise!Uploaded, Promise!Deleted
      <4>2. AbstractDocument(d)' = [row |-> AbstractDocument(d).row, stored |-> FALSE, owed |-> TRUE]
        BY <3>4
      <4> QED
        BY <4>1, <4>2 DEF Promise!Remove
    <3> QED
      BY <2>2, <3>5, OneDocumentStep
  <2> QED
    BY <2>1, <2>3, <2>4
<1>6. CASE CompleteStorageOperation(w)
  <2>1. /\ op' = [op EXCEPT ![cur[w]] = "completed"] /\ UNCHANGED blob
        /\ ~Broken(d) => d \notin blob
    <3>1. pc[w] \in {"settle", "drain_settle"}
      BY <1>6 DEF CompleteStorageOperation, At
    <3> QED
      BY <1>1, <1>6, <3>1 DEF CompleteStorageOperation, LogCompleted, BlobInv, SettledGone, Broken
  <2>2. \A e \in Docs : e # d => SameView(e)
    BY <1>1, <1>2, <1>3, <2>1, StorageOps DEF SameView, IInv, TypeOK
  <2>3. CASE Broken(d) \/ op[cur[w]] = "completed"
    <3>1. SameView(d) \/ (Broken(d) /\ Broken(d)')
      BY <1>1, <1>2, <1>3, <2>1, <2>3, StorageOps DEF SameView, IInv, TypeOK
    <3> QED
      BY <2>2, <3>1, SameDocument, OneDocumentStep
  <2>4. CASE ~Broken(d) /\ op[cur[w]] # "completed"
    <3>1. op[cur[w]] = "pending" /\ op'[cur[w]] = "completed" /\ (d \in blob) = FALSE
      BY <1>1, <1>4, <2>1, <2>4, StorageOps DEF IInv, TypeOK, OpStates
    <3>2. \/ doc[d] = "absent" /\ cur[w] = Up(d)
          \/ doc[d] = "deleted" /\ cur[w] = Del(d)
      BY <1>1, <3>1 DEF BlobInv, OpsMatchRows, Up, Del
    <3>3. /\ AbstractDocument(d) = [row |-> doc[d], stored |-> FALSE, owed |-> TRUE]
          /\ AbstractDocument(d)' = Promise!Gone
      <4>1. Shown(d) /\ Shown(d)'
        BY <1>3, <2>4, Shapes, ShapesNext DEF AllShown
      <4> QED
        BY <4>1, <3>1, <3>2, <1>2 DEF Shown
    <3>4. abstract[d] = AbstractDocument(d) /\ Promise!Becomes(d, AbstractDocument(d)')
            => Promise!Settle(d)
      BY <3>2, <3>3 DEF Promise!Settle
    <3> QED
      BY <2>2, <3>4, OneDocumentStep
  <2> QED
    BY <2>3, <2>4
<1> QED
  BY <1>5, <1>6

LEMMA StepsImplement ==
  ASSUME IInv, BlobInv, IInv', BlobInv', [Next]_vars
  PROVE  Promise!Next \/ abstract' = abstract
<1>1. CASE UNCHANGED vars
  BY <1>1, InvisibleSteps DEF vars, store, history
<1>2. ASSUME NEW w \in Workers,
             BeginUpload(w) \/ BeginDelete(w) \/ BeginRetry(w) \/ Progress(w) \/ Failure(w)
      PROVE  Promise!Next \/ abstract' = abstract
  <2>1. CASE \/ BeginUpload(w) \/ PutObject(w) \/ PutObjectFails(w) \/ InsertCommits(w)
             \/ InsertUnacknowledged(w) \/ BeginRetry(w)
             \/ Reopen(w) \/ IndexRow(w) \/ MarkProcessingFailed(w)
             \/ DeleteCommits(w) \/ DeleteUnacknowledged(w)
             \/ RemoveBlob(w) \/ RemoveBlobFails(w) \/ CompleteStorageOperation(w)
    BY <2>1, UploadImplements, WaiveImplements, RowImplements, StorageImplements
  <2>2. CASE \/ AnnounceProcessing(w) \/ ReportRetry(w) \/ RecordProcessed(w)
             \/ TakeProcessOperation(w)
    <3>1. UNCHANGED <<doc, blob, raced, unacked>>
      BY <2>2 DEF AnnounceProcessing, ReportRetry, RecordProcessed, TakeProcessOperation, history
    <3>2. \/ UNCHANGED op
          \/ \E o \in [kind: ProcessKinds, doc: Docs] : LogPending(o) \/ LogCompleted(o)
      <4>1. CASE AnnounceProcessing(w) \/ ReportRetry(w) \/ RecordProcessed(w)
        BY <4>1 DEF AnnounceProcessing, ReportRetry, RecordProcessed, At, IInv, InHand, ProcessPCs
      <4>2. CASE TakeProcessOperation(w)
        BY <4>2 DEF TakeProcessOperation, At, IInv, InHand
      <4> QED
        BY <2>2, <4>1, <4>2
    <3> QED
      BY <3>1, <3>2, InvisibleSteps
  <2>3. CASE \/ BeginDelete(w) \/ DeleteFindsNothing(w) \/ InsertAborts(w)
             \/ CompleteStorageFails(w) \/ AnnounceFails(w) \/ ReadStatus(w) \/ Extract(w)
             \/ ExtractFails(w) \/ RecordProcessedFails(w) \/ MarkProcessingFailedFails(w)
             \/ ReportRetryFails(w) \/ TakeStorageOperation(w) \/ EnterProcessLane(w)
             \/ TakeProcessOperationFails(w) \/ FetchBlob(w) \/ FetchBlobFails(w)
             \/ Finish(w) \/ Crash(w)
    <3>1. UNCHANGED <<doc, blob, op, raced, unacked>>
      BY <2>3 DEF BeginDelete, DeleteFindsNothing, InsertAborts, CompleteStorageFails,
         AnnounceFails, ReadStatus, Extract, ExtractFails, RecordProcessedFails,
         MarkProcessingFailedFails, ReportRetryFails, TakeStorageOperation, EnterProcessLane,
         TakeProcessOperationFails, FetchBlob, FetchBlobFails, Finish, Crash, store, history
    <3> QED
      BY <3>1, InvisibleSteps
  <2> QED
    BY <1>2, <2>1, <2>2, <2>3 DEF Progress, Failure
<1> QED
  BY <1>1, <1>2 DEF Next

LEMMA InitImplements == Init => Promise!Init
<1> SUFFICES ASSUME Init PROVE Promise!Init
  OBVIOUS
<1>1. \A d \in Docs : AbstractDocument(d) = Promise!Fresh
  <2> TAKE d \in Docs
  <2>1. ~Broken(d) /\ doc[d] = "absent" /\ d \notin blob /\ op[Up(d)] = "none" /\ op[Del(d)] = "none"
    BY StorageOps DEF Init, Broken
  <2>2. (d \in blob) = FALSE /\ Owed(d) = FALSE
    <3>1. ~Owed(d) /\ Owed(d) \in BOOLEAN
      BY <2>1, OwedKinds DEF Owed
    <3> QED
      BY <2>1, <3>1
  <2>3. ~Settled(d)
    BY <2>1 DEF Settled, Up, Del
  <2> QED
    BY <2>1, <2>2, <2>3 DEF AbstractDocument, Broken, Promise!Fresh
<1> QED
  BY <1>1 DEF Promise!Init, abstract

\* Row, blob and outbox, in the hands of any number of requests that fail
\* anywhere, implement DocumentPromise.
THEOREM PromiseKept == Spec => KeepsPromise
<1>1. IInv /\ BlobInv /\ IInv' /\ BlobInv' /\ [Next]_vars => [Promise!Next]_abstract
  BY StepsImplement
<1>2. Spec => []IInv /\ []BlobInv
  BY Invariance, BlobInvariance
<1> QED
  BY InitImplements, <1>1, <1>2, PTL DEF Spec, KeepsPromise, Promise!Spec
=============================================================================
