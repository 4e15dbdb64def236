------------------------ MODULE FinancialImportProofs -----------------------
(***************************************************************************)
(* Proofs about FinancialImport. The invariants of the module are not      *)
(* inductive: they rest on what the journal knows of an import in each of  *)
(* its states, and on what the workers that upload it know, of whom there  *)
(* is at most one past its claim.                                          *)
(***************************************************************************)
EXTENDS FinancialImport, TLAPS

\* Past the claim of an upload and before its end.
Uploading(t) == t # Idle /\ t.step \in {"put", "check", "record", "failed"}

\* A source that is decided was decided by another than its proposer.
DecidedByAnother(r) ==
    source[r] # NoSource /\ source[r].status \in {"approved", "revoked"} =>
        source[r].reviewer \in Users \ {source[r].by}

\* What the state of an import says of its revision, version and object.
Journalled(i) ==
    /\ journal[i] = NoImport => objects[i] = {}
    /\ journal[i] # NoImport => Backed(SourceOf(i), journal[i].file)
    /\ InState(i, "prepared") => journal[i].revision = 1 /\ objects[i] = {}
    /\ InState(i, "uploading") => journal[i].revision = 2
    /\ InState(i, "stored") => journal[i].revision = 3
    /\ InState(i, "committed") => journal[i].revision = 4
    /\ InState(i, "prepared") \/ InState(i, "uploading") \/ InState(i, "quarantined") =>
        journal[i].version = NoVersion
    /\ InState(i, "stored") \/ InState(i, "committed") => journal[i].version # NoVersion

\* What a worker knows of the import it works on.
TaskFits(t) ==
    t # Idle =>
        /\ journal[t.import] # NoImport
        /\ t.file = journal[t.import].file
        /\ t.step = "claim" => t.revision = 1
        /\ Uploading(t) => t.revision = 2 /\ ~InState(t.import, "prepared")
        /\ t.step = "put" => objects[t.import] = {} /\ journal[t.import].version = NoVersion
        /\ t.step \in {"check", "record"} =>
            /\ t.version # NoVersion
            /\ objects[t.import] = {[version |-> t.version, file |-> t.file]}
        /\ t.step = "commit" => t.revision = 3

OneUploader ==
    \A v, w \in Workers :
        Uploading(task[v]) /\ Uploading(task[w]) /\ task[v].import = task[w].import => v = w

SnapshotFits(i) ==
    /\ snapshot[i] # NoSnapshot <=> InState(i, "committed")
    /\ snapshot[i] # NoSnapshot =>
        snapshot[i] = [version |-> journal[i].version, file |-> journal[i].file]

Inv ==
    /\ TypeOK
    /\ WrittenOnce
    /\ \A r \in Sources : DecidedByAnother(r)
    /\ \A i \in Imports : Journalled(i) /\ SnapshotFits(i)
    /\ \A w \in Workers : TaskFits(task[w])
    /\ OneUploader

-----------------------------------------------------------------------------

\* A swap that goes through leaves every journal row a row.
LEMMA SwapTyped ==
    ASSUME TypeOK, NEW i \in Imports, NEW from, NEW n,
           NEW to \in {"prepared", "uploading", "stored", "committed", "quarantined"},
           NEW v \in Versions \union {NoVersion},
           Swap(i, from, n, to, v), n \in Nat
    PROVE  journal' \in [Imports -> ImportRecords \union {NoImport}]
<1> DEFINE row == [state |-> to, revision |-> n + 1, file |-> journal[i].file,
                   version |-> v, stale |-> FALSE]
<1>1. journal[i] \in ImportRecords
    BY DEF Swap, InState, TypeOK
<1>2. row \in ImportRecords
    BY <1>1 DEF ImportRecords
<1>3. journal' = [journal EXCEPT ![i] = row]
    BY DEF Swap
<1> HIDE DEF row
<1> QED BY <1>2, <1>3 DEF TypeOK

LEMMA PolicyTyped == TypeOK /\ PolicyStep => TypeOK'
<1> SUFFICES ASSUME TypeOK, PolicyStep PROVE TypeOK'
    OBVIOUS
<1>1. UNCHANGED <<journal, objects, snapshot, intake, task>>
    BY DEF PolicyStep, ProposeSource, DecideSource, RequestChallenge,
        ProvePossession, ReviewDossier, RevokeSource, ChallengeExpires, Sign, importVars
<1>2. ASSUME NEW r \in Sources, NEW u \in Users, ProposeSource(r, u) PROVE TypeOK'
    BY <1>1, <1>2 DEF ProposeSource, TypeOK, SourceRecords
<1>3. ASSUME NEW r \in Sources, NEW u \in Users, DecideSource(r, u) PROVE TypeOK'
    <2>1. source[r] \in SourceRecords
        BY <1>3 DEF DecideSource, HasStatus, TypeOK
    <2>2. PICK verdict \in {"approved", "rejected"} :
            source' = [source EXCEPT ![r].status = verdict, ![r].reviewer = u]
        BY <1>3 DEF DecideSource
    <2>3. source' \in [Sources -> SourceRecords \union {NoSource}]
        BY <2>1, <2>2 DEF TypeOK, SourceRecords
    <2> QED BY <1>1, <1>3, <2>3 DEF DecideSource, TypeOK
<1>4. ASSUME NEW r \in Sources, RevokeSource(r) PROVE TypeOK'
    <2>1. source[r] \in SourceRecords
        BY <1>4 DEF RevokeSource, Approved, HasStatus, TypeOK
    <2>2. source' \in [Sources -> SourceRecords \union {NoSource}]
        BY <1>4, <2>1 DEF RevokeSource, TypeOK, SourceRecords
    <2> QED BY <1>1, <1>4, <2>2 DEF RevokeSource, TypeOK
<1>5. ASSUME NEW r \in Sources, NEW u \in Users, RequestChallenge(r, u) PROVE TypeOK'
    BY <1>1, <1>5 DEF RequestChallenge, TypeOK, DossierRecords
<1>6. ASSUME NEW r \in Sources, NEW u \in Users,
             ProvePossession(r, u) \/ ReviewDossier(r, u)
      PROVE  TypeOK'
    <2>1. dossier[r] \in DossierRecords
        BY <1>6 DEF ProvePossession, ReviewDossier, InDossier, TypeOK
    <2>2. CASE ProvePossession(r, u)
        BY <1>1, <2>1, <2>2 DEF ProvePossession, TypeOK, DossierRecords
    <2>3. CASE ReviewDossier(r, u)
        <3>1. PICK verdict \in {"reviewed", "rejected"} :
                dossier' = [dossier EXCEPT ![r].status = verdict]
            BY <2>3 DEF ReviewDossier
        <3>2. dossier' \in [Sources -> DossierRecords \union {NoDossier}]
            BY <2>1, <3>1 DEF TypeOK, DossierRecords
        <3> QED BY <1>1, <2>3, <3>2 DEF ReviewDossier, TypeOK
    <2> QED BY <1>6, <2>2, <2>3
<1>7. ASSUME NEW k \in SigningKeys, NEW r \in Sources, NEW f \in Files, Sign(k, r, f)
      PROVE  TypeOK'
    BY <1>1, <1>7 DEF Sign, TypeOK
<1>8. ASSUME NEW r \in Sources, ChallengeExpires(r) PROVE TypeOK'
    <2>1. dossier[r] \in DossierRecords
        BY <1>8 DEF ChallengeExpires, InDossier, TypeOK
    <2>2. dossier' \in [Sources -> DossierRecords \union {NoDossier}]
        BY <1>8, <2>1 DEF ChallengeExpires, TypeOK, DossierRecords
    <2> QED BY <1>1, <1>8, <2>2 DEF ChallengeExpires, TypeOK
<1> QED BY <1>2, <1>3, <1>4, <1>5, <1>6, <1>7, <1>8 DEF PolicyStep

LEMMA IntakeTyped == TypeOK /\ IntakeStep => TypeOK'
<1> SUFFICES ASSUME TypeOK, IntakeStep PROVE TypeOK'
    OBVIOUS
<1>1. ASSUME NEW x \in Intakes, NEW r \in Sources, IntakeObject(x, r) PROVE TypeOK'
    BY <1>1 DEF IntakeObject, TypeOK, IntakeRecords, policyVars, importVars
<1>2. ASSUME NEW x \in Intakes, IntakeRow(x) PROVE TypeOK'
    <2>1. intake[x] \in IntakeRecords
        BY <1>2 DEF IntakeRow, TypeOK
    <2>2. intake' \in [Intakes -> IntakeRecords \union {NoIntake}]
        BY <1>2, <2>1 DEF IntakeRow, TypeOK, IntakeRecords
    <2> QED BY <1>2, <2>2 DEF IntakeRow, TypeOK, policyVars, importVars
<1> QED BY <1>1, <1>2 DEF IntakeStep

LEMMA ImportTyped == TypeOK /\ ImportStep => TypeOK'
<1> SUFFICES ASSUME TypeOK, ImportStep PROVE TypeOK'
    OBVIOUS
<1>1. ASSUME NEW i \in Imports, NEW f \in Files, Prepare(i, f) PROVE TypeOK'
    BY <1>1 DEF Prepare, TypeOK, ImportRecords, policyVars
<1>2. ASSUME NEW i \in Imports, FiveMinutesPass(i) PROVE TypeOK'
    <2>1. journal[i] \in ImportRecords
        BY <1>2 DEF FiveMinutesPass, InState, TypeOK
    <2>2. journal' \in [Imports -> ImportRecords \union {NoImport}]
        BY <1>2, <2>1 DEF FiveMinutesPass, TypeOK, ImportRecords
    <2> QED BY <1>2, <2>2 DEF FiveMinutesPass, TypeOK, policyVars
<1>3. ASSUME NEW w \in Workers, NEW i \in Imports, NEW s \in TaskSteps,
             journal[i] # NoImport, Start(w, i, s)
      PROVE  task' \in [Workers -> Tasks \union {Idle}]
    <2>1. journal[i] \in ImportRecords
        BY <1>3 DEF TypeOK
    <2> QED BY <1>3, <2>1 DEF Start, TypeOK, ImportRecords, Tasks
<1>4. ASSUME NEW w \in Workers, NEW i \in Imports,
             StartUpload(w, i) \/ StartFinalize(w, i) \/ StartSweep(w, i)
      PROVE  TypeOK'
    <2>1. task' \in [Workers -> Tasks \union {Idle}]
        BY <1>3, <1>4 DEF StartUpload, StartFinalize, StartSweep, InState, TaskSteps
    <2> QED BY <1>4, <2>1 DEF StartUpload, StartFinalize, StartSweep, TypeOK, policyVars
<1> QED BY <1>1, <1>2, <1>4 DEF ImportStep

LEMMA WorkerTyped ==
    ASSUME TypeOK, NEW w \in Workers,
           \/ Claim(w) \/ ClaimRefused(w) \/ Put(w) \/ PutFails(w) \/ CheckLock(w)
           \/ Record(w) \/ QuarantineFailed(w) \/ Commit(w) \/ Sweep(w) \/ Stops(w)
    PROVE  TypeOK'
<1> DEFINE i == task[w].import
<1>1. task[w] \in Tasks
    BY DEF Claim, ClaimRefused, Put, PutFails, CheckLock, Record, QuarantineFailed,
        Commit, Sweep, Stops, At, TypeOK
<1>2. i \in Imports /\ task[w].file \in Files
    BY <1>1 DEF Tasks
<1>3. ASSUME NEW s \in TaskSteps, Goes(w, s)
      PROVE  task' \in [Workers -> Tasks \union {Idle}]
    BY <1>1, <1>3 DEF Goes, TypeOK, Tasks
<1>4. Ends(w) => task' \in [Workers -> Tasks \union {Idle}]
    BY DEF Ends, TypeOK
<1>5. CASE ClaimRefused(w) \/ PutFails(w) \/ CheckLock(w) \/ Stops(w)
    <2>1. task' \in [Workers -> Tasks \union {Idle}]
        BY <1>3, <1>4, <1>5 DEF ClaimRefused, PutFails, CheckLock, Stops, TaskSteps
    <2> QED BY <1>5, <2>1 DEF ClaimRefused, PutFails, CheckLock, Stops, TypeOK, policyVars
<1>6. CASE Put(w)
    <2>1. PICK v \in Versions :
            /\ objects' = [objects EXCEPT
                 ![i] = @ \union {[version |-> v, file |-> task[w].file]}]
            /\ task' = [task EXCEPT ![w].step = "check", ![w].version = v] \/ Goes(w, "failed")
        BY <1>6 DEF Put, Unused
    <2>2. objects' \in [Imports -> SUBSET ObjectVersions]
        BY <1>2, <2>1 DEF TypeOK, ObjectVersions
    <2>3. task' \in [Workers -> Tasks \union {Idle}]
        BY <1>1, <1>3, <2>1 DEF TypeOK, Tasks, TaskSteps
    <2> QED BY <1>6, <2>2, <2>3 DEF Put, TypeOK, policyVars
<1>7. CASE Claim(w)
    <2>1. journal' \in [Imports -> ImportRecords \union {NoImport}]
        BY <1>1, <1>2, <1>7, SwapTyped DEF Claim, ClaimSwap, Tasks
    <2>2. task' \in [Workers -> Tasks \union {Idle}]
        BY <1>1, <1>7 DEF Claim, TypeOK, Tasks, TaskSteps
    <2> QED BY <1>7, <2>1, <2>2 DEF Claim, TypeOK, policyVars
<1>8. CASE Record(w)
    <2>1. journal' \in [Imports -> ImportRecords \union {NoImport}]
        BY <1>1, <1>2, <1>8, SwapTyped DEF Record, PinSwap, Tasks
    <2> QED BY <1>4, <1>8, <2>1 DEF Record, TypeOK, policyVars
<1>9. CASE QuarantineFailed(w) \/ Sweep(w)
    <2>1. Swap(i, "uploading", journal[i].revision, "quarantined", NoVersion)
        BY <1>9 DEF QuarantineFailed, Sweep
    <2>2. journal[i].revision \in Nat
        BY <1>2, <2>1 DEF Swap, InState, TypeOK, ImportRecords
    <2>3. journal' \in [Imports -> ImportRecords \union {NoImport}]
        BY <1>2, <2>1, <2>2, SwapTyped
    <2>4. Ends(w) /\ UNCHANGED <<policyVars, objects, snapshot, intake>>
        BY <1>9 DEF QuarantineFailed, Sweep
    <2> QED BY <1>4, <2>3, <2>4 DEF TypeOK, policyVars
<1>10. CASE Commit(w)
    <2>1. journal[i] \in ImportRecords
        BY <1>2, <1>10 DEF Commit, Swap, InState, TypeOK
    <2>2. journal' \in [Imports -> ImportRecords \union {NoImport}]
        <3>1. journal[i].version \in Versions \union {NoVersion} /\ task[w].revision \in Nat
            BY <1>1, <2>1 DEF ImportRecords, Tasks
        <3> QED BY <1>2, <1>10, <3>1, SwapTyped DEF Commit
    <2>3. snapshot' \in [Imports -> SnapshotRecords \union {NoSnapshot}]
        BY <1>2, <1>10, <2>1 DEF Commit, TypeOK, ImportRecords, SnapshotRecords
    <2> QED BY <1>4, <1>10, <2>2, <2>3 DEF Commit, TypeOK, policyVars
<1> QED BY <1>5, <1>6, <1>7, <1>8, <1>9, <1>10

LEMMA TypeStep == TypeOK /\ [Next]_vars => TypeOK'
<1>1. TypeOK /\ UNCHANGED vars => TypeOK'
    BY DEF TypeOK, vars
<1>2. TypeOK /\ WorkerStep => TypeOK'
    BY WorkerTyped DEF WorkerStep
<1> QED BY <1>1, <1>2, PolicyTyped, IntakeTyped, ImportTyped DEF Next

-----------------------------------------------------------------------------

LEMMA SourceOfImport == \A i \in Imports : SourceOf(i) \in Sources
    BY DEF Imports, SourceOf

\* What a step of the policy does to the definition of a source: nothing, or
\* it proposes, decides or revokes it.
Unproposed(r) == source[r] = NoSource /\ source'[r].status = "pending"
SameProposal(r) ==
    /\ source[r] # NoSource /\ source'[r] # NoSource
    /\ source'[r].key = source[r].key
    /\ source'[r].by = source[r].by
NowDecided(r) ==
    /\ SameProposal(r)
    /\ source[r].status = "pending"
    /\ source'[r].status \in {"approved", "rejected"}
    /\ source'[r].reviewer \in Users \ {source[r].by}
NowRevoked(r) ==
    /\ SameProposal(r)
    /\ source[r].status = "approved"
    /\ source'[r].status = "revoked"
    /\ source'[r].reviewer = source[r].reviewer

LEMMA SourceStep ==
    ASSUME TypeOK, PolicyStep, NEW r \in Sources
    PROVE  source'[r] = source[r] \/ Unproposed(r) \/ NowDecided(r) \/ NowRevoked(r)
<1> DEFINE Goal == source'[r] = source[r] \/ Unproposed(r) \/ NowDecided(r) \/ NowRevoked(r)
<1>1. ASSUME NEW q \in Sources, NEW u \in Users, ProposeSource(q, u) PROVE Goal
    BY <1>1 DEF ProposeSource, TypeOK, Unproposed
<1>2. ASSUME NEW q \in Sources, NEW u \in Users, DecideSource(q, u) PROVE Goal
    <2>1. PICK verdict \in {"approved", "rejected"} :
            source' = [source EXCEPT ![q].status = verdict, ![q].reviewer = u]
        BY <1>2 DEF DecideSource
    <2>2. source[q] \in SourceRecords /\ source[q].status = "pending" /\ source[q].by # u
        BY <1>2 DEF DecideSource, HasStatus, TypeOK
    <2>3. source'[q] \in SourceRecords
        BY <2>1, <2>2 DEF TypeOK, SourceRecords
    <2>4. NowDecided(q)
        BY <2>1, <2>2, <2>3, FinancialNonesAssumption
            DEF NowDecided, SameProposal, TypeOK, SourceRecords
    <2>5. r # q => source'[r] = source[r]
        BY <2>1 DEF TypeOK
    <2> QED BY <2>4, <2>5
<1>3. ASSUME NEW q \in Sources, RevokeSource(q) PROVE Goal
    <2>1. source[q] \in SourceRecords /\ source[q].status = "approved"
        BY <1>3 DEF RevokeSource, Approved, HasStatus, TypeOK
    <2>2. source'[q] \in SourceRecords
        BY <1>3, <2>1 DEF RevokeSource, TypeOK, SourceRecords
    <2>3. NowRevoked(q)
        BY <1>3, <2>1, <2>2, FinancialNonesAssumption
            DEF RevokeSource, NowRevoked, SameProposal, TypeOK, SourceRecords
    <2>4. r # q => source'[r] = source[r]
        BY <1>3 DEF RevokeSource, TypeOK
    <2> QED BY <2>3, <2>4
<1>4. source' = source => Goal
    OBVIOUS
<1> QED BY <1>1, <1>2, <1>3, <1>4 DEF PolicyStep, RequestChallenge, ProvePossession,
    ReviewDossier, ChallengeExpires, Sign

\* No step of the policy unsettles what a source stands for.
LEMMA BackedStands ==
    ASSUME TypeOK, PolicyStep, NEW r \in Sources, NEW f, Backed(r, f)
    PROVE  Backed(r, f)'
<1>1. source[r] # NoSource
    BY DEF Backed
<1>2. signed \subseteq signed'
    BY DEF PolicyStep, ProposeSource, DecideSource, RequestChallenge, ProvePossession,
        ReviewDossier, RevokeSource, ChallengeExpires, Sign
<1>3. /\ source'[r] # NoSource
      /\ source'[r].key = source[r].key
      /\ source'[r].by = source[r].by
      /\ source'[r].reviewer \in Users \ {source[r].by}
    BY <1>1, SourceStep DEF Backed, Unproposed, SameProposal, NowDecided, NowRevoked
<1> QED BY <1>2, <1>3 DEF Backed

LEMMA PolicyKeeps == Inv /\ PolicyStep => Inv'
<1> SUFFICES ASSUME Inv, PolicyStep PROVE Inv'
    OBVIOUS
<1>1. TypeOK'
    BY TypeStep DEF Inv, Next
<1>2. UNCHANGED <<journal, objects, snapshot, intake, task>>
    BY DEF PolicyStep, ProposeSource, DecideSource, RequestChallenge,
        ProvePossession, ReviewDossier, RevokeSource, ChallengeExpires, Sign, importVars
<1>3. WrittenOnce' /\ OneUploader'
    BY <1>2 DEF Inv, WrittenOnce, OneUploader, Uploading
<1>4. ASSUME NEW r \in Sources PROVE DecidedByAnother(r)'
    BY SourceStep DEF Inv, DecidedByAnother, Unproposed, SameProposal, NowDecided, NowRevoked
<1>5. ASSUME NEW i \in Imports PROVE Journalled(i)' /\ SnapshotFits(i)'
    BY <1>2, BackedStands, SourceOfImport DEF Inv, Journalled, SnapshotFits, InState, TypeOK
<1>6. ASSUME NEW w \in Workers PROVE TaskFits(task[w])'
    BY <1>2 DEF Inv, TaskFits, Uploading, InState
<1> QED BY <1>1, <1>3, <1>4, <1>5, <1>6 DEF Inv

LEMMA IntakeKeeps == Inv /\ IntakeStep => Inv'
<1> SUFFICES ASSUME Inv, IntakeStep PROVE Inv'
    OBVIOUS
<1>1. TypeOK'
    BY TypeStep DEF Inv, Next
<1>2. UNCHANGED <<source, dossier, signed, journal, objects, snapshot, task>>
    BY DEF IntakeStep, IntakeObject, IntakeRow, policyVars, importVars
<1> QED BY <1>1, <1>2 DEF Inv, WrittenOnce, OneUploader, Uploading, DecidedByAnother,
    Journalled, SnapshotFits, TaskFits, InState, Backed

\* For the steps that leave the policy alone it is enough to look at the
\* imports and the workers.
LEMMA SamePolicy ==
    ASSUME Inv, TypeOK', UNCHANGED <<source, signed>>,
           WrittenOnce', \A i \in Imports : Journalled(i)' /\ SnapshotFits(i)',
           \A w \in Workers : TaskFits(task[w])', OneUploader'
    PROVE  Inv'
    BY DEF Inv, DecidedByAnother

LEMMA PrepareKeeps ==
    ASSUME Inv, TypeOK', NEW i \in Imports, NEW f \in Files, Prepare(i, f)
    PROVE  Inv'
<1> DEFINE row == [state |-> "prepared", revision |-> 1, file |-> f,
                   version |-> NoVersion, stale |-> FALSE]
<1>1. /\ journal[i] = NoImport /\ journal' = [journal EXCEPT ![i] = row]
      /\ UNCHANGED <<source, signed, objects, snapshot, intake, task>>
      /\ HasStatus(SourceOf(i), "approved") /\ ManifestHolds(SourceOf(i), f)
    BY DEF Prepare, Approved, policyVars
<1>2. journal'[i] = row /\ journal'[i] # NoImport
    <2>1. row \in ImportRecords
        BY DEF ImportRecords
    <2>2. journal'[i] = row
        BY <1>1 DEF Inv, TypeOK
    <2> QED BY <2>1, <2>2, FinancialNonesAssumption
<1>3. \A j \in Imports : j # i => journal'[j] = journal[j]
    BY <1>1 DEF Inv, TypeOK
<1>4. WrittenOnce'
    BY <1>1, <1>2, <1>3 DEF Inv, WrittenOnce
<1>5. ASSUME NEW j \in Imports PROVE Journalled(j)' /\ SnapshotFits(j)'
    <2>1. CASE j = i
        <3>1. Backed(SourceOf(i), f)'
            BY <1>1, SourceOfImport DEF Inv, Backed, ManifestHolds, HasStatus, DecidedByAnother
        <3>2. Journalled(i) /\ SnapshotFits(i) /\ objects[i] = {} /\ snapshot[i] = NoSnapshot
            BY <1>1 DEF Inv, Journalled, SnapshotFits, InState
        <3>3. Journalled(i)'
            BY <1>1, <1>2, <3>1, <3>2 DEF Journalled, InState
        <3> QED BY <1>1, <1>2, <2>1, <3>2, <3>3 DEF SnapshotFits, InState
    <2>2. CASE j # i
        BY <1>1, <1>3, <2>2 DEF Inv, Journalled, SnapshotFits, InState, Backed
    <2> QED BY <2>1, <2>2
<1>6. ASSUME NEW w \in Workers PROVE TaskFits(task[w])'
    BY <1>1, <1>2, <1>3 DEF Inv, TaskFits, Uploading, InState, TypeOK, Tasks
<1>7. OneUploader'
    BY <1>1 DEF Inv, OneUploader, Uploading
<1> QED BY <1>1, <1>4, <1>5, <1>6, <1>7, SamePolicy

LEMMA FiveMinutesKeeps ==
    ASSUME Inv, TypeOK', NEW i \in Imports, FiveMinutesPass(i)
    PROVE  Inv'
<1>1. /\ journal[i] \in ImportRecords /\ journal' = [journal EXCEPT ![i].stale = TRUE]
      /\ UNCHANGED <<source, signed, objects, snapshot, intake, task>>
    BY DEF FiveMinutesPass, InState, Inv, TypeOK, policyVars
<1>2. /\ journal'[i] # NoImport /\ journal'[i].state = journal[i].state
      /\ journal'[i].revision = journal[i].revision /\ journal'[i].file = journal[i].file
      /\ journal'[i].version = journal[i].version /\ journal[i] # NoImport
    <2>1. journal'[i] \in ImportRecords
        BY <1>1 DEF Inv, TypeOK, ImportRecords
    <2> QED BY <1>1, <2>1, FinancialNonesAssumption DEF Inv, TypeOK, ImportRecords
<1>3. \A j \in Imports : j # i => journal'[j] = journal[j]
    BY <1>1 DEF Inv, TypeOK
<1>4. WrittenOnce'
    BY <1>1, <1>2, <1>3 DEF Inv, WrittenOnce
<1>5. ASSUME NEW j \in Imports PROVE Journalled(j)' /\ SnapshotFits(j)'
    BY <1>1, <1>2, <1>3 DEF Inv, Journalled, SnapshotFits, InState, Backed
<1>6. ASSUME NEW w \in Workers PROVE TaskFits(task[w])'
    BY <1>1, <1>2, <1>3 DEF Inv, TaskFits, Uploading, InState, TypeOK, Tasks
<1>7. OneUploader'
    BY <1>1 DEF Inv, OneUploader, Uploading
<1> QED BY <1>1, <1>4, <1>5, <1>6, <1>7, SamePolicy

\* A worker that starts knows the import as it stands, and is not past a claim.
LEMMA StartKeeps ==
    ASSUME Inv, TypeOK', NEW w \in Workers, NEW i \in Imports,
           StartUpload(w, i) \/ StartFinalize(w, i) \/ StartSweep(w, i)
    PROVE  Inv'
<1>1. PICK s \in {"claim", "commit", "sweep"} :
        /\ Start(w, i, s)
        /\ s = "claim" => InState(i, "prepared")
        /\ s = "commit" => InState(i, "stored")
        /\ journal[i] # NoImport
        /\ UNCHANGED <<source, signed, journal, objects, snapshot, intake>>
    BY DEF StartUpload, StartFinalize, StartSweep, InState, policyVars
<1>2. /\ task'[w] = [step |-> s, import |-> i, revision |-> journal[i].revision,
                     file |-> journal[i].file, version |-> journal[i].version]
      /\ \A v \in Workers : v # w => task'[v] = task[v]
    BY <1>1 DEF Start, Inv, TypeOK
<1>3. ASSUME NEW v \in Workers PROVE TaskFits(task[v])'
    <2>1. CASE v = w
        BY <1>1, <1>2, <2>1 DEF TaskFits, Uploading, InState, Inv, Journalled
    <2>2. CASE v # w
        BY <1>1, <1>2, <2>2 DEF TaskFits, Uploading, InState, Inv
    <2> QED BY <2>1, <2>2
<1>4. OneUploader'
    BY <1>1, <1>2 DEF Inv, OneUploader, Uploading
<1>5. WrittenOnce' /\ \A j \in Imports : Journalled(j)' /\ SnapshotFits(j)'
    BY <1>1 DEF Inv, WrittenOnce, Journalled, SnapshotFits, InState, Backed
<1> QED BY <1>1, <1>3, <1>4, <1>5, SamePolicy

\* Steps in which a worker gives up, or goes on without touching the import.
LEMMA WalkKeeps ==
    ASSUME Inv, TypeOK', NEW w \in Workers,
           ClaimRefused(w) \/ PutFails(w) \/ CheckLock(w) \/ Stops(w)
    PROVE  Inv'
<1>1. /\ UNCHANGED <<source, signed, journal, objects, snapshot, intake>>
      /\ task[w] # Idle
      /\ \/ Ends(w)
         \/ task[w].step = "put" /\ Goes(w, "failed")
         \/ task[w].step = "check" /\ (Goes(w, "record") \/ Goes(w, "failed"))
    BY DEF ClaimRefused, PutFails, CheckLock, Stops, At, policyVars
<1>2. task[w] \in Tasks
    BY <1>1 DEF Inv, TypeOK
<1>3. \A v \in Workers : v # w => task'[v] = task[v]
    BY <1>1 DEF Goes, Ends, Inv, TypeOK
<1>4. \/ task'[w] = Idle
      \/ /\ task[w].step \in {"put", "check"}
         /\ task'[w].step \in {"failed", "record"}
         /\ task'[w].step = "record" => task[w].step = "check"
         /\ task'[w].import = task[w].import /\ task'[w].file = task[w].file
         /\ task'[w].revision = task[w].revision /\ task'[w].version = task[w].version
    BY <1>1, <1>2 DEF Goes, Ends, Inv, TypeOK, Tasks
<1>5. ASSUME NEW v \in Workers PROVE TaskFits(task[v])'
    <2>1. CASE v = w
        BY <1>1, <1>4, <2>1 DEF TaskFits, Uploading, InState, Inv
    <2>2. CASE v # w
        BY <1>1, <1>3, <2>2 DEF TaskFits, Uploading, InState, Inv
    <2> QED BY <2>1, <2>2
<1>6. OneUploader'
    BY <1>1, <1>3, <1>4 DEF Inv, OneUploader, Uploading
<1>7. WrittenOnce' /\ \A j \in Imports : Journalled(j)' /\ SnapshotFits(j)'
    BY <1>1 DEF Inv, WrittenOnce, Journalled, SnapshotFits, InState, Backed
<1> QED BY <1>1, <1>5, <1>6, <1>7, SamePolicy

\* Only the one uploader of an import writes its object, and only while there
\* is none.
LEMMA PutKeeps ==
    ASSUME Inv, TypeOK', NEW w \in Workers, Put(w)
    PROVE  Inv'
<1> DEFINE i == task[w].import
           f == task[w].file
<1>1. /\ task[w] # Idle /\ task[w].step = "put" /\ task[w] \in Tasks
      /\ UNCHANGED <<source, signed, journal, snapshot, intake>>
    BY DEF Put, At, Inv, TypeOK, policyVars
<1>2. i \in Imports /\ objects[i] = {} /\ journal[i].version = NoVersion
      /\ f = journal[i].file /\ journal[i] # NoImport /\ task[w].revision = 2
      /\ ~InState(i, "prepared")
    BY <1>1 DEF Inv, TaskFits, Uploading, Tasks
<1>3. PICK v \in Versions :
        /\ objects' = [objects EXCEPT ![i] = @ \union {[version |-> v, file |-> f]}]
        /\ task' = [task EXCEPT ![w].step = "check", ![w].version = v] \/ Goes(w, "failed")
    BY DEF Put, Unused
<1>4. /\ objects'[i] = {[version |-> v, file |-> f]}
      /\ \A j \in Imports : j # i => objects'[j] = objects[j]
    BY <1>2, <1>3 DEF Inv, TypeOK
<1>5. /\ task'[w].import = i /\ task'[w].file = f /\ task'[w].revision = 2
      /\ \/ task'[w].step = "check" /\ task'[w].version = v
         \/ task'[w].step = "failed"
      /\ task'[w] # Idle
    BY <1>1, <1>2, <1>3, FinancialNonesAssumption DEF Goes, Inv, TypeOK, Tasks, TaskSteps
<1>6. \A u \in Workers : u # w => task'[u] = task[u]
    BY <1>3 DEF Goes, Inv, TypeOK
<1>7. WrittenOnce'
    BY <1>1, <1>2, <1>4 DEF Inv, WrittenOnce
<1>8. ASSUME NEW j \in Imports PROVE Journalled(j)' /\ SnapshotFits(j)'
    BY <1>1, <1>2, <1>4 DEF Inv, Journalled, SnapshotFits, InState, Backed
<1>9. ASSUME NEW u \in Workers PROVE TaskFits(task[u])'
    <2>1. CASE u = w
        BY <1>1, <1>2, <1>4, <1>5, <2>1, FinancialNonesAssumption DEF TaskFits, Uploading, InState
    <2>2. CASE u # w
        <3>1. TaskFits(task[u]) /\ (Uploading(task[u]) => task[u].import # i)
            BY <1>1, <2>2 DEF Inv, OneUploader, Uploading
        <3>2. task[u] # Idle => task[u].import \in Imports
            BY DEF Inv, TypeOK, Tasks
        <3> QED BY <1>1, <1>4, <1>6, <2>2, <3>1, <3>2 DEF TaskFits, Uploading, InState
    <2> QED BY <2>1, <2>2
<1>10. OneUploader'
    BY <1>1, <1>5, <1>6 DEF Inv, OneUploader, Uploading
<1> QED BY <1>1, <1>7, <1>8, <1>9, <1>10, SamePolicy

\* What a swap does to an import, and to no other.
Moved(i, from, n, to, v) ==
    /\ journal[i] # NoImport /\ journal'[i] # NoImport
    /\ journal[i].state = from /\ journal'[i].state = to
    /\ journal'[i].revision = n + 1
    /\ journal'[i].file = journal[i].file /\ journal'[i].version = v
    /\ \A j \in Imports : j # i => journal'[j] = journal[j]

LEMMA Swapped ==
    ASSUME TypeOK, NEW i \in Imports, NEW from, NEW n \in Nat,
           NEW to \in {"prepared", "uploading", "stored", "committed", "quarantined"},
           NEW v \in Versions \union {NoVersion},
           Swap(i, from, n, to, v)
    PROVE  Moved(i, from, n, to, v)
<1> DEFINE row == [state |-> to, revision |-> n + 1, file |-> journal[i].file,
                   version |-> v, stale |-> FALSE]
<1>1. journal' = [journal EXCEPT ![i] = row] /\ InState(i, from) /\ journal[i].revision = n
    BY DEF Swap
<1>2. journal'[i] = row
    BY <1>1 DEF TypeOK
<1>3. journal[i] \in ImportRecords
    BY <1>1 DEF InState, TypeOK
<1>4. row \in ImportRecords
    BY <1>3 DEF ImportRecords
<1> QED BY <1>1, <1>2, <1>4, FinancialNonesAssumption DEF InState, TypeOK, Moved

LEMMA ClaimKeeps ==
    ASSUME Inv, TypeOK', NEW w \in Workers, Claim(w)
    PROVE  Inv'
<1>0. PICK i \in Imports : i = task[w].import
    BY DEF Claim, At, Inv, TypeOK, Tasks
<1>1. /\ task[w] # Idle /\ task[w].step = "claim" /\ task[w] \in Tasks
      /\ Swap(i, "prepared", task[w].revision, "uploading", NoVersion)
      /\ UNCHANGED <<source, signed, objects, snapshot, intake>>
    BY <1>0 DEF Claim, ClaimSwap, At, Inv, TypeOK, policyVars
<1>2. /\ i \in Imports /\ task[w].revision = 1 /\ TypeOK
      /\ task[w].file = journal[i].file
    BY <1>0, <1>1 DEF Inv, TaskFits, Tasks
<1>3. /\ journal[i] # NoImport /\ journal'[i] # NoImport
      /\ journal[i].state = "prepared" /\ journal'[i].state = "uploading"
      /\ journal'[i].revision = 2
      /\ journal'[i].file = journal[i].file /\ journal'[i].version = NoVersion
      /\ \A j \in Imports : j # i => journal'[j] = journal[j]
    <2>1. TypeOK /\ i \in Imports
        BY <1>2
    <2>2. task[w].revision \in Nat
        BY <1>2
    <2>3. Moved(i, "prepared", task[w].revision, "uploading", NoVersion)
        BY <1>0, <1>1, <1>2, <2>1, <2>2, Swapped
    <2> QED BY <1>2, <2>3 DEF Moved
<1>4. /\ task'[w] # Idle /\ task'[w].step = "put" /\ task'[w].import = i
      /\ task'[w].file = task[w].file /\ task'[w].revision = 2
      /\ \A u \in Workers : u # w => task'[u] = task[u]
    BY <1>0, <1>1, <1>2, FinancialNonesAssumption DEF Claim, Inv, TypeOK, Tasks, TaskSteps
<1>5. objects[i] = {} /\ snapshot[i] = NoSnapshot
    BY <1>2, <1>3 DEF Inv, Journalled, SnapshotFits, InState
<1>6. \A u \in Workers : Uploading(task[u]) => task[u].import # i
    BY <1>2, <1>3 DEF Inv, TaskFits, Uploading, InState
<1>7. WrittenOnce'
    BY <1>0, <1>1, <1>3, <1>5 DEF Inv, WrittenOnce
<1>8. ASSUME NEW j \in Imports PROVE Journalled(j)' /\ SnapshotFits(j)'
    <2>0. /\ Journalled(i) /\ SnapshotFits(i) /\ Journalled(j) /\ SnapshotFits(j)
          /\ source' = source /\ signed' = signed /\ objects' = objects /\ snapshot' = snapshot
        BY <1>0, <1>1 DEF Inv
    <2>1. CASE j = i
        <3>1. Journalled(i)'
            BY <2>0, <1>1, <1>3, <1>5 DEF Journalled, InState, Backed
        <3>2. SnapshotFits(i)'
            BY <2>0, <1>3, <1>5 DEF SnapshotFits, InState
        <3> QED BY <2>1, <3>1, <3>2
    <2>2. CASE j # i
        <3>1. Journalled(j)'
            BY <2>0, <2>2, <1>3 DEF Journalled, InState, Backed
        <3>2. SnapshotFits(j)'
            BY <2>0, <2>2, <1>3 DEF SnapshotFits, InState
        <3> QED BY <3>1, <3>2
    <2> QED BY <2>1, <2>2
<1>9. ASSUME NEW u \in Workers PROVE TaskFits(task[u])'
    <2>1. CASE u = w
        BY <1>0, <1>1, <1>2, <1>3, <1>4, <1>5, <2>1 DEF TaskFits, Uploading, InState
    <2>2. CASE u # w
        <3>1. task[u] # Idle => task[u].import \in Imports
            BY DEF Inv, TypeOK, Tasks
        <3> QED BY <1>0, <1>1, <1>3, <1>4, <1>6, <2>2, <3>1 DEF Inv, TaskFits, Uploading, InState
    <2> QED BY <2>1, <2>2
<1>10. OneUploader'
    BY <1>0, <1>1, <1>4, <1>6 DEF Inv, OneUploader, Uploading
<1> QED BY <1>0, <1>1, <1>7, <1>8, <1>9, <1>10, SamePolicy

\* A worker that ends by moving an import that is not prepared.
LEMMA EndFits ==
    ASSUME Inv, NEW w \in Workers, Ends(w), NEW i \in Imports, UNCHANGED objects,
           journal[i] # NoImport, journal'[i] # NoImport,
           journal'[i].file = journal[i].file, journal'[i].state # "prepared",
           \A u \in Workers :
               u # w /\ task[u] # Idle /\ task[u].import = i /\ task[u].step = "put" =>
                   journal'[i].version = NoVersion,
           \A j \in Imports : j # i => journal'[j] = journal[j]
    PROVE  OneUploader' /\ \A u \in Workers : TaskFits(task[u])'
<1>1. task'[w] = Idle /\ \A u \in Workers : u # w => task'[u] = task[u]
    BY DEF Ends, Inv, TypeOK
<1>2. OneUploader'
    BY <1>1 DEF Inv, OneUploader, Uploading
<1>3. ASSUME NEW u \in Workers PROVE TaskFits(task[u])'
    <2>1. task[u] # Idle => task[u].import \in Imports
        BY DEF Inv, TypeOK, Tasks
    <2> QED BY <1>1, <2>1 DEF Inv, TaskFits, Uploading, InState
<1> QED BY <1>2, <1>3

LEMMA RecordKeeps ==
    ASSUME Inv, TypeOK', NEW w \in Workers, Record(w)
    PROVE  Inv'
<1>0. PICK i \in Imports, v \in Versions \union {NoVersion} :
        i = task[w].import /\ v = task[w].version
    BY DEF Record, At, Inv, TypeOK, Tasks
<1>1. /\ task[w] # Idle /\ task[w].step = "record" /\ task[w] \in Tasks
      /\ Swap(i, "uploading", task[w].revision, "stored", v)
      /\ Ends(w) /\ UNCHANGED <<source, signed, objects, snapshot, intake>>
    BY <1>0 DEF Record, PinSwap, At, Inv, TypeOK, policyVars
<1>2. /\ i \in Imports /\ task[w].revision = 2 /\ TypeOK
      /\ v \in Versions \union {NoVersion} /\ v # NoVersion
      /\ objects[i] = {[version |-> v, file |-> journal[i].file]}
    BY <1>0, <1>1 DEF Inv, TaskFits, Uploading, Tasks
<1>3. /\ journal[i] # NoImport /\ journal'[i] # NoImport
      /\ journal[i].state = "uploading" /\ journal'[i].state = "stored"
      /\ journal'[i].revision = 3
      /\ journal'[i].file = journal[i].file /\ journal'[i].version = v
      /\ \A j \in Imports : j # i => journal'[j] = journal[j]
    <2>1. TypeOK /\ i \in Imports
        BY <1>2
    <2>2. task[w].revision \in Nat
        BY <1>2
    <2>3. Moved(i, "uploading", task[w].revision, "stored", v)
        BY <1>0, <1>1, <1>2, <2>1, <2>2, Swapped
    <2> QED BY <1>2, <2>3 DEF Moved
<1>4. \A u \in Workers :
        u # w => ~(task[u] # Idle /\ task[u].import = i /\ task[u].step = "put")
    BY <1>0, <1>1 DEF Inv, OneUploader, Uploading
<1>5. WrittenOnce'
    BY <1>0, <1>1, <1>2, <1>3 DEF Inv, WrittenOnce
<1>6. ASSUME NEW j \in Imports PROVE Journalled(j)' /\ SnapshotFits(j)'
    <2>1. CASE j = i
        <3>1. Backed(SourceOf(i), journal[i].file)
            BY <1>3 DEF Inv, Journalled
        <3>2. Backed(SourceOf(i), journal[i].file)'
            BY <1>1, <1>3, <3>1 DEF Backed
        <3>3. snapshot[i] = NoSnapshot
            BY <1>3 DEF Inv, SnapshotFits, InState
        <3>4. Journalled(i)'
            BY <1>2, <1>3, <3>2 DEF Journalled, InState
        <3>5. SnapshotFits(i)'
            BY <1>1, <1>3, <3>3 DEF SnapshotFits, InState
        <3> QED BY <2>1, <3>4, <3>5
    <2>2. CASE j # i
        BY <1>0, <1>1, <1>2, <1>3, <2>2 DEF Inv, Journalled, SnapshotFits, InState, Backed
    <2> QED BY <2>1, <2>2
<1>7. OneUploader' /\ \A u \in Workers : TaskFits(task[u])'
    BY <1>0, <1>1, <1>2, <1>3, <1>4, EndFits
<1> QED BY <1>0, <1>1, <1>5, <1>6, <1>7, SamePolicy

LEMMA QuarantineKeeps ==
    ASSUME Inv, TypeOK', NEW w \in Workers, QuarantineFailed(w) \/ Sweep(w)
    PROVE  Inv'
<1>0. PICK i \in Imports : i = task[w].import
    BY DEF QuarantineFailed, Sweep, At, Inv, TypeOK, Tasks
<1>1. /\ task[w] # Idle /\ task[w] \in Tasks
      /\ Swap(i, "uploading", journal[i].revision, "quarantined", NoVersion)
      /\ Ends(w) /\ UNCHANGED <<source, signed, objects, snapshot, intake>>
    BY <1>0 DEF QuarantineFailed, Sweep, At, Inv, TypeOK, policyVars
<1>2. i \in Imports /\ TypeOK /\ journal[i].revision \in Nat
    BY <1>0, <1>1 DEF Inv, Tasks, Swap, InState, TypeOK, ImportRecords
<1>3. /\ journal[i] # NoImport /\ journal'[i] # NoImport
      /\ journal[i].state = "uploading" /\ journal'[i].state = "quarantined"
      /\ journal'[i].file = journal[i].file /\ journal'[i].version = NoVersion
      /\ \A j \in Imports : j # i => journal'[j] = journal[j]
    <2>1. TypeOK /\ i \in Imports
        BY <1>2
    <2>2. journal[i].revision \in Nat
        BY <1>2
    <2>3. Moved(i, "uploading", journal[i].revision, "quarantined", NoVersion)
        BY <1>0, <1>1, <1>2, <2>1, <2>2, Swapped
    <2> QED BY <1>2, <2>3 DEF Moved
<1>4. WrittenOnce'
    BY <1>0, <1>1, <1>2, <1>3 DEF Inv, WrittenOnce
<1>5. ASSUME NEW j \in Imports PROVE Journalled(j)' /\ SnapshotFits(j)'
    <2>1. CASE j = i
        <3>1. Backed(SourceOf(i), journal[i].file)
            BY <1>2, <1>3 DEF Inv, Journalled
        <3>2. Backed(SourceOf(i), journal[i].file)'
            BY <1>1, <1>3, <3>1 DEF Backed
        <3>3. snapshot[i] = NoSnapshot
            BY <1>2, <1>3 DEF Inv, SnapshotFits, InState
        <3>4. Journalled(i)'
            BY <1>2, <1>3, <3>2 DEF Journalled, InState
        <3>5. SnapshotFits(i)'
            BY <1>1, <1>3, <3>3 DEF SnapshotFits, InState
        <3> QED BY <2>1, <3>4, <3>5
    <2>2. CASE j # i
        BY <1>0, <1>1, <1>2, <1>3, <2>2 DEF Inv, Journalled, SnapshotFits, InState, Backed
    <2> QED BY <2>1, <2>2
<1>6. OneUploader' /\ \A u \in Workers : TaskFits(task[u])'
    BY <1>0, <1>1, <1>2, <1>3, EndFits
<1> QED BY <1>0, <1>1, <1>4, <1>5, <1>6, SamePolicy

LEMMA CommitKeeps ==
    ASSUME Inv, TypeOK', NEW w \in Workers, Commit(w)
    PROVE  Inv'
<1>0. PICK i \in Imports : i = task[w].import
    BY DEF Commit, At, Inv, TypeOK, Tasks
<1> DEFINE row == [version |-> journal[i].version, file |-> journal[i].file]
<1>1. /\ task[w] # Idle /\ task[w].step = "commit" /\ task[w] \in Tasks
      /\ Swap(i, "stored", task[w].revision, "committed", journal[i].version)
      /\ snapshot[i] = NoSnapshot /\ snapshot' = [snapshot EXCEPT ![i] = row]
      /\ Ends(w) /\ UNCHANGED <<source, signed, objects, intake>>
    BY <1>0 DEF Commit, At, Inv, TypeOK, policyVars
<1>2. /\ i \in Imports /\ task[w].revision = 3 /\ TypeOK
      /\ journal[i] \in ImportRecords
      /\ journal[i].version \in Versions \union {NoVersion}
    BY <1>0, <1>1 DEF Inv, TaskFits, Tasks, Swap, InState, TypeOK, ImportRecords
<1>3. /\ journal[i] # NoImport /\ journal'[i] # NoImport
      /\ journal[i].state = "stored" /\ journal'[i].state = "committed"
      /\ journal'[i].revision = 4
      /\ journal'[i].file = journal[i].file /\ journal'[i].version = journal[i].version
      /\ \A j \in Imports : j # i => journal'[j] = journal[j]
    <2>1. TypeOK /\ i \in Imports
        BY <1>2
    <2>2. task[w].revision \in Nat
        BY <1>2
    <2>3. Moved(i, "stored", task[w].revision, "committed", journal[i].version)
        BY <1>0, <1>1, <1>2, <2>1, <2>2, Swapped
    <2> QED BY <1>2, <2>3 DEF Moved
<1>4. /\ snapshot'[i] = row /\ snapshot'[i] # NoSnapshot
      /\ \A j \in Imports : j # i => snapshot'[j] = snapshot[j]
    <2>1. row \in SnapshotRecords
        BY <1>2 DEF ImportRecords, SnapshotRecords
    <2> QED BY <1>0, <1>1, <1>2, <2>1, FinancialNonesAssumption DEF TypeOK
<1>5. \A u \in Workers :
        ~(task[u] # Idle /\ task[u].import = i /\ task[u].step = "put")
    BY <1>2, <1>3 DEF Inv, TaskFits, Journalled, InState
<1>6. WrittenOnce'
    BY <1>0, <1>1, <1>2, <1>3 DEF Inv, WrittenOnce
<1>7. ASSUME NEW j \in Imports PROVE Journalled(j)' /\ SnapshotFits(j)'
    <2>1. CASE j = i
        BY <1>0, <1>1, <1>2, <1>3, <1>4, <2>1 DEF Inv, Journalled, SnapshotFits, InState, Backed
    <2>2. CASE j # i
        BY <1>0, <1>1, <1>2, <1>3, <1>4, <2>2 DEF Inv, Journalled, SnapshotFits, InState, Backed
    <2> QED BY <2>1, <2>2
<1>8. OneUploader' /\ \A u \in Workers : TaskFits(task[u])'
    BY <1>0, <1>1, <1>2, <1>3, <1>5, EndFits
<1> QED BY <1>0, <1>1, <1>6, <1>7, <1>8, SamePolicy

-----------------------------------------------------------------------------

LEMMA InvInit == Init => Inv
    BY FinancialNonesAssumption DEF Init, Inv, TypeOK, WrittenOnce, DecidedByAnother, Journalled,
        SnapshotFits, TaskFits, OneUploader, Uploading, InState

LEMMA InvStep == Inv /\ [Next]_vars => Inv'
<1> SUFFICES ASSUME Inv, [Next]_vars PROVE Inv'
    OBVIOUS
<1>1. TypeOK'
    BY TypeStep DEF Inv
<1>2. CASE UNCHANGED vars
    <2>1. UNCHANGED <<source, signed, journal, objects, snapshot, task>>
        BY <1>2 DEF vars
    <2> QED BY <1>1, <2>1, SamePolicy DEF Inv, WrittenOnce, Journalled, SnapshotFits,
        TaskFits, OneUploader, Uploading, InState, Backed
<1>3. CASE ImportStep
    BY <1>1, <1>3, PrepareKeeps, FiveMinutesKeeps, StartKeeps DEF ImportStep
<1>4. CASE WorkerStep
    BY <1>1, <1>4, WalkKeeps, PutKeeps, ClaimKeeps, RecordKeeps, QuarantineKeeps, CommitKeeps
        DEF WorkerStep
<1> QED BY <1>2, <1>3, <1>4, PolicyKeeps, IntakeKeeps DEF Next

LEMMA Invariance == Spec => []Inv
    BY InvInit, InvStep, PTL DEF Spec

\* Every variable keeps its type.
THEOREM TypeCorrect == Spec => []TypeOK
<1>1. Inv => TypeOK
    BY DEF Inv
<1> QED BY <1>1, Invariance, PTL

\* However many workers run and stop, the object of an import is written at
\* most once, and what an import pins is what was written.
THEOREM ObjectsWrittenOnce == Spec => []WrittenOnce
<1>1. Inv => WrittenOnce
    BY DEF Inv
<1> QED BY <1>1, Invariance, PTL

\* Committed imports and snapshot rows are the same, and each stands for the
\* pinned version of a file signed with the key of an approved source.
THEOREM CommitsAreSigned == Spec => []CommittedIsSigned
<1>1. Inv => CommittedIsSigned
    <2> SUFFICES ASSUME Inv, NEW i \in Imports
                 PROVE  /\ snapshot[i] # NoSnapshot <=> InState(i, "committed")
                        /\ snapshot[i] # NoSnapshot =>
                            snapshot[i] \in objects[i] /\ Backed(SourceOf(i), snapshot[i].file)
        BY DEF CommittedIsSigned
    <2>1. snapshot[i] # NoSnapshot <=> InState(i, "committed")
        BY DEF Inv, SnapshotFits
    <2>2. ASSUME snapshot[i] # NoSnapshot
          PROVE  snapshot[i] \in objects[i] /\ Backed(SourceOf(i), snapshot[i].file)
        <3>1. /\ snapshot[i] = [version |-> journal[i].version, file |-> journal[i].file]
              /\ journal[i] # NoImport /\ journal[i].version # NoVersion
              /\ Backed(SourceOf(i), journal[i].file)
            BY <2>1, <2>2 DEF Inv, SnapshotFits, Journalled, InState
        <3>2. objects[i] = {[version |-> journal[i].version, file |-> journal[i].file]}
            BY <3>1 DEF Inv, WrittenOnce
        <3> QED BY <3>1, <3>2
    <2> QED BY <2>1, <2>2
<1> QED BY <1>1, Invariance, PTL

-----------------------------------------------------------------------------

LEMMA SwapElsewhere ==
    ASSUME TypeOK, NEW i \in Imports, NEW j \in Imports,
           NEW from \in {"prepared", "uploading", "stored"}, NEW n, NEW to, NEW v,
           InState(i, "quarantined") \/ InState(i, "committed"),
           Swap(j, from, n, to, v)
    PROVE  j # i /\ journal'[i] = journal[i]
<1>1. j # i
    BY DEF Swap, InState
<1> QED BY <1>1 DEF Swap, TypeOK

LEMMA SettledStep ==
    ASSUME Inv, [Next]_vars, NEW i \in Imports,
           InState(i, "quarantined") \/ InState(i, "committed")
    PROVE  journal'[i] = journal[i] /\ snapshot'[i] = snapshot[i]
<1> DEFINE Goal == journal'[i] = journal[i] /\ snapshot'[i] = snapshot[i]
<1>1. UNCHANGED <<journal, snapshot>> => Goal
    OBVIOUS
<1>2. CASE PolicyStep \/ IntakeStep \/ UNCHANGED vars
    BY <1>1, <1>2 DEF PolicyStep, IntakeStep, ProposeSource, DecideSource, RequestChallenge,
        ProvePossession, ReviewDossier, RevokeSource, ChallengeExpires, Sign, IntakeObject,
        IntakeRow, importVars, vars
<1>3. CASE ImportStep
    <2>1. ASSUME NEW j \in Imports, NEW f \in Files, Prepare(j, f) PROVE Goal
        <3>1. j # i
            BY <2>1 DEF Prepare, InState
        <3> QED BY <2>1, <3>1 DEF Prepare, Inv, TypeOK
    <2>2. ASSUME NEW j \in Imports, FiveMinutesPass(j) PROVE Goal
        <3>1. j # i
            BY <2>2 DEF FiveMinutesPass, InState
        <3> QED BY <2>2, <3>1 DEF FiveMinutesPass, Inv, TypeOK
    <2>3. ASSUME NEW w \in Workers, NEW j \in Imports,
                 StartUpload(w, j) \/ StartFinalize(w, j) \/ StartSweep(w, j)
          PROVE  Goal
        BY <1>1, <2>3 DEF StartUpload, StartFinalize, StartSweep
    <2> QED BY <1>3, <2>1, <2>2, <2>3 DEF ImportStep
<1>4. ASSUME NEW w \in Workers,
             ClaimRefused(w) \/ Put(w) \/ PutFails(w) \/ CheckLock(w) \/ Stops(w)
      PROVE  Goal
    BY <1>1, <1>4 DEF ClaimRefused, Put, PutFails, CheckLock, Stops
<1>5. ASSUME NEW w \in Workers,
             Claim(w) \/ Record(w) \/ QuarantineFailed(w) \/ Sweep(w) \/ Commit(w)
      PROVE  Goal
    <2>1. PICK j \in Imports : j = task[w].import
        BY <1>5 DEF Claim, Record, QuarantineFailed, Sweep, Commit, At, Inv, TypeOK, Tasks
    <2>2. CASE Claim(w)
        BY <2>1, <2>2, SwapElsewhere DEF Claim, ClaimSwap, Inv
    <2>3. CASE Record(w)
        BY <2>1, <2>3, SwapElsewhere DEF Record, PinSwap, Inv
    <2>4. CASE QuarantineFailed(w) \/ Sweep(w)
        BY <2>1, <2>4, SwapElsewhere DEF QuarantineFailed, Sweep, Inv
    <2>5. CASE Commit(w)
        <3>1. j # i /\ journal'[i] = journal[i]
            BY <2>1, <2>5, SwapElsewhere DEF Commit, Inv
        <3> QED BY <2>1, <2>5, <3>1 DEF Commit, Inv, TypeOK
    <2> QED BY <1>5, <2>2, <2>3, <2>4, <2>5
<1> QED BY <1>2, <1>3, <1>4, <1>5 DEF Next, WorkerStep

\* What is isolated stays isolated and what is committed stays as it is.
THEOREM SettlementStands == Spec => SettledStands
<1>1. Inv /\ [Next]_vars =>
        [\A i \in Imports :
            InState(i, "quarantined") \/ InState(i, "committed") =>
                journal'[i] = journal[i] /\ snapshot'[i] = snapshot[i]]_vars
    BY SettledStep
<1> QED BY <1>1, Invariance, PTL DEF Spec, SettledStands

\* No step unmakes a row of the journal, and only Prepare makes one.
LEMMA SwapMakesNone ==
    ASSUME TypeOK, NEW i \in Imports, NEW j \in Imports, NEW from, NEW n \in Nat,
           NEW to \in {"prepared", "uploading", "stored", "committed", "quarantined"},
           NEW v \in Versions \union {NoVersion}, Swap(j, from, n, to, v)
    PROVE  journal[i] # NoImport <=> journal'[i] # NoImport
    BY Swapped DEF Moved

\* The three sets of rows of a source stay what they are.
RowsStay(r) ==
    /\ \A i \in Imports : SourceOf(i) = r =>
        /\ snapshot[i] # NoSnapshot <=> snapshot'[i] # NoSnapshot
        /\ journal[i] # NoImport <=> journal'[i] # NoImport
    /\ \A x \in Intakes :
        LET Row(y) == y # NoIntake /\ y.source = r /\ y.recorded IN
        Row(intake[x]) <=> Row(intake'[x])

LEMMA RowsSame == ASSUME NEW r, RowsStay(r) PROVE RowsOf(r)' = RowsOf(r)
    BY DEF RowsStay, RowsOf

LEMMA RevokedRows ==
    ASSUME Inv, [Next]_vars, NEW r \in Sources, HasStatus(r, "revoked")
    PROVE  RowsStay(r)
<1>1. ~Approved(r)
    BY DEF HasStatus, Approved
<1>2. UNCHANGED <<journal, snapshot, intake>> => RowsStay(r)
    BY DEF RowsStay
<1>3. CASE PolicyStep \/ UNCHANGED vars
    BY <1>2, <1>3 DEF PolicyStep, ProposeSource, DecideSource, RequestChallenge,
        ProvePossession, ReviewDossier, RevokeSource, ChallengeExpires, Sign, importVars, vars
<1>4. ASSUME NEW x \in Intakes, NEW q \in Sources, IntakeObject(x, q) PROVE RowsStay(r)
    <2>1. intake[x] = NoIntake /\ intake'[x].recorded = FALSE
        BY <1>4 DEF IntakeObject, Inv, TypeOK
    <2>2. \A y \in Intakes : y # x => intake'[y] = intake[y]
        BY <1>4 DEF IntakeObject, Inv, TypeOK
    <2> QED BY <1>4, <2>1, <2>2 DEF IntakeObject, importVars, RowsStay
<1>5. ASSUME NEW x \in Intakes, IntakeRow(x) PROVE RowsStay(r)
    <2>1. intake[x].source # r /\ intake[x] \in IntakeRecords
        BY <1>1, <1>5 DEF IntakeRow, Inv, TypeOK
    <2>2. intake'[x].source = intake[x].source
        BY <1>5, <2>1 DEF IntakeRow, Inv, TypeOK, IntakeRecords
    <2>3. \A y \in Intakes : y # x => intake'[y] = intake[y]
        BY <1>5 DEF IntakeRow, Inv, TypeOK
    <2> QED BY <1>5, <2>1, <2>2, <2>3 DEF IntakeRow, importVars, RowsStay
<1>6. ASSUME NEW j \in Imports, NEW f \in Files, Prepare(j, f) PROVE RowsStay(r)
    <2>1. SourceOf(j) # r
        BY <1>1, <1>6 DEF Prepare
    <2>2. \A i \in Imports : i # j => journal'[i] = journal[i]
        BY <1>6 DEF Prepare, Inv, TypeOK
    <2> QED BY <1>6, <2>1, <2>2 DEF Prepare, RowsStay
<1>7. ASSUME NEW j \in Imports, FiveMinutesPass(j) PROVE RowsStay(r)
    <2>1. journal[j] \in ImportRecords
        BY <1>7 DEF FiveMinutesPass, InState, Inv, TypeOK
    <2>2. journal'[j] \in ImportRecords
        BY <1>7, <2>1 DEF FiveMinutesPass, Inv, TypeOK, ImportRecords
    <2>3. \A i \in Imports : i # j => journal'[i] = journal[i]
        BY <1>7 DEF FiveMinutesPass, Inv, TypeOK
    <2> QED BY <1>7, <2>1, <2>2, <2>3, FinancialNonesAssumption DEF FiveMinutesPass, RowsStay
<1>8. ASSUME NEW w \in Workers, NEW j \in Imports,
             StartUpload(w, j) \/ StartFinalize(w, j) \/ StartSweep(w, j)
      PROVE  RowsStay(r)
    BY <1>2, <1>8 DEF StartUpload, StartFinalize, StartSweep
<1>9. ASSUME NEW w \in Workers,
             ClaimRefused(w) \/ Put(w) \/ PutFails(w) \/ CheckLock(w) \/ Stops(w)
      PROVE  RowsStay(r)
    BY <1>2, <1>9 DEF ClaimRefused, Put, PutFails, CheckLock, Stops
<1>10. ASSUME NEW w \in Workers,
              Claim(w) \/ Record(w) \/ QuarantineFailed(w) \/ Sweep(w) \/ Commit(w)
       PROVE  RowsStay(r)
    <2>1. PICK j \in Imports, v \in Versions \union {NoVersion}, n \in Nat :
            j = task[w].import /\ v = task[w].version /\ n = task[w].revision
        BY <1>10 DEF Claim, Record, QuarantineFailed, Sweep, Commit, At, Inv, TypeOK, Tasks
    <2>2. InState(j, "uploading") \/ InState(j, "stored") =>
            journal[j].revision \in Nat /\ journal[j].version \in Versions \union {NoVersion}
        BY DEF InState, Inv, TypeOK, ImportRecords
    <2>3. CASE Claim(w)
        BY <2>1, <2>3, SwapMakesNone DEF Claim, ClaimSwap, Inv, RowsStay
    <2>4. CASE Record(w)
        BY <2>1, <2>4, SwapMakesNone DEF Record, PinSwap, Inv, RowsStay
    <2>5. CASE QuarantineFailed(w) \/ Sweep(w)
        <3>1. Swap(j, "uploading", journal[j].revision, "quarantined", NoVersion)
            BY <2>1, <2>5 DEF QuarantineFailed, Sweep
        <3>2. journal[j].revision \in Nat
            BY <2>2, <3>1 DEF Swap
        <3>3. \A i \in Imports : journal[i] # NoImport <=> journal'[i] # NoImport
            BY <3>1, <3>2, SwapMakesNone DEF Inv
        <3> QED BY <2>5, <3>3 DEF QuarantineFailed, Sweep, RowsStay
    <2>6. CASE Commit(w)
        <3>1. SourceOf(j) # r
            BY <1>1, <2>1, <2>6 DEF Commit, PolicyStands
        <3>2. \A i \in Imports : i # j => snapshot'[i] = snapshot[i]
            BY <2>1, <2>6 DEF Commit, Inv, TypeOK
        <3>3. Swap(j, "stored", n, "committed", journal[j].version)
            BY <2>1, <2>6 DEF Commit
        <3>4. journal[j].version \in Versions \union {NoVersion}
            BY <2>2, <3>3 DEF Swap
        <3>5. \A i \in Imports : journal[i] # NoImport <=> journal'[i] # NoImport
            BY <3>3, <3>4, SwapMakesNone DEF Inv
        <3> QED BY <2>6, <3>1, <3>2, <3>5 DEF Commit, RowsStay
    <2> QED BY <1>10, <2>3, <2>4, <2>5, <2>6
<1> QED BY <1>3, <1>4, <1>5, <1>6, <1>7, <1>8, <1>9, <1>10
    DEF Next, ImportStep, WorkerStep, IntakeStep

LEMMA RevokedStep ==
    ASSUME Inv, [Next]_vars, NEW r \in Sources, HasStatus(r, "revoked")
    PROVE  /\ source'[r] = source[r]
           /\ RowsOf(r)' = RowsOf(r)
           /\ dossier[r] # NoDossier => dossier'[r].status = dossier[r].status
           /\ dossier[r] = NoDossier => dossier'[r] = NoDossier
<1>1. UNCHANGED <<source, dossier>> \/ PolicyStep
    BY DEF Next, ImportStep, WorkerStep, IntakeStep, Prepare, FiveMinutesPass, StartUpload,
        StartFinalize, StartSweep, Claim, ClaimRefused, Put, PutFails, CheckLock, Record,
        QuarantineFailed, Commit, Sweep, Stops, IntakeObject, IntakeRow, policyVars, vars
<1>2. source'[r] = source[r]
    BY <1>1, SourceStep DEF HasStatus, Unproposed, NowDecided, NowRevoked, Inv
<1>3. ~Approved(r)
    BY DEF HasStatus, Approved
<1>4. ASSUME PolicyStep
      PROVE  /\ dossier[r] # NoDossier => dossier'[r].status = dossier[r].status
             /\ dossier[r] = NoDossier => dossier'[r] = NoDossier
    <2>1. ASSUME NEW q \in Sources, NEW u \in Users,
                 RequestChallenge(q, u) \/ ProvePossession(q, u) \/ ReviewDossier(q, u)
          PROVE  dossier'[r] = dossier[r]
        <3>1. q # r
            BY <1>3, <2>1 DEF RequestChallenge, ProvePossession, ReviewDossier
        <3> QED BY <2>1, <3>1 DEF RequestChallenge, ProvePossession, ReviewDossier, Inv, TypeOK
    <2>2. ASSUME NEW q \in Sources, ChallengeExpires(q)
          PROVE  /\ dossier[r] # NoDossier => dossier'[r].status = dossier[r].status
                 /\ dossier[r] = NoDossier => dossier'[r] = NoDossier
        BY <2>2 DEF ChallengeExpires, InDossier, Inv, TypeOK, DossierRecords
    <2> QED BY <1>4, <2>1, <2>2 DEF PolicyStep, ProposeSource, DecideSource, RevokeSource, Sign
<1> QED BY <1>1, <1>2, <1>4, RevokedRows, RowsSame

\* From the step that revokes a source on, nothing is made of it any more.
THEOREM RevocationIsFinal == Spec => RevokedIsFinal
<1>1. Inv /\ [Next]_vars =>
        [\A r \in Sources :
            HasStatus(r, "revoked") =>
                /\ source'[r] = source[r]
                /\ RowsOf(r)' = RowsOf(r)
                /\ dossier[r] # NoDossier => dossier'[r].status = dossier[r].status
                /\ dossier[r] = NoDossier => dossier'[r] = NoDossier]_vars
    BY RevokedStep
<1> QED BY <1>1, Invariance, PTL DEF Spec, RevokedIsFinal

=============================================================================
