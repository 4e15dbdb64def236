--------------------------- MODULE FinancialImport --------------------------
(***************************************************************************)
(* The custody of financial source files: source definitions proposed by   *)
(* one administrator and decided by another, the dossier in which the      *)
(* holder of a source's key proves possession of it, the journal that      *)
(* takes a signed file through a versioned object store into a snapshot    *)
(* row, and the plain intake of unsigned files.                            *)
(*                                                                         *)
(* A database transaction is one step; the object store is not part of it. *)
(* Workers stand for the processes that run upload, finalize and recover:  *)
(* what they read before a transaction they carry, and any of them may     *)
(* stop for good between two steps.                                        *)
(***************************************************************************)
EXTENDS Naturals

CONSTANTS
    Users,
    Sources,       \* identifiers of source definitions
    SigningKeys,
    Tickets,       \* idempotency keys of imports
    Files,         \* contents
    Versions,      \* versions the object store may assign to one object
    Intakes,       \* identifiers of plain intakes
    Workers,
    NoKey, NoOne, NoSource, NoDossier, NoImport, NoVersion, NoSnapshot,
    NoIntake, Idle

\* The identity of an import is a digest of source and idempotency key, and
\* the identities of its object and of its snapshot are digests of the same.
Imports == Sources \X Tickets
SourceOf(i) == i[1]

\* A revision counts the transitions of a row: 1 for a proposal, 2 once it is
\* decided, 3 once it is revoked. For sources and dossiers it adds nothing to
\* the status that every compare-and-swap also names, and is left out.
SourceRecords ==
    [status: {"pending", "approved", "rejected", "revoked"},
     key: SigningKeys \union {NoKey}, by: Users, reviewer: Users \union {NoOne}]
DossierRecords ==
    [status: {"challenge_pending", "proof_verified", "reviewed", "rejected"},
     expired: BOOLEAN, requester: Users, submitter: Users \union {NoOne}]
ImportRecords ==
    [state: {"prepared", "uploading", "stored", "committed", "quarantined"},
     revision: Nat, file: Files, version: Versions \union {NoVersion},
     stale: BOOLEAN]     \* last written at least five minutes ago
ObjectVersions == [version: Versions, file: Files]
SnapshotRecords == [version: Versions \union {NoVersion}, file: Files]
IntakeRecords == [source: Sources, recorded: BOOLEAN]
TaskSteps == {"claim", "put", "check", "record", "failed", "commit", "sweep"}
Tasks ==
    [step: TaskSteps, import: Imports, revision: Nat, file: Files,
     version: Versions \union {NoVersion}]

ASSUME FinancialNonesAssumption ==
    /\ NoKey \notin SigningKeys /\ NoOne \notin Users
    /\ NoSource \notin SourceRecords /\ NoDossier \notin DossierRecords
    /\ NoImport \notin ImportRecords /\ NoVersion \notin Versions
    /\ NoSnapshot \notin SnapshotRecords /\ NoIntake \notin IntakeRecords
    /\ Idle \notin Tasks

VARIABLES
    source, dossier,
    signed,      \* manifests the holders of keys have signed
    journal,     \* imports
    objects,     \* versions the store holds of the object of each import
    snapshot,    \* snapshot rows of imports: the pinned version and its file
    intake,      \* plain intakes whose object is stored
    task         \* what each worker is doing

vars == <<source, dossier, signed, journal, objects, snapshot, intake, task>>
policyVars == <<source, dossier, signed>>
importVars == <<journal, objects, snapshot, task>>

Init ==
    /\ source = [r \in Sources |-> NoSource]
    /\ dossier = [r \in Sources |-> NoDossier]
    /\ signed = {}
    /\ journal = [i \in Imports |-> NoImport]
    /\ objects = [i \in Imports |-> {}]
    /\ snapshot = [i \in Imports |-> NoSnapshot]
    /\ intake = [x \in Intakes |-> NoIntake]
    /\ task = [w \in Workers |-> Idle]

-----------------------------------------------------------------------------
(* Source definitions and their keys.                                      *)

HasStatus(r, s) == source[r] # NoSource /\ source[r].status = s
Approved(r) == HasStatus(r, "approved")

ProposeSource(r, u) ==
    /\ source[r] = NoSource
    /\ \E k \in SigningKeys \union {NoKey} :
        source' = [source EXCEPT
            ![r] = [status |-> "pending", key |-> k, by |-> u, reviewer |-> NoOne]]
    /\ UNCHANGED <<dossier, signed, importVars, intake>>

DecideSource(r, u) ==
    /\ HasStatus(r, "pending")
    /\ source[r].by # u
    /\ \E verdict \in {"approved", "rejected"} :
        source' = [source EXCEPT ![r].status = verdict, ![r].reviewer = u]
    /\ UNCHANGED <<dossier, signed, importVars, intake>>

RevokeSource(r) ==
    /\ Approved(r)
    /\ source' = [source EXCEPT ![r].status = "revoked"]
    /\ UNCHANGED <<dossier, signed, importVars, intake>>

HasKey(r) == source[r].key # NoKey

\* One challenge for a source, ever: the dossier's identity is a digest of the
\* source's.
RequestChallenge(r, u) ==
    /\ Approved(r) /\ HasKey(r)
    /\ dossier[r] = NoDossier
    /\ dossier' = [dossier EXCEPT
        ![r] = [status |-> "challenge_pending", expired |-> FALSE,
                requester |-> u, submitter |-> NoOne]]
    /\ UNCHANGED <<source, signed, importVars, intake>>

InDossier(r, s) == dossier[r] # NoDossier /\ dossier[r].status = s

\* What is read before the transaction cannot change, or is read in it again.
ProvePossession(r, u) ==
    /\ InDossier(r, "challenge_pending")
    /\ ~dossier[r].expired
    /\ Approved(r)
    /\ dossier' = [dossier EXCEPT ![r].status = "proof_verified", ![r].submitter = u]
    /\ UNCHANGED <<source, signed, importVars, intake>>

ReviewDossier(r, u) ==
    /\ InDossier(r, "proof_verified")
    /\ u \notin {dossier[r].requester, dossier[r].submitter}
    /\ Approved(r)
    /\ \E verdict \in {"reviewed", "rejected"} :
        dossier' = [dossier EXCEPT ![r].status = verdict]
    /\ UNCHANGED <<source, signed, importVars, intake>>

\* Fifteen minutes pass.
ChallengeExpires(r) ==
    /\ InDossier(r, "challenge_pending")
    /\ dossier' = [dossier EXCEPT ![r].expired = TRUE]
    /\ UNCHANGED <<source, signed, importVars, intake>>

\* The holder of a key signs a manifest, elsewhere.
Sign(k, r, f) ==
    /\ signed' = signed \union {[key |-> k, source |-> r, file |-> f]}
    /\ UNCHANGED <<source, dossier, importVars, intake>>

-----------------------------------------------------------------------------
(* The journal.                                                            *)

InState(i, s) == journal[i] # NoImport /\ journal[i].state = s

\* Mutant: a signature over any file of the source will do.
SignedForSource(r, f) ==
    \E m \in signed : m.key = source[r].key /\ m.source = r

\* The signature is the pinned key's, over this source and this file.
ManifestHolds(r, f) == [key |-> source[r].key, source |-> r, file |-> f] \in signed

\* An import prepared before is returned, or the call is refused.
Prepare(i, f) ==
    /\ Approved(SourceOf(i)) /\ HasKey(SourceOf(i))
    /\ ManifestHolds(SourceOf(i), f)
    /\ journal[i] = NoImport
    /\ journal' = [journal EXCEPT
        ![i] = [state |-> "prepared", revision |-> 1, file |-> f,
                version |-> NoVersion, stale |-> FALSE]]
    /\ UNCHANGED <<policyVars, objects, snapshot, intake, task>>

\* transitionFinancialSourceImport: a swap on state and revision.
Swap(i, from, revision, to, version) ==
    /\ InState(i, from)
    /\ journal[i].revision = revision
    /\ journal' = [journal EXCEPT
        ![i] = [state |-> to, revision |-> revision + 1, file |-> journal[i].file,
                version |-> version, stale |-> FALSE]]

FiveMinutesPass(i) ==
    /\ InState(i, "uploading")
    /\ journal' = [journal EXCEPT ![i].stale = TRUE]
    /\ UNCHANGED <<policyVars, objects, snapshot, intake, task>>

Start(w, i, step) ==
    /\ task[w] = Idle
    /\ task' = [task EXCEPT
        ![w] = [step |-> step, import |-> i, revision |-> journal[i].revision,
                file |-> journal[i].file, version |-> journal[i].version]]

Goes(w, step) == task' = [task EXCEPT ![w].step = step]
Ends(w) == task' = [task EXCEPT ![w] = Idle]
At(w, step) == task[w] # Idle /\ task[w].step = step

\* The bytes in hand are those of the journal's digest.
StartUpload(w, i) ==
    /\ InState(i, "prepared")
    /\ Start(w, i, "claim")
    /\ UNCHANGED <<policyVars, journal, objects, snapshot, intake>>

\* Mutant: a claim made meanwhile is not noticed.
ClaimAnyway(t) ==
    /\ InState(t.import, "prepared") \/ InState(t.import, "uploading")
    /\ journal' = [journal EXCEPT ![t.import].state = "uploading", ![t.import].revision = 2]

ClaimSwap(t) == Swap(t.import, "prepared", t.revision, "uploading", NoVersion)

Claim(w) ==
    /\ At(w, "claim")
    /\ ClaimSwap(task[w])
    /\ task' = [task EXCEPT ![w].step = "put", ![w].revision = @ + 1]
    /\ UNCHANGED <<policyVars, objects, snapshot, intake>>

ClaimRefused(w) ==
    /\ At(w, "claim")
    /\ ~InState(task[w].import, "prepared")
    /\ Ends(w)
    /\ UNCHANGED <<policyVars, journal, objects, snapshot, intake>>

Unused(i) == {v \in Versions : \A o \in objects[i] : o.version # v}

\* The object is stored as a new version; the receipt may be lost.
Put(w) ==
    /\ At(w, "put")
    /\ \E v \in Unused(task[w].import) :
        /\ objects' = [objects EXCEPT
            ![task[w].import] = @ \union {[version |-> v, file |-> task[w].file]}]
        /\ \/ task' = [task EXCEPT ![w].step = "check", ![w].version = v]
           \/ Goes(w, "failed")
    /\ UNCHANGED <<policyVars, journal, snapshot, intake>>

PutFails(w) ==
    /\ At(w, "put")
    /\ Goes(w, "failed")
    /\ UNCHANGED <<policyVars, journal, objects, snapshot, intake>>

\* The version of the receipt holds these bytes, and is retained.
Holds(i, v, f) == [version |-> v, file |-> f] \in objects[i]

CheckLock(w) ==
    /\ At(w, "check")
    /\ \/ /\ Holds(task[w].import, task[w].version, task[w].file)
          /\ Goes(w, "record")
       \/ Goes(w, "failed")
    /\ UNCHANGED <<policyVars, journal, objects, snapshot, intake>>

\* Mutant: the version is pinned whatever became of the import meanwhile.
PinAnyway(t) ==
    /\ journal[t.import] # NoImport
    /\ journal' = [journal EXCEPT
        ![t.import].state = "stored", ![t.import].revision = 3,
        ![t.import].version = t.version]

PinSwap(t) == Swap(t.import, "uploading", t.revision, "stored", t.version)

Record(w) ==
    /\ At(w, "record")
    /\ PinSwap(task[w])
    /\ Ends(w)
    /\ UNCHANGED <<policyVars, objects, snapshot, intake>>

\* After a failure before the receipt was checked. The transaction that
\* records a receipt is returned and not awaited: its own failure passes this
\* handler by and is a worker that stops.
QuarantineFailed(w) ==
    /\ At(w, "failed")
    /\ Swap(task[w].import, "uploading", journal[task[w].import].revision,
            "quarantined", NoVersion)
    /\ Ends(w)
    /\ UNCHANGED <<policyVars, objects, snapshot, intake>>

\* finalize, and recover of an import that is stored: the lock is checked
\* outside of the transaction.
StartFinalize(w, i) ==
    /\ InState(i, "stored")
    /\ Holds(i, journal[i].version, journal[i].file)
    /\ Start(w, i, "commit")
    /\ UNCHANGED <<policyVars, journal, objects, snapshot, intake>>

\* Mutant: the policy was right when the import was prepared.
PolicyStood(i) ==
    /\ Approved(SourceOf(i)) \/ HasStatus(SourceOf(i), "revoked")
    /\ HasKey(SourceOf(i))

\* The policy as the committing transaction finds it.
PolicyStands(i) == Approved(SourceOf(i)) /\ HasKey(SourceOf(i))

Commit(w) ==
    /\ At(w, "commit")
    /\ LET i == task[w].import IN
        /\ PolicyStands(i)
        /\ snapshot[i] = NoSnapshot
        /\ snapshot' = [snapshot EXCEPT
            ![i] = [version |-> journal[i].version, file |-> journal[i].file]]
        /\ Swap(i, "stored", task[w].revision, "committed", journal[i].version)
    /\ Ends(w)
    /\ UNCHANGED <<policyVars, objects, intake>>

StartSweep(w, i) ==
    /\ InState(i, "uploading")
    /\ journal[i].stale
    /\ Start(w, i, "sweep")
    /\ UNCHANGED <<policyVars, journal, objects, snapshot, intake>>

Sweep(w) ==
    /\ At(w, "sweep")
    /\ journal[task[w].import].stale
    /\ Swap(task[w].import, "uploading", journal[task[w].import].revision,
            "quarantined", NoVersion)
    /\ Ends(w)
    /\ UNCHANGED <<policyVars, objects, snapshot, intake>>

\* A worker crashes, its transaction is refused, or its user has lost access.
Stops(w) ==
    /\ task[w] # Idle
    /\ Ends(w)
    /\ UNCHANGED <<policyVars, journal, objects, snapshot, intake>>

-----------------------------------------------------------------------------
(* Plain intake: the object first, under a name of its own, then its row.  *)

IntakeObject(x, r) ==
    /\ intake[x] = NoIntake
    /\ Approved(r)
    /\ intake' = [intake EXCEPT ![x] = [source |-> r, recorded |-> FALSE]]
    /\ UNCHANGED <<policyVars, importVars>>

\* Where this step never comes the object stays without a row.
IntakeRow(x) ==
    /\ intake[x] # NoIntake
    /\ Approved(intake[x].source)
    /\ intake' = [intake EXCEPT ![x].recorded = TRUE]
    /\ UNCHANGED <<policyVars, importVars>>

-----------------------------------------------------------------------------

PolicyStep ==
    \/ \E r \in Sources, u \in Users :
        \/ ProposeSource(r, u) \/ DecideSource(r, u)
        \/ RequestChallenge(r, u) \/ ProvePossession(r, u) \/ ReviewDossier(r, u)
    \/ \E r \in Sources : RevokeSource(r) \/ ChallengeExpires(r)
    \/ \E k \in SigningKeys, r \in Sources, f \in Files : Sign(k, r, f)

ImportStep ==
    \/ \E i \in Imports, f \in Files : Prepare(i, f)
    \/ \E i \in Imports : FiveMinutesPass(i)
    \/ \E w \in Workers, i \in Imports :
        StartUpload(w, i) \/ StartFinalize(w, i) \/ StartSweep(w, i)

WorkerStep ==
    \E w \in Workers :
        \/ Claim(w) \/ ClaimRefused(w) \/ Put(w) \/ PutFails(w) \/ CheckLock(w)
        \/ Record(w) \/ QuarantineFailed(w) \/ Commit(w) \/ Sweep(w) \/ Stops(w)

IntakeStep ==
    \/ \E x \in Intakes, r \in Sources : IntakeObject(x, r)
    \/ \E x \in Intakes : IntakeRow(x)

Next == PolicyStep \/ ImportStep \/ WorkerStep \/ IntakeStep

Spec == Init /\ [][Next]_vars

-----------------------------------------------------------------------------

\* Every variable has its type.
TypeOK ==
    /\ source \in [Sources -> SourceRecords \union {NoSource}]
    /\ dossier \in [Sources -> DossierRecords \union {NoDossier}]
    /\ signed \subseteq [key: SigningKeys, source: Sources, file: Files]
    /\ journal \in [Imports -> ImportRecords \union {NoImport}]
    /\ objects \in [Imports -> SUBSET ObjectVersions]
    /\ snapshot \in [Imports -> SnapshotRecords \union {NoSnapshot}]
    /\ intake \in [Intakes -> IntakeRecords \union {NoIntake}]
    /\ task \in [Workers -> Tasks \union {Idle}]

\* An object under retention cannot be deleted or overwritten, so a second
\* upload would leave two versions to choose from: however many workers run
\* and stop, the object of an import is written at most once, and the version
\* an import pins is the one written (upload claims before it writes).
WrittenOnce ==
    \A i \in Imports :
        /\ \A o, p \in objects[i] : o = p
        /\ journal[i] # NoImport /\ journal[i].version # NoVersion =>
            objects[i] = {[version |-> journal[i].version, file |-> journal[i].file]}

\* Another than its proposer decided the source, and its key signed the file.
Backed(r, f) ==
    /\ source[r] # NoSource
    /\ source[r].reviewer \in Users \ {source[r].by}
    /\ \E m \in signed : m = [key |-> source[r].key, source |-> r, file |-> f]

\* An import has a snapshot row exactly when it is committed, and the row
\* stands for what it claims: the file of the pinned version, signed with the
\* key of a source that somebody other than its proposer approved (prepare,
\* finalize, decideSource).
CommittedIsSigned ==
    \A i \in Imports :
        /\ snapshot[i] # NoSnapshot <=> InState(i, "committed")
        /\ snapshot[i] # NoSnapshot =>
            snapshot[i] \in objects[i] /\ Backed(SourceOf(i), snapshot[i].file)

RowsOf(r) ==
    <<{i \in Imports : SourceOf(i) = r /\ snapshot[i] # NoSnapshot},
      {i \in Imports : SourceOf(i) = r /\ journal[i] # NoImport},
      {x \in Intakes : intake[x] # NoIntake /\ intake[x].source = r /\ intake[x].recorded}>>

\* "Effective IMMEDIATELY" (revokeSource): from the step that revokes a source
\* on, no import, snapshot or intake row of it is made, its dossier advances
\* no more but for the expiry of its challenge, and it is never approved
\* again, whatever was on its way.
RevokedIsFinal ==
    [][\A r \in Sources :
        HasStatus(r, "revoked") =>
            /\ source'[r] = source[r]
            /\ RowsOf(r)' = RowsOf(r)
            /\ dossier[r] # NoDossier => dossier'[r].status = dossier[r].status
            /\ dossier[r] = NoDossier => dossier'[r] = NoDossier]_vars

\* What recovery has isolated stays isolated, and what is committed stays as
\* it is, though the worker that was given up on may still be at it
\* (transitionFinancialSourceImport: no caller can promote a quarantined
\* import).
SettledStands ==
    [][\A i \in Imports :
        InState(i, "quarantined") \/ InState(i, "committed") =>
            journal'[i] = journal[i] /\ snapshot'[i] = snapshot[i]]_vars

=============================================================================
