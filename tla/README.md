# CORTEX / Apex One: verification project

TLA+ specifications of the backend under `src/lib/backend`, TLC
configurations that check them on small instances, and TLAPS proofs that hold
for every instance.  The reference is the code; each definition stands for the
lines that `PROJECT.json` ("map") gives it.

The application is a multi-tenant Next.js server run as at least two replicas
(`src/deploy/production-topology.json`) over PostgreSQL (business rows and the
audit log in one database), Redis (sessions, rate limits), S3 (encrypted
document blobs) and a search index derived from the Document rows.  All that
follows is within one tenant: no operation touches two.

## 1. Inventory

File names are under `src/lib/backend`.

| Component | State it keeps | Operations | What is hard | What makes it correct |
|---|---|---|---|---|
| Document pipeline (`domains/documents`) | Document row (`processing`, `indexed`, `failed`), blob in S3, pending/completed operations derived from audit events | upload, process, delete, retry (three lanes) | three stores and no common transaction; every `await` may interleave with another replica, fail or be the last | a row has its blob; an orphan blob is owed a deletion; completion is only recorded of settled documents; what a retry reaches is recovered |
| Banking cases (`domains/banking-cases`) | case row: owner, department, evidence, plan and its verdict, transfer offer, timeline, revision | create, findById/list, handoff, linkEvidence, propose, review, offer, accept, decline, cancel, escalation of a preview candidate | several people with old screens; memberships change and evidence is deleted between steps; resubmissions | maker-checker independence; what is decided is what was proposed; stale forms have no effect; ownership lands with a member of the department |
| Banking work tasks (`domains/banking-tasks`) | task row: requester, recipient or queue, status | request (named, team), claim, accept, respond, decline | concurrent claims, capacity, memberships that change | first claim wins; requests made from the current case |
| Tenant records and transactions (`database/store.ts`, `database/unitOfWork.ts`, `database/adapters`) | rows per tenant; in memory: a queue of transactions and a copy of the whole store | runInTransaction; create, update, delete with their checks | snapshots of concurrent transactions; in-memory rollback | a transaction is one consistent step or nothing |
| Relationship and lifecycle checks (`database/relationshipValidator.ts`, `database/repositoryIntegrity.ts`) | none | who may refer to whom, what stands in the way of a deletion, moves of a status | each check reads what another transaction is about to change | no reference dangles; no status goes back |
| Controlled knowledge (`domains/knowledge`) | item row: what readers are shown, and a revision counter; snapshots and decisions in the audit log, from which the state of revisions is derived | create, update, createRevision, validate, publish, reject, delete | state derived from a log ordered by wall clock; check and delete are separate; source documents are deleted beside it | readers are shown the last published revision; nothing is replaced unreviewed; the history can be derived, clocks permitting |
| Financial sources (`domains/reconciliation`) | registry entry, import journal (`prepared`, `uploading`, `stored`, `committed`, `quarantined`), signer onboarding | propose, decide, revoke, ingest, recover | an object store and a database again; a recovery that takes a slow worker for a dead one | two-person registry; one import writes its object once; what is committed was signed; no import is committed and quarantined |
| Reconciliation preview (`domains/reconciliation`) | batches and candidates with their triage | CSV preview, comparison of lines, register, review, opening a case | a batch registered twice; a candidate read before its case is created | a batch is registered once; only escalated candidates become cases |
| Value execution (`domains/value`) | stages of opportunities and actions, ledger of captured value | validate, approve, execute, measure, capture | evidence invalidated or expired between measurement and capture; a run that ends by itself | acted upon once; stages agree |
| Workflows and actions (`domains/workflows`, `domains/actions`) | definitions, runs with their steps, actions | create, edit, trigger, advance, decide | a definition edited under its run | steps end in order; approvals that were not edited away are decided |
| Evidence and certification (`domains/evidence`) | append-only provenance, verifications, certifications | record, decide, certify, revoke | time; a basis that falls after what rests on it was certified | what is certified is verified |
| Sessions (`domains/auth/authProvider.ts`) | sessions in a map, or in Redis as a payload and three sorted sets | create, read, revoke one, a user's, an organization's, cleanup, count | keys that expire by themselves at different times | found until expired or revoked, never after |
| Passwords, tokens, rate limits (`domains/auth`) | users, counters | login, refresh, limit | counted in one script that Redis runs atomically | limits hold |
| Query and pagination (`database/pagination.ts`, `querySpecification.ts`, `paginationTraversal.ts`, `src/lib/data/repositories/httpCollection.ts`) | none in the server; the cursor is the client's | pages, traversals of all pages | rows come and go between pages, the cursor's row among them | what was there all the while is read once |
| Lists on screens (`src/app/work/cases`, `src/app/reviews`, `src/components/banking-cases`) | rows shown, cursor, flags that disable buttons | refresh, load more, submit and refresh | answers in any order, or none | a list shows what it claims to cover |
| Wire clients (PostgreSQL, Redis, S3) | connection state | protocol exchanges | broken connections | outcome reported truthfully |
| AI, customers, memory, audit reading, release control, the rest of the web UI | single rows or none | CRUD, prompts, start-up checks | nothing between components | - |

Interactions: the document pipeline writes rows and audit events in one
PostgreSQL transaction and blobs outside any.  Cases refer to Documents and
ValueOpportunities by id and re-read them at proposal and review.  Tasks refer
to cases and read their revision, owner and plan.  Both read the tenant's
memberships anew in each transaction.  Knowledge refers to Documents, whose
deletion is refused while a knowledge row names them.  Every service writes
tenant records through the same transactions and the same checks, so what the
other models take for granted of a transaction (one step, or none) is what
`RecordStore` shows of the two adapters.  The value lifecycle starts workflow
runs for its actions, which anybody may advance, and reads evidence that is
decided elsewhere.  The UI holds snapshots of cases and submits them with the
revision it saw; its lists are read page by page.

`PROJECT.json` lists the hazards found in this code at their lines, with the
property that covers each, or what is still missing.

## 2. Modules

| Module | What it is |
|---|---|
| `DocumentPromise` | what the pipeline promises of a document's row and blob, without handlers, audit log or failures |
| `DocumentPipeline` | upload, processing, delete and retry of documents, with failures and crashes; the mapping to `DocumentPromise` |
| `DocumentPipelineProofs` | TLAPS proofs of its safety and action properties, and of the refinement |
| `MCDocumentPipeline` | constants for TLC |
| `BankingCase` | case intake, evidence, maker-checker review, ownership transfer, memberships, deleted sources |
| `MCBankingCase` | constants and symmetry for TLC |
| `BankingTasks` | EXTENDS `BankingCase`: tasks beside the whole of the case protocol |
| `BankingProofs` | TLAPS proofs of the safety and action properties of cases and tasks |
| `MCBankingTasks` | constants and symmetry for TLC |
| `RevisionControl` | what controlled knowledge promises, without log, clock or concurrent request |
| `KnowledgeRevisions` | rows and audit log of knowledge items, commands of several replicas, deletion; the fold of the history as the code writes it; the mapping to `RevisionControl` |
| `KnowledgeRevisionsProofs` | TLAPS proofs of its safety and action properties, of the fold, and of the refinement |
| `MCKnowledgeRevisions` | constants and symmetry for TLC |
| `Evidence` | provenance, verifications and certifications of subjects, with a clock |
| `WorkflowRuns` | definitions, edits, and runs with their steps and decisions |
| `ValueLifecycle` | EXTENDS both: opportunities, actions and captured value |
| `ValueLifecycleProofs` | TLAPS proofs of its safety and action properties |
| `MCValueLifecycle` | constants, symmetry and pruning for TLC |
| `FinancialImport` | signer onboarding, source registry, plain intake, and the journal with its object store and workers |
| `FinancialImportProofs` | TLAPS proofs of its safety and action properties |
| `MCFinancialImport` | constants and symmetry for TLC |
| `SessionData` | records, operations and answers of a session store |
| `SessionContract` | what a session store promises |
| `RedisSessions`, `MemorySessions` | the two stores, each with its mapping to the contract |
| `SessionStores` | both side by side, every operation made of both |
| `SessionStoresProofs` | TLAPS proofs that both stores implement `SessionContract` |
| `MCSessionStores` | constants and symmetry for TLC |
| `RecordTables` | kinds of records, their references and lifecycles, and what a call checks before it writes |
| `RecordPromise` | what a transaction over records promises |
| `RecordRows`, `MemoryRecords`, `PostgresRecords` | the rows, and the two adapters over them |
| `RecordStore` | the store the services use, with either adapter; the mapping to `RecordPromise` |
| `RecordStoreProofs` | TLAPS proofs that references hold and the promise is kept |
| `MCRecordStore` | constants and symmetry for TLC |
| `Paging` | pages of a table and their cursors |
| `Traversal`, `ListScreen` | those who read pages: a traversal of all of them, and a list in the browser |
| `PagedReading` | either of them beside a table that changes |
| `Slicing` | the page as the code cuts it out of a sorted array |
| `PagedReadingProofs` | TLAPS proofs about both, and that a page is that slice |
| `MCPagedReading` | constants for TLC |

Definitions marked "Mutant" in a comment are not part of the models: each is
the form a plausible bug would give to the definition below it, kept to show
that a property can fail.

### 2.1 `DocumentPipeline`

State and code:

| Variable | Code |
|---|---|
| `doc[d]` | `status` of the row, `absent` before it, `deleted` after it |
| `blob` | objects in the object store, by document |
| `op[o]` | the state `documentService` and `documentConsistencyService` derive from the audit events of operation `o` |
| `rank`, `clock` | the order of first events in the audit log, which orders retry batches |
| `pc`, `cur`, `todo` | per request handler: its next `await`, its operation, what its retry batch still holds |
| `faults` | failures injected so far (bounded by `MaxFaults`) |
| `raced`, `unacked` | history: uploads whose cleanup a retry picked up while the upload was in flight; uploads whose commit was not acknowledged |

Every `await` of the source is a step; a PostgreSQL transaction is one step
that commits, aborts, or commits while its caller sees an error
(`InsertUnacknowledged`, `DeleteUnacknowledged`, the last case of
`UpdateStatus`).  An object-store call that throws may have taken effect
(`PutObjectFails`, `RemoveBlobFails`).  `Crash` ends a request anywhere; it
also stands for an audit write that fails inside a `catch`, which leaves the
request with an error and no further step.  The operations of
`documentService.ts` map to actions as their names say: `uploadDocument` is
`BeginUpload` .. `InsertCommits`, `compensateUpload` is the `compensate` and
`settle` steps, `processDocument` and `runProcessingOperation` are
`AnnounceProcessing` .. `ReportRetry`, `deleteDocument` is `BeginDelete` ..,
and `retryPendingDocumentOperations` is `BeginRetry` .. `Finish`.

Abstracted: file contents, encryption, extraction and chunking (they either
succeed or throw); the number of inline blob-deletion attempts (all fail, or
one succeeds); diagnostic events that change no derived state; attempt
counters.

`DocumentPromise` has one record for each document: what its row shows, whether
its blob is stored, and whether a deletion of it is owed.  The refinement
mapping (`AbstractDocument`) reads them off the row, the object store and the
audit log; a deletion that was completed is "gone" for good.  Handlers, lanes,
ranks and failures are invisible.  The promise is waived for a document whose
upload was cleaned up under it or was not acknowledged (`raced`, `unacked`,
section 6), and only while that upload is in flight (`Waive`).

Left out: `retryDeferredSearchDeletes`, since in production the
search index is a view of the rows and its removal does nothing; the statuses
`uploading` and `archived`, which no service writes.

### 2.2 `BankingCase`

State and code:

| Variable | Code |
|---|---|
| `bcase[c]` | the `BankingCase` row: originator, owner, department, source, evidence links, `decision` (as `plan`), `pendingTransfer` (as `offer`), `revision` |
| `role[u]` | the membership `verifyCurrentAccess` reads in each transaction; `"None"` is disabled, or a role without case capabilities |
| `sources` | Documents and ValueOpportunities that exist |
| `form[u]` | the case on user u's screen, as it was when loaded |
| `roleChanges` | bound on membership changes |

Every operation runs in one SERIALIZABLE transaction
(`PostgresIntegrityPersistence.ts`, used by `store.ts`), so it is one step of
the model; a transaction that is refused, aborted or turned down by a guard
changes nothing and is no step.  What interleaves is the people.  A form is
the snapshot the UI submits with its `expectedRevision`; it is kept after a
submission, so that a resubmission after a lost answer is among the behaviours.

Decisions of the abstraction: `rev` stands for the revision and for the length
of the timeline, which grow together in every case created by this code; the
ids of plans and offers are random in the code, and here the revision that
made them; Chief Executive and Administrator have the same capabilities here
and are one role; a session whose role differs from the persisted one is
refused, so only persisted roles count; the receiver's department agrees with
the role.  Plan texts, dispositions and reasons are left out: a preview-only
case may only propose `request_source_review`, and nothing later depends on it.
The compare-and-set statement of `commitBankingCaseTransfer` repeats, within
the same transaction, the conditions the service has just checked: the guards
`SameOffer` and `Submits` stand for both.  `ChangeRole` is external to the
code under `src/` that is modelled.

### 2.3 `BankingTasks`

Adds `task[t]` to all of `BankingCase`.  A task's status only moves forward
and its revision counts the moves, so a submission is stale exactly when the
status it starts from is, and the status stands for both.  Tasks never change
a case: `TaskNext` is a step of the case protocol or a step of a task.

### 2.4 `KnowledgeRevisions` and `RevisionControl`

State and code:

| Variable | Code |
|---|---|
| `row[i]` | the `KnowledgeItem` row: the revision whose content it shows, `version`, `sourceDocId`, `isPublicPlatformKnowledge` |
| `fresh` | identifiers not drawn yet |
| `snaps` | `knowledge_revision:created` events |
| `decs` | `knowledge_revision:validated`, `:published` and `:rejected` events, each with the time its replica wrote into it |
| `sources` | Documents that exist, all indexed |
| `now` | true time; a replica's clock is `now + Skew[r]` |
| `del[w]` | a deletion request: nothing, the row read, or the history read too |

Every command but deletion runs in one SERIALIZABLE transaction, whose reads
of the log join it, so it is one step; commands that throw, and the repeated
`validateRevision` or `publishRevision` that only returns what is there,
change nothing.  Deletion reads the row, reads the history, and only then
starts its transaction: three steps (`BeginDelete`, `CheckHistory`,
`RemoveRow`).  A replica that crashes is a request that never goes on.

The state of a revision is nowhere stored: `Outcome` says what
`deriveKnowledgeRevisionView` makes of the decisions on it, `"broken"` where
it throws.  `Outcome` is declarative, so that it can be reasoned about;
`Folded` is the loop of the code, and `OutcomeIsFold` compares the two on every
log that is reached and on each of them with one more decision of any kind and
time.  Initially items may exist that were
written before there were revisions (`LegacyRow`): version 1, no history,
perhaps public.

Abstracted: content is named by the revision that wrote it; hashes and
checksums always agree, because snapshots are never changed and no service
changes a document's checksum; permissions; pages of the log.  An existing
source counts as indexed: what happens before a document is indexed is
`DocumentPipeline`, which also shows that it stays so (`IndexedIsStable`).
The routes do not let a client give an empty source, so a new revision has the
source given, or else the row's (`NamedSources`).

`RevisionControl` is the promise: one item shows one revision; published
knowledge is revised beside what it shows; only the latest revision moves.
The refinement mapping (`AbstractItem`) reads the item off the row and the
derived states.  Deleting is `Remove` only when the row goes, the steps before
it are invisible, and so are clock and documents.

### 2.5 `ValueLifecycle`, with `Evidence` and `WorkflowRuns`

| Variable | Code |
|---|---|
| `opp[o]` | `status` of a ValueOpportunity |
| `action[a]` | an Action: its `status`, the opportunity a stage 7 command linked it to by its provenance (`opp`), and the one whose link it bears as `insightSource` (`named`) |
| `captured[v]` | ValueCaptured entries, with the evidence they were captured on |
| `prov` | provenance records; `measures` marks those of the measurement method |
| `verif[s]` | the latest verification of a subject: its number, state and basis |
| `cert[s]` | the latest certification: its state, the verification it is on, its end |
| `now` | the clock certifications expire by |
| `wf[w]`, `run[r]` | workflow and run rows; a run remembers the definition it was started from |
| `softened` | history: approvals of runs that an edit of the workflow has taken away, and none has put back, before their step was done |

Every command is one SERIALIZABLE transaction and one step
(`PostgresIntegrityPersistence.runInTransaction`); one that throws is none.
Beside the commands from `validateOpportunity` to `captureValue` stand the
plain routes that touch the same rows: actions created and advanced outside the
lifecycle, which may bear an opportunity's link all the same (`insightSource` is
free text, `actionService.ts:87`), workflows edited, runs triggered and advanced by anybody, evidence
decided by anybody.  A lifecycle action's run is named after it and advances
like any other; the command that completes the action looks at how it ended.

Decisions of the abstraction: a verification's time is later than its
predecessor's whatever the clock says (`nextDecisionTimestamp`), so only the
latest and its number are kept, and its basis only while it says verified;
`validFrom` is not read anywhere; all replicas expire certifications by one
clock.  `recordProvenance` (`evidenceService.ts:171`) takes any method from its
caller; `RecordProvenance` has the measurement method and all others as one, and
leaves the method of the stage 7 action link to the lifecycle: no route calls
the operation, so no client can give it that one.  Connections of a
workflow are validated but not followed when it runs, as in the code;
`runsCount` and logs are left out.  `startExecution` leaves the run in
"running" even when its first node is an approval, as in the code.
Opportunities are there from the start: no service creates them.

### 2.6 `FinancialImport`

| Variable | Code |
|---|---|
| `source[s]` | source definition: `status`, signing key, proposer, reviewer |
| `dossier[..]` | signer onboarding: `status`, requester, submitter, whether the challenge has expired |
| `signed` | manifests the holder of the key has signed |
| `journal[i]` | import row: `state`, `revision`, file, version, whether it was last written five minutes ago |
| `objects[i]` | versions in the object store under the import's key |
| `snapshot[i]` | snapshot row that registers a version |
| `intake[x]` | a plain intake of an unsigned file, before and after its transaction |
| `task[w]` | what a worker carries between two awaits: its step, the import and revision it read, its version |

A database transaction is one step; the object store takes part in none.  An
upload is `claim`, `put`, `check`, `record`, and a worker may stop for good
between any two, take its time until `recover` sweeps its import, or find that
the object store answered a call that had no effect or had one and did not
answer.  Source and idempotency key determine the import, its object and its
snapshot, as the digests in the code do.

Decisions of the abstraction: revisions of sources and dossiers add nothing to
the status that the same compare-and-set names; the two limits of time are
flags that may be set at any moment (stale, challenge expired); an expired
manifest or malformed input is a refusal, and no step; losing access in the
middle of an upload is a worker that stops.  `previewPair` and the checks of
signatures and retention of a snapshot read and audit, and change nothing.

### 2.7 Sessions

`SessionContract` has one function from tokens to sessions that stand, a clock,
and the answer of the latest operation.  `RedisSessions` spreads a session over
the keys of the code (`payload`, `expiration`, `userIndex`, `orgIndex`), each
script being one step, and Redis dropping payloads and indexes by their own
lifetimes; `MemorySessions` has the map, in which an expired session stays
until it is read or cleaned up.  `SessionStores` makes every operation of both
at the same instant.

One clock for servers and Redis; at the tick of its expiry a session may count
as live or dead, since the adapters differ there; revocations and cleanups of
the map also count expired sessions that are still kept.  Tokens are drawn
once.  Names, permissions and activity time are left out.  `authService`
revokes by user when a password changes, and by token on logout and when the
organization is switched; cleanup, the count and revocation by organization
are called by scripts only.

### 2.8 Tenant records

| Variable | Code |
|---|---|
| `rows[r]` | a stored record: the one reference its kind has, and the stage of its life |
| `unused` | identifiers not drawn yet |
| `outcome` | how the last transaction to end has ended |
| `queue`, `snapshot` | in memory: `inMemoryTransactionTail`, and the copy of the store the running transaction took |
| `tx[c]` | PostgreSQL: what a transaction sees, has read and written, and which had committed before it |

`RecordTables` has the checks of a repository call, the same for both adapters.
`MemoryRecords` changes the rows in place, one transaction at a time, and puts
the copy back when one throws.  In `PostgresRecords` transactions of several
replicas overlap: each call reads and checks on its own snapshot and writes
later.  Of PostgreSQL it takes what its documentation promises at SERIALIZABLE:
snapshots; of two transactions that write one row the second fails; those that
commit could have run one after another (`Serializable`).  `RecordPromise` has
the committed rows and an outcome: a transaction is one step from a consistent
state to a consistent one in which nothing goes backwards, or nothing.

Services write only in transactions, and nested calls join the outer one; a
single PostgreSQL call outside any is a transaction of its own.  A call that
throws is the transaction's abort.  Records of kinds without references that
matter (OrganizationalMemory; "Operation" as a source) are left out, and so are
memberships of people in the in-memory checks (services always pass a member),
`runsCount`, and the trimming of identifiers in readings.  Readers outside an
in-memory transaction may see rows that are rolled back later; no model relies
on them.

### 2.9 `PagedReading`, with `Paging`, `Traversal` and `ListScreen`

| Variable | Code |
|---|---|
| `table` | the tenant's rows that match the query |
| `standing` | history: those that have been there since reading began, or, for a list, since what it shows was read |
| `status`, `from`, `seen`, `pages`, `times` | `collectAllPages` and `collectAllCollectionData`: how it ended, cursor, cursors seen, pages, and how often each row was collected |
| `screen` | which list it is: case inbox, reviews, own tasks, team queue |
| `shown`, `cursor`, `more`, `error` | the state of the component |
| `raised` | its flags: `loading`, or `busy` and `loadingMore`/`operating` |
| `ask[s]` | a request in flight, with its answer once the server has read |
| `torn` | history: a refresh failed, or a page came that the list does not reach up to, and no refresh has succeeded since |

Both adapters read all rows of a tenant in one statement and cut the page out
with the same code, so a page is one step.  A row is its sort value and its id,
which do not change while it lives: lists are sorted by creation time, the
audit log by its timestamp, and cases by id, because `BankingCase` is missing
from `ENTITY_SORT_WHITELIST`.  Numbers stand for both, in the direction of the
sort.  A page is a set of rows; that it is the slice the code cuts is checked
and proved (`PageIsSlice`, over `Slicing`).  Screens differ in their flags, which are all that keeps two
requests from overlapping; answers may come in any order or be errors.

## 3. Runs

| Run | Instance | What it shows |
|---|---|---|
| `documents_pipeline` | 1 document, 3 handlers of which one serves retry calls, 2 failures | row, blob and outbox stay consistent while an upload, a delete, a processing and a retry overlap; the pipeline implements `DocumentPromise`; owed deletions happen, and what a batch reaches is recovered |
| `documents_drain_race` | 1 document, 2 handlers, no failure | violation: a retry deletes the blob of an upload in flight |
| `documents_stranded` | 2 documents, 2 handlers of which one serves retry calls with room for 1 operation, 1 failure | violation: the operation of a deleted document keeps the only place, and the other document stays failed |
| `banking_cases_and_tasks` | 3 people of any roles, 1 case at a time of 2 (one a preview candidate's; `OneAtATime` prunes the rest), 5 events, 1 membership change, 2 tasks where 1 fits (`TasksEarly` follows them while the case is at its first two revisions) | all properties of the case protocol; claims and currency of requests beside every step of the case |
| `banking_stuck_plan` | 1 source | violation: a plan whose evidence is gone cannot be rejected |
| `knowledge_replicas` | 1 item, 2 sources, 2 replicas of which one is a tick ahead, 1 deletion, 3 revisions | all properties of the knowledge protocol, that it implements `RevisionControl`, and that `Outcome` is what the code's fold computes |
| `knowledge_deleted` | 2 revisions, 2 deletions | violation: a published item is deleted |
| `value_lifecycle` | 1 opportunity, 2 actions, 3 runs of 1 workflow with 2 edits, 2 provenance records, 4 decisions, 2 ticks | all properties of the value lifecycle |
| `financial_import` | 2 people, 1 source, 1 key, 2 tickets, 2 files, 2 versions, 1 plain intake, 2 workers | all properties of custody |
| `sessions` | 3 tokens, 2 users, 2 organizations, lifetimes of 1 and 2, 3 ticks | both stores keep the contract |
| `records` | a customer, a document and a knowledge item, 2 transactions, 2 versions | references and the promise, in memory and over PostgreSQL |
| `paged_reading` | 4 rows, two with the same sort value, 1 row a page, at most 3 pages; or 3 rows in a list and 2 requests in flight | traversals, lists, and the slice |

Why the bounds are enough for what they are to show.  Documents do not share
state except for places in a retry batch: one document shows every
interleaving about row and blob.  Three handlers are the
most that can usefully meet on one document (its only uploader, a deleter, a
retry); two faults allow a failure and the failure of its compensation.  What documents
do share, the places in a batch, is `documents_stranded`: two documents and one
place.
Fewer events would hide things in `BankingCase`: five allow creation,
evidence or handoff, proposal, verdict and one more, and creation, offer,
acceptance, proposal, verdict, in which a maker has parted with the case
before it is checked.  Three people are originator, proposer and an
independent checker.  Two cases share only memberships and sources, which one
case already sees change at every point.  Knowledge items share only documents;
three revisions give one published, one rejected and one in work, and two
clocks one tick apart put decisions before, at and after each other, in any
order of the commands (`TimeOnFirst`: true time passes while there is one
revision, as times of different revisions are never compared).
Two actions can compete for an opportunity, and a workflow edited twice can
lose a step and get it back; `Focus` prunes evidence beside plain actions, and
runs outside the lifecycle beside any action, with which they share only the
workflow, and `Timely` edits of
workflows that no run is in and time that nothing expires by.  Two workers are
the one that works and the one that takes it for dead; two versions are what
one object can get by one upload too many; two tickets let one import be swept
while the other commits.  Three tokens put two sessions of one user in
different organizations beside one of another user, and a lifetime of 2 outlives
an index made for 1.  Three records are a chain of two references, so that
deletions at both ends meet; two transactions are what a write skew needs.
Four rows and one row a page let the cursor's row go, others come before and
behind it, and the bound be reached; two requests in flight are a refresh and a
page, in either order (`ThreeListed` keeps lists to the first three rows).  The
proofs of section 5 have none of these bounds.

`FinancialImport.cfg`, `SessionStores.cfg` and `RecordStore.cfg` also check
deadlock.  The others say `CHECK_DEADLOCK FALSE`: an idle system with its
counters (faults, events, membership changes, decisions) used up, or a
traversal that has ended, is a proper end.

### Fairness

Only `documents_pipeline` and `documents_stranded` use any, for their liveness
properties: weak fairness of each handler's `Progress`, because a Node request that is neither failed nor
crashed runs on; and weak fairness of retry calls arriving, at one handler.
No scheduler in `src/` issues retry calls: they come from an operator or a
cron job at `POST /documents/retry`, and liveness is conditional on that.
One drainer only: two that overlap for ever can each mark the other's document
failed between its steps, and fairness does not exclude it (with two drainers
TLC shows this behaviour).  Safety with overlapping retries is proved, for any
number of drainers.  Uploads, deletes
and failures are never required to happen; failures are bounded, so that
"eventually" means after the last one.  No liveness is stated for imports: no
scheduler in `src/` calls `recover`, and nothing waits for it.

## 4. Properties

`DocumentPipeline`: `RowHasBlob` and `NoForgottenBlob` relate row, blob and
outbox at every point of every request, with the two known races named in
`raced` and `unacked` instead of weakening the formula for all documents;
`KeepsPromise` is the refinement of `DocumentPromise`: it puts the steps of all
handlers on one document into the one order that is promised, in which a row
never comes before its blob and a blob that was removed never comes back;
`CompletedMeansSettled` and `IndexedIsStable` are about handlers that work on
one document with stale reads; `OwedDeletionsHappen` and
`RecoveredIfReached` are what the outbox is for: a blob whose deletion is on
record, be it of a deleted document or of an upload that failed or crashed,
goes; and an unfinished document is processed, as long as operations that never
complete (`Hopeless`) leave a place in the batch.  Without that proviso the
claim is `NotStranded`, which the code does not keep (section 6).  An upload
only in flight is no blob owed: its row commits (`Live`), or the retry drained
its cleanup under it (`raced`).

`BankingCase`: `MakerChecker` over all handoffs, transfers and promotions in
between; `ReviewUndisturbed` and `OfferUndisturbed` say that what is answered
is what was asked; `NoStaleChange` that nothing but a form showing the very
state of a case can change it; `OneCycle` that a verdict is final;
`OwnershipLands` where a case ends up when memberships change.

`BankingTasks`: `FirstClaimWins` says that no later claim, answer or change of
membership moves a task away from who claimed it; `RequestsAreCurrent` that one
is requested only of the case as it stands, never beside a plan under review.

`KnowledgeRevisions`: `HistoryReadable` says, of replicas whose clocks show
whatever they show, which logs cannot be folded: those alone in which the
latest revision was published by a replica whose clock is behind that of the
one that validated it (`Misordered`); `RowShowsRevision` relates the row to the
log; `ShownSourceStands` relates it to the documents, whose deletion asks only
about rows and not about pending revisions; `OnePending` and
`DecisionsAreFinal` are about revisions that concurrent editors create and
decide, with states derived anew each time.  Where a history throws, these go
by what was last said of the revision (`Told`): it was published.
`OutcomeIsFold` compares the model's reading of a log with the code's;
`KeepsPromise` is the refinement.

`ValueLifecycle`: `ActedOnce` and `StagesAgree` relate an opportunity, its
action and the action's run, which other routes advance as well;
plain actions that bear the opportunity's link included;
`CertifiedIsVerified` follows a certification through later verifications of
its subject; `RunsInOrder` and `ApprovalsDecided` follow a run through a
definition that is edited meanwhile.  Both hold of every run, edited or not:
the second says that an approval without a decision is one that an edit itself
took out of the workflow before its step was done (`softened`), so that no
other edit, restart of a step, or way of starting the run opens one.  That the
evidence is verified at the moment of capture is the guard `Covered` of one
transaction, and no property repeats it.

`FinancialImport`: `WrittenOnce` over workers that claim, crash and are swept;
`CommittedIsSigned` ties what is committed to an object version and a signed
manifest; `RevokedIsFinal` and `SettledStands` are about what workers still do
with a source or an import that others have revoked or settled.

Sessions: `RedisKeepsContract` and `MemoryKeepsContract` are the refinements of
`SessionContract`.

Tenant records: `ReferencesHold` is about two transactions that each looked
before the other wrote; `StoreKeepsPromise` is the refinement of
`RecordPromise`, rollback included.

`PagedReading`: `CollectsStanding` and `ListsComplete` say of a traversal and
of a list what "complete" can mean while rows come and go; `PageIsSlice`
compares the model's pages with the code's, for pages of every size.

## 5. Proofs

`DocumentPipelineProofs` proves for any number of documents, handlers,
drainers and failures, and any `Limit`:

- `TypeCorrect`, `CompletionSettles` from `IInv`.  `CompletedMeansSettled` is
  not inductive: a handler about to record completion must hold a settled
  document (`DoneSettled`), which a concurrent upload of the same document
  would break, so an upload in flight must be the only one and precede the row
  (`UploadsApart`, `FreshRows`), and what a handler holds must fit its step
  (`InHand`).  `IndexedStays` follows from the same invariant.
- `RowsHaveBlobs`, `NoBlobForgotten` from `IInv` and `BlobInv`: operations
  match rows (`OpsMatchRows`); a storage operation someone is about to carry
  out concerns no live row and no upload in flight, histories aside
  (`AssignedSafely`); an upload in flight is covered by its pending cleanup
  (`UploadsCovered`); a deletion about to be completed has happened
  (`SettledGone`).
- `PromiseKept`, the refinement of `DocumentPromise`, from both.  `Shapes` says
  how a document can show itself under the invariants: in one of the promise's
  states.  Each step of a handler changes what one document shows, or nothing,
  so it is one step of the promise or a stutter; only a retry that assigns
  itself a batch may waive several at once, each with its upload in flight.

`BankingProofs` proves for any number of people, cases, sources, events
and membership changes: `TypeCorrect`, `MakersDoNotCheck`,
`ReviewsUndisturbed`, `OffersUndisturbed` from `IInv`, and the action
properties `StaleFormsFail`, `OneCycleOnly`, `OwnershipLandsWell`.  The one
conjunct of `IInv` that is not itself a property is `FormsTrail`: a form is
never ahead of its case, and equal revisions mean equal cases; it is what
turns the comparison of revisions into the comparison of states.  The
invariant is a conjunction over cases, so `CaseStep` reduces each operation to
the one record it writes; `Changes` and `Effects` list what a step may do to a
record, and the action theorems follow from them.  Of tasks it proves, for any
number of them and any `MaxCaseTasks`: `TaskTypeCorrect`,
`QueueIsUnclaimed`, and the action properties `ClaimsAreFinal` and
`RequestsStayCurrent`.  A step beside tasks is a step of the case protocol or
leaves cases alone (`TasksKeepCases`), so all that is proved of cases holds
beside tasks.  `TaskInv` adds that a task is in the queue exactly as long as it
has no recipient (`TasksAddressed`), on which the first claim rests.

`KnowledgeRevisionsProofs` proves for any number of items, sources, replicas,
deletions and revisions, and whatever the replicas' clocks show:
`HistoriesReadable`, `RowsShowRevisions`, `ShownSourcesStand`,
`OnePendingOnly`, `TypeCorrect` from `IInv`, the action property
`DecisionsFinal`, and `PromiseKept`, the refinement of `RevisionControl`.
`IInv` adds to the properties that the row counts the revisions in the log
(`CounterAgrees`), without which a new revision could collide with an old one;
that nothing refers to an identifier not drawn yet (`FreshUnused`); and that
decisions are about recorded revisions (`DecisionsBacked`).  `NextOutcome` is
the heart: one more legal decision gives the revision the state it names,
whatever its time, or else is a publication stamped earlier than the validation
and the history throws; a rejection would throw too, but derives the outcome
before it commits.  A history that throws stays so until its item goes, so what
was said last of its revisions stands (`Told`).  `DecideEffect` and
`SnapshotEffect` lift it to the log, `DecisionStep` and `SnapshotStep` to the
invariant, `DecisionAbstractly` and `SnapshotAbstractly` to the promise; each
command then only has to be matched with one of them.  `OutcomesAreFolds`
says that `Outcome` is what the loop computes of
every log, readable or broken: `Outcome` solves the equation of the fold, and a
second solution would differ from it on a smallest log, which the equation
excludes.

`ValueLifecycleProofs` proves for any number of opportunities, actions, runs,
definitions and decisions: `TypeCorrect`, `ActsOnce`, `StagesStayTogether`,
`CertificatesStand`, `RunsStayInOrder`, `ApprovalsAreDecided`.  To the properties the invariant
adds `RunsBacked`: a run with an action's name is that action's, without which
a start could meet a run that has already ended; and `LinksNamed`: an action
linked to an opportunity bears its link, on which the check against a second
one rests.  For the
runs, `RunInv` says that a run stands at one position, with what lies before it
over and what lies behind it untouched (`Ordered`); that its steps are the nodes
of the definition it was started from (`Copied`); and that each of its approvals
was taken away by an edit, or has been decided, or is still an approval in the
workflow as it is now, so that its step cannot end without a decision
(`Decided`).  An edit keeps this because it takes away what it no longer has
and gives back what it has again.

`FinancialImportProofs` proves for any people, sources, keys, files, versions
and workers: `TypeCorrect`, `ObjectsWrittenOnce`, `CommitsAreSigned`,
`SettlementStands`, `RevocationIsFinal`.  The invariant says of each state of
an import what its revision, version and objects are (`Journalled`), which
snapshot fits it (`SnapshotFits`), what a worker past its claim knows of it
(`TaskFits`) and that there is one such worker (`OneUploader`): the revision
it carries is the claim's, and every sweep counts it up.

`SessionStoresProofs` proves for any tokens, users, organizations and lifetimes
`TypeCorrect`, `IndexesOutlive`, and the refinement `RedisImplementsContract`.
The heart is `Indexed`: every live session is in both of its indexes, and they
live as long as it does, whatever was added to or dropped from them.
`RedisKeepsIt` and `MapKeepsIt` say of both stores, used side by side, that they
keep the contract; the map needs no more than that it holds nothing under a
token not drawn yet.

`RecordStoreProofs` proves for any records and kinds and any finite set of
transactions: `TypeCorrect`, `ReferencesNeverDangle`, `PromiseKept`.  Over
PostgreSQL the invariant says that what a transaction sees differs from the
rows only by what transactions wrote that overtook it (`ViewsFit`), that those
that overlap write different rows, and that identifiers not drawn leave no
trace.  A reference that dangles needs one transaction that read before the
other wrote and one that wrote what it had not seen: a cycle of two, which
`Serializable` excludes.  In memory the copy is consistent, and the rows of the
running transaction are consistent at every call.

`PagedReadingProofs` proves for any rows, page size, bound and number of
requests in flight: `TypeCorrect`, `TraversalCollects`, `ListsShowAll`.  The
invariant says that a traversal has collected only rows up to its cursor and
all of those that stand (`Traversed`), with every cursor before it; and that an
answer in flight covers what stood from where it starts to where it ends
(`Served`).  Under it are lemmas on pages: a table that is not empty has a first
row, the next cursor is the last row of its page, and a page has all that lies
between two cursors.  `PagesAreSlices` proves that each such page, of any table
at any cursor, is what the code slices out of a sorted array: the rows can be
sorted; the index the code looks for is the number of rows that are not behind
the cursor, whether the cursor's row is still there or not; and the rows of a
page and the places of the slice correspond, the last of them being the next
cursor.

Assumptions: those named in the modules, which say that bounds are natural
numbers, that the "none" values are not real ones, that constants have the
shape their comments give, and, in `RecordRows`, that there are finitely many
transactions.  TLC evaluates them in the runs.  `Serializable` is no
assumption but a guard of `Commit`, external to the code.

Only model-checked: the two liveness properties, `OwedDeletionsHappen` and
`RecoveredIfReached` (temporal reasoning under fairness is out of reach of the prover
used here), and the violations.  Every other property of a passing run is
stated by a theorem.

## 6. Where the code and its documentation part

Each of these is a run that must find a violation, of a property that states
what the repository says.

1. `DrainIsSafe` (`documentService.ts:467`): the storage lane does not tell a
   cleanup left by a dead upload from one of an upload in flight.
2. `NotStranded` (`documentConsistencyService.ts:286`): documents are recovered
   "so the document cannot remain permanently stranded in processing/failed"
   (`:248`), but a processing operation of a deleted document never completes
   and keeps the oldest places of every batch; with as many of them as a batch
   holds (20 by default) no other document is ever reached.
3. `PlanCanBeRejected` (`bankingCaseReviewService.ts:205`): rejecting requires
   that the evidence still exists.
4. `PublishedIsKept` (`publicationSafeKnowledgeService.ts:30`): the deleting
   transaction does not check again what was read before it, so an item
   published in between is deleted.

Seen while modelling, and, where the models reach it, part of them, but without
a run of its own:

- An offer may take the last timeline entry; then it can be neither answered
  nor withdrawn, and blocks the case (`bankingCaseTransferService.ts:49`).
- Two retry calls that overlap for ever can each mark a document failed that
  the other is about to finish (section 3, fairness).
- Decisions on knowledge are ordered by the clocks of the replicas that made
  them; a publication that seems older than its validation makes every later
  reading of the history throw, and with it every command on the item
  (`knowledgeRevisionModel.ts:158`).  `KnowledgeRevisions` has such clocks, and
  `HistoryReadable` says that this is the one way it happens.
- A team request may be claimed by the person who made it, while named requests
  must go to "a different employee" (`bankingWorkTaskService.ts:124`, `:281`);
  and a case whose tasks are all resolved has no more room than before, while
  the refusal asks to resolve some (`:166`).
- An approval step that is edited into a task while a run waits at it completes
  without a decision: the definition consulted is the current one
  (`workflowService.ts:220`); `ApprovalsDecided` names it (`softened`) and says
  that it is the only way.  A lifecycle run that ends rejected or failed
  leaves its opportunity executing, with no way on.
- An action that somebody made outside the lifecycle with an opportunity's link
  as its `insightSource` counts as the opportunity's action when the lifecycle
  looks for one (`valueExecutionLifecycleService.ts:163`), but none of its
  commands accepts it: the opportunity can never be acted upon.
- A stored import whose source is revoked stays stored: the quarantine code
  "source_policy_changed", and the arrow from stored to quarantined that
  `docs/FINANCIAL-IMPORT-RECOVERY-AND-WORM-STAGING.md` draws, are never taken.
- A "load more" that is answered after a refresh continues a list that has
  become shorter and leaves a gap nobody can see
  (`BankingTaskWorkspace.tsx:101`, `app/reviews/page.tsx:30`,
  `app/work/cases/page.tsx:65`); a refresh that fails keeps the old cursor in
  two of them, so that "load more" then shows the second page alone; and in
  the reviews a late page clears the error of a failed refresh, although
  "operators can retry safely" (`app/reviews/page.tsx:38`).  `torn` marks these.
- `getSummary` traverses five collections one after another, so an opportunity
  captured meanwhile can be counted as potential and as captured
  (`valueService.ts:97`).
- In memory, a rollback puts back a copy of the whole store and with it erases
  audit entries that denied requests wrote meanwhile (`store.ts:965`; local
  runs and tests only).

## 7. Not modelled

- The search lane of the retry: in production the search index is a view of the
  Document rows, and removing from it does nothing.
- The audit log as a table; organizations, users, memberships and credentials,
  which have operations of their own, some at READ COMMITTED
  (`PostgresPersistence.ts:738`, `:750`), on tables nothing else here writes.
- Reconciliation preview and settlement exceptions: a comparison of parsed rows
  that keeps nothing; and the candidate ledger, a row per candidate whose triage
  moves forward by compare-and-set in one transaction.  The bridge that opens a
  case reads the ledger first and creates the case later, which is safe because
  escalation is final and the id of the case is a digest of the candidate's:
  `BankingCase` lets such a case be created once.
- Passwords and token signatures (computations), and the rate limiter: one
  script that Redis runs atomically on one key.
- Wire clients: encodings, with a connection per transaction or command; their
  outcomes (done, failed, unacknowledged) are steps of the models that call
  them.
- AI orchestration: prompts to an external model; what it answers changes no
  record without one of the commands above.
- Deployment, readiness and release control: checks of configuration at
  start-up.
- Customers, memory and audit reading: commands on single records whose
  references and deletions are in `RecordStore`.
- The screens that load once and render.

## 8. Plan

1. An abstract specification of custody (a file registered, its object written
   once, committed or set aside), implemented by `FinancialImport` through a
   refinement mapping, checked with TLC and the step simulation proved.
2. Settlement exceptions and the candidate ledger as operators, checked against
   a reference definition.
