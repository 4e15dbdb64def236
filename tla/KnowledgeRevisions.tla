-------------------------- MODULE KnowledgeRevisions --------------------------
(***************************************************************************)
(* Controlled knowledge.  The row of an item holds what readers are shown; *)
(* the state of its revisions is held nowhere: every operation derives it  *)
(* from the snapshots and decisions in the audit log, in the order of the  *)
(* times that the deciding replicas wrote into them.                       *)
(*                                                                         *)
(* Every command is one serializable transaction, so one step.  Deletion   *)
(* reads the row, reads the history, and then deletes: three steps.        *)
(***************************************************************************)
EXTENDS Naturals, FiniteSetsExt

CONSTANTS
    Items, Sources, Replicas,
    Deleters,       \* requests that delete items
    Skew,           \* how far the clock of each replica is ahead
    MaxRevisions,   \* bound on the revisions of an item
    MaxTime,        \* bound on time
    NoRow, NoSource, NoDelete, NoItem, Removed

ASSUME KnowledgeAssumption ==
    /\ MaxRevisions \in Nat \ {0}
    /\ MaxTime \in Nat
    /\ Skew \in [Replicas -> Nat]

\* The content of an item is named by the revision that wrote it.
Rows == [shown: 1..MaxRevisions, version: 1..MaxRevisions,
         source: Sources \union {NoSource}, public: BOOLEAN]
Snapshots == [item: Items, rev: 1..MaxRevisions, source: Sources \union {NoSource}]
Decisions == [item: Items, rev: 1..MaxRevisions,
              state: {"validated", "published", "rejected"}, at: Nat]
RevisionStates == {"none", "legacy", "draft", "validated", "published", "rejected"}
Deletions == [item: Items, step: {"history", "remove"}]

ASSUME NonesAssumption ==
    /\ NoRow \notin Rows
    /\ NoSource \notin Sources
    /\ NoDelete \notin Deletions
    /\ NoItem # Removed
    /\ \A none \in {NoItem, Removed} :
        none \notin [shown: Nat, latest: Nat, published: BOOLEAN,
                     states: [1..MaxRevisions -> RevisionStates]]

VARIABLES
    row,      \* the KnowledgeItem rows
    fresh,    \* identifiers not drawn yet
    snaps,    \* knowledge_revision:created events
    decs,     \* knowledge_revision:validated, :published and :rejected events
    sources,  \* Documents that exist, all indexed
    now,      \* true time
    del       \* per deletion request: what it has in hand

vars == <<row, fresh, snaps, decs, sources, now, del>>

\* Written before there were revisions.
LegacyRow(public, s) == [shown |-> 1, version |-> 1, source |-> s, public |-> public]

Init ==
    /\ row \in [Items -> {NoRow} \union
                 {LegacyRow(public, s) : public \in BOOLEAN, s \in Sources \union {NoSource}}]
    /\ fresh = {i \in Items : row[i] = NoRow}
    /\ snaps = {}
    /\ decs = {}
    /\ sources = Sources
    /\ now = 0
    /\ del = [w \in Deleters |-> NoDelete]

Live(i) == row[i] # NoRow

-----------------------------------------------------------------------------
(* The history derived from the audit log *)

DecisionRank == [validated |-> 1, published |-> 2, rejected |-> 3]

\* Mutant: decisions are ordered by their time alone.
BeforeByTime(d, e) == d.at < e.at

\* The order in which decisions are folded.
Before(d, e) ==
    \/ d.at < e.at
    \/ d.at = e.at /\ DecisionRank[d.state] < DecisionRank[e.state]

\* Decisions on one revision that the fold accepts: at most one of each kind,
\* a publication only after validation, a rejection only as the last.
Lawful(D) ==
    /\ \A d, e \in D : d # e => d.state # e.state
    /\ \A d \in D : d.state = "published" =>
        /\ \E v \in D : v.state = "validated" /\ Before(v, d)
        /\ \A e \in D : e.state # "rejected"
    /\ \A d, e \in D : d.state = "validated" /\ e.state = "rejected" => Before(d, e)

\* Mutant: no order is demanded, the weightiest decision counts.
OutcomeByWeight(D) ==
    IF D = {} THEN "draft"
    ELSE IF \E d \in D : d.state = "published" THEN "published"
    ELSE IF \E d \in D : d.state = "rejected" THEN "rejected"
    ELSE "validated"

\* deriveKnowledgeRevisionView: "broken" is a history that throws.
Outcome(D) ==
    IF D = {} THEN "draft"
    ELSE IF ~Lawful(D) THEN "broken"
    ELSE IF \E d \in D : d.state = "published" THEN "published"
    ELSE IF \E d \in D : d.state = "rejected" THEN "rejected"
    ELSE "validated"

\* One turn of its loop, and the decision it comes to last.
FoldStep(d, state) ==
    CASE d.state = "validated" /\ state = "draft" -> "validated"
      [] d.state = "published" /\ state = "validated" -> "published"
      [] d.state = "rejected" /\ state \in {"draft", "validated"} -> "rejected"
      [] OTHER -> "broken"

LastOf(D) == CHOOSE d \in D : \A e \in D : e = d \/ Before(e, d)

\* The loop as it is written: decisions in their order, each taking the state
\* one further or throwing.
Folded(D) == MapThenFoldSet(FoldStep, "draft", LAMBDA d : d, LastOf, D)

DecisionsOn(i, n) == {d \in decs : d.item = i /\ d.rev = n}
State(i, n) == Outcome(DecisionsOn(i, n))
Revisions(i) == {n \in 1..MaxRevisions : \E s \in snaps : s.item = i /\ s.rev = n}
Latest(i) == Max(Revisions(i) \union {0})
HasPublished(i) == \E n \in Revisions(i) : State(i, n) = "published"

OneSnapshotEach(i) ==
    \A s, t \in snaps : s.item = i /\ t.item = i /\ s.rev = t.rev => s = t

\* historyFromLogs throws unless each revision has one snapshot and a state.
Readable(i) ==
    /\ OneSnapshotEach(i)
    /\ \A n \in Revisions(i) : State(i, n) # "broken"

\* Mutant: public knowledge without a history counts as a draft.
PublishedInLog(i) == HasPublished(i)

\* Published knowledge, also if from before there were revisions.
HasBasis(i) == HasPublished(i) \/ row[i].public

-----------------------------------------------------------------------------
(* createKnowledgeItem, updateKnowledgeItem, createRevision *)

NextRevision(i) == Max({row[i].version, Latest(i)}) + 1

Snapshot(i, n, s) == snaps' = snaps \union {[item |-> i, rev |-> n, source |-> s]}

\* The source a new revision names, which must be an indexed document: the
\* one given, or else the row's.
NamedSources(i) == sources \union ({row[i].source} \intersect {NoSource})

NewRow(s) == [shown |-> 1, version |-> 1, source |-> s, public |-> FALSE]

Create ==
    /\ \E i \in fresh, s \in sources \union {NoSource} :
        /\ row' = [row EXCEPT ![i] = NewRow(s)]
        /\ fresh' = fresh \ {i}
        /\ Snapshot(i, 1, s)
    /\ UNCHANGED <<decs, sources, now, del>>

\* Unpublished knowledge is edited in place, as its next draft.
Edit ==
    /\ \E i \in Items :
        /\ Live(i) /\ Readable(i)
        /\ ~HasBasis(i)
        /\ NextRevision(i) <= MaxRevisions
        /\ \E s \in NamedSources(i) :
            /\ row' = [row EXCEPT ![i].shown = NextRevision(i),
                                  ![i].version = NextRevision(i), ![i].source = s]
            /\ Snapshot(i, NextRevision(i), s)
    /\ UNCHANGED <<fresh, decs, sources, now, del>>

\* Mutant: a revision may be created while another one is validated.
NoDraft(i) == Revisions(i) = {} \/ State(i, Latest(i)) # "draft"

\* No earlier revision is still to be decided.
NothingPending(i) ==
    Revisions(i) = {} \/ State(i, Latest(i)) \in {"published", "rejected"}

\* Mutant: the new content is materialized with its number.
Materialized(i) ==
    [row EXCEPT ![i].version = NextRevision(i), ![i].shown = NextRevision(i)]

\* Only the counter is materialized.
Counted(i) == [row EXCEPT ![i].version = NextRevision(i)]

Revise ==
    /\ \E i \in Items :
        /\ Live(i) /\ Readable(i)
        /\ HasBasis(i)
        /\ NothingPending(i)
        /\ NextRevision(i) <= MaxRevisions
        /\ row' = Counted(i)
        /\ \E s \in NamedSources(i) : Snapshot(i, NextRevision(i), s)
    /\ UNCHANGED <<fresh, decs, sources, now, del>>

-----------------------------------------------------------------------------
(* validateRevision, publishRevision, rejectRevision *)

\* Mutant: revisions behind the latest one may be decided.
DecidableAny(i, n) ==
    /\ Live(i) /\ Readable(i)
    /\ n \in Revisions(i)

\* What all three demand of a revision.
Decidable(i, n) ==
    /\ Live(i) /\ Readable(i)
    /\ n \in Revisions(i) /\ n = Latest(i)

SourceStands(i, n) ==
    \A s \in snaps : s.item = i /\ s.rev = n => s.source \in sources \union {NoSource}

Decision(r, i, n, state) == [item |-> i, rev |-> n, state |-> state, at |-> now + Skew[r]]

Decide(r, i, n, state) == decs' = decs \union {Decision(r, i, n, state)}

Validate(r) ==
    /\ \E i \in Items, n \in 1..MaxRevisions :
        /\ Decidable(i, n)
        /\ State(i, n) = "draft"
        /\ SourceStands(i, n)
        /\ Decide(r, i, n, "validated")
    /\ UNCHANGED <<row, fresh, snaps, sources, now, del>>

Publish(r) ==
    /\ \E i \in Items, n \in 1..MaxRevisions :
        /\ Decidable(i, n)
        /\ n = row[i].version
        /\ State(i, n) = "validated"
        /\ SourceStands(i, n)
        /\ \E s \in snaps, public \in BOOLEAN :
            /\ s.item = i /\ s.rev = n
            /\ row' = [row EXCEPT ![i].shown = n, ![i].source = s.source,
                                  ![i].public = public]
        /\ Decide(r, i, n, "published")
    /\ UNCHANGED <<fresh, snaps, sources, now, del>>

RejectableStates == {"draft", "validated"}

Reject(r) ==
    /\ \E i \in Items, n \in 1..MaxRevisions :
        /\ Decidable(i, n)
        /\ State(i, n) \in RejectableStates
        \* Unlike the other two, it derives the outcome before it commits.
        /\ Outcome(DecisionsOn(i, n) \union {Decision(r, i, n, "rejected")}) # "broken"
        /\ Decide(r, i, n, "rejected")
    /\ UNCHANGED <<row, fresh, snaps, sources, now, del>>

-----------------------------------------------------------------------------
(* deleteKnowledgeItem *)

\* getKnowledgeItemById.
BeginDelete(w) ==
    /\ del[w] = NoDelete
    /\ \E i \in Items :
        /\ Live(i) /\ ~row[i].public
        /\ del' = [del EXCEPT ![w] = [item |-> i, step |-> "history"]]
    /\ UNCHANGED <<row, fresh, snaps, decs, sources, now>>

\* getRevisionHistory, and the refusal to delete published knowledge.
CheckHistory(w) ==
    /\ del[w] # NoDelete /\ del[w].step = "history"
    /\ LET i == del[w].item IN
        \/ /\ Live(i) /\ Readable(i) /\ ~HasPublished(i)
           /\ del' = [del EXCEPT ![w].step = "remove"]
        \/ /\ ~(Live(i) /\ Readable(i) /\ ~HasPublished(i))
           /\ del' = [del EXCEPT ![w] = NoDelete]
    /\ UNCHANGED <<row, fresh, snaps, decs, sources, now>>

\* The transaction of the inherited method, which checks nothing again.
RemoveRow(w) ==
    /\ del[w] # NoDelete /\ del[w].step = "remove"
    /\ row' = [row EXCEPT ![del[w].item] = NoRow]
    /\ del' = [del EXCEPT ![w] = NoDelete]
    /\ UNCHANGED <<fresh, snaps, decs, sources, now>>

-----------------------------------------------------------------------------
(* The surroundings *)

\* Mutant: only knowledge still being drafted holds its source.
DraftedFrom(s) == \E i \in Items : Live(i) /\ row[i].source = s /\ ~HasPublished(i)

\* Knowledge rows that depend on the document, which refuse its deletion.
Referenced(s) == \E i \in Items : Live(i) /\ row[i].source = s

DeleteSource ==
    /\ \E s \in sources :
        /\ ~Referenced(s)
        /\ sources' = sources \ {s}
    /\ UNCHANGED <<row, fresh, snaps, decs, now, del>>

Tick ==
    /\ now < MaxTime
    /\ now' = now + 1
    /\ UNCHANGED <<row, fresh, snaps, decs, sources, del>>

Next ==
    \/ Create \/ Edit \/ Revise
    \/ \E r \in Replicas : Validate(r) \/ Publish(r) \/ Reject(r)
    \/ \E w \in Deleters : BeginDelete(w) \/ CheckHistory(w) \/ RemoveRow(w)
    \/ DeleteSource \/ Tick

Spec == Init /\ [][Next]_vars

-----------------------------------------------------------------------------

TypeOK ==
    /\ row \in [Items -> Rows \union {NoRow}]
    /\ fresh \subseteq Items
    /\ snaps \subseteq Snapshots
    /\ decs \subseteq Decisions
    /\ sources \subseteq Sources
    /\ now \in 0..MaxTime
    /\ del \in [Deleters -> Deletions \union {NoDelete}]

\* The publication was stamped earlier than the validation it followed.
Misordered(i, n) ==
    \E v, p \in DecisionsOn(i, n) :
        v.state = "validated" /\ p.state = "published" /\ p.at < v.at

\* Whatever the replicas' clocks show, and however their commands interleave,
\* each revision has one snapshot, and one thing alone makes the history of an
\* item throw and locks the item up: a publication of its latest revision by a
\* replica whose clock is behind that of the replica which validated it
\* (deriveKnowledgeRevisionView, historyFromLogs).
HistoryReadable ==
    \A i \in Items :
        /\ OneSnapshotEach(i)
        /\ \A n \in Revisions(i) :
            State(i, n) = "broken" => n = Latest(i) /\ Misordered(i, n)

\* What its last command said of a revision: one whose history throws was
\* published (HistoryReadable).
Told(i, n) == LET s == State(i, n) IN IF s = "broken" THEN "published" ELSE s
ToldPublished(i) == \E n \in Revisions(i) : Told(i, n) = "published"

\* What readers are shown agrees with the commands in the log, whatever times
\* these bear: the last published revision, with its source; while nothing is
\* published, the latest draft.
RowShowsRevision ==
    \A i \in Items : Live(i) =>
        IF ToldPublished(i)
        THEN /\ Told(i, row[i].shown) = "published"
             /\ \A n \in Revisions(i) : n > row[i].shown => Told(i, n) # "published"
             /\ [item |-> i, rev |-> row[i].shown, source |-> row[i].source] \in snaps
        ELSE row[i].shown = IF row[i].public THEN 1 ELSE row[i].version

\* The source document of what readers are shown exists: neither publication
\* nor deletion of documents, in any order, loses it.
ShownSourceStands ==
    \A i \in Items : Live(i) => row[i].source \in sources \union {NoSource}

\* Once an item has been published, one revision at a time is pending.
OnePending ==
    \A i \in Items : \A k, m, n \in Revisions(i) :
        k <= m /\ m < n /\ State(i, k) = "published" => State(i, m) \in {"published", "rejected"}

\* A published or rejected revision stays so, and revisions behind the latest
\* one never move, although their states are derived anew each time from
\* decisions that later ones may precede by their times.
DecisionsAreFinal ==
    [][\A i \in Items : \A n \in Revisions(i) :
        Told(i, n) \in {"published", "rejected"} \/ n < Latest(i)
            => Told(i, n)' = Told(i, n)]_vars

\* A decision that a replica with whatever clock may leave in the log.
StrayDecisions(i, n) ==
    [item: {i}, rev: {n}, state: {"validated", "published", "rejected"}, at: 0..MaxTime + 1]

\* What any log comes to is what the fold computes from it, also when a replica
\* has added one more decision, of whatever kind and time, to those it found
\* (deriveKnowledgeRevisionView).
OutcomeIsFold ==
    \A i \in Items : \A n \in Revisions(i) :
        LET D == DecisionsOn(i, n) IN
        /\ Outcome(D) = Folded(D)
        /\ \A d \in StrayDecisions(i, n) : Outcome(D \union {d}) = Folded(D \union {d})

\* "Published knowledge cannot be removed through generic CRUD."
PublishedIsKept ==
    [][\A i \in Items : Live(i) /\ HasPublished(i) => Live(i)']_vars

-----------------------------------------------------------------------------
(* The promise kept *)

StatesOf(i) ==
    [n \in 1..MaxRevisions |->
        IF n \in Revisions(i) THEN Told(i, n)
        ELSE IF n <= row[i].version THEN "legacy" ELSE "none"]

\* Published knowledge, by what was said of it (HasBasis).
ToldBasis(i) == row[i].public \/ ToldPublished(i)

AbstractItem(i) ==
    IF i \in fresh THEN NoItem
    ELSE IF ~Live(i) THEN Removed
    ELSE [shown |-> row[i].shown, latest |-> row[i].version,
          published |-> ToldBasis(i), states |-> StatesOf(i)]

abstract == [i \in Items |-> AbstractItem(i)]

Promise == INSTANCE RevisionControl WITH item <- abstract

\* The log and the rows, with any interleaving of replicas and deletions and
\* whatever clocks, keep the promise of RevisionControl.
KeepsPromise == Promise!Spec

-----------------------------------------------------------------------------
(* The inductive invariant *)

\* The row counts the revisions in the log; a legacy row starts with none.
CounterAgrees ==
    \A i \in Items : Live(i) =>
        /\ \A n \in Revisions(i) : n <= row[i].version
        /\ row[i].version \in Revisions(i) \/ (Revisions(i) = {} /\ row[i].version = 1)

\* An identifier not drawn yet is nowhere in use.
FreshUnused ==
    /\ \A i \in fresh : ~Live(i)
    /\ \A s \in snaps : s.item \notin fresh
    /\ \A w \in Deleters : del[w] # NoDelete => del[w].item \notin fresh

\* Decisions are about recorded revisions.
DecisionsBacked == \A d \in decs : d.rev \in Revisions(d.item)

IInv ==
    /\ TypeOK /\ CounterAgrees /\ FreshUnused /\ DecisionsBacked
    /\ HistoryReadable /\ RowShowsRevision /\ ShownSourceStands /\ OnePending
=============================================================================
