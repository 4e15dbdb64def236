----------------------- MODULE KnowledgeRevisionsProofs -----------------------
(***************************************************************************)
(* Proofs about KnowledgeRevisions, for any number of items, sources,      *)
(* replicas, deletions and revisions, whatever the replicas' clocks show.  *)
(***************************************************************************)
EXTENDS KnowledgeRevisions, FiniteSetTheorems, TLAPS

-----------------------------------------------------------------------------
(* What the fold makes of a set of decisions *)

LEMMA DraftHasNoDecision ==
    ASSUME NEW D PROVE Outcome(D) = "draft" <=> D = {}
BY DEF Outcome

\* A validated revision has its validation and no other decision.
LEMMA ValidatedHasOne ==
    ASSUME NEW D \in SUBSET Decisions, Outcome(D) = "validated"
    PROVE  \E v \in D : v.state = "validated" /\ D = {v}
<1>1. D # {} /\ Lawful(D)
  BY DEF Outcome
<1>2. \A d \in D : d.state = "validated"
  BY <1>1 DEF Outcome, Decisions
<1>3. \A d, e \in D : d = e
  BY <1>1, <1>2 DEF Lawful
<1> QED
  BY <1>1, <1>2, <1>3

\* What one more decision makes of a draft or a validated revision: the state
\* it names, but for a publication stamped earlier than the validation.
LEMMA NextOutcome ==
    ASSUME NEW D \in SUBSET Decisions, NEW d \in Decisions,
           \/ Outcome(D) = "draft" /\ d.state = "validated"
           \/ Outcome(D) = "validated" /\ d.state = "published"
           \/ Outcome(D) \in {"draft", "validated"} /\ d.state = "rejected"
    PROVE  \/ Outcome(D \union {d}) = d.state
           \/ /\ Outcome(D \union {d}) = "broken"
              /\ d.state = "published" => \E v \in D : v.state = "validated" /\ d.at < v.at
<1>1. CASE Outcome(D) = "draft"
  <2>1. D = {}
    BY <1>1, DraftHasNoDecision
  <2>2. d.state \in {"validated", "rejected"}
    BY <1>1
  <2>3. Lawful({d})
    BY <2>2 DEF Lawful
  <2> QED
    BY <2>1, <2>2, <2>3 DEF Outcome
<1>2. CASE Outcome(D) = "validated"
  <2>1. PICK v \in D : v.state = "validated" /\ D = {v}
    BY <1>2, ValidatedHasOne
  <2>2. d.state \in {"published", "rejected"}
    BY <1>2
  <2>3. Before(v, d) \/ d.at < v.at
    BY <2>1, <2>2 DEF Before, DecisionRank, Decisions
  <2>4. CASE Before(v, d)
    <3>1. Lawful({v, d})
      BY <2>1, <2>2, <2>4 DEF Lawful
    <3> QED
      BY <2>1, <2>2, <3>1 DEF Outcome
  <2>5. CASE d.at < v.at
    <3>1. ~Before(v, d)
      BY <2>5 DEF Before, Decisions
    <3>2. ~Lawful({v, d})
      BY <2>1, <2>2, <3>1 DEF Lawful
    <3> QED
      BY <2>1, <2>5, <3>2 DEF Outcome
  <2> QED
    BY <2>3, <2>4, <2>5
<1> QED
  BY <1>1, <1>2

\* The states an outcome can be.
LEMMA Outcomes ==
    ASSUME NEW D
    PROVE  Outcome(D) \in {"draft", "validated", "published", "rejected", "broken"}
BY DEF Outcome

\* What was said of a revision is a state, and the derived one unless it throws.
LEMMA ToldStates ==
    ASSUME NEW i, NEW n
    PROVE  /\ Told(i, n) \in {"draft", "validated", "published", "rejected"}
           /\ State(i, n) # "broken" => Told(i, n) = State(i, n)
BY Outcomes DEF Told, State

\* Of a readable history it is the derived one throughout.
LEMMA ReadableTold ==
    ASSUME NEW i, Readable(i)
    PROVE  /\ \A n \in Revisions(i) : Told(i, n) = State(i, n)
           /\ ToldPublished(i) <=> HasPublished(i)
           /\ ToldBasis(i) <=> HasBasis(i)
<1>1. \A n \in Revisions(i) : Told(i, n) = State(i, n)
  BY ToldStates DEF Readable
<1> QED
  BY <1>1 DEF ToldPublished, HasPublished, ToldBasis, HasBasis

-----------------------------------------------------------------------------
(* Counters *)

LEMMA MaxOfPair ==
    ASSUME NEW a \in Nat, NEW b \in Nat, b <= a PROVE Max({a, b}) = a
<1>1. \A x \in {a, b} : (\A y \in {a, b} : x >= y) => x = a
  OBVIOUS
<1>2. \A y \in {a, b} : a >= y
  OBVIOUS
<1> QED
  BY <1>1, <1>2 DEF Max

\* The latest revision is the one the row counts, and the next one follows it.
LEMMA LatestIsCounted ==
    ASSUME IInv, NEW i \in Items, Live(i)
    PROVE  /\ row[i] \in Rows
           /\ Revisions(i) # {} => Latest(i) = row[i].version /\ row[i].version \in Revisions(i)
           /\ NextRevision(i) = row[i].version + 1
           /\ NextRevision(i) \notin Revisions(i)
<1>1. row[i] \in Rows /\ row[i].version \in Nat
  BY KnowledgeAssumption DEF IInv, TypeOK, Live, Rows
<1>2. \A n \in Revisions(i) : n <= row[i].version
  BY DEF IInv, CounterAgrees
<1>3. Revisions(i) \subseteq Nat
  BY KnowledgeAssumption DEF Revisions
<1>4. ASSUME Revisions(i) # {}
      PROVE  Latest(i) = row[i].version /\ row[i].version \in Revisions(i)
  <2> DEFINE S == Revisions(i) \union {0}
             v == row[i].version
  <2>1. v \in Revisions(i)
    BY <1>4 DEF IInv, CounterAgrees
  <2>2. v \in S /\ \A y \in S : v >= y
    BY <1>1, <1>2, <1>3, <2>1
  <2>3. \A x \in S : (\A y \in S : x >= y) => x = v
    BY <1>1, <1>2, <1>3, <2>2
  <2> QED
    BY <2>1, <2>2, <2>3 DEF Latest, Max
<1>5. Latest(i) \in Nat /\ Latest(i) <= row[i].version
  <2>1. CASE Revisions(i) = {}
    <3>1. Revisions(i) \union {0} = {0, 0}
      BY <2>1
    <3>2. Max({0, 0}) = 0
      BY MaxOfPair
    <3> QED
      BY <1>1, <3>1, <3>2 DEF Latest
  <2>2. CASE Revisions(i) # {}
    BY <2>2, <1>1, <1>4
  <2> QED
    BY <2>1, <2>2
<1>6. NextRevision(i) = row[i].version + 1
  BY <1>1, <1>5, MaxOfPair DEF NextRevision
<1> QED
  BY <1>1, <1>2, <1>4, <1>6

-----------------------------------------------------------------------------
(* One decision *)

\* A decision that is in order.
Legal(r, i, n, state) ==
    /\ \/ State(i, n) = "draft" /\ state = "validated"
       \/ State(i, n) = "validated" /\ state = "published"
       \/ State(i, n) \in {"draft", "validated"} /\ state = "rejected"
    /\ state # "published" =>
         Outcome(DecisionsOn(i, n) \union {Decision(r, i, n, state)}) # "broken"

\* A validation has nothing before it, so it always counts.
LEMMA ValidationCounts ==
    ASSUME NEW r, NEW i, NEW n, State(i, n) = "draft"
    PROVE  Outcome(DecisionsOn(i, n) \union {Decision(r, i, n, "validated")}) # "broken"
<1> DEFINE d == Decision(r, i, n, "validated")
<1>1. DecisionsOn(i, n) = {} /\ d.state = "validated"
  BY DraftHasNoDecision DEF State, Decision
<1> HIDE DEF d
<1>2. Lawful({d})
  BY <1>1 DEF Lawful
<1>3. Outcome({d}) = "validated"
  BY <1>1, <1>2 DEF Outcome
<1> QED
  BY <1>1, <1>3 DEF d

\* A decision moves the revision it is about to the state it names, and no
\* other revision of any item; the history throws only after a publication
\* stamped too early.
LEMMA DecideEffect ==
    ASSUME IInv,
           NEW r \in Replicas, NEW i \in Items, NEW n \in 1..MaxRevisions,
           NEW state \in {"validated", "published", "rejected"},
           Legal(r, i, n, state),
           Decide(r, i, n, state), n \in Revisions(i),
           UNCHANGED <<snaps, now>>
    PROVE  /\ Told(i, n)' = state
           /\ State(i, n)' = "broken" => Misordered(i, n)'
           /\ \A j \in Items, m \in 1..MaxRevisions : j # i \/ m # n =>
                /\ State(j, m)' = State(j, m) /\ Told(j, m)' = Told(j, m)
                /\ Misordered(j, m)' = Misordered(j, m)
           /\ \A j \in Items : Revisions(j)' = Revisions(j)
           /\ decs' \subseteq Decisions
           /\ DecisionsBacked'
<1> DEFINE d == Decision(r, i, n, state)
<1>1. d \in Decisions /\ d.item = i /\ d.rev = n /\ d.state = state
  BY KnowledgeAssumption DEF IInv, TypeOK, Decisions, Decision
<1>2. decs \subseteq Decisions
  BY DEF IInv, TypeOK
<1>3. decs' = decs \union {d}
  BY DEF Decide
<1> HIDE DEF d
<1>4. DecisionsOn(i, n)' = DecisionsOn(i, n) \union {d}
  BY <1>1, <1>3 DEF DecisionsOn
<1>5. ASSUME NEW j \in Items, NEW m \in 1..MaxRevisions, j # i \/ m # n
      PROVE  /\ State(j, m)' = State(j, m) /\ Told(j, m)' = Told(j, m)
             /\ Misordered(j, m)' = Misordered(j, m)
  <2>1. DecisionsOn(j, m)' = DecisionsOn(j, m)
    BY <1>1, <1>3, <1>5 DEF DecisionsOn
  <2> QED
    BY <2>1 DEF State, Told, Misordered
<1>6. DecisionsOn(i, n) \in SUBSET Decisions
  BY <1>2 DEF DecisionsOn
<1>7. \/ State(i, n)' = state
      \/ /\ State(i, n)' = "broken" /\ state = "published"
         /\ \E v \in DecisionsOn(i, n) : v.state = "validated" /\ d.at < v.at
  <2>1. \/ Outcome(DecisionsOn(i, n)) = "draft" /\ d.state = "validated"
        \/ Outcome(DecisionsOn(i, n)) = "validated" /\ d.state = "published"
        \/ Outcome(DecisionsOn(i, n)) \in {"draft", "validated"} /\ d.state = "rejected"
    BY <1>1 DEF Legal, State
  <2>2. \/ Outcome(DecisionsOn(i, n) \union {d}) = d.state
        \/ /\ Outcome(DecisionsOn(i, n) \union {d}) = "broken"
           /\ d.state = "published" =>
                \E v \in DecisionsOn(i, n) : v.state = "validated" /\ d.at < v.at
    BY <1>1, <1>6, <2>1, NextOutcome
  <2>3. state # "published" => Outcome(DecisionsOn(i, n) \union {d}) # "broken"
    BY DEF Legal, d
  <2>4. State(i, n)' = Outcome(DecisionsOn(i, n) \union {d})
    BY <1>4 DEF State
  <2> QED
    BY <1>1, <2>2, <2>3, <2>4
<1>8. Told(i, n)' = state
  BY <1>7 DEF Told
<1>9. State(i, n)' = "broken" => Misordered(i, n)'
  <2> SUFFICES ASSUME State(i, n)' = "broken" PROVE Misordered(i, n)'
    OBVIOUS
  <2>1. PICK v \in DecisionsOn(i, n) : v.state = "validated" /\ d.at < v.at
    BY <1>7
  <2>2. state = "published"
    BY <1>7
  <2> QED
    BY <1>1, <1>4, <2>1, <2>2 DEF Misordered
<1>10. \A j \in Items : Revisions(j)' = Revisions(j)
  BY DEF Revisions
<1>11. DecisionsBacked'
  <2> SUFFICES ASSUME NEW e \in decs' PROVE e.rev \in Revisions(e.item)'
    BY DEF DecisionsBacked
  <2>1. e.item \in Items
    BY <1>1, <1>2, <1>3 DEF Decisions
  <2> QED
    BY <1>1, <1>3, <1>10, <2>1 DEF IInv, DecisionsBacked
<1> QED
  BY <1>1, <1>2, <1>3, <1>5, <1>8, <1>9, <1>10, <1>11

-----------------------------------------------------------------------------
(* One snapshot *)

\* Without new events the derived history stays.
LEMMA SameLog ==
    ASSUME UNCHANGED <<snaps, decs>>
    PROVE  \A i \in Items :
            /\ Revisions(i)' = Revisions(i)
            /\ \A n \in 1..MaxRevisions :
                /\ State(i, n)' = State(i, n) /\ Told(i, n)' = Told(i, n)
                /\ Misordered(i, n)' = Misordered(i, n)
            /\ Latest(i)' = Latest(i)
            /\ ToldPublished(i)' = ToldPublished(i)
<1>1. \A i \in Items : Revisions(i)' = Revisions(i)
  BY DEF Revisions
<1>2. \A i \in Items, n \in 1..MaxRevisions :
        /\ State(i, n)' = State(i, n) /\ Told(i, n)' = Told(i, n)
        /\ Misordered(i, n)' = Misordered(i, n)
  BY DEF State, Told, Misordered, DecisionsOn
<1>3. \A i \in Items : Revisions(i) \subseteq 1..MaxRevisions
  BY DEF Revisions
<1>4. \A i \in Items : ToldPublished(i)' = ToldPublished(i) /\ Latest(i)' = Latest(i)
  BY <1>1, <1>2, <1>3 DEF ToldPublished, Latest
<1> QED
  BY <1>1, <1>2, <1>4

\* A new snapshot adds a draft revision to its item and changes nothing else.
LEMMA SnapshotEffect ==
    ASSUME IInv, NEW i \in Items, NEW n \in 1..MaxRevisions, NEW s \in Sources \union {NoSource},
           n \notin Revisions(i), Snapshot(i, n, s), UNCHANGED <<decs, now>>,
           \A m \in Revisions(i) : State(i, m) # "broken"
    PROVE  /\ Revisions(i)' = Revisions(i) \union {n}
           /\ \A j \in Items \ {i} : Revisions(j)' = Revisions(j)
           /\ \A j \in Items, m \in 1..MaxRevisions :
                State(j, m)' = State(j, m) /\ Told(j, m)' = Told(j, m)
           /\ State(i, n) = "draft" /\ Told(i, n) = "draft"
           /\ \A j \in Items : ToldPublished(j)' = ToldPublished(j)
           /\ snaps' \subseteq Snapshots
           /\ DecisionsBacked'
           /\ HistoryReadable'
<1> DEFINE new == [item |-> i, rev |-> n, source |-> s]
<1>1. snaps' = snaps \union {new}
  BY DEF Snapshot
<1>2. new \in Snapshots
  BY DEF Snapshots
<1>3. snaps \subseteq Snapshots /\ decs \subseteq Decisions
  BY DEF IInv, TypeOK
<1>4. Revisions(i)' = Revisions(i) \union {n}
  <2>1. new \in snaps' /\ new.item = i /\ new.rev = n
    BY <1>1
  <2>2. ASSUME NEW m \in Revisions(i)' PROVE m \in Revisions(i) \union {n}
    <3>1. m \in 1..MaxRevisions /\ \E t \in snaps' : t.item = i /\ t.rev = m
      BY <2>2 DEF Revisions
    <3>2. PICK t \in snaps' : t.item = i /\ t.rev = m
      BY <3>1
    <3>3. CASE t = new
      BY <2>1, <3>2, <3>3
    <3>4. CASE t \in snaps
      BY <3>1, <3>2, <3>4 DEF Revisions
    <3> QED
      BY <1>1, <3>2, <3>3, <3>4
  <2>3. Revisions(i) \subseteq Revisions(i)'
    BY <1>1 DEF Revisions
  <2>4. n \in Revisions(i)'
    BY <2>1 DEF Revisions
  <2> QED
    BY <2>2, <2>3, <2>4
<1>5. \A j \in Items \ {i} : Revisions(j)' = Revisions(j)
  BY <1>1 DEF Revisions
<1>6. \A j \in Items, m \in 1..MaxRevisions :
        /\ State(j, m)' = State(j, m) /\ Told(j, m)' = Told(j, m)
        /\ Misordered(j, m)' = Misordered(j, m)
  BY DEF State, Told, Misordered, DecisionsOn
<1>7. State(i, n) = "draft" /\ Told(i, n) = "draft"
  <2>1. DecisionsOn(i, n) = {}
    BY DEF IInv, DecisionsBacked, DecisionsOn
  <2> QED
    BY <2>1, DraftHasNoDecision DEF State, Told
<1>8. \A j \in Items : Revisions(j) \subseteq 1..MaxRevisions
  BY DEF Revisions
<1>9. \A j \in Items : ToldPublished(j)' = ToldPublished(j)
  <2> TAKE j \in Items
  <2>1. CASE j = i
    BY <2>1, <1>4, <1>6, <1>7, <1>8 DEF ToldPublished
  <2>2. CASE j # i
    BY <2>2, <1>5, <1>6, <1>8 DEF ToldPublished
  <2> QED
    BY <2>1, <2>2
<1>10. \A j \in Items : OneSnapshotEach(j)'
  <2>1. \A t \in snaps : ~(t.item = i /\ t.rev = n)
    BY DEF Revisions
  <2> QED
    BY <1>1, <2>1 DEF IInv, HistoryReadable, OneSnapshotEach
<1>11. DecisionsBacked'
  <2> SUFFICES ASSUME NEW e \in decs PROVE e.rev \in Revisions(e.item)'
    BY DEF DecisionsBacked
  <2>1. e.item \in Items
    BY <1>3 DEF Decisions
  <2> QED
    BY <2>1, <1>4, <1>5 DEF IInv, DecisionsBacked
<1>12. HistoryReadable'
  <2> SUFFICES ASSUME NEW j \in Items, NEW m \in Revisions(j)', State(j, m)' = "broken"
               PROVE  m = Latest(j)' /\ Misordered(j, m)'
    BY <1>10 DEF HistoryReadable
  <2>1. j # i
    <3> SUFFICES ASSUME j = i PROVE FALSE
      OBVIOUS
    <3>1. CASE m = n
      BY <3>1, <1>6, <1>7
    <3>2. CASE m # n
      <4>1. m \in Revisions(i) /\ m \in 1..MaxRevisions
        BY <3>2, <1>4, <1>8
      <4> QED
        BY <4>1, <1>6
    <3> QED
      BY <3>1, <3>2
  <2>2. m \in Revisions(j) /\ m \in 1..MaxRevisions /\ Latest(j)' = Latest(j)
    BY <2>1, <1>5, <1>8 DEF Latest
  <2>3. State(j, m) = "broken" /\ Misordered(j, m)' = Misordered(j, m)
    BY <2>2, <1>6
  <2> QED
    BY <2>2, <2>3 DEF IInv, HistoryReadable
<1> QED
  BY <1>1, <1>2, <1>3, <1>4, <1>5, <1>6, <1>7, <1>9, <1>11, <1>12

-----------------------------------------------------------------------------
(* Steps that leave rows and log alone *)

LEMMA SurroundingsStep ==
    ASSUME IInv, UNCHANGED <<row, fresh, snaps, decs>>, TypeOK',
           \A w \in Deleters : del'[w] # NoDelete => del'[w].item \notin fresh,
           \A i \in Items : Live(i) => row[i].source \in sources' \union {NoSource}
    PROVE  IInv'
<1>0. \A i \in Items : Revisions(i) \subseteq 1..MaxRevisions
  BY DEF Revisions
<1>9. \A i \in Items : Live(i)' = Live(i)
  BY DEF Live
<1>1. CounterAgrees'
  BY <1>9, SameLog DEF IInv, CounterAgrees
<1>2. FreshUnused'
  BY <1>9 DEF IInv, TypeOK, FreshUnused
<1>4. DecisionsBacked'
  <2> SUFFICES ASSUME NEW e \in decs PROVE e.rev \in Revisions(e.item)'
    BY DEF DecisionsBacked
  <2>1. e.item \in Items /\ e.rev \in Revisions(e.item)
    BY DEF IInv, TypeOK, Decisions, DecisionsBacked
  <2> QED
    BY <2>1, SameLog
<1>5. HistoryReadable'
  <2>1. \A i \in Items : OneSnapshotEach(i)'
    BY DEF IInv, HistoryReadable, OneSnapshotEach
  <2> QED
    BY <1>0, <2>1, SameLog DEF IInv, HistoryReadable
<1>6. RowShowsRevision'
  <2>1. \A i \in Items : Live(i) => row[i].shown \in 1..MaxRevisions
    BY DEF IInv, TypeOK, Live, Rows
  <2> QED
    BY <1>0, <1>9, <2>1, SameLog DEF IInv, RowShowsRevision
<1>7. ShownSourceStands'
  BY <1>9 DEF ShownSourceStands
<1>8. OnePending'
  BY <1>0, SameLog DEF IInv, OnePending
<1> QED
  BY <1>1, <1>2, <1>4, <1>5, <1>6, <1>7, <1>8 DEF IInv

LEMMA DeletionReads ==
    ASSUME IInv, NEW w \in Deleters, BeginDelete(w) \/ CheckHistory(w) PROVE IInv'
<1>1. CASE BeginDelete(w)
  <2>1. PICK i \in Items : Live(i) /\ del' = [del EXCEPT ![w] = [item |-> i, step |-> "history"]]
    BY <1>1 DEF BeginDelete
  <2>2. i \notin fresh
    BY <2>1 DEF IInv, FreshUnused
  <2>3. TypeOK'
    BY <1>1, <2>1 DEF IInv, TypeOK, BeginDelete, Deletions
  <2>4. \A v \in Deleters : del'[v] # NoDelete => del'[v].item \notin fresh
    BY <2>1, <2>2 DEF IInv, TypeOK, FreshUnused
  <2>5. \A j \in Items : Live(j) => row[j].source \in sources' \union {NoSource}
    BY <1>1 DEF IInv, ShownSourceStands, BeginDelete
  <2>6. UNCHANGED <<row, fresh, snaps, decs>>
    BY <1>1 DEF BeginDelete
  <2> QED
    BY <2>3, <2>4, <2>5, <2>6, SurroundingsStep
<1>2. CASE CheckHistory(w)
  <2>1. /\ del[w] \in Deletions
        /\ \/ del' = [del EXCEPT ![w].step = "remove"]
           \/ del' = [del EXCEPT ![w] = NoDelete]
    BY <1>2 DEF CheckHistory, IInv, TypeOK
  <2>2. TypeOK'
    BY <1>2, <2>1 DEF IInv, TypeOK, CheckHistory, Deletions
  <2>3. \A v \in Deleters : del'[v] # NoDelete => del'[v].item \notin fresh
    BY <2>1, NonesAssumption DEF IInv, TypeOK, FreshUnused, Deletions
  <2>4. \A j \in Items : Live(j) => row[j].source \in sources' \union {NoSource}
    BY <1>2 DEF IInv, ShownSourceStands, CheckHistory
  <2>5. UNCHANGED <<row, fresh, snaps, decs>>
    BY <1>2 DEF CheckHistory
  <2> QED
    BY <2>2, <2>3, <2>4, <2>5, SurroundingsStep
<1> QED
  BY <1>1, <1>2

LEMMA SurroundingsSteps == ASSUME IInv, DeleteSource \/ Tick PROVE IInv'
<1>1. now \in Nat /\ \A w \in Deleters : del[w] # NoDelete => del[w].item \notin fresh
  BY KnowledgeAssumption DEF IInv, TypeOK, FreshUnused
<1>2. CASE DeleteSource
  <2>1. PICK s \in sources : ~Referenced(s) /\ sources' = sources \ {s}
    BY <1>2 DEF DeleteSource
  <2>2. TypeOK'
    BY <1>2, <2>1 DEF IInv, TypeOK, DeleteSource
  <2>3. \A j \in Items : Live(j) => row[j].source \in sources' \union {NoSource}
    BY <2>1 DEF IInv, ShownSourceStands, Referenced
  <2> QED
    BY <1>1, <1>2, <2>2, <2>3, SurroundingsStep DEF DeleteSource
<1>3. CASE Tick
  <2>1. TypeOK'
    BY <1>1, <1>3, KnowledgeAssumption DEF IInv, TypeOK, Tick
  <2>2. \A j \in Items : Live(j) => row[j].source \in sources' \union {NoSource}
    BY <1>3 DEF IInv, ShownSourceStands, Tick
  <2> QED
    BY <1>1, <1>3, <2>1, <2>2, SurroundingsStep DEF Tick
<1> QED
  BY <1>2, <1>3

-----------------------------------------------------------------------------
(* Steps that record a revision *)

LEMMA SnapshotStep ==
    ASSUME IInv, NEW i \in Items, NEW n \in 1..MaxRevisions, NEW s \in Sources \union {NoSource},
           NEW new \in Rows,
           n \notin Revisions(i), Snapshot(i, n, s),
           row' = [row EXCEPT ![i] = new], fresh' = fresh \ {i},
           UNCHANGED <<decs, sources, now, del>>,
           new.version = n, \A m \in Revisions(i) : m < n,
           new.source \in sources \union {NoSource},
           \A m \in Revisions(i) : State(i, m) # "broken",
           IF ToldPublished(i)
           THEN new.shown = row[i].shown /\ new.source = row[i].source /\ Live(i)
           ELSE new.shown = IF new.public THEN 1 ELSE n,
           \A k, m \in Revisions(i) :
             k <= m /\ State(i, k) = "published" => State(i, m) \in {"published", "rejected"}
    PROVE  IInv'
<1>1. /\ row \in [Items -> Rows \union {NoRow}] /\ fresh \subseteq Items
      /\ snaps \subseteq Snapshots
  BY DEF IInv, TypeOK
<1>2. row'[i] = new /\ \A j \in Items \ {i} : row'[j] = row[j]
  BY <1>1
<1>3. Live(i)' /\ \A j \in Items \ {i} : Live(j)' = Live(j)
  BY <1>2, NonesAssumption DEF Live
<1>4. \A j \in Items : Revisions(j) \subseteq 1..MaxRevisions
  BY DEF Revisions
<1>5. /\ Revisions(i)' = Revisions(i) \union {n}
      /\ \A j \in Items \ {i} : Revisions(j)' = Revisions(j)
      /\ \A j \in Items, m \in 1..MaxRevisions :
           State(j, m)' = State(j, m) /\ Told(j, m)' = Told(j, m)
      /\ Told(i, n) = "draft"
      /\ \A j \in Items : ToldPublished(j)' = ToldPublished(j)
      /\ snaps' \subseteq Snapshots
      /\ DecisionsBacked' /\ HistoryReadable'
  BY SnapshotEffect
<1>6. snaps \subseteq snaps' /\ \A t \in snaps' : t \in snaps \/ t.item = i
  BY DEF Snapshot
<1>7. \A j \in Items : Live(j) => row[j].shown \in 1..MaxRevisions
  BY <1>1 DEF Live, Rows
<1>8. TypeOK'
  BY <1>1, <1>5 DEF IInv, TypeOK
<1>9. CounterAgrees'
  <2> SUFFICES ASSUME NEW j \in Items, Live(j)'
               PROVE  /\ \A m \in Revisions(j)' : m <= row'[j].version
                      /\ \/ row'[j].version \in Revisions(j)'
                         \/ Revisions(j)' = {} /\ row'[j].version = 1
    BY DEF CounterAgrees
  <2>1. CASE j = i
    BY <2>1, <1>2, <1>4, <1>5
  <2>2. CASE j # i
    BY <2>2, <1>2, <1>3, <1>5 DEF IInv, CounterAgrees
  <2> QED
    BY <2>1, <2>2
<1>10. FreshUnused'
  <2>1. \A j \in fresh' : j \in Items \ {i} /\ j \in fresh
    BY <1>1
  <2>2. \A j \in fresh' : ~Live(j)'
    BY <2>1, <1>3 DEF IInv, FreshUnused
  <2>3. \A t \in snaps' : t.item \notin fresh'
    BY <1>6 DEF IInv, FreshUnused
  <2> QED
    BY <2>2, <2>3 DEF IInv, FreshUnused
<1>11. RowShowsRevision'
  <2> SUFFICES ASSUME NEW j \in Items, Live(j)'
               PROVE  IF ToldPublished(j)'
                      THEN /\ Told(j, row[j].shown)' = "published"
                           /\ \A m \in Revisions(j)' :
                                m > row'[j].shown => Told(j, m)' # "published"
                           /\ [item |-> j, rev |-> row'[j].shown,
                               source |-> row'[j].source] \in snaps'
                      ELSE row'[j].shown = IF row'[j].public THEN 1 ELSE row'[j].version
    BY DEF RowShowsRevision
  <2>1. \A m \in 1..MaxRevisions : Told(j, m)' = Told(j, m)
    BY <1>5
  <2>2. CASE j = i /\ ToldPublished(i)
    <3>1. Live(i) /\ row'[i].shown = row[i].shown /\ row'[i].source = row[i].source
      BY <2>2, <1>2
    <3>2. /\ Told(i, row[i].shown) = "published"
          /\ \A m \in Revisions(i) : m > row[i].shown => Told(i, m) # "published"
          /\ [item |-> i, rev |-> row[i].shown, source |-> row[i].source] \in snaps
      BY <2>2, <3>1 DEF IInv, RowShowsRevision
    <3>3. Told(i, row[i].shown)' = "published"
      BY <2>2, <3>1, <3>2, <1>5, <1>7 DEF Told, State, DecisionsOn
    <3>4. \A m \in Revisions(i)' : m > row[i].shown => Told(i, m)' # "published"
      BY <2>1, <2>2, <3>2, <1>4, <1>5
    <3> QED
      BY <2>2, <3>1, <3>2, <3>3, <3>4, <1>5, <1>6
  <2>3. CASE j = i /\ ~ToldPublished(i)
    BY <2>3, <1>2, <1>5
  <2>4. CASE j # i
    <3>1. Live(j) /\ row'[j] = row[j] /\ Revisions(j)' = Revisions(j)
      BY <2>4, <1>2, <1>3, <1>5
    <3>2. ToldPublished(j)' = ToldPublished(j)
      BY <1>5
    <3>3. ToldPublished(j) => Told(j, row[j].shown)' = "published"
      BY <3>1 DEF IInv, RowShowsRevision, Told, State, DecisionsOn
    <3> QED
      BY <2>1, <3>1, <3>2, <3>3, <1>4, <1>6 DEF IInv, RowShowsRevision
  <2> QED
    BY <2>2, <2>3, <2>4
<1>12. ShownSourceStands'
  BY <1>2, <1>3 DEF IInv, ShownSourceStands
<1>13. OnePending'
  <2> SUFFICES ASSUME NEW j \in Items,
                      NEW k \in Revisions(j)', NEW m \in Revisions(j)', NEW q \in Revisions(j)',
                      k <= m, m < q, State(j, k)' = "published"
               PROVE  State(j, m)' \in {"published", "rejected"}
    BY DEF OnePending
  <2>1. {k, m, q} \subseteq 1..MaxRevisions
    BY <1>4, <1>5
  <2>2. State(j, k) = "published" /\ State(j, m)' = State(j, m)
    BY <2>1, <1>5
  <2>3. CASE j = i
    <3>1. k \in Revisions(i) /\ m \in Revisions(i)
      BY <2>1, <2>3, <1>4, <1>5
    <3> QED
      BY <2>2, <2>3, <3>1
  <2>4. CASE j # i
    BY <2>2, <2>4, <1>5 DEF IInv, OnePending
  <2> QED
    BY <2>3, <2>4
<1> QED
  BY <1>5, <1>8, <1>9, <1>10, <1>11, <1>12, <1>13 DEF IInv

LEMMA CreateStep == ASSUME IInv, Create PROVE IInv'
<1>1. PICK i \in fresh, s \in sources \union {NoSource} :
        /\ row' = [row EXCEPT ![i] = NewRow(s)]
        /\ fresh' = fresh \ {i}
        /\ Snapshot(i, 1, s)
  BY DEF Create
<1>2. i \in Items /\ s \in Sources \union {NoSource} /\ 1 \in 1..MaxRevisions
  BY KnowledgeAssumption DEF IInv, TypeOK
<1>3. NewRow(s) \in Rows
  BY <1>2 DEF NewRow, Rows
<1>4. Revisions(i) = {}
  BY DEF IInv, FreshUnused, Revisions
<1>5. ~ToldPublished(i)
  BY <1>4 DEF ToldPublished
<1>6. /\ NewRow(s).version = 1 /\ NewRow(s).shown = 1 /\ NewRow(s).public = FALSE
      /\ NewRow(s).source = s
  BY DEF NewRow
<1>7. UNCHANGED <<decs, sources, now, del>>
  BY DEF Create
<1> HIDE DEF NewRow
<1> QED
  BY <1>1, <1>2, <1>3, <1>4, <1>5, <1>6, <1>7, SnapshotStep

\* The source that a new revision names exists.
LEMMA NamedSourcesExist ==
    ASSUME IInv, NEW i \in Items, NEW s \in NamedSources(i)
    PROVE  s \in sources \union {NoSource} /\ s \in Sources \union {NoSource}
BY DEF NamedSources, IInv, TypeOK

LEMMA EditStep == ASSUME IInv, Edit PROVE IInv'
<1>1. PICK i \in Items :
        /\ Live(i) /\ Readable(i) /\ ~HasBasis(i) /\ NextRevision(i) <= MaxRevisions
        /\ \E s \in NamedSources(i) :
            /\ row' = [row EXCEPT ![i].shown = NextRevision(i),
                                  ![i].version = NextRevision(i), ![i].source = s]
            /\ Snapshot(i, NextRevision(i), s)
  BY DEF Edit
<1> DEFINE n == NextRevision(i)
<1>2. PICK s \in NamedSources(i) :
        /\ row' = [row EXCEPT ![i].shown = n, ![i].version = n, ![i].source = s]
        /\ Snapshot(i, n, s)
  BY <1>1
<1>3. row[i] \in Rows /\ n = row[i].version + 1 /\ n \notin Revisions(i)
  BY <1>1, LatestIsCounted
<1>4. n \in 1..MaxRevisions /\ \A m \in Revisions(i) : m < n
  BY <1>1, <1>3, KnowledgeAssumption DEF IInv, CounterAgrees, Rows, Revisions
<1> HIDE DEF n
<1>5. s \in sources \union {NoSource} /\ s \in Sources \union {NoSource}
  BY NamedSourcesExist
<1> DEFINE new == [row[i] EXCEPT !.shown = n, !.version = n, !.source = s]
<1>6. new \in Rows /\ new.version = n /\ new.shown = n /\ new.source = s
      /\ new.public = row[i].public
  BY <1>3, <1>4, <1>5 DEF Rows
<1>7. row' = [row EXCEPT ![i] = new]
  BY <1>2, <1>3 DEF IInv, TypeOK
<1>8. /\ ~ToldPublished(i) /\ ~HasPublished(i) /\ ~row[i].public
      /\ \A m \in Revisions(i) : State(i, m) # "broken"
  BY <1>1, ReadableTold DEF HasBasis, Readable
<1>9. fresh' = fresh \ {i} /\ UNCHANGED <<decs, sources, now, del>>
  BY <1>1 DEF Edit, IInv, FreshUnused
<1>10. \A k \in Revisions(i) : State(i, k) # "published"
  BY <1>8 DEF HasPublished
<1> HIDE DEF new
<1> QED
  BY <1>2, <1>3, <1>4, <1>5, <1>6, <1>7, <1>8, <1>9, <1>10, SnapshotStep

LEMMA ReviseStep == ASSUME IInv, Revise PROVE IInv'
<1>1. PICK i \in Items :
        /\ Live(i) /\ Readable(i) /\ HasBasis(i) /\ NothingPending(i) /\ NextRevision(i) <= MaxRevisions
        /\ row' = Counted(i)
        /\ \E s \in NamedSources(i) : Snapshot(i, NextRevision(i), s)
  BY DEF Revise
<1> DEFINE n == NextRevision(i)
<1>2. PICK s \in NamedSources(i) : Snapshot(i, n, s)
  BY <1>1
<1>3. /\ row[i] \in Rows /\ n = row[i].version + 1 /\ n \notin Revisions(i)
      /\ Revisions(i) # {} => Latest(i) = row[i].version /\ row[i].version \in Revisions(i)
  BY <1>1, LatestIsCounted
<1>4. /\ n \in 1..MaxRevisions
      /\ \A m \in Revisions(i) : m < n /\ m <= row[i].version /\ m \in Nat
  BY <1>1, <1>3, KnowledgeAssumption DEF IInv, CounterAgrees, Rows, Revisions
<1>5. row' = [row EXCEPT ![i].version = n]
  BY <1>1 DEF Counted
<1> HIDE DEF n
<1>6. s \in Sources \union {NoSource}
  BY NamedSourcesExist
<1> DEFINE new == [row[i] EXCEPT !.version = n]
<1>7. /\ new \in Rows /\ new.version = n
      /\ new.shown = row[i].shown /\ new.source = row[i].source /\ new.public = row[i].public
  BY <1>3, <1>4 DEF Rows
<1>8. row' = [row EXCEPT ![i] = new]
  BY <1>3, <1>5 DEF IInv, TypeOK
<1>9. row[i].source \in sources \union {NoSource}
  BY <1>1 DEF IInv, ShownSourceStands
<1>10. fresh' = fresh \ {i} /\ UNCHANGED <<decs, sources, now, del>>
  BY <1>1 DEF Revise, IInv, FreshUnused
<1>11. /\ ~ToldPublished(i) => row[i].public /\ row[i].shown = 1
       /\ \A m \in Revisions(i) : State(i, m) # "broken"
  BY <1>1, ReadableTold DEF HasBasis, Readable, IInv, RowShowsRevision
<1>12. ASSUME NEW k \in Revisions(i), NEW m \in Revisions(i),
              k <= m, State(i, k) = "published"
       PROVE  State(i, m) \in {"published", "rejected"}
  <2>1. CASE m = row[i].version
    BY <2>1, <1>1, <1>3 DEF NothingPending
  <2>2. CASE m # row[i].version
    <3>1. m < row[i].version /\ row[i].version \in Revisions(i)
      BY <2>2, <1>3, <1>4 DEF Rows
    <3> QED
      BY <3>1, <1>12 DEF IInv, OnePending
  <2> QED
    BY <2>1, <2>2
<1>13. IF ToldPublished(i)
       THEN new.shown = row[i].shown /\ new.source = row[i].source /\ Live(i)
       ELSE new.shown = IF new.public THEN 1 ELSE n
  BY <1>1, <1>7, <1>11
<1> HIDE DEF new
<1> QED
  BY <1>2, <1>3, <1>4, <1>6, <1>7, <1>8, <1>9, <1>10, <1>11, <1>12, <1>13, SnapshotStep

-----------------------------------------------------------------------------
(* Steps that decide *)

\* What the decision on the latest revision of an item leaves behind, if the
\* row of the item is changed as the decision demands.
LEMMA DecisionStep ==
    ASSUME IInv,
           NEW r \in Replicas, NEW i \in Items, NEW n \in 1..MaxRevisions, NEW new \in Rows,
           NEW state \in {"validated", "published", "rejected"},
           Legal(r, i, n, state),
           Decidable(i, n), Decide(r, i, n, state),
           row' = [row EXCEPT ![i] = new], UNCHANGED <<fresh, snaps, sources, now, del>>,
           new.version = row[i].version,
           IF state = "published"
           THEN /\ new.shown = n /\ new.source \in sources \union {NoSource}
                /\ [item |-> i, rev |-> n, source |-> new.source] \in snaps
           ELSE new = row[i]
    PROVE  IInv'
<1>1. row \in [Items -> Rows \union {NoRow}] /\ fresh \subseteq Items
  BY DEF IInv, TypeOK
<1>2. row'[i] = new /\ \A j \in Items \ {i} : row'[j] = row[j]
  BY <1>1
<1>3. Live(i) /\ \A j \in Items : Live(j)' = Live(j)
  BY <1>2, NonesAssumption DEF Live, Decidable
<1>4. \A j \in Items : Revisions(j) \subseteq 1..MaxRevisions
  BY DEF Revisions
<1>5. n \in Revisions(i) /\ n = Latest(i) /\ Latest(i) = row[i].version
  BY <1>3, LatestIsCounted DEF Decidable
<1>6. /\ Told(i, n)' = state /\ (State(i, n)' = "broken" => Misordered(i, n)')
      /\ \A j \in Items, m \in 1..MaxRevisions : j # i \/ m # n =>
           /\ State(j, m)' = State(j, m) /\ Told(j, m)' = Told(j, m)
           /\ Misordered(j, m)' = Misordered(j, m)
      /\ \A j \in Items : Revisions(j)' = Revisions(j)
      /\ decs' \subseteq Decisions
      /\ DecisionsBacked'
  BY <1>5, DecideEffect
<1>7. Told(i, n) # "published"
  BY ToldStates DEF Legal
<1>8. \A m \in Revisions(i) : m <= n
  BY <1>3, <1>5 DEF IInv, CounterAgrees
<1>9. \A j \in Items : Live(j) => row[j].shown \in 1..MaxRevisions
  BY <1>1 DEF Live, Rows
<1>10. TypeOK'
  BY <1>1, <1>6 DEF IInv, TypeOK
<1>11. CounterAgrees'
  <2> SUFFICES ASSUME NEW j \in Items, Live(j)
               PROVE  /\ \A m \in Revisions(j) : m <= row'[j].version
                      /\ \/ row'[j].version \in Revisions(j)
                         \/ Revisions(j) = {} /\ row'[j].version = 1
    BY <1>3, <1>6 DEF CounterAgrees
  <2>1. row'[j].version = row[j].version
    BY <1>2
  <2> QED
    BY <2>1 DEF IInv, CounterAgrees
<1>12. FreshUnused'
  BY <1>1, <1>3 DEF IInv, FreshUnused
<1>13. \A j \in Items : OneSnapshotEach(j)'
  BY DEF IInv, HistoryReadable, OneSnapshotEach
<1>14. HistoryReadable'
  <2> SUFFICES ASSUME NEW j \in Items, NEW m \in Revisions(j), State(j, m)' = "broken"
               PROVE  m = Latest(j)' /\ Misordered(j, m)'
    BY <1>6, <1>13 DEF HistoryReadable
  <2>1. m \in 1..MaxRevisions
    BY <1>4
  <2>2. Latest(j)' = Latest(j)
    BY <1>6 DEF Latest
  <2>3. CASE j = i /\ m = n
    BY <2>2, <2>3, <1>5, <1>6
  <2>4. CASE j # i \/ m # n
    BY <2>1, <2>2, <2>4, <1>6 DEF IInv, HistoryReadable
  <2> QED
    BY <2>3, <2>4
<1>15. RowShowsRevision'
  <2> SUFFICES ASSUME NEW j \in Items, Live(j)
               PROVE  IF ToldPublished(j)'
                      THEN /\ Told(j, row[j].shown)' = "published"
                           /\ \A m \in Revisions(j) :
                                m > row'[j].shown => Told(j, m)' # "published"
                           /\ [item |-> j, rev |-> row'[j].shown,
                               source |-> row'[j].source] \in snaps
                      ELSE row'[j].shown = IF row'[j].public THEN 1 ELSE row'[j].version
    BY <1>3, <1>6 DEF RowShowsRevision
  <2>1. CASE j = i /\ state = "published"
    <3>1. row'[i].shown = n /\ [item |-> i, rev |-> n, source |-> row'[i].source] \in snaps
      BY <2>1, <1>2
    <3>2. ToldPublished(i)'
      BY <2>1, <1>5, <1>6 DEF ToldPublished
    <3>3. Told(i, row[i].shown)' = "published"
      BY <2>1, <3>1, <1>6 DEF Told, State, DecisionsOn
    <3>4. \A m \in Revisions(i) : ~(m > n)
      BY <1>4, <1>8
    <3> QED
      BY <2>1, <3>1, <3>2, <3>3, <3>4
  <2>2. CASE j # i \/ state # "published"
    <3>1. row'[j] = row[j]
      BY <2>2, <1>2
    <3>2. \A m \in Revisions(j) : Told(j, m)' = "published" <=> Told(j, m) = "published"
      BY <2>2, <1>4, <1>6, <1>7
    <3>3. ToldPublished(j)' = ToldPublished(j)
      BY <3>2, <1>6 DEF ToldPublished
    <3>4. Told(j, row[j].shown) = "published" => Told(j, row[j].shown)' = "published"
      <4>2. ASSUME Told(j, row[j].shown) = "published"
            PROVE  (j # i \/ row[j].shown # n)
        BY <4>2, <1>7
      <4>3. ASSUME j # i \/ row[j].shown # n
            PROVE  Told(j, row[j].shown)' = Told(j, row[j].shown)
        <5> DEFINE m == row[j].shown
        <5>1. m \in 1..MaxRevisions /\ row'[j].shown = m
          BY <3>1, <1>9
        <5>2. DecisionsOn(j, m)' = DecisionsOn(j, m)
          BY <4>3, <3>1 DEF Decide, Decision, DecisionsOn
        <5> QED
          BY <3>1, <5>2 DEF Told, State
      <4> QED
        BY <4>2, <4>3
    <3> QED
      BY <3>1, <3>2, <3>3, <3>4 DEF IInv, RowShowsRevision
  <2> QED
    BY <2>1, <2>2
<1>16. ShownSourceStands'
  BY <1>2, <1>3 DEF IInv, ShownSourceStands
<1>17. OnePending'
  <2> SUFFICES ASSUME NEW j \in Items,
                      NEW k \in Revisions(j), NEW m \in Revisions(j), NEW q \in Revisions(j),
                      k <= m, m < q, State(j, k)' = "published"
               PROVE  State(j, m)' \in {"published", "rejected"}
    BY <1>6 DEF OnePending
  <2>1. {k, m, q} \subseteq 1..MaxRevisions
    BY <1>4
  <2>2. j # i \/ (k # n /\ m # n)
    BY <2>1, <1>8
  <2>3. State(j, k)' = State(j, k) /\ State(j, m)' = State(j, m)
    BY <2>1, <2>2, <1>6
  <2> QED
    BY <2>3 DEF IInv, OnePending
<1> QED
  BY <1>6, <1>10, <1>11, <1>12, <1>14, <1>15, <1>16, <1>17 DEF IInv

LEMMA DecisionSteps ==
    ASSUME IInv, NEW r \in Replicas, Validate(r) \/ Publish(r) \/ Reject(r)
    PROVE  IInv'
<1>1. CASE Validate(r)
  <2>1. PICK i \in Items, n \in 1..MaxRevisions :
          Decidable(i, n) /\ State(i, n) = "draft" /\ Decide(r, i, n, "validated")
    BY <1>1 DEF Validate
  <2>2. row[i] \in Rows /\ row' = [row EXCEPT ![i] = row[i]]
    BY <1>1, <2>1 DEF Validate, Decidable, Live, IInv, TypeOK
  <2> QED
    BY <1>1, <2>1, <2>2, ValidationCounts, DecisionStep DEF Validate, Legal
<1>2. CASE Reject(r)
  <2>1. PICK i \in Items, n \in 1..MaxRevisions :
          /\ Decidable(i, n) /\ Legal(r, i, n, "rejected")
          /\ Decide(r, i, n, "rejected")
    BY <1>2 DEF Reject, RejectableStates, Legal
  <2>2. row[i] \in Rows /\ row' = [row EXCEPT ![i] = row[i]]
    BY <1>2, <2>1 DEF Reject, Decidable, Live, IInv, TypeOK
  <2> QED
    BY <1>2, <2>1, <2>2, DecisionStep DEF Reject
<1>3. CASE Publish(r)
  <2>1. PICK i \in Items, n \in 1..MaxRevisions :
          /\ Decidable(i, n) /\ Legal(r, i, n, "published") /\ SourceStands(i, n)
          /\ \E s \in snaps, public \in BOOLEAN :
              /\ s.item = i /\ s.rev = n
              /\ row' = [row EXCEPT ![i].shown = n, ![i].source = s.source,
                                    ![i].public = public]
          /\ Decide(r, i, n, "published")
    BY <1>3 DEF Publish, Legal
  <2>2. PICK s \in snaps, public \in BOOLEAN :
          /\ s.item = i /\ s.rev = n
          /\ row' = [row EXCEPT ![i].shown = n, ![i].source = s.source, ![i].public = public]
    BY <2>1
  <2>3. s \in Snapshots /\ s.source \in sources \union {NoSource} /\ s.source \in Sources \union {NoSource}
    BY <2>1, <2>2 DEF SourceStands, IInv, TypeOK, Snapshots
  <2>4. s = [item |-> i, rev |-> n, source |-> s.source]
    BY <2>2, <2>3 DEF Snapshots
  <2>5. row[i] \in Rows
    BY <2>1 DEF Decidable, Live, IInv, TypeOK
  <2> DEFINE new == [row[i] EXCEPT !.shown = n, !.source = s.source, !.public = public]
  <2>6. /\ new \in Rows /\ new.shown = n /\ new.source = s.source
        /\ new.version = row[i].version
    BY <2>3, <2>5 DEF Rows
  <2>7. row' = [row EXCEPT ![i] = new]
    BY <2>2, <2>5 DEF IInv, TypeOK
  <2>8. [item |-> i, rev |-> n, source |-> new.source] \in snaps
    BY <2>4, <2>6
  <2>9. UNCHANGED <<fresh, snaps, sources, now, del>>
    BY <1>3 DEF Publish
  <2> HIDE DEF new
  <2> QED
    BY <2>1, <2>3, <2>6, <2>7, <2>8, <2>9, DecisionStep
<1> QED
  BY <1>1, <1>2, <1>3

-----------------------------------------------------------------------------
(* Every step *)

LEMMA RemoveStep == ASSUME IInv, NEW w \in Deleters, RemoveRow(w) PROVE IInv'
<1> DEFINE i == del[w].item
<1>1. del[w] # NoDelete /\ del[w] \in Deletions
  BY DEF RemoveRow, IInv, TypeOK
<1>2. i \in Items /\ i \notin fresh
  BY <1>1 DEF Deletions, IInv, FreshUnused
<1>3. /\ row' = [row EXCEPT ![i] = NoRow] /\ del' = [del EXCEPT ![w] = NoDelete]
      /\ UNCHANGED <<fresh, snaps, decs, sources, now>>
  BY DEF RemoveRow
<1> HIDE DEF i
<1>4. row'[i] = NoRow /\ \A j \in Items \ {i} : row'[j] = row[j]
  BY <1>2, <1>3 DEF IInv, TypeOK
<1>5. \A j \in Items : Live(j)' => Live(j) /\ row'[j] = row[j]
  BY <1>4 DEF Live
<1>6. \A j \in Items : Revisions(j) \subseteq 1..MaxRevisions
  BY DEF Revisions
<1>7. TypeOK'
  BY <1>3 DEF IInv, TypeOK
<1>8. CounterAgrees'
  BY <1>3, <1>5, SameLog DEF IInv, CounterAgrees
<1>9. FreshUnused'
  <2>1. \A v \in Deleters : del'[v] # NoDelete => del'[v] = del[v]
    BY <1>3 DEF IInv, TypeOK
  <2>2. \A j \in fresh : ~Live(j)'
    BY <1>5 DEF IInv, TypeOK, FreshUnused
  <2> QED
    BY <1>3, <2>1, <2>2 DEF IInv, FreshUnused
<1>11. DecisionsBacked'
  <2> SUFFICES ASSUME NEW e \in decs
               PROVE  e.rev \in Revisions(e.item)'
    BY <1>3 DEF DecisionsBacked
  <2>1. e.item \in Items
    BY DEF IInv, TypeOK, Decisions
  <2> QED
    BY <1>3, <2>1, SameLog DEF IInv, DecisionsBacked
<1>12. HistoryReadable'
  <2>1. \A j \in Items : OneSnapshotEach(j)'
    BY <1>3 DEF IInv, HistoryReadable, OneSnapshotEach
  <2> QED
    BY <1>3, <1>6, <2>1, SameLog DEF IInv, HistoryReadable
<1>13. RowShowsRevision'
  <2>1. \A j \in Items : Live(j) => row[j].shown \in 1..MaxRevisions
    BY DEF IInv, TypeOK, Live, Rows
  <2> SUFFICES ASSUME NEW j \in Items, Live(j)'
               PROVE  IF ToldPublished(j)'
                      THEN /\ Told(j, row[j].shown)' = "published"
                           /\ \A m \in Revisions(j)' :
                                m > row'[j].shown => Told(j, m)' # "published"
                           /\ [item |-> j, rev |-> row'[j].shown,
                               source |-> row'[j].source] \in snaps'
                      ELSE row'[j].shown = IF row'[j].public THEN 1 ELSE row'[j].version
    BY DEF RowShowsRevision
  <2>2. Live(j) /\ row'[j] = row[j]
    BY <1>5
  <2>3. Told(j, row[j].shown)' = Told(j, row[j].shown)
    BY <1>3, <2>2 DEF Told, State, DecisionsOn
  <2> QED
    BY <1>3, <1>6, <2>2, <2>3, SameLog DEF IInv, RowShowsRevision
<1>14. ShownSourceStands'
  BY <1>3, <1>5 DEF IInv, ShownSourceStands
<1>15. OnePending'
  BY <1>3, <1>6, SameLog DEF IInv, OnePending
<1> QED
  BY <1>7, <1>8, <1>9, <1>11, <1>12, <1>13, <1>14, <1>15 DEF IInv

LEMMA Stutter == ASSUME IInv, UNCHANGED vars PROVE IInv'
<1>1. TypeOK'
  BY DEF IInv, TypeOK, vars
<1>2. \A w \in Deleters : del'[w] # NoDelete => del'[w].item \notin fresh
  BY DEF IInv, FreshUnused, vars
<1>3. \A i \in Items : Live(i) => row[i].source \in sources' \union {NoSource}
  BY DEF IInv, ShownSourceStands, vars
<1> QED
  BY <1>1, <1>2, <1>3, SurroundingsStep DEF vars

LEMMA Initially == Init => IInv
<1> SUFFICES ASSUME Init PROVE IInv
  OBVIOUS
<1>1. \A i \in Items : row[i] = NoRow \/
        \E p \in BOOLEAN, s \in Sources \union {NoSource} : row[i] = LegacyRow(p, s)
  BY DEF Init
<1>2. \A p \in BOOLEAN, s \in Sources \union {NoSource} : LegacyRow(p, s) \in Rows
  BY KnowledgeAssumption DEF LegacyRow, Rows
<1>3. \A i \in Items : Live(i) =>
        /\ row[i].version = 1 /\ row[i].shown = 1 /\ row[i].source \in Sources \union {NoSource}
  <2> TAKE i \in Items
  <2> HAVE Live(i)
  <2>1. PICK p \in BOOLEAN, s \in Sources \union {NoSource} : row[i] = LegacyRow(p, s)
    BY <1>1 DEF Live
  <2> QED
    BY <2>1 DEF LegacyRow
<1>4. \A i \in Items : Revisions(i) = {} /\ ~ToldPublished(i)
  BY DEF Init, Revisions, ToldPublished
<1>5. TypeOK
  BY <1>1, <1>2, KnowledgeAssumption DEF Init, TypeOK
<1>6. CounterAgrees
  BY <1>3, <1>4 DEF CounterAgrees
<1>7. FreshUnused
  BY DEF Init, FreshUnused, Live
<1>8. DecisionsBacked
  BY DEF Init, DecisionsBacked
<1>9. HistoryReadable /\ OnePending
  BY <1>4 DEF Init, HistoryReadable, OneSnapshotEach, OnePending
<1>10. RowShowsRevision
  BY <1>3, <1>4 DEF RowShowsRevision
<1>11. ShownSourceStands
  BY <1>3 DEF Init, ShownSourceStands
<1> QED
  BY <1>5, <1>6, <1>7, <1>8, <1>9, <1>10, <1>11 DEF IInv

LEMMA Inductive == ASSUME IInv, [Next]_vars PROVE IInv'
<1>1. CASE Create
  BY <1>1, CreateStep
<1>2. CASE Edit
  BY <1>2, EditStep
<1>3. CASE Revise
  BY <1>3, ReviseStep
<1>4. ASSUME NEW r \in Replicas, Validate(r) \/ Publish(r) \/ Reject(r) PROVE IInv'
  BY <1>4, DecisionSteps
<1>5. ASSUME NEW w \in Deleters, BeginDelete(w) \/ CheckHistory(w) PROVE IInv'
  BY <1>5, DeletionReads
<1>6. ASSUME NEW w \in Deleters, RemoveRow(w) PROVE IInv'
  BY <1>6, RemoveStep
<1>7. CASE DeleteSource \/ Tick
  BY <1>7, SurroundingsSteps
<1>8. CASE UNCHANGED vars
  BY <1>8, Stutter
<1> QED
  BY <1>1, <1>2, <1>3, <1>4, <1>5, <1>6, <1>7, <1>8 DEF Next

LEMMA Invariance == Spec => []IInv
<1>1. IInv /\ [Next]_vars => IInv'
  BY Inductive
<1> QED
  BY <1>1, Initially, PTL DEF Spec

\* Rows, log, sources, clock and requests always have their types.
THEOREM TypeCorrect == Spec => []TypeOK
BY Invariance, PTL DEF IInv

\* One interleaving of commands alone leaves a history that throws: a
\* publication stamped earlier than the validation it followed.
THEOREM HistoriesReadable == Spec => []HistoryReadable
BY Invariance, PTL DEF IInv

\* Rows and log agree on what readers are shown.
THEOREM RowsShowRevisions == Spec => []RowShowsRevision
BY Invariance, PTL DEF IInv

\* The source document of what readers are shown exists.
THEOREM ShownSourcesStand == Spec => []ShownSourceStands
BY Invariance, PTL DEF IInv

\* Published items have at most one pending revision.
THEOREM OnePendingOnly == Spec => []OnePending
BY Invariance, PTL DEF IInv

-----------------------------------------------------------------------------
(* What a step does to the history of an item *)

\* What is told of recorded revisions stays, but for a legal move of the latest.
LEMMA HistoryMoves ==
    ASSUME IInv, [Next]_vars, NEW i \in Items, NEW n \in Revisions(i)
    PROVE  \/ Told(i, n)' = Told(i, n)
           \/ n = Latest(i) /\ Told(i, n) \in {"draft", "validated"}
<1>1. n \in 1..MaxRevisions
  BY DEF Revisions
<1>2. CASE UNCHANGED decs
  BY <1>2 DEF Told, State, DecisionsOn
<1>3. ASSUME NEW r \in Replicas, Validate(r) \/ Publish(r) \/ Reject(r)
      PROVE  \/ Told(i, n)' = Told(i, n)
             \/ n = Latest(i) /\ Told(i, n) \in {"draft", "validated"}
  <2>1. PICK j \in Items, m \in 1..MaxRevisions,
             state \in {"validated", "published", "rejected"} :
          /\ Decidable(j, m) /\ Decide(r, j, m, state)
          /\ State(j, m) \in {"draft", "validated"}
    BY <1>3 DEF Validate, Publish, Reject, RejectableStates
  <2>2. m = Latest(j) /\ Told(j, m) = State(j, m)
    BY <2>1, ToldStates DEF Decidable
  <2>3. CASE j = i /\ m = n
    BY <2>1, <2>2, <2>3
  <2>4. CASE j # i \/ m # n
    <3>1. DecisionsOn(i, n)' = DecisionsOn(i, n)
      BY <2>1, <2>4 DEF Decide, Decision, DecisionsOn
    <3> QED
      BY <3>1 DEF Told, State
  <2> QED
    BY <2>3, <2>4
<1>4. UNCHANGED decs \/ \E r \in Replicas : Validate(r) \/ Publish(r) \/ Reject(r)
  BY DEF Next, Create, Edit, Revise, BeginDelete, CheckHistory, RemoveRow, DeleteSource,
         Tick, vars
<1> QED
  BY <1>2, <1>3, <1>4

\* What was decided stays decided, behind the latest revision nothing moves.
THEOREM DecisionsFinal == Spec => DecisionsAreFinal
<1>1. ASSUME IInv, [Next]_vars
      PROVE  [\A i \in Items : \A n \in Revisions(i) :
                Told(i, n) \in {"published", "rejected"} \/ n < Latest(i)
                    => Told(i, n)' = Told(i, n)]_vars
  <2> SUFFICES ASSUME NEW i \in Items, NEW n \in Revisions(i),
                      Told(i, n) \in {"published", "rejected"} \/ n < Latest(i)
               PROVE  Told(i, n)' = Told(i, n)
    OBVIOUS
  <2>1. n \in Nat
    BY DEF Revisions
  <2>2. ~(n = Latest(i) /\ Told(i, n) \in {"draft", "validated"})
    BY <2>1
  <2> QED
    BY <1>1, <2>2, HistoryMoves
<1> QED
  BY <1>1, Invariance, PTL DEF Spec, DecisionsAreFinal

-----------------------------------------------------------------------------
(* The refinement *)

\* The record that stands for a live item, and what its latest state is.
LEMMA AbstractOfLive ==
    ASSUME IInv, NEW i \in Items, Live(i)
    PROVE  /\ i \notin fresh
           /\ abstract[i].shown = row[i].shown /\ abstract[i].latest = row[i].version
           /\ abstract[i].published = ToldBasis(i) /\ abstract[i].states = StatesOf(i)
           /\ Promise!Present(i)
           /\ row[i].version \in 1..MaxRevisions
           /\ Promise!LatestState(i) =
                IF Revisions(i) = {} THEN "legacy" ELSE Told(i, Latest(i))
<1>1. i \notin fresh
  BY DEF IInv, FreshUnused
<1>2. AbstractItem(i) = [shown |-> row[i].shown, latest |-> row[i].version,
                         published |-> ToldBasis(i), states |-> StatesOf(i)]
  BY <1>1 DEF AbstractItem
<1>3. row[i] \in Rows
  BY DEF IInv, TypeOK, Live
<1>4. row[i].version \in 1..MaxRevisions /\ row[i].version \in Nat /\ row[i].shown \in Nat
  BY <1>3, KnowledgeAssumption DEF Rows
<1>5. ToldBasis(i) \in BOOLEAN
  BY Zenon DEF ToldBasis
<1>6. StatesOf(i) \in [1..MaxRevisions -> RevisionStates]
  <2>2. \A n \in Revisions(i) : Told(i, n) \in RevisionStates
    BY ToldStates DEF RevisionStates
  <2>3. {"none", "legacy"} \subseteq RevisionStates
    BY DEF RevisionStates
  <2> QED
    BY <2>2, <2>3 DEF StatesOf
<1>7. abstract[i] = AbstractItem(i)
  BY DEF abstract
<1>8. AbstractItem(i) \notin {NoItem, Removed}
  BY <1>2, <1>4, <1>5, <1>6, NonesAssumption
<1>9. Promise!Present(i)
  BY <1>7, <1>8 DEF Promise!Present
<1>10. /\ abstract[i].shown = row[i].shown /\ abstract[i].latest = row[i].version
       /\ abstract[i].published = ToldBasis(i) /\ abstract[i].states = StatesOf(i)
  BY <1>2, <1>7
<1>11. Promise!LatestState(i) = StatesOf(i)[row[i].version]
  BY <1>10 DEF Promise!LatestState
<1>12. CASE Revisions(i) = {}
  <2>1. row[i].version = 1
    BY <1>12 DEF IInv, CounterAgrees
  <2> QED
    BY <1>1, <1>4, <1>9, <1>10, <1>11, <1>12, <2>1 DEF StatesOf
<1>13. CASE Revisions(i) # {}
  <2>1. Latest(i) = row[i].version /\ row[i].version \in Revisions(i)
    BY <1>13, LatestIsCounted
  <2> QED
    BY <1>1, <1>4, <1>9, <1>10, <1>11, <1>13, <2>1 DEF StatesOf
<1> QED
  BY <1>12, <1>13

\* An item whose row, identifier and history stay is the same to the promise.
LEMMA AbstractStays ==
    ASSUME NEW i \in Items, row[i]' = row[i], i \in fresh' <=> i \in fresh,
           Revisions(i)' = Revisions(i), \A n \in Revisions(i) : Told(i, n)' = Told(i, n)
    PROVE  AbstractItem(i)' = AbstractItem(i)
<1>1. ToldBasis(i)' = ToldBasis(i)
  <2>1. ToldPublished(i)' = ToldPublished(i)
    BY DEF ToldPublished
  <2> QED
    BY <2>1 DEF ToldBasis
<1>2. StatesOf(i)' = StatesOf(i)
  BY DEF StatesOf
<1>3. Live(i)' = Live(i)
  BY DEF Live
<1> QED
  BY <1>1, <1>2, <1>3 DEF AbstractItem

\* A step that changes one item is a step of the promise on that item.
LEMMA OneItem ==
    ASSUME NEW i \in Items, NEW new, AbstractItem(i)' = new,
           \A j \in Items \ {i} : AbstractItem(j)' = AbstractItem(j)
    PROVE  abstract' = [abstract EXCEPT ![i] = new]
BY DEF abstract

LEMMA NothingChanges ==
    ASSUME \A j \in Items : AbstractItem(j)' = AbstractItem(j)
    PROVE  abstract' = abstract
BY DEF abstract

\* A recorded revision becomes the latest, as a draft.
LEMMA SnapshotAbstractly ==
    ASSUME IInv, NEW i \in Items, Live(i), NEW n \in 1..MaxRevisions,
           NEW s \in Sources \union {NoSource}, NEW new \in Rows,
           n = row[i].version + 1, n \notin Revisions(i), Snapshot(i, n, s),
           row' = [row EXCEPT ![i] = new], new.version = n, new.public = row[i].public,
           UNCHANGED <<fresh, decs, sources, now, del>>,
           \A m \in Revisions(i) : State(i, m) # "broken"
    PROVE  abstract' = [abstract EXCEPT ![i] =
             [shown |-> new.shown, latest |-> n, published |-> ToldBasis(i),
              states |-> [StatesOf(i) EXCEPT ![n] = "draft"]]]
<1>1. row'[i] = new /\ \A j \in Items \ {i} : row'[j] = row[j]
  BY DEF IInv, TypeOK
<1>2. /\ Revisions(i)' = Revisions(i) \union {n}
      /\ \A j \in Items \ {i} : Revisions(j)' = Revisions(j)
      /\ \A j \in Items, m \in 1..MaxRevisions : Told(j, m)' = Told(j, m)
      /\ Told(i, n) = "draft"
      /\ \A j \in Items : ToldPublished(j)' = ToldPublished(j)
  BY SnapshotEffect
<1>3. row[i] \in Rows /\ row[i].version \in Nat
  BY KnowledgeAssumption DEF IInv, TypeOK, Live, Rows
<1>4. i \notin fresh /\ Live(i)'
  BY <1>1, NonesAssumption DEF IInv, FreshUnused, Live
<1>5. StatesOf(i)' = [StatesOf(i) EXCEPT ![n] = "draft"]
  <2>1. StatesOf(i)' = [m \in 1..MaxRevisions |->
          IF m \in Revisions(i)' THEN Told(i, m)'
          ELSE IF m <= n THEN "legacy" ELSE "none"]
    BY <1>1 DEF StatesOf
  <2>2. ASSUME NEW m \in 1..MaxRevisions, m # n
        PROVE  /\ m \in Revisions(i)' <=> m \in Revisions(i)
               /\ Told(i, m)' = Told(i, m)
               /\ m <= n <=> m <= row[i].version
    BY <2>2, <1>2, <1>3
  <2>3. n \in Revisions(i)' /\ Told(i, n)' = "draft"
    BY <1>2
  <2> QED
    BY <2>1, <2>2, <2>3 DEF StatesOf
<1>6. ToldBasis(i)' = ToldBasis(i)
  BY <1>1, <1>2 DEF ToldBasis
<1>7. AbstractItem(i)' =
        [shown |-> new.shown, latest |-> n, published |-> ToldBasis(i),
         states |-> [StatesOf(i) EXCEPT ![n] = "draft"]]
  BY <1>1, <1>4, <1>5, <1>6 DEF AbstractItem
<1>8. ASSUME NEW j \in Items \ {i} PROVE AbstractItem(j)' = AbstractItem(j)
  <2>1. \A m \in Revisions(j) : Told(j, m)' = Told(j, m)
    BY <1>2 DEF Revisions
  <2> QED
    BY <2>1, <1>1, <1>2, AbstractStays
<1> QED
  BY <1>7, <1>8, OneItem

LEMMA CreateImplements == ASSUME IInv, Create PROVE Promise!Next
<1>1. PICK i \in fresh, s \in sources \union {NoSource} :
        /\ row' = [row EXCEPT ![i] = NewRow(s)]
        /\ fresh' = fresh \ {i}
        /\ Snapshot(i, 1, s)
  BY DEF Create
<1>2. i \in Items /\ s \in Sources \union {NoSource} /\ 1 \in 1..MaxRevisions
  BY KnowledgeAssumption DEF IInv, TypeOK
<1>3. Revisions(i) = {} /\ UNCHANGED <<decs, now>>
  BY DEF Create, IInv, FreshUnused, Revisions
<1>4. /\ Revisions(i)' = {1}
      /\ \A j \in Items \ {i} : Revisions(j)' = Revisions(j)
      /\ \A j \in Items, m \in 1..MaxRevisions : Told(j, m)' = Told(j, m)
      /\ Told(i, 1) = "draft"
      /\ ToldPublished(i)' = ToldPublished(i)
  BY <1>1, <1>2, <1>3, SnapshotEffect
<1>5. row'[i] = NewRow(s) /\ \A j \in Items \ {i} : row'[j] = row[j]
  BY <1>1, <1>2 DEF IInv, TypeOK
<1>6. NewRow(s) \in Rows
  BY <1>2 DEF NewRow, Rows
<1>7. i \notin fresh' /\ Live(i)'
  BY <1>1, <1>5, <1>6, NonesAssumption DEF Live
<1>8. StatesOf(i)' = [n \in 1..MaxRevisions |-> IF n = 1 THEN "draft" ELSE "none"]
  <2>1. StatesOf(i)' = [m \in 1..MaxRevisions |->
          IF m \in {1} THEN Told(i, m)' ELSE IF m <= 1 THEN "legacy" ELSE "none"]
    BY <1>4, <1>5 DEF StatesOf, NewRow
  <2>2. Told(i, 1)' = "draft"
    BY <1>2, <1>4
  <2> QED
    BY <2>1, <2>2
<1>9. ToldBasis(i)' = FALSE
  BY <1>3, <1>4, <1>5 DEF ToldBasis, ToldPublished, NewRow
<1>10. AbstractItem(i)' =
        [shown |-> 1, latest |-> 1, published |-> FALSE,
         states |-> [n \in 1..MaxRevisions |-> IF n = 1 THEN "draft" ELSE "none"]]
  <2>1. AbstractItem(i)' = [shown |-> row'[i].shown, latest |-> row'[i].version,
                            published |-> ToldBasis(i)', states |-> StatesOf(i)']
    BY <1>7 DEF AbstractItem
  <2>2. row'[i].shown = 1 /\ row'[i].version = 1
    BY <1>5 DEF NewRow
  <2> QED
    BY <2>1, <2>2, <1>8, <1>9
<1>11. ASSUME NEW j \in Items \ {i} PROVE AbstractItem(j)' = AbstractItem(j)
  <2>1. \A m \in Revisions(j) : Told(j, m)' = Told(j, m)
    BY <1>4 DEF Revisions
  <2>2. j \in fresh' <=> j \in fresh
    BY <1>1
  <2> QED
    BY <2>1, <2>2, <1>4, <1>5, AbstractStays
<1>12. abstract[i] = NoItem
  BY <1>2 DEF abstract, AbstractItem
<1>13. Promise!Create(i)
  BY <1>2, <1>10, <1>11, <1>12, OneItem DEF Promise!Create
<1> QED
  BY <1>2, <1>13 DEF Promise!Next

LEMMA EditImplements == ASSUME IInv, Edit PROVE Promise!Next
<1>1. PICK i \in Items :
        /\ Live(i) /\ Readable(i) /\ ~HasBasis(i) /\ NextRevision(i) <= MaxRevisions
        /\ \E s \in NamedSources(i) :
            /\ row' = [row EXCEPT ![i].shown = NextRevision(i),
                                  ![i].version = NextRevision(i), ![i].source = s]
            /\ Snapshot(i, NextRevision(i), s)
  BY DEF Edit
<1>1a. ~ToldBasis(i) /\ \A m \in Revisions(i) : State(i, m) # "broken"
  BY <1>1, ReadableTold DEF Readable
<1> DEFINE n == NextRevision(i)
<1>2. PICK s \in NamedSources(i) :
        /\ row' = [row EXCEPT ![i].shown = n, ![i].version = n, ![i].source = s]
        /\ Snapshot(i, n, s)
  BY <1>1
<1>3. row[i] \in Rows /\ n = row[i].version + 1 /\ n \notin Revisions(i)
  BY <1>1, LatestIsCounted
<1>4. n \in 1..MaxRevisions
  BY <1>1, <1>3, KnowledgeAssumption DEF Rows
<1>5. row[i].version < MaxRevisions
  BY <1>1, <1>3, KnowledgeAssumption DEF Rows
<1> HIDE DEF n
<1>6. s \in Sources \union {NoSource}
  BY NamedSourcesExist
<1> DEFINE new == [row[i] EXCEPT !.shown = n, !.version = n, !.source = s]
<1>7. new \in Rows /\ new.version = n /\ new.shown = n /\ new.public = row[i].public
  BY <1>3, <1>4, <1>6 DEF Rows
<1>8. row' = [row EXCEPT ![i] = new]
  BY <1>2, <1>3 DEF IInv, TypeOK
<1>9. UNCHANGED <<fresh, decs, sources, now, del>>
  BY DEF Edit
<1> HIDE DEF new
<1>10. abstract' = [abstract EXCEPT ![i] =
         [shown |-> n, latest |-> n, published |-> ToldBasis(i),
          states |-> [StatesOf(i) EXCEPT ![n] = "draft"]]]
  <2>1. Live(i) /\ n = row[i].version + 1 /\ n \notin Revisions(i) /\ Snapshot(i, n, s)
    BY <1>1, <1>2, <1>3
  <2>2. abstract' = [abstract EXCEPT ![i] =
          [shown |-> new.shown, latest |-> n, published |-> ToldBasis(i),
           states |-> [StatesOf(i) EXCEPT ![n] = "draft"]]]
    BY <2>1, <1>4, <1>6, <1>7, <1>8, <1>9, <1>1a, SnapshotAbstractly
  <2> QED
    BY <2>2, <1>7
<1>11. /\ Promise!Present(i)
       /\ abstract[i].latest = row[i].version /\ abstract[i].shown = row[i].shown
       /\ abstract[i].published = ToldBasis(i) /\ abstract[i].states = StatesOf(i)
  BY <1>1, AbstractOfLive
<1>12. ~ToldBasis(i) /\ n = abstract[i].latest + 1
  BY <1>3, <1>11, <1>1a
<1>13. ToldBasis(i) = FALSE
  BY <1>12 DEF ToldBasis
<1>14. Promise!Becomes(i, n, n, FALSE, "draft")
  BY <1>10, <1>11, <1>13 DEF Promise!Becomes
<1>15. Promise!Edit(i)
  BY <1>5, <1>11, <1>12, <1>14 DEF Promise!Edit
<1> QED
  BY <1>15 DEF Promise!Next

LEMMA ReviseImplements == ASSUME IInv, Revise PROVE Promise!Next
<1>1. PICK i \in Items :
        /\ Live(i) /\ Readable(i) /\ HasBasis(i) /\ NothingPending(i) /\ NextRevision(i) <= MaxRevisions
        /\ row' = Counted(i)
        /\ \E s \in NamedSources(i) : Snapshot(i, NextRevision(i), s)
  BY DEF Revise
<1>1a. ToldBasis(i) /\ \A m \in Revisions(i) : Told(i, m) = State(i, m)
  BY <1>1, ReadableTold
<1>1b. \A m \in Revisions(i) : State(i, m) # "broken"
  BY <1>1 DEF Readable
<1> DEFINE n == NextRevision(i)
<1>2. PICK s \in NamedSources(i) : Snapshot(i, n, s)
  BY <1>1
<1>3. row[i] \in Rows /\ n = row[i].version + 1 /\ n \notin Revisions(i)
  BY <1>1, LatestIsCounted
<1>4. n \in 1..MaxRevisions /\ row[i].version < MaxRevisions
  BY <1>1, <1>3, KnowledgeAssumption DEF Rows
<1>5. row' = [row EXCEPT ![i].version = n]
  BY <1>1 DEF Counted
<1> HIDE DEF n
<1>6. s \in Sources \union {NoSource}
  BY NamedSourcesExist
<1> DEFINE new == [row[i] EXCEPT !.version = n]
<1>7. new \in Rows /\ new.version = n /\ new.shown = row[i].shown /\ new.public = row[i].public
  BY <1>3, <1>4 DEF Rows
<1>8. row' = [row EXCEPT ![i] = new]
  BY <1>3, <1>5 DEF IInv, TypeOK
<1>9. UNCHANGED <<fresh, decs, sources, now, del>>
  BY DEF Revise
<1> HIDE DEF new
<1>10. abstract' = [abstract EXCEPT ![i] =
         [shown |-> row[i].shown, latest |-> n, published |-> ToldBasis(i),
          states |-> [StatesOf(i) EXCEPT ![n] = "draft"]]]
  <2>1. Live(i) /\ n = row[i].version + 1 /\ n \notin Revisions(i) /\ Snapshot(i, n, s)
    BY <1>1, <1>2, <1>3
  <2>2. abstract' = [abstract EXCEPT ![i] =
          [shown |-> new.shown, latest |-> n, published |-> ToldBasis(i),
           states |-> [StatesOf(i) EXCEPT ![n] = "draft"]]]
    BY <2>1, <1>4, <1>6, <1>7, <1>8, <1>9, <1>1b, SnapshotAbstractly
  <2> QED
    BY <2>2, <1>7
<1>11. /\ Promise!Present(i)
       /\ abstract[i].latest = row[i].version /\ abstract[i].shown = row[i].shown
       /\ abstract[i].published = ToldBasis(i) /\ abstract[i].states = StatesOf(i)
       /\ Promise!LatestState(i) \in {"legacy", "published", "rejected"}
  <2>1. Promise!LatestState(i) \in {"legacy", "published", "rejected"}
    <3>1. Revisions(i) # {} => Latest(i) \in Revisions(i)
      BY <1>1, LatestIsCounted
    <3> QED
      BY <1>1, <1>1a, <3>1, AbstractOfLive DEF NothingPending
  <2> QED
    BY <1>1, <2>1, AbstractOfLive
<1>12. ToldBasis(i) = TRUE /\ n = abstract[i].latest + 1
  BY <1>3, <1>11, <1>1a DEF ToldBasis
<1>13. Promise!Becomes(i, row[i].shown, n, TRUE, "draft")
  BY <1>10, <1>11, <1>12 DEF Promise!Becomes
<1>14. Promise!Revise(i)
  BY <1>4, <1>11, <1>12, <1>13 DEF Promise!Revise
<1> QED
  BY <1>14 DEF Promise!Next

\* A decision gives the latest revision the state it names.
LEMMA DecisionAbstractly ==
    ASSUME IInv,
           NEW r \in Replicas, NEW i \in Items, NEW n \in 1..MaxRevisions, NEW new \in Rows,
           NEW state \in {"validated", "published", "rejected"},
           Legal(r, i, n, state),
           Decidable(i, n), Decide(r, i, n, state),
           row' = [row EXCEPT ![i] = new], new.version = row[i].version,
           state = "published" \/ new.public = row[i].public,
           UNCHANGED <<fresh, snaps, sources, now, del>>
    PROVE  /\ n = row[i].version
           /\ Promise!Present(i) /\ Promise!LatestState(i) = State(i, n)
           /\ Promise!Becomes(i, new.shown, row[i].version,
                              IF state = "published" THEN TRUE ELSE ToldBasis(i), state)
<1>1. row'[i] = new /\ \A j \in Items \ {i} : row'[j] = row[j]
  BY DEF IInv, TypeOK
<1>2. n \in Revisions(i) /\ n = Latest(i) /\ Live(i)
  BY DEF Decidable
<1>3. n = row[i].version
  BY <1>2, LatestIsCounted
<1>4. /\ Told(i, n)' = state
      /\ \A j \in Items, m \in 1..MaxRevisions : j # i \/ m # n => Told(j, m)' = Told(j, m)
      /\ \A j \in Items : Revisions(j)' = Revisions(j)
  BY <1>2, DecideEffect
<1>5. \A j \in Items : Revisions(j) \subseteq 1..MaxRevisions
  BY DEF Revisions
<1>6. i \notin fresh /\ Live(i)'
  BY <1>1, <1>2, NonesAssumption DEF IInv, FreshUnused, Live
<1>7. StatesOf(i)' = [StatesOf(i) EXCEPT ![n] = state]
  <2>1. StatesOf(i)' = [m \in 1..MaxRevisions |->
          IF m \in Revisions(i) THEN Told(i, m)'
          ELSE IF m <= row[i].version THEN "legacy" ELSE "none"]
    BY <1>1, <1>4 DEF StatesOf
  <2> QED
    BY <2>1, <1>2, <1>4 DEF StatesOf
<1>8. ToldBasis(i)' = IF state = "published" THEN TRUE ELSE ToldBasis(i)
  <2>1. CASE state = "published"
    BY <2>1, <1>2, <1>4 DEF ToldBasis, ToldPublished
  <2>2. CASE state # "published"
    <3>1. Told(i, n) # "published"
      BY ToldStates DEF Legal
    <3>2. \A m \in Revisions(i) : Told(i, m)' = "published" <=> Told(i, m) = "published"
      BY <2>2, <3>1, <1>4, <1>5
    <3>3. ToldPublished(i)' = ToldPublished(i)
      BY <3>2, <1>4 DEF ToldPublished
    <3> QED
      BY <2>2, <3>3, <1>1 DEF ToldBasis
  <2> QED
    BY <2>1, <2>2
<1>9. AbstractItem(i)' =
        [shown |-> new.shown, latest |-> row[i].version,
         published |-> IF state = "published" THEN TRUE ELSE ToldBasis(i),
         states |-> [StatesOf(i) EXCEPT ![row[i].version] = state]]
  <2>1. AbstractItem(i)' = [shown |-> row'[i].shown, latest |-> row'[i].version,
                            published |-> ToldBasis(i)', states |-> StatesOf(i)']
    BY <1>6 DEF AbstractItem
  <2> QED
    BY <2>1, <1>1, <1>3, <1>7, <1>8
<1>10. ASSUME NEW j \in Items \ {i} PROVE AbstractItem(j)' = AbstractItem(j)
  <2>1. \A m \in Revisions(j) : Told(j, m)' = Told(j, m)
    BY <1>4, <1>5
  <2> QED
    BY <2>1, <1>1, <1>4, AbstractStays
<1>11. Promise!Present(i) /\ Promise!LatestState(i) = State(i, n) /\ abstract[i].states = StatesOf(i)
  BY <1>2, AbstractOfLive, ReadableTold DEF Decidable
<1>12. Promise!Becomes(i, new.shown, row[i].version,
                       IF state = "published" THEN TRUE ELSE ToldBasis(i), state)
  <2>1. abstract' = [abstract EXCEPT ![i] =
          [shown |-> new.shown, latest |-> row[i].version,
           published |-> IF state = "published" THEN TRUE ELSE ToldBasis(i),
           states |-> [StatesOf(i) EXCEPT ![row[i].version] = state]]]
    BY <1>9, <1>10, OneItem
  <2> QED
    BY <2>1, <1>11 DEF Promise!Becomes
<1> QED
  BY <1>3, <1>11, <1>12

LEMMA DecisionsImplement ==
    ASSUME IInv, NEW r \in Replicas, Validate(r) \/ Publish(r) \/ Reject(r)
    PROVE  Promise!Next
<1>1. CASE Validate(r)
  <2>1. PICK i \in Items, n \in 1..MaxRevisions :
          Decidable(i, n) /\ State(i, n) = "draft" /\ Decide(r, i, n, "validated")
    BY <1>1 DEF Validate
  <2>2. row[i] \in Rows /\ row' = [row EXCEPT ![i] = row[i]] /\ Live(i)
    BY <1>1, <2>1 DEF Validate, Decidable, Live, IInv, TypeOK
  <2>3. UNCHANGED <<fresh, snaps, sources, now, del>>
    BY <1>1 DEF Validate
  <2>4. /\ Promise!Present(i) /\ Promise!LatestState(i) = State(i, n)
        /\ Promise!Becomes(i, row[i].shown, row[i].version,
             IF "validated" = "published" THEN TRUE ELSE ToldBasis(i), "validated")
    BY <2>1, <2>2, <2>3, ValidationCounts, DecisionAbstractly DEF Legal
  <2>5. Promise!Validate(i)
    BY <2>1, <2>2, <2>4, AbstractOfLive DEF Promise!Validate
  <2> QED
    BY <2>5 DEF Promise!Next
<1>2. CASE Reject(r)
  <2>1. PICK i \in Items, n \in 1..MaxRevisions :
          /\ Decidable(i, n) /\ State(i, n) \in {"draft", "validated"}
          /\ Legal(r, i, n, "rejected") /\ Decide(r, i, n, "rejected")
    BY <1>2 DEF Reject, RejectableStates, Legal
  <2>2. row[i] \in Rows /\ row' = [row EXCEPT ![i] = row[i]] /\ Live(i)
    BY <1>2, <2>1 DEF Reject, Decidable, Live, IInv, TypeOK
  <2>3. UNCHANGED <<fresh, snaps, sources, now, del>>
    BY <1>2 DEF Reject
  <2>4. /\ Promise!Present(i) /\ Promise!LatestState(i) \in {"draft", "validated"}
        /\ Promise!Becomes(i, row[i].shown, row[i].version, ToldBasis(i), "rejected")
    BY <2>1, <2>2, <2>3, DecisionAbstractly
  <2>5. Promise!Reject(i)
    BY <2>2, <2>4, AbstractOfLive DEF Promise!Reject
  <2> QED
    BY <2>5 DEF Promise!Next
<1>3. CASE Publish(r)
  <2>1. PICK i \in Items, n \in 1..MaxRevisions, s \in snaps, public \in BOOLEAN :
          /\ Decidable(i, n) /\ State(i, n) = "validated"
          /\ row' = [row EXCEPT ![i].shown = n, ![i].source = s.source, ![i].public = public]
          /\ Decide(r, i, n, "published")
    BY <1>3 DEF Publish
  <2>2. s.source \in Sources \union {NoSource}
    BY DEF IInv, TypeOK, Snapshots
  <2>3. row[i] \in Rows /\ Live(i)
    BY <2>1 DEF Decidable, Live, IInv, TypeOK
  <2>4. PICK new \in Rows :
          /\ new = [row[i] EXCEPT !.shown = n, !.source = s.source, !.public = public]
          /\ new.shown = n /\ new.version = row[i].version
    <3> DEFINE r0 == [row[i] EXCEPT !.shown = n, !.source = s.source, !.public = public]
    <3>1. r0 \in Rows /\ r0.shown = n /\ r0.version = row[i].version
      BY <2>2, <2>3 DEF Rows
    <3> QED
      BY <3>1
  <2>5. row' = [row EXCEPT ![i] = new]
    BY <2>1, <2>3, <2>4 DEF IInv, TypeOK
  <2>6. UNCHANGED <<fresh, snaps, sources, now, del>>
    BY <1>3 DEF Publish
  <2>7. /\ n = row[i].version
        /\ Promise!Present(i) /\ Promise!LatestState(i) = State(i, n)
        /\ Promise!Becomes(i, new.shown, row[i].version,
             IF "published" = "published" THEN TRUE ELSE ToldBasis(i), "published")
    <3>1. Decidable(i, n) /\ State(i, n) = "validated" /\ Decide(r, i, n, "published")
      BY <2>1
    <3>2. new.version = row[i].version
      BY <2>4
    <3>3. Legal(r, i, n, "published")
      BY <3>1 DEF Legal
    <3> QED
      BY <3>1, <3>2, <3>3, <2>5, <2>6, DecisionAbstractly
  <2>8. Promise!Publish(i)
    BY <2>1, <2>3, <2>4, <2>7, AbstractOfLive DEF Promise!Publish
  <2> QED
    BY <2>8 DEF Promise!Next
<1> QED
  BY <1>1, <1>2, <1>3

LEMMA RemoveImplements ==
    ASSUME IInv, NEW w \in Deleters, RemoveRow(w) PROVE Promise!Next \/ abstract' = abstract
<1>1. del[w] # NoDelete /\ del[w] \in Deletions
  BY DEF RemoveRow, IInv, TypeOK
<1>2. PICK i \in Items : i = del[w].item /\ i \notin fresh
  BY <1>1 DEF Deletions, IInv, FreshUnused
<1>3. row' = [row EXCEPT ![i] = NoRow] /\ UNCHANGED <<fresh, snaps, decs, sources, now>>
  BY <1>2 DEF RemoveRow
<1>4. row'[i] = NoRow /\ \A j \in Items \ {i} : row'[j] = row[j]
  BY <1>2, <1>3 DEF IInv, TypeOK
<1>5. AbstractItem(i)' = Removed
  BY <1>2, <1>3, <1>4 DEF AbstractItem, Live
<1>6. ASSUME NEW j \in Items \ {i} PROVE AbstractItem(j)' = AbstractItem(j)
  <2>1. Revisions(j)' = Revisions(j) /\ \A m \in Revisions(j) : Told(j, m)' = Told(j, m)
    BY <1>3, SameLog DEF Revisions
  <2> QED
    BY <2>1, <1>3, <1>4, AbstractStays
<1>7. CASE Live(i)
  <2>1. abstract' = [abstract EXCEPT ![i] = Removed]
    BY <1>2, <1>5, <1>6, OneItem
  <2>2. Promise!Present(i)
    BY <1>2, <1>7, AbstractOfLive
  <2>3. Promise!Remove(i)
    BY <2>1, <2>2 DEF Promise!Remove
  <2> QED
    BY <1>2, <2>3 DEF Promise!Next
<1>8. CASE ~Live(i)
  <2>1. AbstractItem(i) = Removed
    BY <1>2, <1>8 DEF AbstractItem
  <2> QED
    BY <2>1, <1>5, <1>6, NothingChanges
<1> QED
  BY <1>7, <1>8

\* Steps that leave rows, identifiers and log alone are invisible.
LEMMA InvisibleSteps ==
    ASSUME UNCHANGED <<row, fresh, snaps, decs>> PROVE abstract' = abstract
<1> SUFFICES ASSUME NEW j \in Items PROVE AbstractItem(j)' = AbstractItem(j)
  BY NothingChanges
<1>1. Revisions(j)' = Revisions(j) /\ \A m \in Revisions(j) : Told(j, m)' = Told(j, m)
  BY SameLog DEF Revisions
<1> QED
  BY <1>1, AbstractStays

LEMMA StepsImplement ==
    ASSUME IInv, [Next]_vars PROVE Promise!Next \/ abstract' = abstract
<1>1. CASE Create \/ Edit \/ Revise
  BY <1>1, CreateImplements, EditImplements, ReviseImplements
<1>2. ASSUME NEW r \in Replicas, Validate(r) \/ Publish(r) \/ Reject(r) PROVE Promise!Next
  BY <1>2, DecisionsImplement
<1>3. ASSUME NEW w \in Deleters, RemoveRow(w) PROVE Promise!Next \/ abstract' = abstract
  BY <1>3, RemoveImplements
<1>4. ASSUME NEW w \in Deleters, BeginDelete(w) \/ CheckHistory(w) PROVE abstract' = abstract
  BY <1>4, InvisibleSteps DEF BeginDelete, CheckHistory
<1>5. CASE DeleteSource \/ Tick \/ UNCHANGED vars
  BY <1>5, InvisibleSteps DEF DeleteSource, Tick, vars
<1> QED
  BY <1>1, <1>2, <1>3, <1>4, <1>5 DEF Next

LEMMA InitImplements == Init => Promise!Init
<1> SUFFICES ASSUME Init PROVE Promise!Init
  OBVIOUS
<1> DEFINE Legacy == {[shown |-> 1, latest |-> 1, published |-> p,
             states |-> [n \in 1..MaxRevisions |-> IF n = 1 THEN "legacy" ELSE "none"]]
            : p \in BOOLEAN}
<1>1. ASSUME NEW i \in Items PROVE AbstractItem(i) \in {NoItem} \union Legacy
  <2>1. CASE row[i] = NoRow
    BY <2>1 DEF Init, AbstractItem
  <2>2. CASE row[i] # NoRow
    <3>1. PICK p \in BOOLEAN, s \in Sources \union {NoSource} : row[i] = LegacyRow(p, s)
      BY <2>2 DEF Init
    <3>2. row[i].shown = 1 /\ row[i].version = 1 /\ row[i].public = p
      BY <3>1 DEF LegacyRow
    <3>3. Revisions(i) = {} /\ ToldPublished(i) = FALSE
      BY DEF Init, Revisions, ToldPublished
    <3>4. ToldBasis(i) = p
      BY <3>2, <3>3 DEF ToldBasis
    <3>5. StatesOf(i) = [n \in 1..MaxRevisions |-> IF n = 1 THEN "legacy" ELSE "none"]
      BY <3>2, <3>3 DEF StatesOf
    <3>6. i \notin fresh /\ Live(i)
      BY <2>2 DEF Init, Live
    <3>7. AbstractItem(i) = [shown |-> 1, latest |-> 1, published |-> p,
            states |-> [n \in 1..MaxRevisions |-> IF n = 1 THEN "legacy" ELSE "none"]]
      BY <3>2, <3>4, <3>5, <3>6 DEF AbstractItem
    <3> QED
      BY <3>7
  <2> QED
    BY <2>1, <2>2
<1>2. abstract \in [Items -> {NoItem} \union Legacy]
  BY <1>1 DEF abstract
<1> QED
  BY <1>2 DEF Promise!Init

\* Rows, log and interleaved requests keep the promise of RevisionControl.
THEOREM PromiseKept == Spec => KeepsPromise
<1>1. Init => Promise!Init
  BY InitImplements
<1>2. IInv /\ [Next]_vars => [Promise!Next]_abstract
  BY StepsImplement
<1> QED
  BY <1>1, <1>2, Invariance, PTL DEF Spec, KeepsPromise, Promise!Spec

-----------------------------------------------------------------------------
(* The outcome of a log is what the loop over it computes.                   *)

\* All of them on the same revision.
OneRevision(D) == \A d, e \in D : d.item = e.item /\ d.rev = e.rev

\* The order of two different decisions on one revision.
LEMMA BeforeIsTotal ==
    ASSUME NEW D \in SUBSET Decisions, OneRevision(D), NEW d \in D, NEW e \in D
    PROVE  /\ d # e => Before(d, e) \/ Before(e, d)
           /\ ~(Before(d, e) /\ Before(e, d))
           /\ \A f \in D : Before(d, e) /\ Before(e, f) => Before(d, f)
<1>1. /\ d.at \in Nat /\ e.at \in Nat
      /\ DecisionRank[d.state] \in Nat /\ DecisionRank[e.state] \in Nat
  BY DEF Decisions, DecisionRank
<1>2. d # e => d.at # e.at \/ DecisionRank[d.state] # DecisionRank[e.state]
  BY DEF Decisions, DecisionRank, OneRevision
<1>3. \A f \in D : f.at \in Nat /\ DecisionRank[f.state] \in Nat
  BY DEF Decisions, DecisionRank
<1> QED
  BY <1>1, <1>2, <1>3 DEF Before

\* Among sets of some things there is one that contains no other.
LEMMA SmallestSubset ==
    ASSUME NEW S, IsFiniteSet(S), NEW T \in SUBSET SUBSET S, T # {}
    PROVE  \E X \in T : IsFiniteSet(X) /\ \A Y \in T : Y \subseteq X => Y = X
<1>1. FiniteSubsetsOf(S) = SUBSET S
  BY FS_FiniteSubsetsOfFinite
<1>2. IsWellFoundedOn(StrictSubsetOrdering(S), SUBSET S)
  BY <1>1, FS_StrictSubsetOrderingWellFounded
<1>3. PICK X \in T : \A Y \in T : ~(<<Y, X>> \in StrictSubsetOrdering(S))
  BY <1>2, WFMin
<1>4. \A Y \in T : Y \subseteq X => Y = X
  <2> SUFFICES ASSUME NEW Y \in T, Y \subseteq X, Y # X PROVE FALSE
    OBVIOUS
  <2>1. <<Y, X>> \in (SUBSET S) \X (SUBSET S)
    OBVIOUS
  <2> QED BY <1>3, <2>1 DEF StrictSubsetOrdering
<1>5. IsFiniteSet(X)
  BY FS_Subset
<1> QED BY <1>4, <1>5

\* There is a last decision.
LEMMA LastOfSome ==
    ASSUME NEW D \in SUBSET Decisions, IsFiniteSet(D), OneRevision(D), D # {}
    PROVE  LastOf(D) \in D /\ \A e \in D : e = LastOf(D) \/ Before(e, LastOf(D))
<1> DEFINE HasLast(X) == \E d \in X : \A e \in X : e = d \/ Before(e, d)
           Without == {X \in SUBSET D : X # {} /\ ~HasLast(X)}
<1>1. Without = {}
  <2> SUFFICES ASSUME Without # {} PROVE FALSE
    OBVIOUS
  <2>1. PICK X \in Without : \A Y \in Without : Y \subseteq X => Y = X
    <3>1. Without \in SUBSET SUBSET D
      OBVIOUS
    <3> HIDE DEF Without
    <3> QED BY <3>1, SmallestSubset
  <2>2. PICK x \in X : TRUE
    OBVIOUS
  <2>3. X \ {x} \notin Without
    BY <2>1, <2>2
  <2>4. CASE X \ {x} = {}
    BY <2>2, <2>4
  <2>5. CASE HasLast(X \ {x})
    <3>1. PICK d \in X \ {x} : \A e \in X \ {x} : e = d \/ Before(e, d)
      BY <2>5
    <3>2. Before(x, d) \/ Before(d, x)
      BY <2>2, <3>1, BeforeIsTotal
    <3>3. CASE Before(x, d)
      BY <3>1, <3>3
    <3>4. CASE Before(d, x)
      <4>1. \A e \in X : e = x \/ Before(e, x)
        BY <3>1, <3>4, <2>2, BeforeIsTotal
      <4> QED BY <4>1, <2>2
    <3> QED BY <3>2, <3>3, <3>4
  <2> QED BY <2>3, <2>4, <2>5
<1>2. HasLast(D)
  BY <1>1
<1> QED BY <1>2 DEF LastOf

\* The last decision takes the outcome of the others one step further.
LEMMA OutcomeStep ==
    ASSUME NEW D \in SUBSET Decisions, OneRevision(D), NEW d \in D,
           \A e \in D : e = d \/ Before(e, d)
    PROVE  Outcome(D) = FoldStep(d, Outcome(D \ {d}))
<1> DEFINE R == D \ {d}
<1>1. d.state \in {"validated", "published", "rejected"}
  BY DEF Decisions
<1>2. \A e \in R : Before(e, d) /\ ~Before(d, e)
  BY BeforeIsTotal
<1>3. Lawful(D) => Lawful(R)
  BY <1>2 DEF Lawful
<1>4. CASE R = {}
  <2>1. D = {d}
    BY <1>4
  <2>2. Lawful(D) <=> d.state # "published"
    BY <2>1, <1>1 DEF Lawful
  <2> QED BY <1>1, <1>4, <2>1, <2>2 DEF Outcome, FoldStep
<1>5. CASE R # {} /\ ~Lawful(R)
  BY <1>3, <1>5 DEF Outcome, FoldStep
<1>6. CASE R # {} /\ Lawful(R) /\ \E e \in R : e.state = "published"
  <2>1. ~Lawful(D)
    BY <1>1, <1>6 DEF Lawful
  <2> QED BY <1>6, <2>1 DEF Outcome, FoldStep
<1>7. CASE /\ R # {} /\ Lawful(R)
           /\ \A e \in R : e.state # "published"
           /\ \E e \in R : e.state = "rejected"
  <2>1. ~Lawful(D)
    BY <1>1, <1>2, <1>7 DEF Lawful
  <2> QED BY <1>7, <2>1 DEF Outcome, FoldStep
<1>8. CASE R # {} /\ Lawful(R) /\ \A e \in R : e.state \notin {"published", "rejected"}
  <2>1. \A e \in R : e.state = "validated"
    BY <1>8 DEF Decisions
  <2>2. PICK v \in R : R = {v}
    BY <1>8, <2>1 DEF Lawful
  <2>3. D = {v, d} /\ v # d /\ v.state = "validated" /\ Before(v, d) /\ ~Before(d, v)
    BY <2>1, <2>2, <1>2
  <2>4. Lawful(D) <=> d.state # "validated"
    BY <2>3, <1>1 DEF Lawful
  <2>5. Outcome(R) = "validated"
    BY <1>8, <2>1 DEF Outcome
  <2> QED BY <1>1, <2>3, <2>4, <2>5 DEF Outcome, FoldStep
<1> QED BY <1>4, <1>5, <1>6, <1>7, <1>8

\* Taking the outcomes for what the fold computes solves its equation, and
\* nothing else does: a smallest log that it computes otherwise has a last
\* decision, before which it went right.
LEMMA FoldIsOutcome ==
    ASSUME NEW S \in SUBSET Decisions, IsFiniteSet(S), OneRevision(S)
    PROVE  Folded(S) = Outcome(S)
<1> DEFINE Turn(D, f) == IF D = {} THEN "draft"
                         ELSE FoldStep(LastOf(D), f[D \ {LastOf(D)}])
           IsFold(f) == f = [D \in SUBSET S |-> Turn(D, f)]
<1>1. \A D \in SUBSET S : /\ D # {} => LastOf(D) \in D
                          /\ Outcome(D) = IF D = {} THEN "draft"
                                          ELSE FoldStep(LastOf(D), Outcome(D \ {LastOf(D)}))
  <2> TAKE D \in SUBSET S
  <2>1. IsFiniteSet(D) /\ OneRevision(D) /\ D \in SUBSET Decisions
    BY FS_Subset DEF OneRevision
  <2>2. CASE D = {}
    BY <2>2 DEF Outcome
  <2>3. CASE D # {}
    BY <2>1, <2>3, LastOfSome, OutcomeStep
  <2> QED BY <2>2, <2>3
<1>2. IsFold([D \in SUBSET S |-> Outcome(D)])
  <2> DEFINE g == [D \in SUBSET S |-> Outcome(D)]
  <2>1. \A D \in SUBSET S : Turn(D, g) = Outcome(D)
    <3> TAKE D \in SUBSET S
    <3>1. g[D \ {LastOf(D)}] = Outcome(D \ {LastOf(D)})
      OBVIOUS
    <3> QED BY <1>1, <3>1
  <2> QED BY <2>1
<1>3. \A f : IsFold(f) => \A D \in SUBSET S : f[D] = Outcome(D)
  <2> SUFFICES ASSUME NEW f, IsFold(f), \E D \in SUBSET S : f[D] # Outcome(D) PROVE FALSE
    OBVIOUS
  <2> DEFINE Wrong == {D \in SUBSET S : f[D] # Outcome(D)}
  <2>1. PICK D \in Wrong : \A Y \in Wrong : Y \subseteq D => Y = D
    <3>1. Wrong \in SUBSET SUBSET S /\ Wrong # {}
      OBVIOUS
    <3> HIDE DEF Wrong
    <3> QED BY <3>1, SmallestSubset
  <2>2. f[D] = Turn(D, f)
    OBVIOUS
  <2>3. D # {}
    BY <2>2, <1>1
  <2>4. LastOf(D) \in D
    BY <2>3, <1>1
  <2>5. f[D \ {LastOf(D)}] = Outcome(D \ {LastOf(D)})
    BY <2>1, <2>4
  <2> QED BY <1>1, <2>2, <2>3, <2>5
<1>4. Folded(S) = (CHOOSE f : IsFold(f))[S]
  BY DEF Folded, MapThenFoldSet
<1>5. IsFold(CHOOSE f : IsFold(f))
  BY <1>2
<1> QED BY <1>3, <1>4, <1>5
-----------------------------------------------------------------------------

\* Whatever the clocks show, the log grows by one decision at a time.
LogInv == decs \in SUBSET Decisions /\ IsFiniteSet(decs) /\ now \in Nat

LEMMA LogStep == ASSUME LogInv, [Next]_vars PROVE LogInv'
<1>1. ASSUME NEW r \in Replicas, NEW i \in Items, NEW n \in 1..MaxRevisions,
             NEW state \in {"validated", "published", "rejected"},
             Decide(r, i, n, state), now' = now
      PROVE  LogInv'
  <2> DEFINE d == Decision(r, i, n, state)
  <2>1. d \in Decisions
    BY KnowledgeAssumption DEF LogInv, Decisions, Decision
  <2>2. decs' = decs \union {d}
    BY <1>1 DEF Decide
  <2> HIDE DEF d
  <2>3. IsFiniteSet(decs')
    BY <2>2, FS_AddElement DEF LogInv
  <2> QED
    BY <1>1, <2>1, <2>2, <2>3 DEF LogInv
<1>2. ASSUME NEW r \in Replicas, Validate(r) \/ Publish(r) \/ Reject(r) PROVE LogInv'
  <2>1. PICK i \in Items, n \in 1..MaxRevisions, state \in {"validated", "published", "rejected"} :
          Decide(r, i, n, state)
    BY <1>2 DEF Validate, Publish, Reject
  <2>2. now' = now
    BY <1>2 DEF Validate, Publish, Reject
  <2> QED
    BY <1>1, <2>1, <2>2
<1>3. CASE Tick
  BY <1>3 DEF Tick, LogInv
<1>4. CASE Create \/ Edit \/ Revise \/ DeleteSource \/ UNCHANGED vars
  BY <1>4 DEF Create, Edit, Revise, DeleteSource, vars, LogInv
<1>5. ASSUME NEW w \in Deleters, BeginDelete(w) \/ CheckHistory(w) \/ RemoveRow(w) PROVE LogInv'
  BY <1>5 DEF BeginDelete, CheckHistory, RemoveRow, LogInv
<1> QED
  BY <1>2, <1>3, <1>4, <1>5 DEF Next

\* The states the other theorems speak of are those that the loop over the
\* sorted decisions computes, with any clocks and one decision more as well.
THEOREM OutcomesAreFolds == Spec => []OutcomeIsFold
<1>1. Init => LogInv
  BY FS_EmptySet DEF Init, LogInv
<1>2. LogInv => OutcomeIsFold
  <2> SUFFICES ASSUME LogInv, NEW i \in Items, NEW n \in Revisions(i)
               PROVE  LET D == DecisionsOn(i, n) IN
                      /\ Outcome(D) = Folded(D)
                      /\ \A d \in StrayDecisions(i, n) :
                           Outcome(D \union {d}) = Folded(D \union {d})
    BY DEF OutcomeIsFold
  <2> DEFINE L == DecisionsOn(i, n)
  <2>1. n \in 1..MaxRevisions
    BY DEF Revisions
  <2>2. IsFiniteSet(L) /\ L \in SUBSET Decisions /\ \A e \in L : e.item = i /\ e.rev = n
    BY FS_Subset DEF LogInv, DecisionsOn
  <2> HIDE DEF L
  <2>3. Outcome(L) = Folded(L)
    BY <2>2, FoldIsOutcome DEF OneRevision
  <2>4. ASSUME NEW d \in StrayDecisions(i, n)
        PROVE  Outcome(L \union {d}) = Folded(L \union {d})
    <3> DEFINE D == L \union {d}
    <3>1. d \in Decisions /\ d.item = i /\ d.rev = n
      BY <2>1, KnowledgeAssumption DEF StrayDecisions, Decisions
    <3>2. IsFiniteSet(D) /\ D \in SUBSET Decisions
      BY <2>2, <3>1, FS_AddElement
    <3>3. OneRevision(D)
      BY <2>2, <3>1 DEF OneRevision
    <3> QED
      BY <3>2, <3>3, FoldIsOutcome
  <2> QED
    BY <2>3, <2>4 DEF L
<1> QED
  BY <1>1, <1>2, LogStep, PTL DEF Spec

=============================================================================
