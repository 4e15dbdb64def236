-------------------------- MODULE RecordStoreProofs --------------------------
(***************************************************************************)
(* References never dangle, and both adapters keep the promise of          *)
(* RecordPromise, for any records and any number of transactions.          *)
(***************************************************************************)
EXTENDS RecordStore, FiniteSetTheorems, TLAPS

-----------------------------------------------------------------------------
(* The tables and the checks.                                              *)

AnyRow == (UNION {Row(r) : r \in Records}) \union {NoRecord}
Tables == {f \in [Records -> AnyRow] :
              \A r \in Records : f[r] \in Row(r) \union {NoRecord}}

\* Whatever a record may refer to is searched for dependents of its kind.
LEMMA DependentsCoverTargets ==
    \A j, k \in Kinds : j \in Targets(k) => k \in DependentKinds(j)
BY DEF Kinds, Targets, DependentKinds

LEMMA KindsTyped == \A r \in Records : KindOf[r] \in Kinds
BY KindOfAssumption

LEMMA RowTyped ==
    ASSUME NEW r \in Records, NEW row \in Row(r)
    PROVE  row.ref \in Records \union {NoRecord} /\ row # NoRecord
BY NoRecordAssumption DEF Row

LEMMA TableChange ==
    ASSUME NEW f \in Tables, NEW r \in Records, NEW row \in Row(r) \union {NoRecord}
    PROVE  [f EXCEPT ![r] = row] \in Tables
<1>1. f \in [Records -> AnyRow]
  BY DEF Tables
<1>2. row \in AnyRow
  BY DEF AnyRow
<1>3. [f EXCEPT ![r] = row] \in [Records -> AnyRow]
  BY <1>1, <1>2
<1> QED
  BY <1>1, <1>3 DEF Tables

LEMMA EmptyTable == Empty \in Tables /\ Consistent(Empty) /\ Promise!Consistent(Empty)
BY DEF Empty, Tables, AnyRow, Consistent, Stands, Promise!Consistent, Promise!Stands

LEMMA CreateConsistent ==
    ASSUME NEW f \in Tables, NEW r \in Records, NEW row, Consistent(f), MayCreate(f, r, row)
    PROVE  /\ Consistent([f EXCEPT ![r] = row])
           /\ row \in Row(r)
<1>1. row \in Row(r) /\ RefStands(f, r, row.ref)
  BY DEF MayCreate
<1>2. row # NoRecord
  BY <1>1, RowTyped
<1> QED
  BY <1>1, <1>2 DEF Consistent, RefStands, Stands, Tables

LEMMA UpdateConsistent ==
    ASSUME NEW f \in Tables, NEW r \in Records, NEW row, Consistent(f), MayUpdate(f, r, row)
    PROVE  /\ Consistent([f EXCEPT ![r] = row])
           /\ row \in Row(r) /\ Stands(f, r)
<1>1. row \in Row(r) /\ Stands(f, r) /\ RefStands(f, r, row.ref)
  BY DEF MayUpdate, Consistent
<1>2. row # NoRecord
  BY <1>1, RowTyped
<1> QED
  BY <1>1, <1>2 DEF Consistent, RefStands, Stands, Tables

LEMMA DeleteConsistent ==
    ASSUME NEW f \in Tables, NEW r \in Records, Consistent(f), MayDelete(f, r)
    PROVE  Consistent([f EXCEPT ![r] = NoRecord])
<1> DEFINE g == [f EXCEPT ![r] = NoRecord]
<1> SUFFICES ASSUME NEW s \in Records, Stands(g, s)
             PROVE  RefStands(g, s, g[s].ref)
  BY DEF Consistent
<1>1. s # r /\ g[s] = f[s] /\ Stands(f, s) /\ RefStands(f, s, f[s].ref)
  BY DEF Consistent, Stands, Tables
<1>2. CASE f[s].ref = NoRecord
  BY <1>1, <1>2 DEF RefStands
<1>3. CASE f[s].ref # NoRecord
  <2>1. f[s].ref \in Records /\ KindOf[f[s].ref] \in Targets(KindOf[s])
    BY <1>1, <1>3 DEF RefStands
  <2>2. f[s].ref # r
    <3>1. SUFFICES ASSUME f[s].ref = r PROVE FALSE
      OBVIOUS
    <3>2. KindOf[s] \in DependentKinds(KindOf[r])
      BY <2>1, <3>1, KindsTyped, DependentsCoverTargets
    <3> QED
      BY <1>1, <3>1, <3>2 DEF MayDelete, Dependents
  <2> QED
    BY <1>1, <1>3, <2>1, <2>2 DEF RefStands, Stands, Tables
<1> QED
  BY <1>2, <1>3

-----------------------------------------------------------------------------
(* Lives move forward.                                                     *)

LEMMA RanksTyped ==
    ASSUME NEW s
    PROVE  /\ Promise!OpportunityRank(s) \in Int
           /\ Promise!ActionRank(s) \in Int
           /\ Promise!DocumentRank(s) \in Int
           /\ Promise!RunRank(s) \in Int
BY DEF Promise!OpportunityRank, Promise!ActionRank, Promise!DocumentRank, Promise!RunRank

LEMMA RankTyped ==
    ASSUME NEW r \in Records, NEW row \in Row(r)
    PROVE  Promise!Rank(KindOf[r], row.stage) \in Int
<1> DEFINE k == KindOf[r]
           s == row.stage
<1>1. k \in Kinds /\ s \in Stages(k)
  BY KindsTyped DEF Row
<1>2. k \in {"KnowledgeItem", "Workflow"} => s \in Int
  BY <1>1 DEF Stages
<1> HIDE DEF k, s
<1>3. Promise!Rank(k, s) \in Int
  BY <1>1, <1>2, RanksTyped DEF Promise!Rank
<1> QED
  BY <1>3 DEF k, s

LEMMA OpportunitiesMoveForward ==
    \A s, t : <<s, t>> \in OpportunityMoves =>
        Promise!OpportunityRank(s) <= Promise!OpportunityRank(t)
BY DEF OpportunityMoves, Promise!OpportunityRank

LEMMA ActionsMoveForward ==
    \A s, t : <<s, t>> \in ActionMoves => Promise!ActionRank(s) <= Promise!ActionRank(t)
<1> TAKE s, t
<1>1. /\ Promise!ActionRank("Ready") = 1 /\ Promise!ActionRank("Approved") = 2
      /\ Promise!ActionRank("Completed") = 4 /\ Promise!ActionRank("Measured") = 5
  <2>1. "In Progress" \notin {"Ready", "Approved", "Completed", "Measured"}
    BY Zenon
  <2> QED
    BY <2>1 DEF Promise!ActionRank
<1>2. Promise!ActionRank("In Progress") = 3
  BY Zenon DEF Promise!ActionRank
<1>3. <<s, t>> \in ActionMoves =>
         \/ Promise!ActionRank(s) = 1 /\ Promise!ActionRank(t) = 2
         \/ Promise!ActionRank(s) = 2 /\ Promise!ActionRank(t) = 3
         \/ Promise!ActionRank(s) = 3 /\ Promise!ActionRank(t) = 4
         \/ Promise!ActionRank(s) = 4 /\ Promise!ActionRank(t) = 5
  BY <1>1, <1>2, Zenon DEF ActionMoves
<1> QED
  BY <1>3

LEMMA DocumentsMoveForward ==
    \A s, t : <<s, t>> \in DocumentMoves =>
        Promise!DocumentRank(s) <= Promise!DocumentRank(t)
BY DEF DocumentMoves, Promise!DocumentRank

LEMMA RunsMoveForward ==
    \A s, t : <<s, t>> \in RunMoves => Promise!RunRank(s) <= Promise!RunRank(t)
BY DEF RunMoves, RunEnds, Promise!RunRank

LEMMA MovesForward ==
    ASSUME NEW k \in Kinds, NEW s, NEW t, <<s, t>> \in Moves(k)
    PROVE  Promise!Rank(k, s) <= Promise!Rank(k, t)
<1>1. CASE k = "ValueOpportunity"
  BY <1>1, OpportunitiesMoveForward DEF Moves, Promise!Rank
<1>2. CASE k = "Action"
  BY <1>2, ActionsMoveForward DEF Moves, Promise!Rank
<1>3. CASE k = "Document"
  BY <1>3, DocumentsMoveForward DEF Moves, Promise!Rank
<1>4. CASE k = "WorkflowRun"
  BY <1>4, RunsMoveForward DEF Moves, Promise!Rank
<1>5. CASE k \in {"KnowledgeItem", "Workflow"}
  <2>1. PICK n \in 1 .. LastVersion - 1 : <<s, t>> = <<n, n + 1>>
    BY <1>5 DEF Moves
  <2>2. s = n /\ t = n + 1
    BY <2>1
  <2>3. Promise!Rank(k, s) = s /\ Promise!Rank(k, t) = t
    BY <1>5 DEF Promise!Rank
  <2> QED
    BY <2>2, <2>3, LastVersionAssumption
<1> QED
  BY <1>1, <1>2, <1>3, <1>4, <1>5 DEF Moves

LEMMA ForwardReflexive ==
    ASSUME NEW r \in Records, NEW row \in Row(r)
    PROVE  Promise!Forward(r, row, row)
<1>1. Promise!Rank(KindOf[r], row.stage) <= Promise!Rank(KindOf[r], row.stage)
  BY RankTyped
<1> QED
  BY <1>1 DEF Promise!Forward

LEMMA ForwardTransitive ==
    ASSUME NEW r \in Records, NEW a \in Row(r), NEW b \in Row(r), NEW c \in Row(r),
           Promise!Forward(r, a, b), Promise!Forward(r, b, c)
    PROVE  Promise!Forward(r, a, c)
<1>1. Promise!Rank(KindOf[r], a.stage) <= Promise!Rank(KindOf[r], c.stage)
  BY RankTyped DEF Promise!Forward
<1> QED
  BY <1>1 DEF Promise!Forward

LEMMA UpdateForward ==
    ASSUME NEW f \in Tables, NEW r \in Records, NEW row, MayUpdate(f, r, row)
    PROVE  Promise!Forward(r, f[r], row)
<1>1. f[r] \in Row(r) /\ row \in Row(r)
  BY DEF MayUpdate, Stands, Tables
<1>2. Promise!Rank(KindOf[r], f[r].stage) <= Promise!Rank(KindOf[r], row.stage)
  <2>1. CASE row.stage = f[r].stage
    BY <1>1, <2>1, RankTyped
  <2>2. CASE <<f[r].stage, row.stage>> \in Moves(KindOf[r])
    BY <2>2, MovesForward, KindsTyped
  <2> QED
    BY <2>1, <2>2 DEF MayUpdate
<1>3. f[r].stage \notin Promise!Terminal(KindOf[r])
  BY DEF MayUpdate, Terminal, Promise!Terminal, RunEnds, Promise!RunEnds
<1>4. KindOf[r] = "WorkflowRun" => row.ref = f[r].ref
  BY DEF MayUpdate
<1> QED
  BY <1>2, <1>3, <1>4 DEF Promise!Forward

LEMMA SamePromise ==
    ASSUME NEW f
    PROVE  Promise!Consistent(f) <=> Consistent(f)
BY DEF Consistent, Stands, RefStands, Targets, MustRefer, Promise!Consistent,
   Promise!Stands, Promise!RefStands, Promise!Targets, Promise!MustRefer

-----------------------------------------------------------------------------
(* The invariant.                                                          *)

Transaction == [status : {"idle", "open", "committed"}, view : Tables,
                reads : SUBSET Records, writes : SUBSET Records,
                after : SUBSET Transactions]

TypeOK ==
    /\ adapter \in {"memory", "postgres"}
    /\ rows \in Tables
    /\ unused \in SUBSET Records
    /\ outcome \in {"none", "committed", "failed"}
    /\ queue \in Seq(Transactions)
    /\ snapshot \in Tables \union {NoRecord}
    /\ tx \in [Transactions -> Transaction]

Open(c) == tx[c].status = "open"

\* d has committed since c began.
Overtook(d, c) == tx[d].status = "committed" /\ Concurrent(c, d)

Searched(r) == {d \in Records : KindOf[d] \in DependentKinds(KindOf[r])}

AfterCommitted == \A c \in Transactions : tx[c].after \subseteq InStatus("committed")

DisjointWrites ==
    \A c, d \in Transactions : Concurrent(c, d) => tx[c].writes \intersect tx[d].writes = {}

UnusedUntouched ==
    /\ \A r \in unused : ~Stands(rows, r)
    /\ \A c \in Transactions : tx[c].writes \intersect unused = {}
    /\ \A c \in Transactions : Open(c) => \A r \in unused : ~Stands(tx[c].view, r)

\* What c has not written it sees as it is, unless a transaction that overtook
\* it has written it.
SeesCurrent(c) ==
    \A r \in Records \ tx[c].writes :
        \/ tx[c].view[r] = rows[r]
        \/ \E d \in Transactions : Overtook(d, c) /\ r \in tx[d].writes

\* What it has written moves forward, and refers to what it has read or to
\* what the row refers to already.
WritesFit(c) ==
    \A r \in tx[c].writes :
        Stands(tx[c].view, r) =>
            /\ Stands(rows, r) => Promise!Forward(r, rows[r], tx[c].view[r])
            /\ \/ tx[c].view[r].ref = NoRecord
               \/ tx[c].view[r].ref \in tx[c].reads
               \/ Stands(rows, r) /\ rows[r].ref = tx[c].view[r].ref

DeletesSearch(c) ==
    \A r \in tx[c].writes : ~Stands(tx[c].view, r) => Searched(r) \subseteq tx[c].reads

\* A reference c does not see was made by one that overtook it, and read what
\* it refers to.
NewReferences(c) ==
    \A r, t \in Records :
        /\ r \notin tx[c].writes
        /\ Stands(rows, r) /\ rows[r].ref = t
        /\ ~(Stands(tx[c].view, r) /\ tx[c].view[r].ref = t)
        => \E d \in Transactions :
              Overtook(d, c) /\ r \in tx[d].writes /\ t \in tx[d].reads

\* A record c sees that is gone was deleted by one that overtook it, and
\* searched the tables of its dependents.
LostRecords(c) ==
    \A t \in Records :
        t \notin tx[c].writes /\ Stands(tx[c].view, t) /\ ~Stands(rows, t)
        => \E d \in Transactions :
              Overtook(d, c) /\ t \in tx[d].writes /\ Searched(t) \subseteq tx[d].reads

ViewFits(c) ==
    /\ Consistent(tx[c].view)
    /\ SeesCurrent(c)
    /\ WritesFit(c)
    /\ DeletesSearch(c)
    /\ NewReferences(c)
    /\ LostRecords(c)

ViewsFit == \A c \in Transactions : Open(c) => ViewFits(c)

PostgresInv == AfterCommitted /\ DisjointWrites /\ UnusedUntouched /\ ViewsFit

-----------------------------------------------------------------------------
(* A repository call over PostgreSQL.                                      *)

\* What the checks of a call secure of the row it writes.
RowFits(c, r, row, read) ==
    /\ Consistent([tx[c].view EXCEPT ![r] = row])
    /\ row = NoRecord => Searched(r) \subseteq read
    /\ row # NoRecord =>
          /\ Stands(rows, r) => Promise!Forward(r, rows[r], row)
          /\ \/ row.ref = NoRecord
             \/ row.ref \in tx[c].reads \union read
             \/ Stands(rows, r) /\ rows[r].ref = row.ref

LEMMA CalledTyped ==
    ASSUME NEW t \in Transaction, NEW r \in Records, NEW row \in Row(r) \union {NoRecord},
           NEW read \in SUBSET Records
    PROVE  /\ Called(t, r, row, read) \in Transaction
           /\ Called(t, r, row, read).status = t.status
           /\ Called(t, r, row, read).view = [t.view EXCEPT ![r] = row]
           /\ Called(t, r, row, read).reads = t.reads \union read
           /\ Called(t, r, row, read).writes = t.writes \union {r}
           /\ Called(t, r, row, read).after = t.after
<1> DEFINE view == [t.view EXCEPT ![r] = row]
<1>1. view \in Tables
  BY TableChange DEF Transaction
<1>2. Called(t, r, row, read) =
        [t EXCEPT !.view = view, !.reads = @ \union read, !.writes = @ \union {r}]
  BY DEF Called
<1> HIDE DEF view
<1>3. Called(t, r, row, read) \in Transaction
  BY <1>1, <1>2 DEF Transaction
<1> QED
  BY <1>2, <1>3 DEF Transaction, view

LEMMA CallPreserves ==
    ASSUME TypeOK, PostgresInv,
           NEW c \in Transactions, NEW r \in Records, NEW row \in Row(r) \union {NoRecord},
           NEW read \in SUBSET Records,
           Open(c), RowFits(c, r, row, read),
           \A d \in Transactions : Concurrent(c, d) => r \notin tx[d].writes,
           Call(c, r, row, read), unused' \subseteq unused, r \notin unused'
    PROVE  PostgresInv' /\ tx' \in [Transactions -> Transaction]
<1> DEFINE view == [tx[c].view EXCEPT ![r] = row]
<1>1. tx[c] \in Transaction /\ tx[c].status = "open" /\ view \in Tables
  BY TableChange DEF TypeOK, Transaction, Open
<1>2. PICK called : called = Called(tx[c], r, row, read)
  OBVIOUS
<1>3. /\ tx'[c].status = "open" /\ tx'[c].view = view /\ tx'[c].after = tx[c].after
      /\ tx'[c].reads = tx[c].reads \union read
      /\ tx'[c].writes = tx[c].writes \union {r}
      /\ \A d \in Transactions \ {c} : tx'[d] = tx[d]
      /\ tx' \in [Transactions -> Transaction]
  <2>1. tx' = [tx EXCEPT ![c] = called]
    BY <1>2 DEF Call
  <2>2. /\ called \in Transaction
        /\ called.status = "open" /\ called.view = view /\ called.after = tx[c].after
        /\ called.reads = tx[c].reads \union read
        /\ called.writes = tx[c].writes \union {r}
    BY <1>1, <1>2, CalledTyped
  <2> QED
    BY <2>1, <2>2 DEF TypeOK
<1> HIDE DEF view
<1>4. \A d \in Transactions : tx'[d].status = tx[d].status /\ tx'[d].after = tx[d].after
  BY <1>1, <1>3
<1>5. \A a, b \in Transactions : Concurrent(a, b)' <=> Concurrent(a, b)
  BY <1>4 DEF Concurrent
<1>6. \A a, b \in Transactions : Overtook(a, b)' <=> Overtook(a, b)
  BY <1>4, <1>5 DEF Overtook
<1>7. \A d \in Transactions : tx[d].status = "committed" => tx'[d] = tx[d]
  BY <1>1, <1>3
<1>8. rows' = rows
  BY DEF Call
<1>9. AfterCommitted'
  BY <1>4 DEF AfterCommitted, InStatus, PostgresInv
<1>10. DisjointWrites'
  <2> SUFFICES ASSUME NEW a \in Transactions, NEW b \in Transactions, Concurrent(a, b)
               PROVE  tx'[a].writes \intersect tx'[b].writes = {}
    BY <1>5 DEF DisjointWrites
  <2>1. a # b /\ Concurrent(b, a) /\ tx[a].writes \intersect tx[b].writes = {}
    BY DEF Concurrent, PostgresInv, DisjointWrites
  <2>2. CASE a = c
    BY <1>3, <2>1, <2>2
  <2>3. CASE b = c
    BY <1>3, <2>1, <2>3
  <2> QED
    BY <1>3, <2>1, <2>2, <2>3
<1>11. UnusedUntouched'
  <2>1. \A d \in Transactions : tx'[d].writes \intersect unused' = {}
    BY <1>3 DEF PostgresInv, UnusedUntouched
  <2>2. \A s \in unused' : ~Stands(view, s)
    BY <1>1 DEF PostgresInv, UnusedUntouched, Open, Stands, view, TypeOK, Transaction, Tables
  <2>3. \A d \in Transactions : Open(d)' => \A s \in unused' : ~Stands(tx'[d].view, s)
    BY <1>3, <2>2 DEF PostgresInv, UnusedUntouched, Open
  <2> QED
    BY <1>8, <2>1, <2>3 DEF PostgresInv, UnusedUntouched, Stands
<1>12. ASSUME NEW d \in Transactions \ {c}, Open(d)'
       PROVE  ViewFits(d)'
  <2>1. ViewFits(d) /\ tx'[d] = tx[d]
    BY <1>3, <1>12 DEF PostgresInv, ViewsFit, Open
  <2>2. SeesCurrent(d)'
    BY <1>6, <1>7, <1>8, <2>1 DEF ViewFits, SeesCurrent, Overtook
  <2>3. NewReferences(d)'
    BY <1>6, <1>7, <1>8, <2>1 DEF ViewFits, NewReferences, Overtook, Stands
  <2>4. LostRecords(d)'
    BY <1>6, <1>7, <1>8, <2>1 DEF ViewFits, LostRecords, Overtook, Stands
  <2>5. WritesFit(d)' /\ DeletesSearch(d)' /\ Consistent(tx[d].view)'
    BY <1>8, <2>1 DEF ViewFits, WritesFit, DeletesSearch, Stands, Consistent, RefStands
  <2> QED
    BY <2>1, <2>2, <2>3, <2>4, <2>5 DEF ViewFits
<1>13. ViewFits(c)'
  <2>1. ViewFits(c) /\ Open(c)
    BY DEF PostgresInv, ViewsFit
  <2>2. \A s \in Records \ {r} : view[s] = tx[c].view[s]
    BY <1>1 DEF view, TypeOK, Transaction, Tables
  <2>3. view[r] = row
    BY <1>1 DEF view, TypeOK, Transaction, Tables
  <2>4. Consistent(view)
    BY DEF RowFits, view
  <2>5. SeesCurrent(c)'
    BY <1>3, <1>6, <1>7, <1>8, <2>1, <2>2 DEF ViewFits, SeesCurrent, Overtook
  <2>6. NewReferences(c)'
    BY <1>3, <1>6, <1>7, <1>8, <2>1, <2>2 DEF ViewFits, NewReferences, Overtook, Stands
  <2>7. LostRecords(c)'
    BY <1>3, <1>6, <1>7, <1>8, <2>1, <2>2 DEF ViewFits, LostRecords, Overtook, Stands
  <2>8. WritesFit(c)'
    <3> SUFFICES ASSUME NEW s \in tx[c].writes \union {r}, view[s] # NoRecord
                 PROVE  /\ rows[s] # NoRecord => Promise!Forward(s, rows[s], view[s])
                        /\ \/ view[s].ref = NoRecord
                           \/ view[s].ref \in tx[c].reads \union read
                           \/ rows[s] # NoRecord /\ rows[s].ref = view[s].ref
      BY <1>3, <1>8 DEF WritesFit, Stands
    <3>1. CASE s = r
      BY <2>3, <3>1 DEF RowFits, Stands
    <3>2. CASE s # r
      <4>1. s \in tx[c].writes /\ view[s] = tx[c].view[s]
        BY <1>1, <2>2, <3>2 DEF Transaction
      <4> QED
        BY <2>1, <4>1 DEF ViewFits, WritesFit, Stands
    <3> QED
      BY <3>1, <3>2
  <2>9. DeletesSearch(c)'
    <3> SUFFICES ASSUME NEW s \in tx[c].writes \union {r}, view[s] = NoRecord
                 PROVE  Searched(s) \subseteq tx[c].reads \union read
      BY <1>3 DEF DeletesSearch, Stands, Searched
    <3>1. CASE s = r
      BY <2>3, <3>1 DEF RowFits
    <3>2. CASE s # r
      <4>1. s \in tx[c].writes /\ view[s] = tx[c].view[s]
        BY <1>1, <2>2, <3>2 DEF Transaction
      <4> QED
        BY <2>1, <4>1 DEF ViewFits, DeletesSearch, Stands
    <3> QED
      BY <3>1, <3>2
  <2> QED
    BY <1>3, <2>4, <2>5, <2>6, <2>7, <2>8, <2>9 DEF ViewFits
<1> QED
  BY <1>3, <1>9, <1>10, <1>11, <1>12, <1>13 DEF PostgresInv, ViewsFit

\* A row c may lock has not changed since c began, or is c's own.
LEMMA LockedIsCurrent ==
    ASSUME TypeOK, PostgresInv, NEW c \in Transactions, NEW r \in Records, Open(c),
           MayLock(c, r), r \notin tx[c].writes
    PROVE  tx[c].view[r] = rows[r]
<1>1. SeesCurrent(c)
  BY DEF PostgresInv, ViewsFit, ViewFits
<1>2. \A d \in Transactions : Overtook(d, c) => r \notin tx[d].writes
  BY DEF MayLock, Overtook
<1> QED
  BY <1>1, <1>2 DEF SeesCurrent

LEMMA CreatePreserves ==
    ASSUME TypeOK, PostgresInv, NEW c \in Transactions, NEW r \in Records,
           NEW row \in Row(r), Create(c, r, row)
    PROVE  PostgresInv' /\ tx' \in [Transactions -> Transaction]
<1> DEFINE read == {row.ref} \ {NoRecord}
<1>1. tx[c].view \in Tables /\ Open(c) /\ Consistent(tx[c].view)
  BY DEF Create, Open, TypeOK, Transaction, PostgresInv, ViewsFit, ViewFits
<1>2. /\ MayCreate(tx[c].view, r, row) /\ Call(c, r, row, read)
      /\ r \in unused /\ unused' = unused \ {r}
  BY DEF Create
<1>3. read \in SUBSET Records /\ row # NoRecord
  BY RowTyped
<1>4. Consistent([tx[c].view EXCEPT ![r] = row])
  BY <1>1, <1>2, CreateConsistent
<1>5. ~Stands(rows, r) /\ \A d \in Transactions : r \notin tx[d].writes
  BY <1>2 DEF PostgresInv, UnusedUntouched
<1>6. RowFits(c, r, row, read)
  BY <1>3, <1>4, <1>5 DEF RowFits
<1> HIDE DEF read
<1> QED
  BY <1>1, <1>2, <1>3, <1>5, <1>6, CallPreserves

LEMMA UpdatePreserves ==
    ASSUME TypeOK, PostgresInv, NEW c \in Transactions, NEW r \in Records,
           NEW row \in Row(r), Update(c, r, row)
    PROVE  PostgresInv' /\ tx' \in [Transactions -> Transaction]
<1> DEFINE view == tx[c].view
           read == {r} \union ({row.ref} \ {NoRecord, view[r].ref})
<1>1. view \in Tables /\ Open(c) /\ ViewFits(c)
  BY DEF Update, Open, TypeOK, Transaction, PostgresInv, ViewsFit
<1>2. MayUpdate(view, r, row) /\ Call(c, r, row, read) /\ unused' = unused /\ MayLock(c, r)
  BY DEF Update
<1>3. read \in SUBSET Records /\ row # NoRecord
  BY RowTyped
<1>4. Consistent([view EXCEPT ![r] = row]) /\ view[r] \in Row(r) /\ Stands(view, r)
  BY <1>1, <1>2, UpdateConsistent DEF ViewFits, Tables, Stands
<1>5. Promise!Forward(r, view[r], row)
  BY <1>1, <1>2, UpdateForward
<1>6. Stands(rows, r) => Promise!Forward(r, rows[r], row)
  <2>1. CASE r \in tx[c].writes
    <3>1. Stands(rows, r) => rows[r] \in Row(r) /\ Promise!Forward(r, rows[r], view[r])
      BY <1>1, <1>4, <2>1 DEF ViewFits, WritesFit, TypeOK, Tables, Stands
    <3> QED
      BY <1>4, <1>5, <3>1, ForwardTransitive
  <2>2. CASE r \notin tx[c].writes
    BY <1>1, <1>2, <1>5, <2>2, LockedIsCurrent
  <2> QED
    BY <2>1, <2>2
<1>7. \/ row.ref = NoRecord
      \/ row.ref \in tx[c].reads \union read
      \/ Stands(rows, r) /\ rows[r].ref = row.ref
  <2>1. SUFFICES ASSUME row.ref # NoRecord, row.ref = view[r].ref
                 PROVE  \/ row.ref \in tx[c].reads
                        \/ Stands(rows, r) /\ rows[r].ref = row.ref
    OBVIOUS
  <2>2. CASE r \in tx[c].writes
    BY <1>1, <1>4, <2>1, <2>2 DEF ViewFits, WritesFit
  <2>3. CASE r \notin tx[c].writes
    BY <1>1, <1>2, <1>4, <2>1, <2>3, LockedIsCurrent DEF Stands
  <2> QED
    BY <2>2, <2>3
<1>8. RowFits(c, r, row, read)
  BY <1>3, <1>4, <1>6, <1>7 DEF RowFits
<1>9. r \notin unused' /\ \A d \in Transactions : Concurrent(c, d) => r \notin tx[d].writes
  BY <1>1, <1>2, <1>4 DEF MayLock, PostgresInv, UnusedUntouched
<1> HIDE DEF read, view
<1> QED
  BY <1>1, <1>2, <1>3, <1>8, <1>9, CallPreserves

LEMMA DeletePreserves ==
    ASSUME TypeOK, PostgresInv, NEW c \in Transactions, NEW r \in Records, Delete(c, r)
    PROVE  PostgresInv' /\ tx' \in [Transactions -> Transaction]
<1> DEFINE read == {r} \union Searched(r)
<1>1. tx[c].view \in Tables /\ Open(c) /\ ViewFits(c)
  BY DEF Delete, Open, TypeOK, Transaction, PostgresInv, ViewsFit
<1>2. MayDelete(tx[c].view, r) /\ Call(c, r, NoRecord, read) /\ unused' = unused /\ MayLock(c, r)
  BY DEF Delete, Searched
<1>3. read \in SUBSET Records
  BY DEF Searched
<1>4. Consistent([tx[c].view EXCEPT ![r] = NoRecord])
  BY <1>1, <1>2, DeleteConsistent DEF ViewFits
<1>5. RowFits(c, r, NoRecord, read)
  BY <1>4 DEF RowFits
<1>6. r \notin unused' /\ \A d \in Transactions : Concurrent(c, d) => r \notin tx[d].writes
  BY <1>1, <1>2 DEF MayLock, MayDelete, PostgresInv, UnusedUntouched
<1> HIDE DEF read
<1> QED
  BY <1>1, <1>2, <1>3, <1>5, <1>6, CallPreserves

LEMMA BeginPreserves ==
    ASSUME TypeOK, PostgresInv, Consistent(rows), NEW c \in Transactions, Begin(c)
    PROVE  PostgresInv' /\ tx' \in [Transactions -> Transaction]
<1>1. /\ tx'[c] = [status |-> "open", view |-> rows, reads |-> {}, writes |-> {},
                   after |-> InStatus("committed")]
      /\ \A d \in Transactions \ {c} : tx'[d] = tx[d]
      /\ tx' \in [Transactions -> Transaction]
  <2>1. tx' = [tx EXCEPT ![c] = [status |-> "open", view |-> rows, reads |-> {},
                                 writes |-> {}, after |-> InStatus("committed")]]
    BY DEF Begin
  <2>2. [status |-> "open", view |-> rows, reads |-> {}, writes |-> {},
         after |-> InStatus("committed")] \in Transaction
    BY DEF Transaction, TypeOK, InStatus
  <2> QED
    BY <2>1, <2>2 DEF TypeOK
<1>2. rows' = rows /\ unused' = unused /\ tx[c].status = "idle"
  BY DEF Begin
<1>3. \A d \in Transactions : ~Overtook(d, c)'
  BY <1>1 DEF Overtook, Concurrent, InStatus
<1>4. \A a, b \in Transactions \ {c} : Concurrent(a, b)' <=> Concurrent(a, b)
  BY <1>1 DEF Concurrent
<1>5. \A a, b \in Transactions \ {c} : Overtook(a, b)' <=> Overtook(a, b)
  BY <1>1, <1>4 DEF Overtook
<1>6. \A a, b \in Transactions : Overtook(a, b) => a # c
  BY <1>2 DEF Overtook
<1>7. AfterCommitted'
  BY <1>1, <1>2 DEF AfterCommitted, InStatus, PostgresInv
<1>8. DisjointWrites'
  <2> SUFFICES ASSUME NEW a \in Transactions, NEW b \in Transactions, Concurrent(a, b)'
               PROVE  tx'[a].writes \intersect tx'[b].writes = {}
    BY DEF DisjointWrites
  <2>1. CASE c \in {a, b}
    BY <1>1, <2>1
  <2>2. CASE c \notin {a, b}
    BY <1>1, <1>4, <2>2 DEF PostgresInv, DisjointWrites
  <2> QED
    BY <2>1, <2>2
<1>9. UnusedUntouched'
  BY <1>1, <1>2 DEF PostgresInv, UnusedUntouched, Open, Stands
<1>10. ASSUME NEW d \in Transactions \ {c}, Open(d)'
       PROVE  ViewFits(d)'
  <2>1. ViewFits(d) /\ tx'[d] = tx[d]
    BY <1>1, <1>10 DEF PostgresInv, ViewsFit, Open
  <2>2. SeesCurrent(d)'
    BY <1>1, <1>2, <1>5, <1>6, <2>1 DEF ViewFits, SeesCurrent
  <2>3. NewReferences(d)'
    BY <1>1, <1>2, <1>5, <1>6, <2>1 DEF ViewFits, NewReferences, Stands
  <2>4. LostRecords(d)'
    BY <1>1, <1>2, <1>5, <1>6, <2>1 DEF ViewFits, LostRecords, Stands
  <2>5. WritesFit(d)' /\ DeletesSearch(d)' /\ Consistent(tx[d].view)'
    BY <1>2, <2>1 DEF ViewFits, WritesFit, DeletesSearch, Stands, Consistent, RefStands
  <2> QED
    BY <2>1, <2>2, <2>3, <2>4, <2>5 DEF ViewFits
<1>11. ViewFits(c)'
  <2>1. Consistent(tx'[c].view)
    BY <1>1
  <2>2. tx'[c].view = rows' /\ tx'[c].writes = {}
    BY <1>1, <1>2
  <2> QED
    BY <1>2, <2>1, <2>2 DEF ViewFits, SeesCurrent, WritesFit, DeletesSearch, NewReferences,
       LostRecords, Stands, Consistent, RefStands
<1> QED
  BY <1>1, <1>7, <1>8, <1>9, <1>10, <1>11 DEF PostgresInv, ViewsFit

-----------------------------------------------------------------------------
(* The end of a transaction over PostgreSQL.                               *)

LEMMA NoTwoCycle ==
    ASSUME NEW C \in SUBSET Transactions, Serializable(C),
           NEW a \in C, NEW b \in C, a # b, Precedes(a, b)
    PROVE  ~Precedes(b, a)
<1>1. PICK place \in [C -> 1 .. Cardinality(C)] :
        \A x, y \in C : x # y /\ Precedes(x, y) => place[x] < place[y]
  BY DEF Serializable
<1>2. Cardinality(C) \in Nat
  BY TransactionsAssumption, FS_Subset, FS_CardinalityType
<1>3. place[a] \in Int /\ place[b] \in Int
  BY <1>1, <1>2
<1> QED
  BY <1>1, <1>3

\* No transaction that overtook c both read what c wrote and wrote what c read.
LEMMA NoCross ==
    ASSUME NEW c \in Transactions, Commit(c), NEW d \in Transactions, Overtook(d, c)
    PROVE  \/ tx[c].reads \intersect tx[d].writes = {}
           \/ tx[d].reads \intersect tx[c].writes = {}
<1> DEFINE C == InStatus("committed") \union {c}
<1>1. C \in SUBSET Transactions /\ Serializable(C) /\ c \in C /\ d \in C
  BY DEF Commit, InStatus, Overtook
<1>2. c # d /\ Concurrent(c, d) /\ Concurrent(d, c)
  BY DEF Overtook, Concurrent
<1> HIDE DEF C
<1>3. ~(Precedes(c, d) /\ Precedes(d, c))
  BY <1>1, <1>2, NoTwoCycle
<1> QED
  BY <1>2, <1>3 DEF Precedes

LEMMA IdleTyped == Idle \in Transaction /\ Idle.status = "idle" /\ Idle.writes = {}
                   /\ Idle.after = {}
BY EmptyTable DEF Idle, Transaction

\* Where no transaction is open nothing is to be shown of one.
LEMMA NoneOpen ==
    ASSUME tx = [d \in Transactions |-> Idle], \A r \in unused : ~Stands(rows, r)
    PROVE  PostgresInv /\ tx \in [Transactions -> Transaction]
<1>1. \A d \in Transactions : tx[d] = Idle
  OBVIOUS
<1>2. \A d \in Transactions : tx[d].status = "idle" /\ tx[d].writes = {} /\ tx[d].after = {}
  BY <1>1, IdleTyped
<1>3. AfterCommitted /\ DisjointWrites /\ UnusedUntouched /\ ViewsFit
  BY <1>2 DEF AfterCommitted, DisjointWrites, UnusedUntouched, ViewsFit, Open
<1> QED
  BY <1>3, IdleTyped DEF PostgresInv

LEMMA NoneOpenNext ==
    ASSUME tx' = [d \in Transactions |-> Idle], \A r \in unused' : ~Stands(rows', r)
    PROVE  PostgresInv' /\ tx' \in [Transactions -> Transaction]
<1>1. \A d \in Transactions : tx'[d] = Idle
  OBVIOUS
<1>2. \A d \in Transactions : /\ tx'[d].status = "idle" /\ tx'[d].writes = {}
                              /\ tx'[d].after = {}
  BY <1>1, IdleTyped
<1>3. AfterCommitted' /\ DisjointWrites' /\ UnusedUntouched' /\ ViewsFit'
  BY <1>2 DEF AfterCommitted, DisjointWrites, UnusedUntouched, ViewsFit, Open, Stands
<1> QED
  BY <1>3, IdleTyped DEF PostgresInv

LEMMA CommitConsistent ==
    ASSUME TypeOK, PostgresInv, Consistent(rows), NEW c \in Transactions, Commit(c)
    PROVE  /\ rows' \in Tables /\ Consistent(rows')
           /\ \A r \in Records : Stands(rows, r) /\ Stands(rows', r) =>
                 Promise!Forward(r, rows[r], rows'[r])
<1> DEFINE view == tx[c].view
<1>1. /\ view \in Tables /\ rows \in Tables /\ Open(c) /\ ViewFits(c)
      /\ tx[c].reads \subseteq Records
  BY DEF Commit, Open, TypeOK, Transaction, PostgresInv, ViewsFit
<1>2. /\ rows' \in [Records -> AnyRow]
      /\ \A r \in Records : rows'[r] = IF r \in tx[c].writes THEN view[r] ELSE rows[r]
  BY <1>1 DEF Commit, Tables
<1>3. rows' \in Tables
  BY <1>1, <1>2 DEF Tables
<1>4. ASSUME NEW r \in Records, NEW t \in Records, KindOf[t] \in Targets(KindOf[r])
      PROVE  r \in Searched(t)
  BY <1>4, KindsTyped, DependentsCoverTargets DEF Searched
<1>5. Consistent(rows')
  <2> SUFFICES ASSUME NEW r \in Records, rows'[r] # NoRecord
               PROVE  RefStands(rows', r, rows'[r].ref)
    BY DEF Consistent, Stands
  <2>1. CASE r \in tx[c].writes
    <3>1. rows'[r] = view[r] /\ RefStands(view, r, view[r].ref)
      BY <1>1, <1>2, <2>1 DEF ViewFits, Consistent, Stands
    <3>2. CASE view[r].ref = NoRecord
      BY <3>1, <3>2 DEF RefStands
    <3>3. CASE view[r].ref # NoRecord
      <4>1. PICK t \in Records : t = view[r].ref
        BY <3>1, <3>3 DEF RefStands
      <4>2. Stands(view, t) /\ KindOf[t] \in Targets(KindOf[r]) /\ r \in Searched(t)
        BY <1>4, <3>1, <3>3, <4>1 DEF RefStands
      <4>3. SUFFICES ASSUME ~Stands(rows', t) PROVE FALSE
        BY <3>1, <3>3, <4>1, <4>2 DEF RefStands
      <4>4. t \notin tx[c].writes /\ ~Stands(rows, t)
        BY <1>2, <4>2, <4>3 DEF Stands
      <4>5. PICK d \in Transactions :
              Overtook(d, c) /\ t \in tx[d].writes /\ Searched(t) \subseteq tx[d].reads
        BY <1>1, <4>2, <4>4 DEF ViewFits, LostRecords
      <4>6. t \in tx[c].reads
        <5>1. \/ t \in tx[c].reads
              \/ Stands(rows, r) /\ rows[r].ref = t
          BY <1>1, <2>1, <3>1, <3>3, <4>1 DEF ViewFits, WritesFit, Stands
        <5>2. ~(Stands(rows, r) /\ rows[r].ref = t)
          BY <3>3, <4>1, <4>4 DEF Consistent, RefStands
        <5> QED
          BY <5>1, <5>2
      <4> QED
        BY <2>1, <4>2, <4>5, <4>6, NoCross
    <3> QED
      BY <3>2, <3>3
  <2>2. CASE r \notin tx[c].writes
    <3>1. rows'[r] = rows[r] /\ Stands(rows, r) /\ RefStands(rows, r, rows[r].ref)
      BY <1>2, <2>2 DEF Consistent, Stands
    <3>2. CASE rows[r].ref = NoRecord
      BY <3>1, <3>2 DEF RefStands
    <3>3. CASE rows[r].ref # NoRecord
      <4>1. PICK t \in Records : t = rows[r].ref
        BY <3>1, <3>3 DEF RefStands
      <4>2. Stands(rows, t) /\ KindOf[t] \in Targets(KindOf[r]) /\ r \in Searched(t)
        BY <1>4, <3>1, <3>3, <4>1 DEF RefStands
      <4>3. SUFFICES ASSUME ~Stands(rows', t) PROVE FALSE
        BY <3>1, <3>3, <4>1, <4>2 DEF RefStands
      <4>4. t \in tx[c].writes /\ ~Stands(view, t)
        BY <1>2, <4>2, <4>3 DEF Stands
      <4>5. r \in tx[c].reads
        BY <1>1, <4>2, <4>4 DEF ViewFits, DeletesSearch
      <4>6. ~(Stands(view, r) /\ view[r].ref = t)
        BY <1>1, <3>3, <4>1, <4>4 DEF ViewFits, Consistent, RefStands
      <4>7. PICK d \in Transactions :
              Overtook(d, c) /\ r \in tx[d].writes /\ t \in tx[d].reads
        BY <1>1, <2>2, <3>1, <4>1, <4>6 DEF ViewFits, NewReferences
      <4> QED
        BY <4>4, <4>5, <4>7, NoCross
    <3> QED
      BY <3>2, <3>3
  <2> QED
    BY <2>1, <2>2
<1>6. ASSUME NEW r \in Records, rows[r] # NoRecord, rows'[r] # NoRecord
      PROVE  Promise!Forward(r, rows[r], rows'[r])
  <2>1. CASE r \in tx[c].writes
    BY <1>1, <1>2, <1>6, <2>1 DEF ViewFits, WritesFit, Stands
  <2>2. CASE r \notin tx[c].writes
    BY <1>1, <1>2, <1>6, <2>2, ForwardReflexive DEF Tables
  <2> QED
    BY <2>1, <2>2
<1> QED
  BY <1>3, <1>5, <1>6 DEF Stands

LEMMA CommitPreserves ==
    ASSUME TypeOK, PostgresInv, Consistent(rows), NEW c \in Transactions, Commit(c)
    PROVE  PostgresInv' /\ tx' \in [Transactions -> Transaction]
<1> DEFINE left == [tx[c] EXCEPT !.status = "committed", !.view = Empty]
<1>1. /\ tx[c] \in Transaction /\ Open(c) /\ ViewFits(c) /\ unused' = unused
      /\ rows' \in Tables /\ rows \in Tables
  BY CommitConsistent DEF Commit, Open, TypeOK, PostgresInv, ViewsFit
<1>2. \A r \in Records : rows'[r] = IF r \in tx[c].writes THEN tx[c].view[r] ELSE rows[r]
  BY DEF Commit
<1>3. \A r \in unused' : ~Stands(rows', r)
  BY <1>1, <1>2 DEF PostgresInv, UnusedUntouched, Stands, TypeOK
<1>4. CASE InStatus("open") = {c}
  <2>1. tx' = [d \in Transactions |-> Idle]
    BY <1>4 DEF Commit, Leave
  <2> QED
    BY <1>3, <2>1, NoneOpenNext
<1>5. CASE InStatus("open") # {c}
  <2>1. tx' = [tx EXCEPT ![c] = left]
    BY <1>5 DEF Commit, Leave
  <2>2. /\ left \in Transaction /\ left.status = "committed" /\ left.writes = tx[c].writes
        /\ left.reads = tx[c].reads /\ left.after = tx[c].after
    BY <1>1, EmptyTable DEF Transaction
  <2> HIDE DEF left
  <2>3. /\ tx'[c] = left /\ \A d \in Transactions \ {c} : tx'[d] = tx[d]
        /\ tx' \in [Transactions -> Transaction]
    BY <2>1, <2>2 DEF TypeOK
  <2>4. \A d \in Transactions : /\ tx'[d].writes = tx[d].writes /\ tx'[d].reads = tx[d].reads
                                /\ tx'[d].after = tx[d].after
    BY <2>2, <2>3
  <2>5. \A a, b \in Transactions : Concurrent(a, b)' <=> Concurrent(a, b)
    BY <1>1, <2>2, <2>3, <2>4 DEF Concurrent, Open
  <2>6. \A a, b \in Transactions : Overtook(a, b) => Overtook(a, b)'
    BY <1>1, <2>2, <2>3, <2>5 DEF Overtook, Open
  <2>7. AfterCommitted'
    BY <1>1, <2>2, <2>3, <2>4 DEF AfterCommitted, InStatus, PostgresInv, Open
  <2>8. DisjointWrites'
    BY <2>4, <2>5 DEF PostgresInv, DisjointWrites
  <2>9. UnusedUntouched'
    BY <1>1, <1>3, <2>2, <2>3, <2>4 DEF PostgresInv, UnusedUntouched, Open, Stands
  <2>10. ASSUME NEW e \in Transactions, Open(e)'
         PROVE  ViewFits(e)'
    <3>1. e # c /\ tx'[e] = tx[e] /\ Open(e) /\ ViewFits(e)
      BY <2>2, <2>3, <2>10 DEF PostgresInv, ViewsFit, Open
    <3>2. Concurrent(e, c)
      BY <1>1, <3>1 DEF Concurrent, Open, PostgresInv, AfterCommitted, InStatus
    <3>3. Overtook(c, e)' /\ tx[c].writes \intersect tx[e].writes = {}
      BY <2>2, <2>3, <2>5, <3>2 DEF Overtook, PostgresInv, DisjointWrites
    <3>4. SeesCurrent(e)'
      BY <1>2, <2>4, <2>6, <3>1, <3>3 DEF ViewFits, SeesCurrent
    <3>5. WritesFit(e)'
      <4>1. \A r \in tx[e].writes : r \in Records => rows'[r] = rows[r]
        BY <1>2, <3>3
      <4>2. tx[e].writes \subseteq Records
        BY DEF TypeOK, Transaction
      <4> QED
        BY <3>1, <4>1, <4>2 DEF ViewFits, WritesFit, Stands
    <3>6. DeletesSearch(e)' /\ Consistent(tx'[e].view)
      BY <3>1 DEF ViewFits, DeletesSearch, Stands, Consistent, RefStands
    <3>7. NewReferences(e)'
      <4> SUFFICES ASSUME NEW r \in Records, NEW t \in Records, r \notin tx[e].writes,
                          rows'[r] # NoRecord, rows'[r].ref = t,
                          ~(Stands(tx[e].view, r) /\ tx[e].view[r].ref = t)
                   PROVE  \E d \in Transactions :
                             Overtook(d, e)' /\ r \in tx[d].writes /\ t \in tx[d].reads
        BY <2>4, <3>1 DEF NewReferences, Stands
      <4>1. CASE Stands(rows, r) /\ rows[r].ref = t
        BY <2>6, <3>1, <4>1 DEF ViewFits, NewReferences
      <4>2. CASE ~(Stands(rows, r) /\ rows[r].ref = t)
        <5>1. r \in tx[c].writes /\ Stands(tx[c].view, r) /\ tx[c].view[r].ref = t
          BY <1>2, <4>2 DEF Stands
        <5>2. t \in tx[c].reads
          BY <1>1, <4>2, <5>1, NoRecordAssumption DEF ViewFits, WritesFit
        <5> QED
          BY <3>3, <5>1, <5>2
      <4> QED
        BY <4>1, <4>2
    <3>8. LostRecords(e)'
      <4> SUFFICES ASSUME NEW t \in Records, t \notin tx[e].writes, Stands(tx[e].view, t),
                          rows'[t] = NoRecord
                   PROVE  \E d \in Transactions :
                             /\ Overtook(d, e)' /\ t \in tx[d].writes
                             /\ Searched(t) \subseteq tx[d].reads
        BY <2>4, <3>1 DEF LostRecords, Stands, Searched
      <4>1. CASE ~Stands(rows, t)
        BY <2>6, <3>1, <4>1 DEF ViewFits, LostRecords
      <4>2. CASE Stands(rows, t)
        <5>1. t \in tx[c].writes /\ ~Stands(tx[c].view, t)
          BY <1>2, <4>2 DEF Stands
        <5> QED
          BY <1>1, <3>3, <5>1 DEF ViewFits, DeletesSearch
      <4> QED
        BY <4>1, <4>2
    <3> QED
      BY <3>4, <3>5, <3>6, <3>7, <3>8 DEF ViewFits
  <2> QED
    BY <2>3, <2>7, <2>8, <2>9, <2>10 DEF PostgresInv, ViewsFit
<1> QED
  BY <1>4, <1>5

LEMMA AbortPreserves ==
    ASSUME TypeOK, PostgresInv, NEW c \in Transactions, Abort(c)
    PROVE  PostgresInv' /\ tx' \in [Transactions -> Transaction]
<1>1. Open(c) /\ rows' = rows /\ unused' = unused
  BY DEF Abort, Open
<1>2. CASE InStatus("open") = {c}
  <2>1. tx' = [d \in Transactions |-> Idle]
    BY <1>2 DEF Abort, Leave
  <2> QED
    BY <1>1, <2>1, NoneOpenNext DEF PostgresInv, UnusedUntouched, Stands
<1>3. CASE InStatus("open") # {c}
  <2>1. tx' = [tx EXCEPT ![c] = Idle]
    BY <1>3 DEF Abort, Leave
  <2>2. /\ tx'[c] = Idle /\ \A d \in Transactions \ {c} : tx'[d] = tx[d]
        /\ tx' \in [Transactions -> Transaction]
    BY <2>1, IdleTyped DEF TypeOK
  <2>3. tx'[c].status = "idle" /\ tx'[c].writes = {} /\ tx'[c].after = {}
    BY <2>2, IdleTyped
  <2>4. \A a, b \in Transactions : Concurrent(a, b)' => Concurrent(a, b) /\ c \notin {a, b}
    BY <2>2, <2>3 DEF Concurrent
  <2>5. \A a, b \in Transactions : Overtook(a, b) /\ b # c => Overtook(a, b)' /\ a # c
    BY <1>1, <2>2 DEF Overtook, Concurrent, Open
  <2>6. AfterCommitted'
    BY <1>1, <2>2, <2>3 DEF AfterCommitted, InStatus, PostgresInv, Open
  <2>7. DisjointWrites'
    BY <2>2, <2>4 DEF PostgresInv, DisjointWrites
  <2>8. UnusedUntouched'
    BY <1>1, <2>2, <2>3 DEF PostgresInv, UnusedUntouched, Open, Stands
  <2>9. ASSUME NEW e \in Transactions, Open(e)'
        PROVE  ViewFits(e)'
    <3>1. e # c /\ tx'[e] = tx[e] /\ ViewFits(e)
      BY <2>2, <2>3, <2>9 DEF PostgresInv, ViewsFit, Open
    <3>2. SeesCurrent(e)'
      BY <1>1, <2>2, <2>5, <3>1 DEF ViewFits, SeesCurrent
    <3>3. NewReferences(e)'
      BY <1>1, <2>2, <2>5, <3>1 DEF ViewFits, NewReferences, Stands
    <3>4. LostRecords(e)'
      BY <1>1, <2>2, <2>5, <3>1 DEF ViewFits, LostRecords, Stands
    <3>5. WritesFit(e)' /\ DeletesSearch(e)' /\ Consistent(tx'[e].view)
      BY <1>1, <3>1 DEF ViewFits, WritesFit, DeletesSearch, Stands, Consistent, RefStands
    <3> QED
      BY <3>2, <3>3, <3>4, <3>5 DEF ViewFits
  <2> QED
    BY <2>2, <2>6, <2>7, <2>8, <2>9 DEF PostgresInv, ViewsFit
<1> QED
  BY <1>2, <1>3

-----------------------------------------------------------------------------
(* The in-memory adapter, and both together.                               *)

\* What a rollback would put back, and what the promise compares with.
SnapshotFits ==
    /\ snapshot \in Tables /\ Consistent(snapshot)
    /\ \A r \in unused : ~Stands(snapshot, r)
    /\ \A r \in Records : Stands(snapshot, r) /\ Stands(rows, r) =>
          Promise!Forward(r, snapshot[r], rows[r])

MemoryInv ==
    /\ adapter = "memory" => tx = [d \in Transactions |-> Idle]
    /\ adapter = "postgres" => snapshot = NoRecord
    /\ snapshot # NoRecord => SnapshotFits

Inv == TypeOK /\ Consistent(rows) /\ PostgresInv /\ MemoryInv

LEMMA InitInv == Init => Inv
<1> SUFFICES ASSUME Init PROVE Inv
  OBVIOUS
<1> USE DEF Init, RowsInit, MemoryInit, PostgresInit
<1>1. PostgresInv /\ tx \in [Transactions -> Transaction]
  BY NoneOpen DEF Empty, Stands
<1> QED
  BY <1>1, EmptyTable DEF Inv, TypeOK, MemoryInv

\* A call in place keeps what the snapshot was taken for.
LEMMA PutPreserves ==
    ASSUME Inv, adapter = "memory", NEW c \in Transactions, Running(c), NEW r \in Records,
           NEW row \in Row(r) \union {NoRecord}, Put(r, row),
           Consistent([rows EXCEPT ![r] = row]),
           row # NoRecord =>
              /\ r \notin unused'
              /\ \/ r \in unused
                 \/ Stands(rows, r) /\ Promise!Forward(r, rows[r], row),
           unused' \subseteq unused, UNCHANGED <<adapter, tx>>
    PROVE  Inv' /\ Committed' = Committed /\ outcome' = outcome
<1>1. rows' = [rows EXCEPT ![r] = row] /\ rows' \in Tables /\ Consistent(rows')
  BY TableChange DEF Put, Inv, TypeOK
<1>2. snapshot # NoRecord /\ SnapshotFits /\ snapshot' = snapshot /\ queue' = queue
      /\ outcome' = outcome
  BY DEF Running, Inv, MemoryInv, Put
<1>3. \A s \in Records : rows'[s] = IF s = r THEN row ELSE rows[s]
  BY <1>1 DEF Inv, TypeOK, Tables
<1>4. \A s \in unused' : ~Stands(rows', s)
  BY <1>3 DEF Inv, PostgresInv, UnusedUntouched, Stands, TypeOK
<1>5. tx' = [d \in Transactions |-> Idle]
  BY DEF Inv, MemoryInv
<1>6. PostgresInv' /\ tx' \in [Transactions -> Transaction]
  BY <1>4, <1>5, NoneOpenNext
<1>7. SnapshotFits'
  <2>1. \A s \in Records : snapshot[s] # NoRecord /\ rows'[s] # NoRecord =>
           Promise!Forward(s, snapshot[s], rows'[s])
    <3> SUFFICES ASSUME NEW s \in Records, snapshot[s] # NoRecord, rows'[s] # NoRecord
                 PROVE  Promise!Forward(s, snapshot[s], rows'[s])
      OBVIOUS
    <3>1. CASE s = r
      <4>1. rows'[s] = row /\ s \notin unused /\ rows[s] # NoRecord
            /\ Promise!Forward(s, rows[s], row)
        BY <1>2, <1>3, <3>1 DEF SnapshotFits, Stands
      <4>2. snapshot[s] \in Row(s) /\ rows[s] \in Row(s) /\ row \in Row(s)
        BY <1>2, <1>3, <3>1, <4>1 DEF SnapshotFits, Tables, Inv, TypeOK
      <4>3. Promise!Forward(s, snapshot[s], rows[s])
        BY <1>2, <4>1 DEF SnapshotFits, Stands
      <4> QED
        BY <4>1, <4>2, <4>3, ForwardTransitive
    <3>2. CASE s # r
      BY <1>2, <1>3, <3>2 DEF SnapshotFits, Stands
    <3> QED
      BY <3>1, <3>2
  <2> QED
    BY <1>2, <2>1 DEF SnapshotFits, Stands, Consistent, RefStands
<1>8. TypeOK' /\ MemoryInv'
  BY <1>1, <1>2, <1>6, <1>7 DEF Inv, TypeOK, MemoryInv
<1> QED
  BY <1>1, <1>2, <1>6, <1>8 DEF Inv, Committed

LEMMA MemoryStep ==
    ASSUME Inv, adapter = "memory", MemoryNext, UNCHANGED <<adapter, tx>>
    PROVE  Inv' /\ [Promise!Commit \/ Promise!Fail]_(Promise!vars)
<1> PICK c \in Transactions :
        \/ Ask(c) \/ Start(c) \/ Finish(c) \/ Throw(c)
        \/ \E r \in Records : \E row \in Row(r) : CreateInPlace(c, r, row)
        \/ \E r \in Records : \E row \in Row(r) : UpdateInPlace(c, r, row)
        \/ \E r \in Records : DeleteInPlace(c, r)
  BY DEF MemoryNext
<1> USE DEF Promise!vars
<1>0. /\ TypeOK /\ Consistent(rows) /\ PostgresInv /\ MemoryInv /\ rows \in Tables
      /\ queue \in Seq(Transactions)
  BY DEF Inv, TypeOK
<1>1. tx' = [d \in Transactions |-> Idle] /\ adapter' = "memory"
  BY <1>0 DEF MemoryInv
<1>2. CASE Ask(c)
  <2>1. rows' = rows /\ unused' = unused /\ outcome' = outcome /\ snapshot' = snapshot
        /\ queue' \in Seq(Transactions)
    BY <1>0, <1>2 DEF Ask
  <2>2. PostgresInv' /\ tx' \in [Transactions -> Transaction]
    BY <1>0, <1>1, <2>1, NoneOpenNext DEF PostgresInv, UnusedUntouched, Stands
  <2>3. snapshot' # NoRecord => SnapshotFits'
    BY <1>0, <2>1 DEF MemoryInv, SnapshotFits, Stands, Consistent, RefStands
  <2> QED
    BY <1>0, <1>1, <2>1, <2>2, <2>3
    DEF Inv, TypeOK, MemoryInv, Committed, Consistent, Stands, RefStands
<1>3. CASE Start(c)
  <2>1. /\ rows' = rows /\ unused' = unused /\ outcome' = outcome /\ queue' = queue
        /\ snapshot = NoRecord /\ snapshot' = rows
    BY <1>3 DEF Start
  <2>2. PostgresInv' /\ tx' \in [Transactions -> Transaction]
    BY <1>0, <1>1, <2>1, NoneOpenNext DEF PostgresInv, UnusedUntouched, Stands
  <2>3. Consistent(rows') /\ Consistent(snapshot')
    BY <1>0, <2>1 DEF Consistent, Stands, RefStands
  <2>4. SnapshotFits'
    BY <1>0, <2>1, <2>3, ForwardReflexive DEF SnapshotFits, PostgresInv, UnusedUntouched, Stands, Tables
  <2> QED
    BY <1>0, <1>1, <2>1, <2>2, <2>3, <2>4 DEF Inv, TypeOK, MemoryInv, Committed
<1>4. ASSUME NEW r \in Records, NEW row \in Row(r), CreateInPlace(c, r, row)
      PROVE  Inv' /\ UNCHANGED Promise!vars
  <2>1. row # NoRecord /\ Consistent([rows EXCEPT ![r] = row])
    BY <1>0, <1>4, RowTyped, CreateConsistent DEF CreateInPlace
  <2>2. /\ Running(c) /\ Put(r, row) /\ r \in unused /\ r \notin unused'
        /\ unused' \subseteq unused
    BY <1>4 DEF CreateInPlace
  <2> QED
    BY <2>1, <2>2, PutPreserves
<1>5. ASSUME NEW r \in Records, NEW row \in Row(r), UpdateInPlace(c, r, row)
      PROVE  Inv' /\ UNCHANGED Promise!vars
  <2>1. /\ Consistent([rows EXCEPT ![r] = row]) /\ Stands(rows, r)
        /\ Promise!Forward(r, rows[r], row)
    BY <1>0, <1>5, UpdateConsistent, UpdateForward DEF UpdateInPlace
  <2>2. /\ Running(c) /\ Put(r, row) /\ r \notin unused' /\ unused' \subseteq unused
    BY <1>0, <1>5, <2>1 DEF UpdateInPlace, PostgresInv, UnusedUntouched
  <2> QED
    BY <2>1, <2>2, PutPreserves
<1>6. ASSUME NEW r \in Records, DeleteInPlace(c, r)
      PROVE  Inv' /\ UNCHANGED Promise!vars
  <2>1. Consistent([rows EXCEPT ![r] = NoRecord])
    BY <1>0, <1>6, DeleteConsistent DEF DeleteInPlace
  <2>2. /\ Running(c) /\ Put(r, NoRecord) /\ unused' \subseteq unused
    BY <1>6 DEF DeleteInPlace
  <2> QED
    BY <2>1, <2>2, PutPreserves
<1>7. ASSUME Running(c) PROVE SnapshotFits /\ snapshot # NoRecord /\ Tail(queue) \in Seq(Transactions)
  BY <1>0, <1>7 DEF Running, MemoryInv
<1>8. CASE Finish(c)
  <2>1. /\ Running(c) /\ rows' = rows /\ unused' = unused /\ queue' = Tail(queue)
        /\ snapshot' = NoRecord /\ outcome' = "committed"
    BY <1>8 DEF Finish, End
  <2>2. PostgresInv' /\ tx' \in [Transactions -> Transaction]
    BY <1>0, <1>1, <2>1, NoneOpenNext DEF PostgresInv, UnusedUntouched, Stands
  <2>3. Inv'
    BY <1>0, <1>1, <1>7, <2>1, <2>2 DEF Inv, TypeOK, MemoryInv, Consistent, Stands, RefStands
  <2>4. Committed = snapshot /\ Committed' = rows
    BY <1>7, <2>1 DEF Committed
  <2>5. Promise!Commit
    BY <1>0, <1>7, <2>1, <2>4, SamePromise
    DEF Promise!Commit, SnapshotFits, Stands, Promise!Stands
  <2> QED
    BY <2>3, <2>5
<1>9. CASE Throw(c)
  <2>1. /\ Running(c) /\ rows' = snapshot /\ unused' = unused /\ queue' = Tail(queue)
        /\ snapshot' = NoRecord /\ outcome' = "failed"
    BY <1>9 DEF Throw, End
  <2>2. PostgresInv' /\ tx' \in [Transactions -> Transaction]
    BY <1>1, <1>7, <2>1, NoneOpenNext DEF SnapshotFits, Stands
  <2>3. Inv'
    BY <1>0, <1>1, <1>7, <2>1, <2>2
    DEF Inv, TypeOK, MemoryInv, SnapshotFits, Consistent, Stands, RefStands
  <2>4. Committed = snapshot /\ Committed' = snapshot
    BY <1>7, <2>1 DEF Committed
  <2> QED
    BY <2>1, <2>3, <2>4 DEF Promise!Fail
<1> QED
  BY <1>2, <1>3, <1>4, <1>5, <1>6, <1>8, <1>9

LEMMA PostgresStep ==
    ASSUME Inv, adapter = "postgres", PostgresNext, UNCHANGED <<adapter, queue, snapshot>>
    PROVE  Inv' /\ [Promise!Commit \/ Promise!Fail]_(Promise!vars)
<1> PICK c \in Transactions :
        \/ Begin(c) \/ Commit(c) \/ Abort(c)
        \/ \E r \in Records : \E row \in Row(r) : Create(c, r, row)
        \/ \E r \in Records : \E row \in Row(r) : Update(c, r, row)
        \/ \E r \in Records : Delete(c, r)
  BY DEF PostgresNext
<1> USE DEF Promise!vars
<1>0. /\ TypeOK /\ Consistent(rows) /\ PostgresInv /\ snapshot = NoRecord
      /\ snapshot' = NoRecord /\ adapter' = "postgres" /\ queue' = queue
  BY DEF Inv, MemoryInv
<1>1. Committed = rows /\ Committed' = rows'
  BY <1>0 DEF Committed
<1>2. ASSUME rows' = rows, outcome' = outcome, unused' \in SUBSET unused,
             PostgresInv' /\ tx' \in [Transactions -> Transaction]
      PROVE  Inv' /\ UNCHANGED Promise!vars
  <2>1. Consistent(rows')
    BY <1>0, <1>2 DEF Consistent, Stands, RefStands
  <2> QED
    BY <1>0, <1>1, <1>2, <2>1 DEF Inv, TypeOK, MemoryInv
<1>3. CASE Begin(c)
  BY <1>0, <1>2, <1>3, BeginPreserves DEF Begin
<1>4. ASSUME NEW r \in Records, NEW row \in Row(r), Create(c, r, row)
      PROVE  Inv' /\ UNCHANGED Promise!vars
  BY <1>0, <1>2, <1>4, CreatePreserves DEF Create, Call
<1>5. ASSUME NEW r \in Records, NEW row \in Row(r), Update(c, r, row)
      PROVE  Inv' /\ UNCHANGED Promise!vars
  BY <1>0, <1>2, <1>5, UpdatePreserves DEF Update, Call
<1>6. ASSUME NEW r \in Records, Delete(c, r)
      PROVE  Inv' /\ UNCHANGED Promise!vars
  BY <1>0, <1>2, <1>6, DeletePreserves DEF Delete, Call
<1>7. CASE Commit(c)
  <2>1. /\ rows' \in Tables /\ Consistent(rows') /\ outcome' = "committed" /\ unused' = unused
        /\ PostgresInv' /\ tx' \in [Transactions -> Transaction]
    BY <1>0, <1>7, CommitConsistent, CommitPreserves DEF Commit
  <2>2. Inv'
    BY <1>0, <2>1 DEF Inv, TypeOK, MemoryInv
  <2>3. Promise!Commit
    <3>1. \A r \in Records : Stands(rows, r) /\ Stands(rows', r) =>
             Promise!Forward(r, rows[r], rows'[r])
      BY <1>0, <1>7, CommitConsistent
    <3> QED
      BY <1>1, <2>1, <3>1, SamePromise DEF Promise!Commit, Stands, Promise!Stands
  <2> QED
    BY <2>2, <2>3
<1>8. CASE Abort(c)
  <2>1. /\ rows' = rows /\ unused' = unused /\ outcome' = "failed"
        /\ PostgresInv' /\ tx' \in [Transactions -> Transaction]
    BY <1>0, <1>8, AbortPreserves DEF Abort
  <2>2. Consistent(rows')
    BY <1>0, <2>1 DEF Consistent, Stands, RefStands
  <2> QED
    BY <1>0, <1>1, <2>1, <2>2 DEF Inv, TypeOK, MemoryInv, Promise!Fail
<1> QED
  BY <1>3, <1>4, <1>5, <1>6, <1>7, <1>8

LEMMA StepInv ==
    ASSUME Inv, [Next]_vars
    PROVE  Inv' /\ [Promise!Commit \/ Promise!Fail]_(Promise!vars)
<1>1. CASE adapter = "memory" /\ MemoryNext /\ UNCHANGED <<adapter, tx>>
  BY <1>1, MemoryStep
<1>2. CASE adapter = "postgres" /\ PostgresNext /\ UNCHANGED <<adapter, queue, snapshot>>
  BY <1>2, PostgresStep
<1>3. CASE UNCHANGED vars
  BY <1>3 DEF vars, Promise!vars, Inv, TypeOK, Consistent, Stands, RefStands, PostgresInv,
     AfterCommitted, InStatus, DisjointWrites, Concurrent, UnusedUntouched, Open, ViewsFit,
     ViewFits, SeesCurrent, Overtook, WritesFit, DeletesSearch, NewReferences, LostRecords,
     MemoryInv, SnapshotFits, Committed
<1> QED
  BY <1>1, <1>2, <1>3 DEF Next

-----------------------------------------------------------------------------

\* What the transactions of both adapters keep between calls, whichever way
\* their calls interleave.
THEOREM Invariance == Spec => []Inv
<1>1. Inv /\ [Next]_vars => Inv'
  BY StepInv
<1> QED
  BY InitInv, <1>1, PTL DEF Spec

\* The tables hold rows of their kind, and a transaction writes only to those
\* that exist (both adapters).
THEOREM TypeCorrect == Spec => []TypeOK
<1>1. Inv => TypeOK
  BY DEF Inv
<1> QED
  BY Invariance, <1>1, PTL

\* No reference dangles, whatever transactions run at once: the checks of the
\* repositories are enough in memory because one transaction runs at a time,
\* and over PostgreSQL because transactions are serializable
\* (PostgresIntegrityPersistence.ts:124-140, relationshipValidator.ts:540-870).
THEOREM ReferencesNeverDangle == Spec => []ReferencesHold
<1>1. Inv => ReferencesHold
  BY DEF Inv, ReferencesHold
<1> QED
  BY Invariance, <1>1, PTL

\* Both adapters keep what unitOfWork.ts:72-78 promises: a transaction commits
\* as one consistent step that takes no life backwards, or changes nothing.
THEOREM PromiseKept == Spec => StoreKeepsPromise
<1>1. Init => Promise!Init
  BY DEF Init, RowsInit, MemoryInit, Promise!Init, Committed, Empty, Promise!Empty
<1>2. Inv /\ [Next]_vars => [Promise!Commit \/ Promise!Fail]_(Promise!vars)
  BY StepInv
<1> QED
  BY Invariance, <1>1, <1>2, PTL DEF Spec, StoreKeepsPromise, Promise!Spec

=============================================================================
