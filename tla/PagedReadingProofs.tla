-------------------------- MODULE PagedReadingProofs --------------------------
(***************************************************************************)
(* Proofs about PagedReading, for any rows, page size, bound on the pages  *)
(* and number of requests in flight.                                       *)
(***************************************************************************)
EXTENDS Slicing, FiniteSetTheorems, FunctionTheorems, SequenceTheorems,
        WellFoundedInduction, TLAPS

-----------------------------------------------------------------------------
(* The order of the rows.                                                  *)

LEMMA LeastNatural ==
    ASSUME NEW S \in SUBSET Nat, S # {}
    PROVE  \E k \in S : \A m \in S : k <= m
<1>1. PICK k \in S : \A m \in S : <<m, k>> \notin OpToRel(<, Nat)
  BY NatLessThanWellFounded, WFMin
<1>2. \A m \in S : ~(m < k)
  BY <1>1 DEF OpToRel
<1> QED
  BY <1>2

\* Rows are in a strict order, in which any two can be compared.
LEMMA Ordered ==
    /\ \A r \in Rows : ~Comes(r, r)
    /\ \A r, q \in Rows : r = q \/ Comes(r, q) \/ Comes(q, r)
    /\ \A r, q \in Rows : ~(Comes(r, q) /\ Comes(q, r))
    /\ \A p, q, r \in Rows : Comes(p, q) /\ Comes(q, r) => Comes(p, r)
<1>1. \A r \in Rows : r.key \in Nat /\ r.id \in Nat
  BY RowsAssumption
<1>2. \A r, q \in Rows : r.id = q.id => r = q
  BY RowsAssumption
<1> QED
  BY <1>1, <1>2 DEF Comes

\* A row has more rows ahead of it than one that is ahead of it.
LEMMA FewerAhead ==
    ASSUME NEW T \in SUBSET Rows, NEW q \in T, NEW r \in T, Comes(q, r)
    PROVE  /\ Cardinality(Ahead(T, q)) \in Nat
           /\ Cardinality(Ahead(T, r)) \in Nat
           /\ Cardinality(Ahead(T, q)) < Cardinality(Ahead(T, r))
<1>1. IsFiniteSet(Ahead(T, r)) /\ IsFiniteSet(Ahead(T, q))
  <2>1. IsFiniteSet(Rows)
    BY RowsAssumption
  <2>2. Ahead(T, r) \in SUBSET Rows /\ Ahead(T, q) \in SUBSET Rows
    BY DEF Ahead
  <2> QED
    BY <2>1, <2>2, FS_Subset
<1>2. Ahead(T, q) \in SUBSET Ahead(T, r)
  BY Ordered DEF Ahead
<1>3. q \in Ahead(T, r) /\ q \notin Ahead(T, q)
  BY Ordered DEF Ahead
<1>4. /\ Cardinality(Ahead(T, q)) <= Cardinality(Ahead(T, r))
      /\ Cardinality(Ahead(T, r)) = Cardinality(Ahead(T, q)) => Ahead(T, r) = Ahead(T, q)
  BY <1>1, <1>2, FS_Subset
<1>5. Cardinality(Ahead(T, q)) \in Nat /\ Cardinality(Ahead(T, r)) \in Nat
  BY <1>1, FS_CardinalityType
<1> QED
  BY <1>3, <1>4, <1>5

\* Rows that are there have a first one.
LEMMA FirstRow ==
    ASSUME NEW T \in SUBSET Rows, T # {}
    PROVE  \E r \in T : Cardinality(Ahead(T, r)) = 0
<1> DEFINE Counts == {k \in Nat : \E r \in T : k = Cardinality(Ahead(T, r))}
<1>1. \A r \in T : IsFiniteSet(Ahead(T, r)) /\ Cardinality(Ahead(T, r)) \in Nat
  <2> TAKE r \in T
  <2>1. IsFiniteSet(Rows) /\ Ahead(T, r) \in SUBSET Rows
    BY RowsAssumption DEF Ahead
  <2> QED
    BY <2>1, FS_Subset, FS_CardinalityType
<1>2. Counts \in SUBSET Nat /\ Counts # {}
  BY <1>1
<1>3. PICK k \in Counts : \A m \in Counts : k <= m
  <2> HIDE DEF Counts
  <2> QED
    BY <1>2, LeastNatural
<1>4. PICK r \in T : k = Cardinality(Ahead(T, r))
  BY <1>3
<1>5. Ahead(T, r) = {}
  <2> SUFFICES ASSUME NEW q \in Ahead(T, r) PROVE FALSE
    OBVIOUS
  <2>1. q \in T /\ Comes(q, r)
    BY DEF Ahead
  <2>2. Cardinality(Ahead(T, q)) < k /\ Cardinality(Ahead(T, q)) \in Nat
    BY <2>1, <1>4, FewerAhead
  <2>3. Cardinality(Ahead(T, q)) \in Counts
    BY <2>1, <2>2
  <2> QED
    BY <2>2, <2>3, <1>3
<1> QED
  BY <1>5, FS_EmptySet

-----------------------------------------------------------------------------
(* Pages.                                                                  *)

\* A page is what comes first behind the cursor.
LEMMA PageIsFirst ==
    ASSUME NEW T \in SUBSET Rows, NEW c \in Cursors, NEW n \in Nat \ {0},
           NEW p \in Page(T, c, n), NEW q \in Behind(T, c), Comes(q, p)
    PROVE  q \in Page(T, c, n)
<1> DEFINE B == Behind(T, c)
<1>1. B \in SUBSET Rows /\ p \in B
  BY DEF Behind, Page
<1>2. /\ Cardinality(Ahead(B, q)) \in Nat /\ Cardinality(Ahead(B, p)) \in Nat
      /\ Cardinality(Ahead(B, q)) < Cardinality(Ahead(B, p))
  <2> HIDE DEF B
  <2>1. q \in B
    BY DEF B
  <2> QED
    BY <1>1, <2>1, FewerAhead
<1>3. Cardinality(Ahead(B, p)) < n
  BY DEF Page
<1> QED
  BY <1>2, <1>3 DEF Page

\* Where there is more, the page has a last row, and the next cursor is that.
LEMMA NextIsLast ==
    ASSUME NEW T \in SUBSET Rows, NEW c \in Cursors, NEW n \in Nat \ {0}, HasMore(T, c, n)
    PROVE  /\ NextCursor(T, c, n) \in Page(T, c, n)
           /\ \A q \in Page(T, c, n) :
                 q = NextCursor(T, c, n) \/ Comes(q, NextCursor(T, c, n))
<1> DEFINE B == Behind(T, c)
           P == Page(T, c, n)
           Counts == {k \in Nat : \E r \in P : k = n - Cardinality(Ahead(B, r))}
<1>1. B \in SUBSET Rows /\ P \in SUBSET B
  BY DEF Behind, Page
<1>2. B # {}
  BY <1>1 DEF HasMore
<1>3. PICK f \in B : Cardinality(Ahead(B, f)) = 0
  <2> HIDE DEF B
  <2> QED
    BY <1>1, <1>2, FirstRow
<1>4. f \in P
  BY <1>3 DEF Page
<1>5. \A r \in P : Cardinality(Ahead(B, r)) \in Nat /\ Cardinality(Ahead(B, r)) < n
  <2> TAKE r \in P
  <2>1. IsFiniteSet(Rows) /\ Ahead(B, r) \in SUBSET Rows
    BY <1>1, RowsAssumption DEF Ahead
  <2>2. Cardinality(Ahead(B, r)) \in Nat
    BY <2>1, FS_Subset, FS_CardinalityType
  <2> QED
    BY <2>2 DEF Page
<1>6. Counts \in SUBSET Nat /\ Counts # {}
  <2>1. n - Cardinality(Ahead(B, f)) \in Counts
    BY <1>4, <1>5
  <2> QED
    BY <2>1
<1>7. PICK k \in Counts : \A m \in Counts : k <= m
  <2> HIDE DEF Counts
  <2> QED
    BY <1>6, LeastNatural
<1>8. PICK l \in P : k = n - Cardinality(Ahead(B, l))
  BY <1>7
<1>9. \A q \in P : q = l \/ Comes(q, l)
  <2> SUFFICES ASSUME NEW q \in P, q # l, ~Comes(q, l) PROVE FALSE
    OBVIOUS
  <2>1. Comes(l, q) /\ l \in B /\ q \in B
    BY <1>1, Ordered
  <2>2. Cardinality(Ahead(B, l)) < Cardinality(Ahead(B, q))
    <3> HIDE DEF B
    <3> QED
      BY <2>1, <1>1, FewerAhead
  <2>3. n - Cardinality(Ahead(B, q)) \in Counts
    BY <1>5
  <2> QED
    BY <2>2, <2>3, <1>5, <1>7, <1>8
<1> HIDE DEF P
<1>10. NextCursor(T, c, n) = CHOOSE r \in P : \A q \in P : q = r \/ Comes(q, r)
  BY DEF NextCursor, P
<1> QED
  BY <1>9, <1>10, <1>8 DEF P

\* A page has every row from the cursor it begins at to the one it ends at.
LEMMA PageCovers ==
    ASSUME NEW T \in SUBSET Rows, NEW c \in Cursors, NEW n \in Nat \ {0}, NEW r \in T,
           c = Start \/ Comes(c, r),
           HasMore(T, c, n) => r = NextCursor(T, c, n) \/ Comes(r, NextCursor(T, c, n))
    PROVE  r \in Page(T, c, n)
<1>1. r \in Behind(T, c)
  BY DEF Behind
<1>2. CASE ~HasMore(T, c, n)
  BY <1>1, <1>2 DEF HasMore
<1>3. CASE HasMore(T, c, n)
  BY <1>1, <1>3, NextIsLast, PageIsFirst
<1> QED
  BY <1>2, <1>3

\* What the reader of a table is answered.
LEMMA ReadAnswers ==
    ASSUME NEW c \in Cursors, table \in SUBSET Rows
    PROVE  /\ Read(c) \in Answers
           /\ Read(c).page \in SUBSET table
           /\ \A r \in Read(c).page : c = Start \/ Comes(c, r)
           /\ Read(c).more =>
                /\ Read(c).next \in Read(c).page
                /\ \A r \in Read(c).page : r = Read(c).next \/ Comes(r, Read(c).next)
           /\ \A r \in table :
                /\ c = Start \/ Comes(c, r)
                /\ Read(c).more => r = Read(c).next \/ Comes(r, Read(c).next)
                => r \in Read(c).page
<1> DEFINE P == Page(table, c, PageSize)
           M == HasMore(table, c, PageSize)
           N == NextCursor(table, c, PageSize)
<1>1. Read(c) = [page |-> P, next |-> N, more |-> M]
  BY DEF Read, Answer
<1>2. P \in SUBSET table /\ \A r \in P : c = Start \/ Comes(c, r)
  BY DEF Page, Behind
<1>3. M \in BOOLEAN
  BY DEF HasMore
<1>4. M => N \in P /\ \A q \in P : q = N \/ Comes(q, N)
  BY NextIsLast, PageSizeAssumption
<1>5. ~M => N = Start
  BY DEF NextCursor
<1>6. \A r \in table : (c = Start \/ Comes(c, r)) /\ (M => r = N \/ Comes(r, N)) => r \in P
  BY PageCovers, PageSizeAssumption
<1> HIDE DEF P, M, N
<1>7. N \in Cursors
  BY <1>2, <1>3, <1>4, <1>5 DEF Cursors
<1>8. Read(c) \in Answers
  BY <1>1, <1>2, <1>3, <1>7 DEF Answers
<1>9. Read(c).page = P /\ Read(c).next = N /\ Read(c).more = M
  BY <1>1
<1> QED
  BY <1>2, <1>4, <1>6, <1>8, <1>9

-----------------------------------------------------------------------------
(* The inductive invariant.                                                *)

\* A row that a traversal has gone past.
Passed(r) == from # Start /\ (r = from \/ Comes(r, from))

\* A traversal has exactly the rows that it has gone past, standing ones
\* among them; and all cursors it was given lie behind it.
Traversed ==
    status = "going" =>
        /\ \A r \in Rows : times[r] = 1 => Passed(r)
        /\ \A r \in standing : Passed(r) => times[r] = 1
        /\ \A c \in seen : Passed(c)

\* What is served has every row from where it begins to where it ends.
Served(a) ==
    /\ a.kind = "next" <=> a.of # Start
    /\ a.served =>
        /\ a.answer.more => a.answer.next \in Rows
        /\ \A r \in a.stood :
              /\ a.of = Start \/ Comes(a.of, r)
              /\ a.answer.more => r = a.answer.next \/ Comes(r, a.answer.next)
              => r \in a.answer.page

IInv ==
    /\ TypeOK
    /\ screen = NoScreen => standing \subseteq table
    /\ screen = NoScreen => ask = [s \in Slots |-> NoAsk]
    /\ screen # NoScreen => status = "going" /\ from = Start /\ seen = {}
    /\ Traversed
    /\ CollectsStanding
    /\ more => cursor \in Rows
    /\ \A s \in Slots : ask[s] # NoAsk => Served(ask[s])
    /\ ListsComplete

LEMMA InitIInv == Init => IInv
<1> SUFFICES ASSUME Init PROVE IInv
  OBVIOUS
<1> USE DEF Init, TraversalInit
<1>1. CASE standing = table /\ ScreenOff
  <2>1. TypeOK
    BY <1>1 DEF TypeOK, ScreenOff, Statuses, Cursors
  <2>2. Traversed /\ CollectsStanding
    BY DEF Traversed, CollectsStanding, Passed
  <2>3. ListsComplete
    BY <1>1 DEF ListsComplete, ScreenOff
  <2> QED
    BY <2>1, <2>2, <2>3, <1>1 DEF IInv, ScreenOff
<1>2. CASE standing = {} /\ ScreenInit
  <2>1. PICK s \in Slots :
            ask = [t \in Slots |-> IF t = s THEN Asked("refresh", Start) ELSE NoAsk]
    BY <1>2 DEF ScreenInit
  <2>2. Asked("refresh", Start) \in Asks /\ Served(Asked("refresh", Start))
    BY DEF Asked, Asks, Kinds, Cursors, Answers, Served
  <2>3. screen # NoScreen
    BY <1>2 DEF ScreenInit, Screens, NoScreen
  <2>4. TypeOK
    BY <1>2, <2>1, <2>2 DEF TypeOK, ScreenInit, Statuses, Cursors
  <2>5. Traversed /\ CollectsStanding
    BY DEF Traversed, CollectsStanding, Passed
  <2>6. ListsComplete
    BY <1>2 DEF ListsComplete
  <2> QED
    BY <2>1, <2>2, <2>3, <2>4, <2>5, <2>6, <1>2 DEF IInv, ScreenInit
<1> QED
  BY <1>1, <1>2

-----------------------------------------------------------------------------
(* The table changes.                                                      *)

LEMMA JoinsKeeps ==
    ASSUME IInv, NEW r \in Rows, Joins(r)
    PROVE  IInv'
<1> USE DEF IInv, Joins, collection, list
<1>1. TypeOK'
  BY DEF TypeOK
<1>2. Traversed' /\ CollectsStanding' /\ ListsComplete'
  BY DEF Traversed, CollectsStanding, ListsComplete, Passed
<1>3. \A s \in Slots : (ask[s] # NoAsk => Served(ask[s]))'
  BY DEF Served
<1> QED
  BY <1>1, <1>2, <1>3

LEMMA LeavesKeeps ==
    ASSUME IInv, NEW r \in Rows, Leaves(r)
    PROVE  IInv'
<1> USE DEF IInv, Leaves, collection, list
<1>1. \A s \in Slots : ask[s] # NoAsk =>
          /\ ask'[s] = [ask[s] EXCEPT !.stood = @ \ {r}]
          /\ ask'[s] \in Asks /\ Served(ask'[s])
  <2> TAKE s \in Slots
  <2> HAVE ask[s] # NoAsk
  <2>1. ask[s] \in Asks /\ ask'[s] = [ask[s] EXCEPT !.stood = @ \ {r}]
    BY DEF TypeOK
  <2>2. ask'[s] \in Asks
    BY <2>1 DEF Asks
  <2>3. Served(ask'[s])
    BY <2>1 DEF Asks, Served
  <2> QED
    BY <2>1, <2>2, <2>3
<1>2. \A s \in Slots : ask[s] = NoAsk => ask'[s] = NoAsk
  OBVIOUS
<1>3. ask' \in [Slots -> Asks \union {NoAsk}]
  BY <1>1, <1>2 DEF TypeOK
<1>4. TypeOK'
  BY <1>3 DEF TypeOK
<1>5. Traversed' /\ CollectsStanding' /\ ListsComplete'
  BY DEF Traversed, CollectsStanding, ListsComplete, Passed
<1>6. \A s \in Slots : (ask[s] # NoAsk => Served(ask[s]))'
  BY <1>1, <1>2
<1>7. (screen = NoScreen => ask = [s \in Slots |-> NoAsk])'
  OBVIOUS
<1> QED
  BY <1>4, <1>5, <1>6, <1>7

-----------------------------------------------------------------------------
(* The traversal.                                                          *)

LEMMA Collected ==
    ASSUME TypeOK, NEW page \in SUBSET Rows, Collect(page), NEW r \in Rows
    PROVE  /\ times'[r] = IF r \in page THEN times[r] + 1 ELSE times[r]
           /\ times' \in [Rows -> Nat]
  BY DEF TypeOK, Collect

LEMMA TraversalKeeps ==
    ASSUME IInv, screen = NoScreen, TraversalNext, UNCHANGED <<screen, list, raised, ask>>
    PROVE  IInv'
<1> DEFINE a == Read(from)
<1> USE DEF IInv, list
<1>0. /\ a \in Answers /\ a.page \in SUBSET table
      /\ \A r \in a.page : from = Start \/ Comes(from, r)
      /\ a.more => /\ a.next \in a.page
                   /\ \A r \in a.page : r = a.next \/ Comes(r, a.next)
      /\ \A r \in table : /\ from = Start \/ Comes(from, r)
                          /\ a.more => r = a.next \/ Comes(r, a.next)
                          => r \in a.page
  BY ReadAnswers DEF TypeOK
<1> HIDE DEF a
<1>a. a.page \in SUBSET Rows /\ standing \in SUBSET table /\ times \in [Rows -> Nat]
  BY <1>0 DEF TypeOK
<1>b. ASSUME standing' = standing, table' = table
      PROVE  ListsComplete' /\ \A s \in Slots : (ask[s] # NoAsk => Served(ask[s]))'
  BY <1>b DEF ListsComplete
<1>c. ASSUME status = "going", NEW r \in a.page PROVE times[r] = 0
  <2>1. ~Passed(r)
    BY <1>0, <1>a, Ordered DEF Passed, TypeOK, Cursors
  <2> QED
    BY <2>1, <1>a, <1>c DEF Traversed, CollectsStanding
<1>1. CASE LastPage
  <2> USE <1>1 DEF LastPage
  <2>1. ~a.more /\ Collect(a.page)
    BY DEF a
  <2>2. times' \in [Rows -> Nat] /\ \A r \in Rows : times'[r] =
            IF r \in a.page THEN times[r] + 1 ELSE times[r]
    BY <2>1, <1>a DEF Collect
  <2>3. TypeOK'
    BY <2>2 DEF TypeOK, Statuses
  <2>4. \A r \in Rows : times'[r] <= 1
    BY <2>2, <1>a, <1>c DEF CollectsStanding
  <2>5. \A r \in standing : times'[r] = 1
    <3> TAKE r \in standing
    <3>1. r \in table /\ r \in Rows
      BY <1>a, <1>0 DEF TypeOK
    <3>2. CASE Passed(r)
      <4>1. times[r] = 1
        BY <3>2 DEF Traversed
      <4> QED
        BY <4>1, <2>2, <2>4, <3>1, <1>c
    <3>3. CASE ~Passed(r)
      <4>1. from = Start \/ Comes(from, r)
        BY <3>3, <3>1, Ordered DEF Passed, TypeOK, Cursors
      <4>2. r \in a.page
        BY <4>1, <2>1, <1>0, <3>1
      <4> QED
        BY <4>2, <2>2, <1>c, <3>1
    <3> QED
      BY <3>2, <3>3
  <2>6. CollectsStanding' /\ Traversed'
    BY <2>4, <2>5 DEF CollectsStanding, Traversed
  <2> QED
    BY <2>3, <2>6, <1>b
<1>2. CASE AnotherPage
  <2> USE <1>2 DEF AnotherPage
  <2>1. a.more /\ Collect(a.page) /\ from' = a.next /\ seen' = seen \union {a.next}
        /\ status' = (IF a.next \in seen THEN "repeated" ELSE "going")
        /\ a.next \in a.page /\ a.next \in Rows
    BY <1>0, <1>a DEF a
  <2>2. times' \in [Rows -> Nat] /\ \A r \in Rows : times'[r] =
            IF r \in a.page THEN times[r] + 1 ELSE times[r]
    BY <2>1, <1>a DEF Collect
  <2>3. a.next \notin seen
    <3>1. ~Passed(a.next)
      BY <2>1, <1>0, Ordered DEF Passed, TypeOK, Cursors
    <3> QED
      BY <3>1 DEF Traversed
  <2>4. TypeOK'
    BY <2>1, <2>2 DEF TypeOK, Statuses, Cursors
  <2>5. \A r \in Rows : times'[r] <= 1
    BY <2>2, <1>a, <1>c DEF CollectsStanding
  <2>6. \A r \in Rows : Passed(r) => Passed(r)'
    <3> TAKE r \in Rows
    <3> HAVE Passed(r)
    <3>1. from \in Rows /\ Comes(from, a.next)
      BY <1>0, <2>1 DEF Passed, TypeOK, Cursors
    <3> QED
      BY <3>1, <2>1, Ordered, StartAssumption DEF Passed
  <2>7. \A r \in a.page : Passed(r)'
    BY <1>0, <2>1, StartAssumption DEF Passed
  <2>8. \A r \in Rows : times'[r] = 1 => Passed(r)'
    BY <2>2, <2>6, <2>7 DEF Traversed
  <2>9. \A r \in standing : Passed(r)' => times'[r] = 1
    <3> SUFFICES ASSUME NEW r \in standing, Passed(r)' PROVE times'[r] = 1
      OBVIOUS
    <3>1. r \in table /\ r \in Rows
      BY <1>a, <1>0 DEF TypeOK
    <3>2. CASE Passed(r)
      <4>1. times[r] = 1
        BY <3>2 DEF Traversed
      <4> QED
        BY <4>1, <2>2, <3>1, <1>c
    <3>3. CASE ~Passed(r)
      <4>1. from = Start \/ Comes(from, r)
        BY <3>3, <3>1, Ordered DEF Passed, TypeOK, Cursors
      <4>2. r \in a.page
        BY <4>1, <2>1, <1>0, <3>1 DEF Passed
      <4> QED
        BY <4>2, <2>2, <1>c, <3>1
    <3> QED
      BY <3>2, <3>3
  <2>10. \A c \in seen' : Passed(c)'
    BY <2>1, <2>6, <2>7 DEF Traversed, TypeOK
  <2>11. CollectsStanding' /\ Traversed'
    BY <2>1, <2>3, <2>5, <2>8, <2>9, <2>10 DEF CollectsStanding, Traversed
  <2> QED
    BY <2>4, <2>11, <1>b
<1>3. CASE TooManyPages \/ ReadFails
  <2> USE <1>3 DEF TooManyPages, ReadFails
  <2>1. TypeOK'
    BY DEF TypeOK, Statuses
  <2>2. CollectsStanding' /\ Traversed'
    BY DEF CollectsStanding, Traversed
  <2> QED
    BY <2>1, <2>2, <1>b
<1> QED
  BY <1>1, <1>2, <1>3 DEF TraversalNext

-----------------------------------------------------------------------------
(* The lists.                                                              *)

LEMMA FlagsTyped == \A kind \in Kinds : Flags(kind) \in SUBSET {"busy", "paging"}
  BY DEF Flags, Kinds

\* A step that ends no request and shows nothing new keeps what is shown true.
LEMMA ListUnchanged ==
    ASSUME IInv, screen # NoScreen, UNCHANGED <<table, standing, collection, screen, list>>,
           ask' \in [Slots -> Asks \union {NoAsk}],
           raised' \in SUBSET {"busy", "paging"},
           \A s \in Slots : ask'[s] # NoAsk => Served(ask'[s])
    PROVE  IInv'
<1> USE DEF IInv, collection, list
<1>1. TypeOK'
  BY DEF TypeOK
<1>2. Traversed' /\ CollectsStanding' /\ ListsComplete'
  BY DEF Traversed, CollectsStanding, ListsComplete, Passed
<1>3. \A s \in Slots : (ask[s] # NoAsk => Served(ask[s]))'
  BY DEF Served
<1> QED
  BY <1>1, <1>2, <1>3

LEMMA RequestKeeps ==
    ASSUME IInv, screen # NoScreen, UNCHANGED collection, NEW s \in Slots,
           NEW kind \in Kinds, NEW of \in Cursors, kind = "next" <=> of # Start,
           Request(s, kind, of)
    PROVE  IInv'
<1>1. Asked(kind, of) \in Asks /\ Served(Asked(kind, of))
  BY DEF Asked, Asks, Answers, Cursors, Served
<1>2. /\ ask' \in [Slots -> Asks \union {NoAsk}]
      /\ \A t \in Slots : ask'[t] # NoAsk => Served(ask'[t])
  BY <1>1 DEF Request, IInv, TypeOK
<1>3. raised' \in SUBSET {"busy", "paging"}
  BY FlagsTyped DEF Request, IInv, TypeOK
<1> QED
  BY <1>2, <1>3, ListUnchanged DEF Request

LEMMA ServeKeeps ==
    ASSUME IInv, screen # NoScreen, UNCHANGED collection, NEW s \in Slots, Serve(s)
    PROVE  IInv'
<1> DEFINE a == Read(ask[s].of)
<1>1. ask[s] \in Asks /\ ask[s].of \in Cursors /\ Served(ask[s])
  BY DEF Serve, IInv, TypeOK, Asks
<1>2. /\ a \in Answers /\ a.page \in SUBSET table
      /\ a.more => a.next \in a.page
      /\ \A r \in table : /\ ask[s].of = Start \/ Comes(ask[s].of, r)
                          /\ a.more => r = a.next \/ Comes(r, a.next)
                          => r \in a.page
  BY <1>1, ReadAnswers DEF IInv, TypeOK
<1>3. ask'[s] = [ask[s] EXCEPT !.served = TRUE, !.stood = table, !.answer = a]
  BY DEF Serve, IInv, TypeOK
<1> HIDE DEF a
<1>4. ask'[s] \in Asks
  BY <1>1, <1>2, <1>3 DEF Asks, IInv, TypeOK
<1>5. Served(ask'[s])
  BY <1>1, <1>2, <1>3 DEF Served, Asks, IInv, TypeOK
<1>6. \A t \in Slots : t # s => ask'[t] = ask[t]
  BY DEF Serve, IInv, TypeOK
<1>7. /\ ask' \in [Slots -> Asks \union {NoAsk}]
      /\ \A t \in Slots : ask'[t] # NoAsk => Served(ask'[t])
  <2>1. ask' = [ask EXCEPT ![s] = ask'[s]]
    BY DEF Serve, IInv, TypeOK
  <2> QED
    BY <2>1, <1>4, <1>5, <1>6 DEF IInv, TypeOK
<1> QED
  BY <1>7, ListUnchanged DEF Serve, IInv, TypeOK

\* What the end of a request leaves to be shown.
LEMMA EndKeeps ==
    ASSUME IInv, screen # NoScreen, UNCHANGED collection, NEW s \in Slots, ask[s] # NoAsk,
           Ends(s), standing' \in SUBSET Rows, shown' \in SUBSET Rows, cursor' \in Cursors,
           more' \in BOOLEAN, error' \in BOOLEAN, torn' \in BOOLEAN,
           more' => cursor' \in Rows, ListsComplete'
    PROVE  IInv'
<1> USE DEF IInv, collection
<1>1. /\ ask' \in [Slots -> Asks \union {NoAsk}]
      /\ \A t \in Slots : ask'[t] # NoAsk => Served(ask'[t])
  BY DEF Ends, TypeOK
<1>2. ask[s].kind \in Kinds
  BY DEF TypeOK, Asks
<1>3. raised' \in SUBSET {"busy", "paging"}
  BY DEF Ends, TypeOK
<1>4. TypeOK'
  BY <1>1, <1>3 DEF TypeOK, Ends
<1>5. Traversed' /\ CollectsStanding'
  BY DEF Traversed, CollectsStanding, Passed
<1>6. \A t \in Slots : (ask[t] # NoAsk => Served(ask[t]))'
  BY <1>1 DEF Served
<1> QED
  BY <1>4, <1>5, <1>6 DEF Ends

\* What an answer in flight is known to be.
LEMMA AnswerKnown ==
    ASSUME IInv, NEW s \in Slots, Answered(s)
    PROVE  /\ ask[s] \in Asks
           /\ ask[s].answer.page \in SUBSET Rows /\ ask[s].answer.next \in Cursors
           /\ ask[s].answer.more \in BOOLEAN /\ ask[s].stood \in SUBSET Rows
           /\ ask[s].of \in Cursors
           /\ ask[s].kind = "next" <=> ask[s].of # Start
           /\ ask[s].answer.more => ask[s].answer.next \in Rows
           /\ \A r \in ask[s].stood :
                 /\ ask[s].of = Start \/ Comes(ask[s].of, r)
                 /\ ask[s].answer.more => r = ask[s].answer.next \/ Comes(r, ask[s].answer.next)
                 => r \in ask[s].answer.page
<1>1. ask[s] \in Asks /\ ask[s].served /\ Served(ask[s])
  BY DEF IInv, TypeOK, Answered
<1> QED
  BY <1>1 DEF Asks, Answers, Served

LEMMA ShowFirstKeeps ==
    ASSUME IInv, screen # NoScreen, UNCHANGED collection, NEW s \in Slots, ShowFirst(s)
    PROVE  IInv'
<1>1. Answered(s) /\ Ends(s) /\ ask[s] # NoAsk /\ screen' = screen
  BY DEF ShowFirst, Answered, Ends
<1>2. /\ standing' = ask[s].stood /\ shown' = ask[s].answer.page
      /\ cursor' = ask[s].answer.next /\ more' = ask[s].answer.more
      /\ error' = FALSE /\ torn' = FALSE /\ ask[s].of = Start
  BY <1>1, AnswerKnown DEF ShowFirst, Positions
<1>3. ListsComplete'
  BY <1>1, <1>2, AnswerKnown DEF ListsComplete
<1> QED
  BY <1>1, <1>2, <1>3, AnswerKnown, EndKeeps

LEMMA ShowMoreKeeps ==
    ASSUME IInv, screen # NoScreen, UNCHANGED collection, NEW s \in Slots, ShowMore(s)
    PROVE  IInv'
<1> DEFINE a == ask[s].answer
           of == ask[s].of
<1>1. Answered(s) /\ Ends(s) /\ ask[s] # NoAsk /\ screen' = screen
  BY DEF ShowMore, Answered, Ends
<1>2. /\ a.page \in SUBSET Rows /\ a.next \in Cursors /\ a.more \in BOOLEAN
      /\ ask[s].stood \in SUBSET Rows /\ of \in Rows
      /\ a.more => a.next \in Rows
      /\ \A r \in ask[s].stood :
            /\ Comes(of, r)
            /\ a.more => r = a.next \/ Comes(r, a.next)
            => r \in a.page
  BY <1>1, AnswerKnown DEF ShowMore, Cursors
<1>3. /\ standing' = standing \intersect ask[s].stood /\ shown' = shown \union a.page
      /\ cursor' = a.next /\ more' = a.more /\ error' = FALSE
      /\ torn' = (torn \/ (more /\ Comes(cursor, of)))
  BY DEF ShowMore, Positions, Grown, Beyond
<1>4. torn' \in BOOLEAN /\ shown' \in SUBSET Rows /\ standing' \in SUBSET Rows
  BY <1>2, <1>3 DEF IInv, TypeOK
<1> HIDE DEF a, of
<1>5. ListsComplete'
  <2> SUFFICES ASSUME ~torn', NEW r \in standing', more' => r = cursor' \/ Comes(r, cursor')
               PROVE  r \in shown'
    BY DEF ListsComplete
  <2>1. ~torn /\ ~(more /\ Comes(cursor, of)) /\ r \in standing /\ r \in ask[s].stood /\ r \in Rows
    BY <1>3, <1>4
  <2>2. CASE Comes(of, r)
    BY <2>1, <2>2, <1>2, <1>3
  <2>3. CASE ~Comes(of, r)
    <3>1. r = of \/ Comes(r, of)
      BY <2>1, <2>3, <1>2, Ordered
    <3>2. more => r = cursor \/ Comes(r, cursor)
      <4> HAVE more
      <4>1. cursor \in Rows
        BY DEF IInv
      <4>2. of = cursor \/ Comes(of, cursor)
        BY <4>1, <2>1, <1>2, Ordered
      <4> QED
        BY <4>1, <4>2, <3>1, <2>1, <1>2, Ordered
    <3> QED
      BY <3>2, <2>1, <1>3 DEF IInv, ListsComplete
  <2> QED
    BY <2>2, <2>3
<1> QED
  BY <1>1, <1>2, <1>3, <1>4, <1>5, EndKeeps

LEMMA FailureKeeps ==
    ASSUME IInv, screen # NoScreen, UNCHANGED collection, NEW s \in Slots,
           RefreshFails(s) \/ NextFails(s)
    PROVE  IInv'
<1>1. CASE RefreshFails(s)
  <2>1. /\ torn' = TRUE /\ shown' = {} /\ standing' = standing /\ error' \in BOOLEAN
        /\ Ends(s) /\ ask[s] # NoAsk
    BY <1>1 DEF RefreshFails
  <2>2. /\ cursor' \in Cursors /\ more' \in BOOLEAN
        /\ more' => cursor' \in Rows
    BY <1>1 DEF RefreshFails, IInv, TypeOK, Cursors
  <2>3. ListsComplete'
    BY <2>1 DEF ListsComplete
  <2> QED
    BY <2>1, <2>2, <2>3, EndKeeps DEF IInv, TypeOK
<1>2. CASE NextFails(s)
  <2>1. UNCHANGED <<standing, list>> /\ Ends(s) /\ ask[s] # NoAsk /\ screen' = screen
    BY <1>2 DEF NextFails, Ends
  <2>2. ListsComplete'
    BY <2>1 DEF IInv, ListsComplete, list
  <2> QED
    BY <2>1, <2>2, EndKeeps DEF IInv, TypeOK, list
<1> QED
  BY <1>1, <1>2

LEMMA ScreenKeeps ==
    ASSUME IInv, screen # NoScreen, ScreenNext, UNCHANGED collection
    PROVE  IInv'
<1>1. ASSUME NEW s \in Slots, Refresh(s) PROVE IInv'
  BY <1>1, RequestKeeps DEF Refresh, Kinds, Cursors
<1>2. ASSUME NEW s \in Slots, Submitted(s) PROVE IInv'
  BY <1>2, RequestKeeps DEF Submitted, Kinds, Cursors
<1>3. ASSUME NEW s \in Slots, LoadMore(s) PROVE IInv'
  <2>1. cursor \in Cursors /\ cursor # Start
    BY <1>3 DEF LoadMore, IInv, TypeOK
  <2> QED
    BY <2>1, <1>3, RequestKeeps DEF LoadMore, Kinds
<1> QED
  BY <1>1, <1>2, <1>3, ServeKeeps, ShowFirstKeeps, ShowMoreKeeps, FailureKeeps DEF ScreenNext

-----------------------------------------------------------------------------

LEMMA NextIInv == IInv /\ [Next]_vars => IInv'
<1> SUFFICES ASSUME IInv, [Next]_vars PROVE IInv'
  OBVIOUS
<1>1. CASE UNCHANGED vars
  BY <1>1 DEF vars, collection, list, IInv, TypeOK, Traversed, Passed, CollectsStanding,
              ListsComplete, Served
<1>2. ASSUME NEW r \in Rows, Joins(r) \/ Leaves(r) PROVE IInv'
  BY <1>2, JoinsKeeps, LeavesKeeps
<1>3. CASE screen = NoScreen /\ TraversalNext /\ UNCHANGED <<screen, list, raised, ask>>
  BY <1>3, TraversalKeeps
<1>4. CASE screen # NoScreen /\ ScreenNext /\ UNCHANGED collection
  BY <1>4, ScreenKeeps
<1> QED
  BY <1>1, <1>2, <1>3, <1>4 DEF Next

LEMMA Invariance == Spec => []IInv
  BY InitIInv, NextIInv, PTL DEF Spec

\* Table, traversal and list keep to their domains.
THEOREM TypeCorrect == Spec => []TypeOK
<1>1. IInv => TypeOK
  BY DEF IInv
<1> QED
  BY <1>1, Invariance, PTL

\* A traversal collects each row that stands all the while, once, and none
\* twice; a cursor never comes again (paginationTraversal.ts:21-57).
THEOREM TraversalCollects == Spec => []CollectsStanding
<1>1. IInv => CollectsStanding
  BY DEF IInv
<1> QED
  BY <1>1, Invariance, PTL

\* As far as a list claims to go it shows all that stands, unless a refresh
\* failed or a page came for a longer list (BankingTaskWorkspace.tsx:51-115,
\* work/cases/page.tsx:59-74, reviews/page.tsx:22-50).
THEOREM ListsShowAll == Spec => []ListsComplete
<1>1. IInv => ListsComplete
  BY DEF IInv
<1> QED
  BY <1>1, Invariance, PTL
-----------------------------------------------------------------------------
(* The slice of the sorted rows.                                           *)

InOrder(rows) == \A i, j \in DOMAIN rows : i < j => Comes(rows[i], rows[j])

\* Rows can be put into order: a smallest set that cannot be has a first row,
\* and what is behind it can be.
LEMMA OrderExists ==
    ASSUME NEW T \in SUBSET Rows
    PROVE  /\ Cardinality(T) \in Nat
           /\ \E rows \in [1 .. Cardinality(T) -> T] : InOrder(rows)
<1> DEFINE Can(X) == \E rows \in [1 .. Cardinality(X) -> X] : InOrder(rows)
           Sizes == {k \in Nat : \E X \in SUBSET Rows : k = Cardinality(X) /\ ~Can(X)}
<1>1. \A X \in SUBSET Rows : IsFiniteSet(X) /\ Cardinality(X) \in Nat
  BY RowsAssumption, FS_Subset, FS_CardinalityType
<1>2. Sizes = {}
  <2> SUFFICES ASSUME Sizes # {} PROVE FALSE
    OBVIOUS
  <2>1. PICK k \in Sizes : \A m \in Sizes : k <= m
    <3>1. Sizes \in SUBSET Nat
      OBVIOUS
    <3> HIDE DEF Sizes
    <3> QED BY <3>1, LeastNatural
  <2>2. PICK X \in SUBSET Rows : k = Cardinality(X) /\ ~Can(X)
    BY <2>1
  <2>3. X # {}
    <3> SUFFICES ASSUME X = {} PROVE FALSE
      OBVIOUS
    <3>1. Cardinality(X) = 0
      BY FS_EmptySet
    <3> DEFINE rows == [i \in 1 .. 0 |-> Start]
    <3>2. rows \in [1 .. Cardinality(X) -> X] /\ InOrder(rows)
      BY <3>1 DEF InOrder
    <3> QED BY <3>2, <2>2
  <2>4. PICK f \in X : Cardinality(Ahead(X, f)) = 0
    BY <2>3, FirstRow
  <2>5. \A q \in X \ {f} : Comes(f, q)
    <3>1. IsFiniteSet(Ahead(X, f))
      BY <1>1 DEF Ahead
    <3>2. Ahead(X, f) = {}
      BY <2>4, <3>1, FS_EmptySet
    <3> QED BY <3>2, Ordered DEF Ahead
  <2>6. Cardinality(X \ {f}) \in Nat /\ Cardinality(X \ {f}) + 1 = k
    BY <1>1, <2>2, FS_RemoveElement
  <2>7. Can(X \ {f})
    <3>1. Cardinality(X \ {f}) \notin Sizes
      <4>1. k \in Nat
        BY <1>1, <2>2
      <4> HIDE DEF Sizes
      <4> QED BY <4>1, <2>1, <2>6
    <3>2. X \ {f} \in SUBSET Rows
      OBVIOUS
    <3> HIDE DEF Can
    <3> QED BY <3>1, <3>2, <2>6
  <2>8a. Cardinality(X \ {f}) = k - 1
    <3>1. k \in Nat
      BY <1>1, <2>2
    <3> HIDE DEF Sizes
    <3> QED BY <2>6, <3>1
  <2>8. PICK g \in [1 .. k - 1 -> X \ {f}] : InOrder(g)
    BY <2>7, <2>8a
  <2> DEFINE rows == [i \in 1 .. k |-> IF i = 1 THEN f ELSE g[i - 1]]
  <2>9. rows \in [1 .. k -> X]
    BY <2>6, <2>8
  <2>10. ASSUME NEW i \in 1 .. k, NEW j \in 1 .. k, i < j PROVE Comes(rows[i], rows[j])
    <3>1. j # 1 /\ j - 1 \in 1 .. k - 1 /\ g[j - 1] \in X \ {f}
      BY <2>6, <2>8, <2>10
    <3>2. CASE i = 1
      BY <3>1, <3>2, <2>5
    <3>3. CASE i # 1
      <4>1. i - 1 \in 1 .. k - 1 /\ i - 1 < j - 1
        BY <2>6, <2>10, <3>3
      <4> QED BY <3>1, <3>3, <4>1, <2>8 DEF InOrder
    <3> QED BY <3>2, <3>3
  <2>11. InOrder(rows)
    BY <2>9, <2>10 DEF InOrder
  <2> QED BY <2>2, <2>9, <2>11
<1>3. Can(T)
  <2> HIDE DEF Can
  <2> QED BY <1>1, <1>2
<1> QED BY <1>1, <1>3

\* The sorted rows are those of the table, each once.
LEMMA SortedRows ==
    ASSUME NEW T \in SUBSET Rows
    PROVE  /\ Cardinality(T) \in Nat
           /\ Sorted(T) \in [1 .. Cardinality(T) -> T]
           /\ InOrder(Sorted(T))
           /\ \A i, j \in 1 .. Cardinality(T) : Comes(Sorted(T)[i], Sorted(T)[j]) <=> i < j
           /\ \A r \in T : \E i \in 1 .. Cardinality(T) : r = Sorted(T)[i]
<1> DEFINE n == Cardinality(T)
           rows == Sorted(T)
<1>1. n \in Nat /\ rows \in [1 .. n -> T] /\ InOrder(rows)
  BY OrderExists DEF Sorted, InOrder
<1> HIDE DEF rows
<1>2. \A i, j \in 1 .. n : Comes(rows[i], rows[j]) <=> i < j
  <2> TAKE i, j \in 1 .. n
  <2>1. rows[i] \in Rows /\ rows[j] \in Rows
    BY <1>1
  <2>2. i < j => Comes(rows[i], rows[j])
    BY <1>1 DEF InOrder
  <2>3. j < i => Comes(rows[j], rows[i])
    BY <1>1 DEF InOrder
  <2> QED BY <1>1, <2>1, <2>2, <2>3, Ordered
<1>3. rows \in Injection(1 .. n, T)
  <2>1. \A i, j \in 1 .. n : rows[i] = rows[j] => i = j
    <3> TAKE i, j \in 1 .. n
    <3>1. rows[i] \in Rows
      BY <1>1
    <3> QED BY <1>1, <1>2, <3>1, Ordered
  <2> QED BY <1>1, <2>1, Fun_IsInj
<1>4. rows \in Surjection(1 .. n, T)
  <2>1. IsFiniteSet(T)
    BY RowsAssumption, FS_Subset
  <2>2. Cardinality(1 .. n) = n
    BY <1>1, FS_Interval
  <2> HIDE DEF n
  <2>3. Cardinality(T) = n
    BY DEF n
  <2> QED BY <1>3, <2>1, <2>2, <2>3, FS_Injection
<1>5. \A r \in T : \E i \in 1 .. n : r = rows[i]
  <2>1. \A r \in T : \E i \in 1 .. n : rows[i] = r
    <3> HIDE DEF n
    <3> QED BY <1>4 DEF Surjection
  <2> QED BY <2>1
<1> QED BY <1>1, <1>2, <1>5 DEF rows

\* The cursor's row is found where it is.
LEMMA ExactFinds ==
    ASSUME NEW T \in SUBSET Rows, NEW c \in Rows
    PROVE  /\ c \in T => /\ ExactIndex(Sorted(T), c) \in 1 .. Cardinality(T)
                         /\ Sorted(T)[ExactIndex(Sorted(T), c)] = c
           /\ c \notin T => ExactIndex(Sorted(T), c) = 0
<1> DEFINE N == Cardinality(T)
           rows == Sorted(T)
           Is(i) == rows[i].id = c.id
           Found == {i \in 1 .. N : Is(i)}
<1>1. N \in Nat /\ rows \in [1 .. N -> T] /\ DOMAIN rows = 1 .. N
  BY SortedRows
<1>2. \A i, j \in 1 .. N : Comes(rows[i], rows[j]) <=> i < j
  BY SortedRows
<1>3. \A r \in T : \E i \in 1 .. N : r = rows[i]
  BY SortedRows
<1>4. ExactIndex(rows, c) = IF Found = {} THEN 0 ELSE CHOOSE i \in Found : \A j \in Found : i <= j
  BY <1>1 DEF ExactIndex, FirstIndex, Min
<1> HIDE DEF N, rows
<1>5. \A i \in 1 .. N : Is(i) <=> rows[i] = c
  BY <1>1, RowsAssumption
<1>6. CASE c \in T
  <2>1. PICK i \in 1 .. N : rows[i] = c
    BY <1>3, <1>6
  <2>2. \A j \in 1 .. i - 1 : ~Is(j)
    <3> TAKE j \in 1 .. i - 1
    <3>1. j \in 1 .. N /\ j < i
      BY <1>1
    <3>2. Comes(rows[j], rows[i])
      BY <1>2, <3>1
    <3>3. rows[j] # c
      BY <2>1, <3>2, Ordered
    <3> QED BY <1>5, <3>1, <3>3
  <2> HIDE DEF Is
  <2>3. ExactIndex(rows, c) \in 1 .. N /\ Is(ExactIndex(rows, c))
    BY <1>1, <1>4, <1>5, <2>1, <2>2
  <2> QED BY <1>5, <1>6, <2>3 DEF N, rows
<1>7. CASE c \notin T
  <2>1. \A i \in 1 .. N : ~Is(i)
    BY <1>1, <1>5, <1>7
  <2> HIDE DEF Is
  <2> QED BY <1>1, <1>4, <1>7, <2>1 DEF N, rows
<1> QED BY <1>6, <1>7

\* The first row behind the cursor is found, if there is any.
LEMMA LaterFinds ==
    ASSUME NEW T \in SUBSET Rows, NEW c \in Rows
    PROVE  \/ /\ LaterIndex(Sorted(T), c) = 0
              /\ \A i \in 1 .. Cardinality(T) : ~Comes(c, Sorted(T)[i])
           \/ /\ LaterIndex(Sorted(T), c) \in 1 .. Cardinality(T)
              /\ Comes(c, Sorted(T)[LaterIndex(Sorted(T), c)])
              /\ \A j \in 1 .. LaterIndex(Sorted(T), c) - 1 : ~Comes(c, Sorted(T)[j])
<1> DEFINE N == Cardinality(T)
           rows == Sorted(T)
           Is(i) == Comes(c, rows[i])
           Found == {i \in 1 .. N : Is(i)}
<1>1. N \in Nat /\ rows \in [1 .. N -> T] /\ DOMAIN rows = 1 .. N
  BY SortedRows
<1>2. LaterIndex(rows, c) = IF Found = {} THEN 0 ELSE CHOOSE i \in Found : \A j \in Found : i <= j
  BY <1>1 DEF LaterIndex, FirstIndex, Min
<1> HIDE DEF N, rows, Is
<1>3. CASE Found = {}
  <2>1. \A i \in 1 .. N : ~Is(i)
    BY <1>3
  <2>2. LaterIndex(rows, c) = 0
    BY <1>1, <1>2, <2>1
  <2> QED BY <2>1, <2>2 DEF N, rows, Is
<1>4. CASE Found # {}
  <2>1. PICK i \in Found : \A m \in Found : i <= m
    <3>1. Found \in SUBSET Nat
      OBVIOUS
    <3> HIDE DEF Found
    <3> QED BY <1>4, <3>1, LeastNatural
  <2>2. i \in DOMAIN rows /\ Is(i) /\ \A j \in 1 .. i - 1 : ~Is(j)
    <3>1. i \in 1 .. N /\ Is(i)
      OBVIOUS
    <3>2. ASSUME NEW j \in 1 .. i - 1, Is(j) PROVE FALSE
      <4>1. j \in 1 .. N /\ j < i
        BY <1>1, <3>1
      <4>2. j \in Found
        BY <3>2, <4>1
      <4> QED BY <2>1, <4>1, <4>2
    <3> QED BY <1>1, <3>1, <3>2
  <2>3. /\ LaterIndex(rows, c) \in DOMAIN rows /\ Is(LaterIndex(rows, c))
        /\ \A j \in 1 .. LaterIndex(rows, c) - 1 : ~Is(j)
    BY <1>2, <2>2
  <2> QED BY <1>1, <2>3 DEF N, rows, Is
<1> QED BY <1>3, <1>4

\* The rows from the start index on are those behind the cursor.
LEMMA StartsBehind ==
    ASSUME NEW T \in SUBSET Rows, NEW c \in Cursors
    PROVE  /\ StartIndex(Sorted(T), c) \in 0 .. Cardinality(T)
           /\ \A k \in 1 .. Cardinality(T) :
                 Sorted(T)[k] \in Behind(T, c) <=> StartIndex(Sorted(T), c) < k
<1> DEFINE N == Cardinality(T)
           rows == Sorted(T)
           e == ExactIndex(rows, c)
           l == LaterIndex(rows, c)
           s == StartIndex(rows, c)
<1>1. N \in Nat /\ rows \in [1 .. N -> T]
  BY SortedRows
<1>2. \A i, j \in 1 .. N : Comes(rows[i], rows[j]) <=> i < j
  BY SortedRows
<1>3. Len(rows) = N
  <2> HIDE DEF N, rows
  <2> QED BY <1>1
<1>4. s = CASE c = Start -> 0
            [] c # Start /\ e # 0 -> e
            [] c # Start /\ e = 0 /\ l # 0 -> l - 1
            [] OTHER -> Len(rows)
  BY DEF StartIndex
<1>5. c # Start => c \in Rows
  BY DEF Cursors
<1>6. c # Start => /\ c \in T => e \in 1 .. N /\ rows[e] = c
                   /\ c \notin T => e = 0
  BY <1>5, ExactFinds
<1>7. c # Start => \/ l = 0 /\ \A i \in 1 .. N : ~Comes(c, rows[i])
                   \/ l \in 1 .. N /\ Comes(c, rows[l]) /\ \A j \in 1 .. l - 1 : ~Comes(c, rows[j])
  BY <1>5, LaterFinds
<1> HIDE DEF N, rows, e, l, s
<1>8. \A k \in 1 .. N : rows[k] \in Behind(T, c) <=> c = Start \/ Comes(c, rows[k])
  BY <1>1 DEF Behind
<1>9. s \in 0 .. N /\ \A k \in 1 .. N : rows[k] \in Behind(T, c) <=> s < k
  <2>1. CASE c = Start
    BY <2>1, <1>1, <1>4, <1>8
  <2>2. CASE c # Start /\ c \in T
    <3>1. s = e
      BY <2>2, <1>4, <1>6
    <3> QED BY <3>1, <2>2, <1>1, <1>2, <1>6, <1>8
  <2>3. CASE c # Start /\ c \notin T /\ l = 0
    <3>1. s = N
      BY <2>3, <1>3, <1>4, <1>6
    <3> QED BY <3>1, <2>3, <1>1, <1>7, <1>8
  <2>4. CASE c # Start /\ c \notin T /\ l # 0
    <3>1. s = l - 1 /\ l \in 1 .. N
      BY <2>4, <1>4, <1>6, <1>7
    <3>2. ASSUME NEW k \in 1 .. N PROVE Comes(c, rows[k]) <=> l <= k
      <4>1. k < l => ~Comes(c, rows[k])
        BY <3>1, <2>4, <1>1, <1>7
      <4>2. l < k => Comes(rows[l], rows[k])
        BY <3>1, <1>2
      <4>3. Comes(c, rows[l]) /\ rows[l] \in Rows /\ rows[k] \in Rows
        BY <2>4, <3>1, <1>1, <1>7
      <4>4. l < k => Comes(c, rows[k])
        BY <2>4, <4>2, <4>3, <1>5, Ordered
      <4> QED BY <3>1, <1>1, <4>1, <4>3, <4>4
    <3> QED BY <2>4, <3>1, <3>2, <1>1, <1>8
  <2> QED BY <2>1, <2>2, <2>3, <2>4
<1> QED BY <1>9 DEF N, rows, s

\* A page is the rows from there to its length.
LEMMA PagePlaces ==
    ASSUME NEW T \in SUBSET Rows, NEW c \in Cursors, NEW n \in Nat \ {0},
           NEW k \in 1 .. Cardinality(T)
    PROVE  LET s == StartIndex(Sorted(T), c) IN
           Sorted(T)[k] \in Page(T, c, n) <=> s < k /\ k <= s + n
<1> DEFINE N == Cardinality(T)
           rows == Sorted(T)
           s == StartIndex(rows, c)
           B == Behind(T, c)
           A == Ahead(B, rows[k])
           row == [j \in s + 1 .. k - 1 |-> rows[j]]
<1>1. N \in Nat /\ rows \in [1 .. N -> T] /\ k \in 1 .. N
  BY SortedRows
<1>2. \A i, j \in 1 .. N : Comes(rows[i], rows[j]) <=> i < j
  BY SortedRows
<1>3. \A r \in T : \E i \in 1 .. N : r = rows[i]
  BY SortedRows
<1>4. s \in 0 .. N /\ \A i \in 1 .. N : rows[i] \in B <=> s < i
  BY StartsBehind
<1>5. B \in SUBSET T
  BY DEF Behind
<1>6. rows[k] \in Page(T, c, n) <=> rows[k] \in B /\ Cardinality(A) < n
  BY DEF Page
<1> HIDE DEF N, rows, s, B
<1>7. \A j \in s + 1 .. k - 1 : j \in 1 .. N /\ s < j /\ j < k
  BY <1>1, <1>4
<1>8. row \in Bijection(s + 1 .. k - 1, A)
  <2>1. row \in [s + 1 .. k - 1 -> A]
    BY <1>1, <1>2, <1>4, <1>7 DEF Ahead
  <2>2. \A i, j \in s + 1 .. k - 1 : row[i] = row[j] => i = j
    <3> TAKE i, j \in s + 1 .. k - 1
    <3>1. i \in 1 .. N /\ j \in 1 .. N /\ rows[i] \in Rows
      BY <1>1, <1>7
    <3> QED BY <3>1, <1>2, Ordered
  <2>3. \A r \in A : \E j \in s + 1 .. k - 1 : row[j] = r
    <3> TAKE r \in A
    <3>1. r \in B /\ Comes(r, rows[k])
      BY DEF Ahead
    <3>2. PICK j \in 1 .. N : r = rows[j]
      BY <3>1, <1>3, <1>5
    <3>3. s < j /\ j < k
      BY <3>1, <3>2, <1>1, <1>2, <1>4
    <3>4. j \in s + 1 .. k - 1
      BY <3>3, <1>1, <1>4
    <3> QED BY <3>2, <3>4
  <2> HIDE DEF row, A
  <2> QED BY <2>1, <2>2, <2>3, Fun_IsBij
<1>9. s < k => Cardinality(A) = k - 1 - s
  <2>1. /\ IsFiniteSet(s + 1 .. k - 1)
        /\ Cardinality(s + 1 .. k - 1) = IF s + 1 > k - 1 THEN 0 ELSE k - 1 - (s + 1) + 1
    BY <1>1, <1>4, FS_Interval
  <2>2. Cardinality(A) = Cardinality(s + 1 .. k - 1)
    <3>1. ExistsBijection(s + 1 .. k - 1, A)
      BY <1>8 DEF ExistsBijection
    <3> HIDE DEF A
    <3> QED BY <2>1, <3>1, FS_Bijection
  <2> HIDE DEF A
  <2> QED BY <2>1, <2>2, <1>1, <1>4
<1> HIDE DEF A
<1>10. rows[k] \in Page(T, c, n) <=> s < k /\ k <= s + n
  BY <1>1, <1>4, <1>6, <1>9
<1> QED BY <1>10 DEF rows, s

\* An answer is the slice of the sorted rows.
LEMMA AnswerIsSlice ==
    ASSUME NEW T \in SUBSET Rows, NEW c \in Cursors, NEW n \in Nat \ {0}
    PROVE  Answer(T, c, n) = Slice(Sorted(T), c, n)
<1> DEFINE N == Cardinality(T)
           rows == Sorted(T)
           s == StartIndex(rows, c)
           m == Min({s + n, Len(rows)})
           items == SubSeq(rows, s + 1, m)
           rest == s + Len(items) < Len(rows)
           P == Page(T, c, n)
           B == Behind(T, c)
<1>1. N \in Nat /\ rows \in [1 .. N -> T]
  BY SortedRows
<1>2. \A i, j \in 1 .. N : Comes(rows[i], rows[j]) <=> i < j
  BY SortedRows
<1>3. \A r \in T : \E i \in 1 .. N : r = rows[i]
  BY SortedRows
<1>4. s \in 0 .. N /\ \A i \in 1 .. N : rows[i] \in B <=> s < i
  BY StartsBehind
<1>5. \A i \in 1 .. N : rows[i] \in P <=> s < i /\ i <= s + n
  BY PagePlaces
<1>6. P \in SUBSET B /\ B \in SUBSET T
  BY DEF Page, Behind
<1>7. Slice(rows, c, n) =
        [page |-> ToSet(items), more |-> rest,
         next |-> IF rest /\ items # <<>> THEN Last(items) ELSE Start]
  BY DEF Slice
<1>8. Answer(T, c, n) = [page |-> P, next |-> NextCursor(T, c, n), more |-> P # B]
  BY DEF Answer, HasMore
<1> HIDE DEF N, rows, s, P, B
<1>9. Len(rows) = N
  BY <1>1
<1>10. m \in s .. N /\ m = IF s + n <= N THEN s + n ELSE N
  <2> DEFINE Both == {s + n, N}
             least == IF s + n <= N THEN s + n ELSE N
  <2>1. least \in Both /\ \A x \in Both : least <= x
    BY <1>1, <1>4
  <2>2. \A x \in Both : (\A y \in Both : x <= y) => x = least
    BY <1>1, <1>4
  <2>3. Min(Both) = CHOOSE x \in Both : \A y \in Both : x <= y
    BY DEF Min
  <2>4. Min(Both) = least
    <3> HIDE DEF Both, least
    <3> QED BY <2>1, <2>2, <2>3
  <2> QED BY <2>4, <1>1, <1>4, <1>9
<1> HIDE DEF m
<1>11. /\ Len(items) = m - s
       /\ DOMAIN items = 1 .. m - s
       /\ \A i \in 1 .. m - s : items[i] = rows[s + i]
  <2>1. \A i \in s + 1 .. m : rows[i] \in T
    BY <1>1, <1>4, <1>10
  <2>2. /\ items \in Seq(T)
        /\ Len(items) = IF s + 1 <= m THEN m - (s + 1) + 1 ELSE 0
        /\ \A i \in 1 .. m - (s + 1) + 1 : items[i] = rows[s + 1 + i - 1]
    <3>1. s + 1 \in Int /\ m \in Int
      BY <1>1, <1>4, <1>10
    <3> QED BY <2>1, <3>1, SubSeqProperties
  <2>3. Len(items) = m - s /\ m - (s + 1) + 1 = m - s
    BY <2>2, <1>1, <1>4, <1>10
  <2>4. DOMAIN items = 1 .. m - s
    <3> HIDE DEF items
    <3> QED BY <2>2, <2>3
  <2>5. ASSUME NEW i \in 1 .. m - s PROVE items[i] = rows[s + i]
    <3>1. s + 1 + i - 1 = s + i
      BY <1>1, <1>4, <1>10
    <3> HIDE DEF items
    <3> QED BY <2>2, <2>3, <3>1
  <2> QED BY <2>3, <2>4, <2>5
<1>12. rest \in BOOLEAN /\ (rest <=> m < N)
  BY <1>1, <1>4, <1>9, <1>10, <1>11
<1> HIDE DEF items, rest
<1>13. ToSet(items) = P
  <2>1. ASSUME NEW r \in P PROVE r \in ToSet(items)
    <3>1. PICK k \in 1 .. N : r = rows[k]
      BY <1>3, <1>6
    <3>2. s < k /\ k <= s + n
      BY <3>1, <1>5
    <3>3. k - s \in 1 .. m - s /\ s + (k - s) = k
      BY <3>2, <1>1, <1>4, <1>10
    <3>4. items[k - s] = r
      BY <3>1, <3>3, <1>11
    <3> QED BY <3>3, <3>4, <1>11 DEF ToSet
  <2>2. ASSUME NEW r \in ToSet(items) PROVE r \in P
    <3>1. PICK i \in 1 .. m - s : r = items[i]
      BY <1>11 DEF ToSet
    <3>2. s + i \in 1 .. N /\ s < s + i /\ s + i <= s + n
      BY <1>1, <1>4, <1>10
    <3>3. r = rows[s + i]
      BY <3>1, <1>11
    <3> QED BY <3>2, <3>3, <1>5
  <2> QED BY <2>1, <2>2
<1>14. P # B <=> m < N
  <2>1. CASE m < N
    <3>1. N \in 1 .. N /\ s < N /\ ~(N <= s + n)
      BY <2>1, <1>1, <1>4, <1>10
    <3>2. rows[N] \in B /\ rows[N] \notin P
      BY <3>1, <1>4, <1>5
    <3> QED BY <2>1, <3>2
  <2>2. CASE ~(m < N)
    <3>1. \A k \in 1 .. N : k <= s + n
      BY <2>2, <1>1, <1>4, <1>10
    <3>2. \A r \in B : r \in P
      <4> TAKE r \in B
      <4>1. PICK k \in 1 .. N : r = rows[k]
        BY <1>3, <1>6
      <4> QED BY <4>1, <3>1, <1>4, <1>5
    <3> QED BY <2>2, <3>2, <1>6
  <2> QED BY <2>1, <2>2
<1>15. CASE ~(m < N)
  <2>1. NextCursor(T, c, n) = Start
    BY <1>14, <1>15 DEF NextCursor, HasMore, P, B
  <2> QED BY <2>1, <1>7, <1>8, <1>12, <1>13, <1>14, <1>15 DEF rows
<1>16. CASE m < N
  <2> DEFINE l == NextCursor(T, c, n)
  <2>1. l \in P /\ \A q \in P : q = l \/ Comes(q, l)
    BY <1>14, <1>16, NextIsLast DEF HasMore, P, B
  <2> HIDE DEF l
  <2>2. m \in 1 .. N /\ s < m /\ m = s + n
    BY <1>1, <1>4, <1>10, <1>16
  <2>3. rows[m] \in P
    BY <2>2, <1>1, <1>4, <1>5
  <2>4. PICK k \in 1 .. N : l = rows[k]
    BY <2>1, <1>3, <1>6
  <2>5. k <= m
    BY <2>1, <2>2, <2>4, <1>5
  <2>6. ~Comes(rows[m], l)
    BY <2>2, <2>4, <2>5, <1>1, <1>2
  <2>7. l = rows[m]
    BY <2>1, <2>3, <2>6
  <2>8. m - s \in 1 .. m - s /\ s + (m - s) = m
    BY <2>2, <1>1, <1>4
  <2>9. Last(items) = rows[m]
    BY <2>8, <1>11 DEF Last
  <2>10. items # <<>>
    BY <2>8, <1>11
  <2> QED BY <2>7, <2>9, <2>10, <1>7, <1>8, <1>12, <1>13, <1>14, <1>16 DEF rows, l
<1> QED BY <1>15, <1>16

\* A page is the slice that the code cuts out of the sorted rows, of every
\* table a traversal can meet (querySpecification.ts:367-439).
THEOREM PagesAreSlices == Spec => []PageIsSlice
<1>1. TypeOK => PageIsSlice
  <2> SUFFICES ASSUME TypeOK, NEW c \in Cursors, NEW n \in 1 .. Cardinality(Rows)
               PROVE  Answer(table, c, n) = Slice(Sorted(table), c, n)
    BY DEF PageIsSlice
  <2>1. Cardinality(Rows) \in Nat
    BY RowsAssumption, FS_CardinalityType
  <2>2. n \in Nat \ {0} /\ table \in SUBSET Rows
    BY <2>1 DEF TypeOK
  <2> QED BY <2>2, AnswerIsSlice
<1> QED BY <1>1, TypeCorrect, PTL

=============================================================================
