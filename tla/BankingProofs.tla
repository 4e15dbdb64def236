---------------------------- MODULE BankingProofs ----------------------------
(***************************************************************************)
(* Theorems about BankingCase and BankingTasks, for any number of users,   *)
(* cases, sources and tasks and any bounds.  The invariant of the cases is *)
(* IInv.  Apart from FormsTrail it says something of each case record      *)
(* alone (Sound), and every operation on an existing case replaces one     *)
(* record by one with the next revision: CaseStep does the common part of  *)
(* all of them once.  Tasks leave the cases as they are, so that all of it *)
(* holds beside them too (TasksKeepCases), and TaskInv adds what is true   *)
(* of tasks.                                                               *)
(***************************************************************************)
EXTENDS BankingTasks, FiniteSetTheorems, TLAPS

\* What IInv says of one case record.
Sound(r) ==
    /\ r.plan # NoPlan /\ r.plan.state # "pending" =>
         r.plan.reviewer \in Users \ {r.creator, r.plan.by}
    /\ r.plan # NoPlan /\ r.plan.state = "pending" =>
         r.plan.id = r.rev /\ r.plan.links = r.links /\ r.offer = NoOffer
    /\ r.offer # NoOffer =>
         r.offer.id = r.rev /\ r.offer.to # r.owner /\ r.offer.dept # r.dept

\* The three invariants of the runs are Sound, case by case.
LEMMA InvariantsAreSound ==
    (MakerChecker /\ ReviewUndisturbed /\ OfferUndisturbed)
        <=> \A c \in Cases : Exists(c) => Sound(bcase[c])
BY DEF MakerChecker, ReviewUndisturbed, OfferUndisturbed, AwaitsReview, AwaitsReceiver,
       Exists, Sound

LEMMA InvariantsAreSoundNext ==
    (MakerChecker /\ ReviewUndisturbed /\ OfferUndisturbed)'
        <=> \A c \in Cases : Exists(c)' => Sound(bcase'[c])
BY DEF MakerChecker, ReviewUndisturbed, OfferUndisturbed, AwaitsReview, AwaitsReceiver,
       Exists, Sound

\* A form's case exists and has a record.
LEMMA FormsHaveCases ==
    ASSUME IInv, NEW u \in Users, NEW c \in Cases, Submits(u, c)
    PROVE  /\ Exists(c)
           /\ bcase[c] \in CaseRecords
           /\ bcase[c].rev \in Nat /\ bcase[c].rev + 1 \in Nat
           /\ Sound(bcase[c])
           /\ form[u].seen = bcase[c]
<1>1. Exists(c) /\ form[u].seen = bcase[c]
  BY DEF IInv, FormsTrail, Submits
<1>2. bcase[c] \in CaseRecords
  BY <1>1 DEF IInv, TypeOK, Exists
<1>3. QED
  BY <1>1, <1>2, InvariantsAreSound DEF IInv, CaseRecords

\* What is common to every operation on an existing case.
LEMMA CaseStep ==
    ASSUME IInv, NEW c \in Cases, Exists(c),
           NEW r \in CaseRecords,
           bcase' = [bcase EXCEPT ![c] = r],
           r.rev = bcase[c].rev + 1,
           Sound(r),
           UNCHANGED <<role, sources, form, roleChanges>>
    PROVE  IInv'
<1>1. bcase \in [Cases -> CaseRecords \union {NoCase}] /\ bcase[c].rev \in Nat
  BY DEF IInv, TypeOK, CaseRecords, Exists
<1>2. bcase'[c] = r /\ \A d \in Cases : d # c => bcase'[d] = bcase[d]
  BY <1>1
<1>3. TypeOK'
  BY <1>1 DEF IInv, TypeOK
<1>4. FormsTrail'
  <2> SUFFICES ASSUME NEW u \in Users, form[u] # NoForm
               PROVE  LET d == form[u].case IN
                      /\ bcase'[d] # NoCase
                      /\ form[u].seen.rev <= bcase'[d].rev
                      /\ form[u].seen.rev = bcase'[d].rev => form[u].seen = bcase'[d]
    BY DEF FormsTrail, Exists
  <2>1. form[u].case \in Cases /\ form[u].seen \in CaseRecords
    BY DEF IInv, TypeOK
  <2>2. form[u].seen.rev \in Nat
    BY <2>1 DEF CaseRecords
  <2>3. CASE form[u].case = c
    BY <1>1, <1>2, <2>2, <2>3, NonesAssumption DEF IInv, FormsTrail
  <2>4. CASE form[u].case # c
    BY <1>2, <2>1, <2>4 DEF IInv, FormsTrail, Exists
  <2>5. QED
    BY <2>3, <2>4
<1>5. \A d \in Cases : Exists(d)' => Sound(bcase'[d])
  BY <1>2, InvariantsAreSound DEF IInv, Exists
<1>6. QED
  BY <1>3, <1>4, <1>5, InvariantsAreSoundNext DEF IInv

-----------------------------------------------------------------------------
(* A new case *)

LEMMA NewCaseStep ==
    ASSUME IInv, NEW c \in Cases, ~Exists(c),
           NEW u \in Users, NEW d \in Departments, NEW s \in sources \union {NoSource},
           NEW p \in BOOLEAN,
           bcase' = [bcase EXCEPT ![c] = NewCase(u, d, s, p)],
           UNCHANGED <<role, sources, form, roleChanges>>
    PROVE  IInv'
<1> DEFINE r == NewCase(u, d, s, p)
<1>1. r \in CaseRecords /\ r.plan = NoPlan /\ r.offer = NoOffer
  BY DEF IInv, TypeOK, NewCase, CaseRecords
<1>2. Sound(r)
  BY <1>1 DEF Sound
<1> HIDE DEF r
<1>3. bcase' = [bcase EXCEPT ![c] = r] /\ bcase \in [Cases -> CaseRecords \union {NoCase}]
  BY DEF r, IInv, TypeOK
<1>4. bcase'[c] = r /\ \A e \in Cases : e # c => bcase'[e] = bcase[e]
  BY <1>3
<1>5. TypeOK'
  BY <1>1, <1>3 DEF IInv, TypeOK
<1>6. FormsTrail'
  <2> SUFFICES ASSUME NEW v \in Users, form[v] # NoForm
               PROVE  LET e == form[v].case IN
                      /\ bcase'[e] # NoCase
                      /\ form[v].seen.rev <= bcase'[e].rev
                      /\ form[v].seen.rev = bcase'[e].rev => form[v].seen = bcase'[e]
    BY DEF FormsTrail, Exists
  <2>1. form[v].case \in Cases /\ form[v].case # c
    BY DEF IInv, TypeOK, FormsTrail, Exists
  <2>2. QED
    BY <1>4, <2>1 DEF IInv, FormsTrail, Exists
<1>7. \A e \in Cases : Exists(e)' => Sound(bcase'[e])
  BY <1>2, <1>4, InvariantsAreSound DEF IInv, Exists
<1>8. QED
  BY <1>5, <1>6, <1>7, InvariantsAreSoundNext DEF IInv

-----------------------------------------------------------------------------
(* The operations on an existing case *)

LEMMA HandoffStep ==
    ASSUME IInv, NEW u \in Users, Handoff(u)
    PROVE  IInv'
<1>1. PICK c \in Cases, v \in Users :
        /\ Submits(u, c)
        /\ ~AwaitsReceiver(c)
        /\ ~AwaitsReview(c)
        /\ role[v] \in Departments
        /\ bcase' = [bcase EXCEPT ![c].owner = v, ![c].dept = role[v], ![c].rev = @ + 1]
  BY DEF Handoff, Quiet
<1> DEFINE r == [bcase[c] EXCEPT !.owner = v, !.dept = role[v], !.rev = @ + 1]
<1>2. /\ Exists(c) /\ bcase[c] \in CaseRecords /\ Sound(bcase[c])
      /\ bcase[c].rev \in Nat /\ bcase[c].rev + 1 \in Nat
  BY <1>1, FormsHaveCases
<1>3. r \in CaseRecords /\ r.rev = bcase[c].rev + 1
  <2>1. r \in CaseRecords
    BY <1>1, <1>2 DEF CaseRecords
  <2>2. r.rev = bcase[c].rev + 1
    BY <1>1, <1>2 DEF CaseRecords
  <2>3. QED
    BY <2>1, <2>2
<1>4. Sound(r)
  BY <1>1, <1>2 DEF Sound, CaseRecords, AwaitsReceiver, AwaitsReview
<1>5. bcase' = [bcase EXCEPT ![c] = r]
  BY <1>1, <1>2 DEF IInv, TypeOK
<1> HIDE DEF r
<1>6. QED
  BY <1>2, <1>3, <1>4, <1>5, CaseStep DEF Handoff

LEMMA LinkEvidenceStep ==
    ASSUME IInv, NEW u \in Users, LinkEvidence(u)
    PROVE  IInv'
<1>1. PICK c \in Cases, s \in sources :
        /\ Submits(u, c)
        /\ ~AwaitsReceiver(c)
        /\ ~AwaitsReview(c)
        /\ bcase' = [bcase EXCEPT ![c].links = @ \union {s}, ![c].rev = @ + 1]
  BY DEF LinkEvidence, Quiet
<1> DEFINE r == [bcase[c] EXCEPT !.links = @ \union {s}, !.rev = @ + 1]
<1>2. /\ Exists(c) /\ bcase[c] \in CaseRecords /\ Sound(bcase[c])
      /\ bcase[c].rev \in Nat /\ bcase[c].rev + 1 \in Nat
  BY <1>1, FormsHaveCases
<1>3. r \in CaseRecords /\ r.rev = bcase[c].rev + 1
  <2>1. r \in CaseRecords
    BY <1>2 DEF CaseRecords, IInv, TypeOK
  <2>2. r.rev = bcase[c].rev + 1
    BY <1>2 DEF CaseRecords, IInv, TypeOK
  <2>3. QED
    BY <2>1, <2>2
<1>4. Sound(r)
  BY <1>1, <1>2 DEF Sound, CaseRecords, AwaitsReceiver, AwaitsReview
<1>5. bcase' = [bcase EXCEPT ![c] = r]
  BY <1>1, <1>2 DEF IInv, TypeOK
<1> HIDE DEF r
<1>6. QED
  BY <1>2, <1>3, <1>4, <1>5, CaseStep DEF LinkEvidence

LEMMA ProposeStep ==
    ASSUME IInv, NEW u \in Users, Propose(u)
    PROVE  IInv'
<1>1. PICK c \in Cases :
        /\ Submits(u, c)
        /\ ~AwaitsReceiver(c)
        /\ bcase' = [bcase EXCEPT ![c].plan = PlanBy(u, c), ![c].rev = @ + 1]
  BY DEF Propose
<1> DEFINE p == PlanBy(u, c)
           r == [bcase[c] EXCEPT !.plan = p, !.rev = @ + 1]
<1>2. /\ Exists(c) /\ bcase[c] \in CaseRecords /\ Sound(bcase[c])
      /\ bcase[c].rev \in Nat /\ bcase[c].rev + 1 \in Nat
  BY <1>1, FormsHaveCases
<1>3. /\ p \in Plans
      /\ p.id = bcase[c].rev + 1 /\ p.state = "pending" /\ p.links = bcase[c].links
  BY <1>2 DEF PlanBy, Plans, CaseRecords
<1>4. bcase' = [bcase EXCEPT ![c] = r]
  BY <1>1, <1>2 DEF IInv, TypeOK
<1> HIDE DEF p
<1>5. r \in CaseRecords /\ r.rev = bcase[c].rev + 1
  <2>1. r \in CaseRecords
    BY <1>2, <1>3 DEF CaseRecords
  <2>2. r.rev = bcase[c].rev + 1
    BY <1>2, <1>3 DEF CaseRecords
  <2>3. QED
    BY <2>1, <2>2
<1>6. Sound(r)
  BY <1>1, <1>2, <1>3 DEF Sound, CaseRecords, AwaitsReceiver
<1> HIDE DEF r
<1>7. QED
  BY <1>2, <1>4, <1>5, <1>6, CaseStep DEF Propose

LEMMA ReviewStep ==
    ASSUME IInv, NEW u \in Users, Review(u)
    PROVE  IInv'
<1>1. PICK c \in Cases, verdict \in {"approved", "rejected"} :
        /\ Submits(u, c)
        /\ AwaitsReview(c)
        /\ Independent(u, c)
        /\ bcase' = [bcase EXCEPT ![c].plan.state = verdict, ![c].plan.reviewer = u,
                                  ![c].rev = @ + 1]
  BY DEF Review
<1> DEFINE p == [bcase[c].plan EXCEPT !.state = verdict, !.reviewer = u]
           r == [bcase[c] EXCEPT !.plan = p, !.rev = @ + 1]
<1>2. /\ Exists(c) /\ bcase[c] \in CaseRecords /\ Sound(bcase[c])
      /\ bcase[c].rev \in Nat /\ bcase[c].rev + 1 \in Nat
  BY <1>1, FormsHaveCases
<1>3. bcase[c].plan \in Plans /\ bcase[c].offer = NoOffer
  BY <1>1, <1>2 DEF AwaitsReview, Sound, CaseRecords
<1>4. /\ p \in Plans
      /\ p.state # "pending" /\ p.reviewer = u /\ p.by = bcase[c].plan.by
  BY <1>3 DEF Plans
<1>5. bcase' = [bcase EXCEPT ![c] = r]
  BY <1>1, <1>2, <1>3 DEF IInv, TypeOK, CaseRecords
<1> HIDE DEF p
<1>6. r \in CaseRecords /\ r.rev = bcase[c].rev + 1
  <2>1. r \in CaseRecords
    BY <1>2, <1>4 DEF CaseRecords
  <2>2. r.rev = bcase[c].rev + 1
    BY <1>2, <1>4 DEF CaseRecords
  <2>3. QED
    BY <2>1, <2>2
<1>7. Sound(r)
  BY <1>1, <1>2, <1>3, <1>4 DEF Sound, CaseRecords, Independent
<1> HIDE DEF r
<1>8. QED
  BY <1>2, <1>5, <1>6, <1>7, CaseStep DEF Review

LEMMA OfferStep ==
    ASSUME IInv, NEW u \in Users, Offer(u)
    PROVE  IInv'
<1>1. PICK c \in Cases, v \in Users :
        /\ Submits(u, c)
        /\ Transferable(c)
        /\ v # bcase[c].owner
        /\ role[v] \in Departments \ {bcase[c].dept}
        /\ bcase' = [bcase EXCEPT
            ![c].offer = [id |-> bcase[c].rev + 1, by |-> u, to |-> v, dept |-> role[v]],
            ![c].rev = @ + 1]
  BY DEF Offer
<1> DEFINE o == [id |-> bcase[c].rev + 1, by |-> u, to |-> v, dept |-> role[v]]
           r == [bcase[c] EXCEPT !.offer = o, !.rev = @ + 1]
<1>2. /\ Exists(c) /\ bcase[c] \in CaseRecords /\ Sound(bcase[c])
      /\ bcase[c].rev \in Nat /\ bcase[c].rev + 1 \in Nat
  BY <1>1, FormsHaveCases
<1>3. o \in Offers /\ o.id = bcase[c].rev + 1 /\ o.to = v /\ o.dept = role[v]
  BY <1>1, <1>2 DEF Offers
<1>4. bcase' = [bcase EXCEPT ![c] = r]
  BY <1>1, <1>2 DEF IInv, TypeOK
<1> HIDE DEF o
<1>5. r \in CaseRecords /\ r.rev = bcase[c].rev + 1
  <2>1. r \in CaseRecords
    BY <1>2, <1>3 DEF CaseRecords
  <2>2. r.rev = bcase[c].rev + 1
    BY <1>2, <1>3 DEF CaseRecords
  <2>3. QED
    BY <2>1, <2>2
<1>6. Sound(r)
  BY <1>1, <1>2, <1>3 DEF Sound, CaseRecords, Transferable, AwaitsReview
<1> HIDE DEF r
<1>7. QED
  BY <1>2, <1>4, <1>5, <1>6, CaseStep DEF Offer

LEMMA AcceptStep ==
    ASSUME IInv, NEW u \in Users, Accept(u)
    PROVE  IInv'
<1>1. PICK c \in Cases :
        /\ Submits(u, c)
        /\ Invited(u, c)
        /\ Transferable(c)
        /\ bcase' = [bcase EXCEPT ![c].owner = u, ![c].dept = bcase[c].offer.dept,
                                  ![c].offer = NoOffer, ![c].rev = @ + 1]
  BY DEF Accept
<1> DEFINE r == [bcase[c] EXCEPT !.owner = u, !.dept = bcase[c].offer.dept,
                                 !.offer = NoOffer, !.rev = @ + 1]
<1>2. /\ Exists(c) /\ bcase[c] \in CaseRecords /\ Sound(bcase[c])
      /\ bcase[c].rev \in Nat /\ bcase[c].rev + 1 \in Nat
  BY <1>1, FormsHaveCases
<1>3. bcase[c].offer.dept \in Departments
  BY <1>1, <1>2 DEF Invited, AwaitsReceiver, CaseRecords, Offers
<1>4. r \in CaseRecords /\ r.rev = bcase[c].rev + 1
  <2>1. r \in CaseRecords
    BY <1>2, <1>3 DEF CaseRecords
  <2>2. r.rev = bcase[c].rev + 1
    BY <1>2, <1>3 DEF CaseRecords
  <2>3. QED
    BY <2>1, <2>2
<1>5. Sound(r)
  BY <1>1, <1>2 DEF Sound, CaseRecords, Transferable, AwaitsReview
<1>6. bcase' = [bcase EXCEPT ![c] = r]
  BY <1>1, <1>2 DEF IInv, TypeOK
<1> HIDE DEF r
<1>7. QED
  BY <1>2, <1>4, <1>5, <1>6, CaseStep DEF Accept

\* Decline and Cancel have the same effect.
LEMMA OfferEndsStep ==
    ASSUME IInv, NEW u \in Users, Decline(u) \/ Cancel(u)
    PROVE  IInv'
<1>1. PICK c \in Cases :
        /\ Submits(u, c)
        /\ Transferable(c)
        /\ bcase' = [bcase EXCEPT ![c].offer = NoOffer, ![c].rev = @ + 1]
  BY DEF Decline, Cancel
<1> DEFINE r == [bcase[c] EXCEPT !.offer = NoOffer, !.rev = @ + 1]
<1>2. /\ Exists(c) /\ bcase[c] \in CaseRecords /\ Sound(bcase[c])
      /\ bcase[c].rev \in Nat /\ bcase[c].rev + 1 \in Nat
  BY <1>1, FormsHaveCases
<1>3. r \in CaseRecords /\ r.rev = bcase[c].rev + 1
  <2>1. r \in CaseRecords
    BY <1>2 DEF CaseRecords
  <2>2. r.rev = bcase[c].rev + 1
    BY <1>2 DEF CaseRecords
  <2>3. QED
    BY <2>1, <2>2
<1>4. Sound(r)
  BY <1>1, <1>2 DEF Sound, CaseRecords, Transferable, AwaitsReview
<1>5. bcase' = [bcase EXCEPT ![c] = r]
  BY <1>1, <1>2 DEF IInv, TypeOK
<1> HIDE DEF r
<1>6. QED
  BY <1>2, <1>3, <1>4, <1>5, CaseStep DEF Decline, Cancel

-----------------------------------------------------------------------------
(* Loading a form *)

LEMMA LoadStep ==
    ASSUME IInv, NEW u \in Users, NEW c \in Cases, Exists(c), Load(u, c),
           UNCHANGED <<bcase, role, sources, roleChanges>>
    PROVE  IInv'
<1>1. bcase[c] \in CaseRecords /\ bcase[c].rev \in Nat
  BY DEF IInv, TypeOK, Exists, CaseRecords
<1>2. /\ form' = [form EXCEPT ![u] = [case |-> c, seen |-> bcase[c]]]
      /\ form \in [Users -> [case: Cases, seen: CaseRecords] \union {NoForm}]
  BY DEF Load, IInv, TypeOK
<1>3. TypeOK'
  BY <1>1, <1>2 DEF IInv, TypeOK
<1>4. FormsTrail'
  <2> SUFFICES ASSUME NEW v \in Users, form'[v] # NoForm
               PROVE  LET d == form'[v].case IN
                      /\ bcase'[d] # NoCase
                      /\ form'[v].seen.rev <= bcase'[d].rev
                      /\ form'[v].seen.rev = bcase'[d].rev => form'[v].seen = bcase'[d]
    BY DEF FormsTrail, Exists
  <2>1. CASE v = u
    BY <1>1, <1>2, <2>1 DEF Exists
  <2>2. CASE v # u
    BY <1>2, <2>2 DEF IInv, FormsTrail, Exists
  <2>3. QED
    BY <2>1, <2>2
<1>5. \A d \in Cases : Exists(d)' => Sound(bcase'[d])
  BY InvariantsAreSound DEF IInv, Exists
<1>6. QED
  BY <1>3, <1>4, <1>5, InvariantsAreSoundNext DEF IInv

-----------------------------------------------------------------------------
(* The invariant *)

LEMMA Initially == Init => IInv
BY NonesAssumption, BankingAssumption
   DEF Init, IInv, TypeOK, FormsTrail, MakerChecker, ReviewUndisturbed, OfferUndisturbed,
       Exists, Roles, Staff

\* Steps that leave the cases and the forms alone.
LEMMA SurroundingsStep ==
    ASSUME IInv, UNCHANGED <<bcase, form>>, TypeOK'
    PROVE  IInv'
<1>1. FormsTrail'
  BY DEF IInv, FormsTrail, Exists
<1>2. \A d \in Cases : Exists(d)' => Sound(bcase'[d])
  BY InvariantsAreSound DEF IInv, Exists
<1>3. QED
  BY <1>1, <1>2, InvariantsAreSoundNext DEF IInv

LEMMA Inductive == IInv /\ [Next]_vars => IInv'
<1> SUFFICES ASSUME IInv, [Next]_vars
             PROVE  IInv'
  OBVIOUS
<1>1. ASSUME NEW u \in Users, Create(u)
      PROVE  IInv'
  BY <1>1, NewCaseStep DEF Create, Exists
<1>2. ASSUME NEW u \in Users, CreatePreview(u)
      PROVE  IInv'
  BY <1>2, NewCaseStep, BankingAssumption DEF CreatePreview, Exists, Departments
<1>3. ASSUME NEW u \in Users, Open(u) \/ OpenInvitation(u)
      PROVE  IInv'
  BY <1>3, LoadStep DEF Open, OpenInvitation, Exists
<1>4. ASSUME NEW u \in Users, ChangeRole(u)
      PROVE  IInv'
  <2>1. TypeOK'
    BY <1>4, BankingAssumption DEF ChangeRole, IInv, TypeOK
  <2>2. QED
    BY <1>4, <2>1, SurroundingsStep DEF ChangeRole
<1>5. ASSUME NEW s \in Sources, DeleteSource(s)
      PROVE  IInv'
  <2>1. TypeOK'
    BY <1>5 DEF DeleteSource, IInv, TypeOK
  <2>2. QED
    BY <1>5, <2>1, SurroundingsStep DEF DeleteSource
<1>6. CASE UNCHANGED vars
  <2>1. TypeOK'
    BY <1>6 DEF vars, IInv, TypeOK
  <2>2. QED
    BY <1>6, <2>1, SurroundingsStep DEF vars
<1>7. QED
  BY <1>1, <1>2, <1>3, <1>4, <1>5, <1>6, HandoffStep, LinkEvidenceStep, ProposeStep,
     ReviewStep, OfferStep, AcceptStep, OfferEndsStep
     DEF Next, Act

THEOREM Invariance == Spec => []IInv
BY Initially, Inductive, PTL DEF Spec

\* Every variable keeps to its domain.
THEOREM TypeCorrect == Spec => []TypeOK
BY Invariance, PTL DEF IInv

\* No plan is ever decided by the case's originator or the plan's proposer.
THEOREM MakersDoNotCheck == Spec => []MakerChecker
BY Invariance, PTL DEF IInv

\* From the proposal to the verdict the case stays as proposed.
THEOREM ReviewsUndisturbed == Spec => []ReviewUndisturbed
BY Invariance, PTL DEF IInv

\* From the offer to the answer the case stays as offered.
THEOREM OffersUndisturbed == Spec => []OfferUndisturbed
BY Invariance, PTL DEF IInv

-----------------------------------------------------------------------------
(* Action properties *)

\* Which step can change an existing case, and how.
LEMMA Changes ==
    ASSUME IInv, [Next]_vars, NEW c \in Cases, Exists(c), bcase'[c] # bcase[c]
    PROVE  \E u \in Users :
             /\ Submits(u, c)
             /\ UNCHANGED <<role, sources, form, roleChanges>>
             /\ \/ Handoff(u) \/ LinkEvidence(u) \/ Propose(u) \/ Review(u)
                \/ Offer(u) \/ Accept(u) \/ Decline(u) \/ Cancel(u)
<1>1. bcase \in [Cases -> CaseRecords \union {NoCase}]
  BY DEF IInv, TypeOK
<1>2. ~\E u \in Users : Create(u) \/ CreatePreview(u) \/ Open(u) \/ OpenInvitation(u) \/ ChangeRole(u)
  BY <1>1 DEF Create, CreatePreview, Open, OpenInvitation, ChangeRole, Exists
<1>3. ~\E s \in Sources : DeleteSource(s)
  BY DEF DeleteSource
<1>4. ~UNCHANGED vars
  BY DEF vars
<1>5. PICK u \in Users :
        \/ Handoff(u) \/ LinkEvidence(u) \/ Propose(u) \/ Review(u)
        \/ Offer(u) \/ Accept(u) \/ Decline(u) \/ Cancel(u)
  BY <1>2, <1>3, <1>4 DEF Next, Act
<1>6. UNCHANGED <<role, sources, form, roleChanges>>
  BY <1>5 DEF Handoff, LinkEvidence, Propose, Review, Offer, Accept, Decline, Cancel
<1>7. Submits(u, c)
  <2>1. \E d \in Cases : Submits(u, d) /\ \A e \in Cases : e # d => bcase'[e] = bcase[e]
    <3>1. CASE Handoff(u) BY <1>1, <3>1 DEF Handoff
    <3>2. CASE LinkEvidence(u) BY <1>1, <3>2 DEF LinkEvidence
    <3>3. CASE Propose(u) BY <1>1, <3>3 DEF Propose
    <3>4. CASE Review(u) BY <1>1, <3>4 DEF Review
    <3>5. CASE Offer(u) BY <1>1, <3>5 DEF Offer
    <3>6. CASE Accept(u) BY <1>1, <3>6 DEF Accept
    <3>7. CASE Decline(u) BY <1>1, <3>7 DEF Decline
    <3>8. CASE Cancel(u) BY <1>1, <3>8 DEF Cancel
    <3>9. QED
      BY <1>5, <3>1, <3>2, <3>3, <3>4, <3>5, <3>6, <3>7, <3>8
  <2>2. QED
    BY <2>1
<1>8. QED
  BY <1>5, <1>6, <1>7

\* No stale, replayed or resubmitted form ever changes a case.
THEOREM StaleFormsFail == Spec => NoStaleChange
<1>1. ASSUME IInv, [Next]_vars
      PROVE  [\A c \in Cases : Exists(c) /\ bcase'[c] # bcase[c] =>
                \E u \in Users :
                  form[u] # NoForm /\ form[u].case = c /\ form[u].seen = bcase[c]]_vars
  <2> SUFFICES ASSUME NEW c \in Cases, Exists(c), bcase'[c] # bcase[c]
               PROVE  \E u \in Users :
                        form[u] # NoForm /\ form[u].case = c /\ form[u].seen = bcase[c]
    OBVIOUS
  <2>1. PICK u \in Users : Submits(u, c)
    BY <1>1, Changes
  <2>2. form[u].seen = bcase[c]
    BY <1>1, <2>1, FormsHaveCases
  <2>3. QED
    BY <2>1, <2>2 DEF Submits
<1>2. QED
  BY <1>1, Invariance, PTL DEF Spec, NoStaleChange

\* What an operation on an existing case leaves of its plan and owner.
LEMMA Effects ==
    ASSUME IInv, [Next]_vars, NEW c \in Cases, Exists(c), bcase'[c] # bcase[c]
    PROVE  \* neither changes
           \/ bcase'[c].plan = bcase[c].plan /\ bcase'[c].owner = bcase[c].owner
           \* a plan is made
           \/ bcase[c].plan = NoPlan /\ bcase'[c].owner = bcase[c].owner
           \* a plan is decided
           \/ /\ AwaitsReview(c)
              /\ bcase'[c].plan.id = bcase[c].plan.id
              /\ bcase'[c].plan.links = bcase[c].plan.links
              /\ bcase'[c].owner = bcase[c].owner
           \* the case changes hands
           \/ /\ bcase'[c].plan = bcase[c].plan
              /\ role[bcase'[c].owner] = bcase'[c].dept
              /\ \/ ~AwaitsReceiver(c) /\ ~AwaitsReview(c)
                 \/ AwaitsReceiver(c) /\ bcase'[c].owner = bcase[c].offer.to
<1>1. PICK u \in Users :
        \/ Handoff(u) \/ LinkEvidence(u) \/ Propose(u) \/ Review(u)
        \/ Offer(u) \/ Accept(u) \/ Decline(u) \/ Cancel(u)
  BY Changes
<1>2. bcase \in [Cases -> CaseRecords \union {NoCase}] /\ bcase[c] \in CaseRecords
  BY DEF IInv, TypeOK, Exists
<1>3. CASE LinkEvidence(u)
  <2>1. PICK d \in Cases, s \in sources : bcase' = [bcase EXCEPT ![d].links = @ \union {s}, ![d].rev = @ + 1]
    BY <1>3 DEF LinkEvidence
  <2>2. d = c
    BY <1>2, <2>1
  <2>3. bcase'[c].plan = bcase[c].plan /\ bcase'[c].owner = bcase[c].owner
    BY <1>2, <2>1, <2>2 DEF CaseRecords
  <2>4. QED
    BY <2>3
<1>4. CASE Propose(u)
  <2>1. PICK d \in Cases :
          /\ bcase[d].plan = NoPlan
          /\ bcase' = [bcase EXCEPT ![d].plan = PlanBy(u, d), ![d].rev = @ + 1]
    BY <1>4 DEF Propose, Unplanned
  <2>2. d = c
    BY <1>2, <2>1
  <2>3. bcase'[c].owner = bcase[c].owner
    BY <1>2, <2>1, <2>2 DEF CaseRecords
  <2>4. QED
    BY <2>1, <2>2, <2>3
<1>5. CASE Review(u)
  <2>1. PICK d \in Cases, verdict \in {"approved", "rejected"} :
          /\ AwaitsReview(d)
          /\ bcase' = [bcase EXCEPT ![d].plan.state = verdict, ![d].plan.reviewer = u,
                                    ![d].rev = @ + 1]
    BY <1>5 DEF Review
  <2>2. d = c
    BY <1>2, <2>1
  <2>3. bcase[c].plan \in Plans
    BY <1>2, <2>1, <2>2 DEF CaseRecords, AwaitsReview
  <2>4. bcase'[c].plan = [bcase[c].plan EXCEPT !.state = verdict, !.reviewer = u]
    BY <1>2, <2>1, <2>2 DEF CaseRecords
  <2>5. bcase'[c].plan.id = bcase[c].plan.id /\ bcase'[c].plan.links = bcase[c].plan.links
    BY <2>3, <2>4 DEF Plans
  <2>6. bcase'[c].owner = bcase[c].owner
    BY <1>2, <2>1, <2>2 DEF CaseRecords
  <2>7. QED
    BY <2>1, <2>2, <2>5, <2>6
<1>6. CASE Offer(u)
  <2>1. PICK d \in Cases, v \in Users :
          bcase' = [bcase EXCEPT
            ![d].offer = [id |-> bcase[d].rev + 1, by |-> u, to |-> v, dept |-> role[v]],
            ![d].rev = @ + 1]
    BY <1>6 DEF Offer
  <2>2. d = c
    BY <1>2, <2>1
  <2>3. bcase'[c].plan = bcase[c].plan /\ bcase'[c].owner = bcase[c].owner
    BY <1>2, <2>1, <2>2 DEF CaseRecords
  <2>4. QED
    BY <2>3
<1>7. CASE Decline(u)
  <2>1. PICK d \in Cases : bcase' = [bcase EXCEPT ![d].offer = NoOffer, ![d].rev = @ + 1]
    BY <1>7 DEF Decline
  <2>2. d = c
    BY <1>2, <2>1
  <2>3. bcase'[c].plan = bcase[c].plan /\ bcase'[c].owner = bcase[c].owner
    BY <1>2, <2>1, <2>2 DEF CaseRecords
  <2>4. QED
    BY <2>3
<1>8. CASE Cancel(u)
  <2>1. PICK d \in Cases : bcase' = [bcase EXCEPT ![d].offer = NoOffer, ![d].rev = @ + 1]
    BY <1>8 DEF Cancel
  <2>2. d = c
    BY <1>2, <2>1
  <2>3. bcase'[c].plan = bcase[c].plan /\ bcase'[c].owner = bcase[c].owner
    BY <1>2, <2>1, <2>2 DEF CaseRecords
  <2>4. QED
    BY <2>3
<1>9. CASE Handoff(u)
  <2>1. PICK d \in Cases, v \in Users :
          /\ ~AwaitsReceiver(d) /\ ~AwaitsReview(d)
          /\ bcase' = [bcase EXCEPT ![d].owner = v, ![d].dept = role[v], ![d].rev = @ + 1]
    BY <1>9 DEF Handoff, Quiet
  <2>2. d = c
    BY <1>2, <2>1
  <2>3. bcase'[c].owner = v /\ bcase'[c].dept = role[v] /\ bcase'[c].plan = bcase[c].plan
    BY <1>2, <2>1, <2>2 DEF CaseRecords
  <2>4. QED
    BY <2>1, <2>2, <2>3
<1>10. CASE Accept(u)
  <2>1. PICK d \in Cases :
          /\ Invited(u, d)
          /\ bcase' = [bcase EXCEPT ![d].owner = u, ![d].dept = bcase[d].offer.dept,
                                    ![d].offer = NoOffer, ![d].rev = @ + 1]
    BY <1>10 DEF Accept
  <2>2. d = c
    BY <1>2, <2>1
  <2>3. /\ bcase'[c].owner = u /\ bcase'[c].dept = bcase[c].offer.dept
        /\ bcase'[c].plan = bcase[c].plan
    BY <1>2, <2>1, <2>2 DEF CaseRecords
  <2>4. QED
    BY <2>1, <2>2, <2>3 DEF Invited
<1>11. QED
  BY <1>1, <1>3, <1>4, <1>5, <1>6, <1>7, <1>8, <1>9, <1>10

\* A decided plan is final, a pending one only receives its verdict.
THEOREM OneCycleOnly == Spec => OneCycle
<1>1. ASSUME IInv, [Next]_vars
      PROVE  [\A c \in Cases : Exists(c) /\ bcase[c].plan # NoPlan =>
                /\ bcase'[c].plan.id = bcase[c].plan.id
                /\ bcase'[c].plan.links = bcase[c].plan.links
                /\ ~AwaitsReview(c) => bcase'[c].plan = bcase[c].plan]_vars
  <2> SUFFICES ASSUME NEW c \in Cases, Exists(c), bcase[c].plan # NoPlan
               PROVE  /\ bcase'[c].plan.id = bcase[c].plan.id
                      /\ bcase'[c].plan.links = bcase[c].plan.links
                      /\ ~AwaitsReview(c) => bcase'[c].plan = bcase[c].plan
    OBVIOUS
  <2>1. CASE bcase'[c] = bcase[c]
    BY <2>1
  <2>2. CASE bcase'[c] # bcase[c]
    BY <1>1, <2>2, Effects
  <2>3. QED
    BY <2>1, <2>2
<1>2. QED
  BY <1>1, Invariance, PTL DEF Spec, OneCycle

\* A case only changes hands to a current member of the department it lands
\* in: the invited receiver, or an administrator's choice with nothing open.
THEOREM OwnershipLandsWell == Spec => OwnershipLands
<1>1. ASSUME IInv, [Next]_vars
      PROVE  [\A c \in Cases : Exists(c) /\ bcase'[c].owner # bcase[c].owner =>
                /\ role[bcase'[c].owner] = bcase'[c].dept
                /\ IF AwaitsReceiver(c)
                   THEN bcase'[c].owner = bcase[c].offer.to
                   ELSE ~AwaitsReview(c)]_vars
  <2> SUFFICES ASSUME NEW c \in Cases, Exists(c), bcase'[c].owner # bcase[c].owner
               PROVE  /\ role[bcase'[c].owner] = bcase'[c].dept
                      /\ IF AwaitsReceiver(c)
                         THEN bcase'[c].owner = bcase[c].offer.to
                         ELSE ~AwaitsReview(c)
    OBVIOUS
  <2>1. bcase'[c] # bcase[c]
    OBVIOUS
  <2>2. QED
    BY <1>1, <2>1, Effects
<1>2. QED
  BY <1>1, Invariance, PTL DEF Spec, OwnershipLands

-----------------------------------------------------------------------------
(* Tasks beside the cases *)

\* Tasks never touch a case: whatever holds of every behaviour of the case
\* protocol holds of it with the tasks around.
THEOREM TasksKeepCases == TaskSpec => Spec
<1>1. TaskInit => Init
  BY DEF TaskInit
<1>2. [TaskNext]_taskVars => [Next]_vars
  BY DEF TaskNext, taskVars
<1>3. QED
  BY <1>1, <1>2, PTL DEF TaskSpec, Spec

\* A task is open to the queue as long as it has no recipient, and only then:
\* one asked of a named colleague has a recipient from the start.
TasksAddressed ==
    \A t \in Tasks : task[t] # NoTask =>
        (task[t].to = NoUser <=> task[t].team /\ task[t].status = "requested")

TaskInv == TaskTypeOK /\ TasksAddressed

\* What a step may do to the tasks: nothing, add one, or move one on, which then
\* has a recipient.
Requested(u, c, t) ==
    /\ task[t] = NoTask
    /\ MayRequest(u, c)
    /\ \E r \in TaskRecords :
        /\ r.case = c /\ r.by = u /\ r.status = "requested"
        /\ r.to = NoUser <=> r.team
        /\ task' = [task EXCEPT ![t] = r]

MovedOn(u, t) ==
    /\ task[t] # NoTask
    /\ task[t].status \in {"requested", "accepted"}
    /\ task[t].to \in {NoUser, u}
    /\ \E s \in {"accepted", "responded", "declined"} :
        task' = [task EXCEPT ![t].to = u, ![t].status = s]

\* Every operation on tasks is a request or a move.
LEMMA TaskChanges ==
    ASSUME TaskTypeOK, TypeOK, NEW u \in Users, TaskAct(u)
    PROVE  \E t \in Tasks : MovedOn(u, t) \/ \E c \in Cases : Requested(u, c, t)
<1>1. CASE RequestNamed(u)
  <2>1. PICK c \in Cases, v \in Users \ {u} :
          MayRequest(u, c) /\ role[v] \in Departments /\ Add(u, c, v, role[v], FALSE)
    BY <1>1 DEF RequestNamed
  <2> DEFINE r == [case |-> c, by |-> u, to |-> v, dept |-> role[v], team |-> FALSE,
                   status |-> "requested"]
  <2>2. PICK t \in Tasks : task[t] = NoTask /\ task' = [task EXCEPT ![t] = r]
    BY <2>1 DEF Add
  <2>3. r \in TaskRecords /\ r.to # NoUser
    BY <2>1, NonesAssumption DEF TaskRecords, Statuses
  <2>4. QED
    BY <2>1, <2>2, <2>3 DEF Requested
<1>2. CASE RequestTeam(u)
  <2>1. PICK c \in Cases, d \in Departments :
          MayRequest(u, c) /\ Add(u, c, NoUser, d, TRUE)
    BY <1>2 DEF RequestTeam
  <2> DEFINE r == [case |-> c, by |-> u, to |-> NoUser, dept |-> d, team |-> TRUE,
                   status |-> "requested"]
  <2>2. PICK t \in Tasks : task[t] = NoTask /\ task' = [task EXCEPT ![t] = r]
    BY <2>1 DEF Add
  <2>3. r \in TaskRecords
    BY <2>1 DEF TaskRecords, Statuses
  <2>4. QED
    BY <2>1, <2>2, <2>3 DEF Requested
<1>3. CASE Claim(u)
  BY <1>3 DEF Claim, Serves, MovedOn
<1>4. ASSUME NEW from \in {"requested", "accepted"},
             NEW to \in {"accepted", "responded", "declined"}, Move(u, from, to)
      PROVE  \E t \in Tasks : MovedOn(u, t)
  <2>1. PICK t \in Tasks :
          /\ task[t] # NoTask /\ task[t].to = u /\ task[t].status = from
          /\ task' = [task EXCEPT ![t].status = to]
    BY <1>4 DEF Move, Serves
  <2>2. task[t] \in TaskRecords
    BY <2>1 DEF TaskTypeOK
  <2>3. [task[t] EXCEPT !.status = to] = [task[t] EXCEPT !.to = u, !.status = to]
    BY <2>1, <2>2 DEF TaskRecords
  <2>4. task' = [task EXCEPT ![t].to = u, ![t].status = to]
    BY <2>1, <2>3 DEF TaskTypeOK
  <2>5. QED
    BY <2>1, <2>4 DEF MovedOn
<1>5. QED
  BY <1>1, <1>2, <1>3, <1>4 DEF TaskAct, AcceptTask, RespondTask, DeclineTask

LEMMA TaskInitially == TaskInit => TaskInv
BY DEF TaskInit, TaskInv, TaskTypeOK, TasksAddressed

\* A request adds one task, in the queue exactly if it names nobody.
LEMMA RequestStep ==
    ASSUME TaskInv, NEW u \in Users, NEW c \in Cases, NEW t \in Tasks, Requested(u, c, t)
    PROVE  TaskInv'
<1>1. PICK r \in TaskRecords :
        /\ r.case = c /\ r.by = u /\ r.status = "requested"
        /\ r.to = NoUser <=> r.team
        /\ task' = [task EXCEPT ![t] = r]
  BY DEF Requested
<1>2. task' \in [Tasks -> TaskRecords \union {NoTask}] /\ task'[t] = r /\ r # NoTask
  BY <1>1, NoTaskAssumption DEF TaskInv, TaskTypeOK
<1>3. \A x \in Tasks : x # t => task'[x] = task[x]
  BY <1>1 DEF TaskInv, TaskTypeOK
<1>4. TasksAddressed'
  BY <1>1, <1>2, <1>3 DEF TaskInv, TasksAddressed
<1>5. QED
  BY <1>2, <1>4 DEF TaskInv, TaskTypeOK

\* A move gives the task to the one who moves it.
LEMMA MoveStep ==
    ASSUME TaskInv, NEW u \in Users, NEW t \in Tasks, MovedOn(u, t)
    PROVE  TaskInv'
<1>1. PICK s \in {"accepted", "responded", "declined"} :
        task' = [task EXCEPT ![t].to = u, ![t].status = s]
  BY DEF MovedOn
<1> DEFINE r == [task[t] EXCEPT !.to = u, !.status = s]
<1>2. task[t] \in TaskRecords /\ task' = [task EXCEPT ![t] = r]
  BY <1>1 DEF TaskInv, TaskTypeOK, MovedOn
<1>3. r \in TaskRecords /\ r.to = u /\ r.status = s
  BY <1>2 DEF TaskRecords, Statuses
<1> HIDE DEF r
<1>4. /\ task' \in [Tasks -> TaskRecords \union {NoTask}]
      /\ task'[t] = r /\ r # NoTask
      /\ \A x \in Tasks : x # t => task'[x] = task[x]
  BY <1>2, <1>3, NoTaskAssumption DEF TaskInv, TaskTypeOK
<1>5. TasksAddressed'
  BY <1>3, <1>4, NonesAssumption DEF TaskInv, TasksAddressed
<1>6. QED
  BY <1>4, <1>5 DEF TaskInv, TaskTypeOK

LEMMA TaskInductive == TaskInv /\ TypeOK /\ [TaskNext]_taskVars => TaskInv'
<1> SUFFICES ASSUME TaskInv, TypeOK, [TaskNext]_taskVars
             PROVE  TaskInv'
  OBVIOUS
<1>1. CASE UNCHANGED task
  BY <1>1 DEF TaskInv, TaskTypeOK, TasksAddressed
<1>2. ASSUME NEW u \in Users, TaskAct(u)
      PROVE  TaskInv'
  <2>1. PICK t \in Tasks : MovedOn(u, t) \/ \E c \in Cases : Requested(u, c, t)
    BY <1>2, TaskChanges DEF TaskInv
  <2>2. QED
    BY <2>1, RequestStep, MoveStep
<1>3. QED
  BY <1>1, <1>2 DEF TaskNext, taskVars

THEOREM TaskInvariance == TaskSpec => [](IInv /\ TaskInv)
<1>1. TaskSpec => []IInv
  BY TasksKeepCases, Invariance, PTL
<1>2. IInv => TypeOK
  BY DEF IInv
<1>3. QED
  BY <1>1, <1>2, TaskInitially, TaskInductive, PTL DEF TaskSpec

\* Every task keeps to its domain.
THEOREM TaskTypeCorrect == TaskSpec => []TaskTypeOK
BY TaskInvariance, PTL DEF TaskInv

\* The queue never holds a task that somebody has taken or answered, and a
\* named colleague's task is never in it.
THEOREM QueueIsUnclaimed == TaskSpec => []TasksAddressed
BY TaskInvariance, PTL DEF TaskInv

\* Who has a task keeps it, and an answer to a task is final.
THEOREM ClaimsAreFinal == TaskSpec => FirstClaimWins
<1>1. ASSUME IInv, TaskInv, [TaskNext]_taskVars
      PROVE  [\A t \in Tasks : task[t] # NoTask =>
                /\ task[t].to # NoUser => task'[t].to = task[t].to
                /\ task[t].status \in {"responded", "declined"} =>
                     task'[t] = task[t]]_taskVars
  <2> SUFFICES ASSUME NEW t \in Tasks, task[t] # NoTask, task'[t] # task[t]
               PROVE  /\ task[t].to # NoUser => task'[t].to = task[t].to
                      /\ task[t].status \notin {"responded", "declined"}
    OBVIOUS
  <2>1. PICK u \in Users : TaskAct(u)
    BY <1>1 DEF TaskNext, taskVars
  <2>2. PICK x \in Tasks : MovedOn(u, x) \/ \E c \in Cases : Requested(u, c, x)
    BY <1>1, <2>1, TaskChanges DEF TaskInv, IInv
  <2>3. x = t
    BY <1>1, <2>2 DEF MovedOn, Requested, TaskInv, TaskTypeOK
  <2>4. MovedOn(u, t)
    BY <2>2, <2>3 DEF Requested
  <2>5. task[t] \in TaskRecords /\ task'[t].to = u
    BY <1>1, <2>4 DEF MovedOn, TaskInv, TaskTypeOK, TaskRecords
  <2>6. QED
    BY <2>4, <2>5 DEF MovedOn
<1>2. QED
  BY <1>1, TaskInvariance, PTL DEF TaskSpec, FirstClaimWins

\* A request is made by someone who has the case before them as it is, and
\* never while its plan awaits a verdict.
THEOREM RequestsStayCurrent == TaskSpec => RequestsAreCurrent
<1>1. ASSUME IInv, TaskInv, [TaskNext]_taskVars
      PROVE  [\A t \in Tasks : task[t] = NoTask /\ task'[t] # NoTask =>
                LET c == task'[t].case  u == task'[t].by IN
                form[u].case = c /\ form[u].seen = bcase[c] /\ ~AwaitsReview(c)]_taskVars
  <2> SUFFICES ASSUME NEW t \in Tasks, task[t] = NoTask, task'[t] # NoTask
               PROVE  LET c == task'[t].case  u == task'[t].by IN
                      form[u].case = c /\ form[u].seen = bcase[c] /\ ~AwaitsReview(c)
    OBVIOUS
  <2>1. PICK u \in Users : TaskAct(u)
    BY <1>1 DEF TaskNext, taskVars
  <2>2. PICK x \in Tasks : MovedOn(u, x) \/ \E c \in Cases : Requested(u, c, x)
    BY <1>1, <2>1, TaskChanges DEF TaskInv, IInv
  <2>3. x = t
    BY <1>1, <2>2 DEF MovedOn, Requested, TaskInv, TaskTypeOK
  <2>4. PICK c \in Cases : Requested(u, c, t)
    BY <2>2, <2>3 DEF MovedOn
  <2>5. task'[t].case = c /\ task'[t].by = u
    BY <1>1, <2>4 DEF Requested, TaskInv, TaskTypeOK
  <2>6. form[u].case = c /\ form[u].seen = bcase[c] /\ ~AwaitsReview(c)
    BY <1>1, <2>4, FormsHaveCases DEF Requested, MayRequest, Submits
  <2>7. QED
    BY <2>5, <2>6
<1>2. QED
  BY <1>1, TaskInvariance, PTL DEF TaskSpec, RequestsAreCurrent
=============================================================================
