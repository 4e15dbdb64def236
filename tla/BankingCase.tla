----------------------------- MODULE BankingCase -----------------------------
(***************************************************************************)
(* Banking cases: intake, evidence, maker-checker review of one            *)
(* investigation plan, and ownership transfers the receiver accepts.       *)
(*                                                                         *)
(* Every operation is one serializable transaction on the case row, so one *)
(* step.  What interleaves is the people: each works from the case as it   *)
(* was when they last loaded it (form), submits with the revision loaded,  *)
(* and may submit the same form again when an answer was lost.  Meanwhile  *)
(* memberships change and the referenced source records are deleted.       *)
(***************************************************************************)
EXTENDS Naturals, FiniteSets

CONSTANTS
    Users, Cases, Sources,
    PreviewCases,    \* cases whose id is derived from a preview candidate
    MaxEvents,       \* timeline entries a case may hold (100)
    MaxLinks,        \* evidence references a case may hold (50)
    MaxRoleChanges,  \* bound on membership changes
    NoCase, NoSource, NoPlan, NoOffer, NoForm, NoUser

ASSUME BankingAssumption ==
    /\ MaxEvents \in Nat \ {0}
    /\ MaxLinks \in Nat
    /\ MaxRoleChanges \in Nat
    /\ PreviewCases \subseteq Cases

Departments == {"Operations", "Finance"}
Staff == Departments \union {"Administrator"}  \* CEO has the same case capabilities
Roles == Staff \union {"None"}                 \* "None": disabled, or another role

Plans == [id: Nat, state: {"pending", "approved", "rejected"},
          by: Users, reviewer: Users \union {NoUser}, links: SUBSET Sources]
Offers == [id: Nat, by: Users, to: Users, dept: Departments]
CaseRecords ==
    [creator: Users, owner: Users, dept: Departments,
     source: Sources \union {NoSource}, preview: BOOLEAN, links: SUBSET Sources,
     rev: Nat,    \* the revision, and the number of timeline entries
     plan: Plans \union {NoPlan}, offer: Offers \union {NoOffer}]

ASSUME NonesAssumption ==
    /\ NoCase \notin CaseRecords
    /\ NoSource \notin Sources
    /\ NoPlan \notin Plans
    /\ NoOffer \notin Offers
    /\ NoForm \notin [case: Cases, seen: CaseRecords]
    /\ NoUser \notin Users

VARIABLES
    bcase,    \* the case rows
    role,     \* each user's current membership
    sources,  \* Documents and ValueOpportunities that exist
    form,     \* per user: the case on the screen, as it was when loaded
    roleChanges

vars == <<bcase, role, sources, form, roleChanges>>

Init ==
    /\ bcase = [c \in Cases |-> NoCase]
    /\ role \in [Users -> Roles]
    /\ sources = Sources
    /\ form = [u \in Users |-> NoForm]
    /\ roleChanges = 0

-----------------------------------------------------------------------------
(* Access, and the guards the operations share *)

IsAdministrator(u) == role[u] = "Administrator"

CanRead(u, c) ==
    /\ role[u] \in Staff
    /\ IsAdministrator(u) \/ bcase[c].owner = u

AwaitsReview(c) == bcase[c].plan # NoPlan /\ bcase[c].plan.state = "pending"
AwaitsReceiver(c) == bcase[c].offer # NoOffer
HasCapacity(c) == bcase[c].rev < MaxEvents

\* Mutants: only a pending offer stops a change; only a pending plan does.
NoOfferOnly(c) == ~AwaitsReceiver(c)
NoReviewOnly(c) == ~AwaitsReview(c)

\* Neither a receiver nor a checker has an answer to give.
Quiet(c) == ~AwaitsReceiver(c) /\ ~AwaitsReview(c)

\* Mutant: the expected revision is not compared.
SubmitsAnyRevision(u, c) ==
    /\ form[u] # NoForm
    /\ form[u].case = c

\* The user submits the form, and its revision is still the case's.
Submits(u, c) ==
    /\ form[u] # NoForm
    /\ form[u].case = c
    /\ bcase[c].rev = form[u].seen.rev

\* ensureOpen of the transfer operations, less the revision check.
Transferable(c) == ~AwaitsReview(c) /\ HasCapacity(c)

\* Every source the case refers to still exists.
EvidenceStands(c) ==
    /\ bcase[c].links \subseteq sources
    /\ bcase[c].source # NoSource => bcase[c].source \in sources

-----------------------------------------------------------------------------
(* BankingCaseService: create, findById and list, handoff *)

NewCase(u, d, s, preview) ==
    [creator |-> u, owner |-> u, dept |-> d, source |-> s, preview |-> preview,
     links |-> {}, rev |-> 1, plan |-> NoPlan, offer |-> NoOffer]

Create(u) ==
    /\ role[u] \in Staff
    /\ \E c \in Cases \ PreviewCases, d \in Departments, s \in sources \union {NoSource} :
        /\ bcase[c] = NoCase
        /\ bcase' = [bcase EXCEPT ![c] = NewCase(u, d, s, FALSE)]
    /\ UNCHANGED <<role, sources, form, roleChanges>>

\* createEscalatedCandidate: financial:write is an administrator's.
CreatePreview(u) ==
    /\ IsAdministrator(u)
    /\ \E c \in PreviewCases :
        /\ bcase[c] = NoCase
        /\ bcase' = [bcase EXCEPT ![c] = NewCase(u, "Operations", NoSource, TRUE)]
    /\ UNCHANGED <<role, sources, form, roleChanges>>

Load(u, c) == form' = [form EXCEPT ![u] = [case |-> c, seen |-> bcase[c]]]

Open(u) ==
    /\ \E c \in Cases :
        /\ bcase[c] # NoCase
        /\ CanRead(u, c)
        /\ Load(u, c)
    /\ UNCHANGED <<bcase, role, sources, roleChanges>>

\* Emergency reassignment.
Handoff(u) ==
    /\ IsAdministrator(u)
    /\ \E c \in Cases, v \in Users :
        /\ Submits(u, c)
        /\ Quiet(c)
        /\ v # bcase[c].owner
        /\ role[v] \in Departments
        /\ HasCapacity(c)
        /\ bcase' = [bcase EXCEPT ![c].owner = v, ![c].dept = role[v], ![c].rev = @ + 1]
    /\ UNCHANGED <<role, sources, form, roleChanges>>

-----------------------------------------------------------------------------
(* BankingCaseReviewService: linkEvidence, propose, review *)

LinkEvidence(u) ==
    /\ \E c \in Cases, s \in sources :
        /\ Submits(u, c)
        /\ CanRead(u, c)
        /\ Quiet(c)
        /\ HasCapacity(c)
        /\ Cardinality(bcase[c].links) < MaxLinks
        /\ s \notin bcase[c].links
        /\ bcase' = [bcase EXCEPT ![c].links = @ \union {s}, ![c].rev = @ + 1]
    /\ UNCHANGED <<role, sources, form, roleChanges>>

\* A preview-only case may only ask for source review: a disposition, which
\* no later step depends on, so it is not modelled.
PlanBy(u, c) ==
    [id |-> bcase[c].rev + 1, state |-> "pending", by |-> u, reviewer |-> NoUser,
     links |-> bcase[c].links]

\* Mutant: a concluded cycle may start again.
NotUnderReview(c) == ~AwaitsReview(c)

\* One review cycle per case.
Unplanned(c) == bcase[c].plan = NoPlan

Propose(u) ==
    /\ \E c \in Cases :
        /\ Submits(u, c)
        /\ CanRead(u, c)
        /\ ~AwaitsReceiver(c)
        /\ Unplanned(c)
        /\ bcase[c].links # {} \/ bcase[c].source # NoSource \/ bcase[c].preview
        /\ HasCapacity(c)
        /\ bcase' = [bcase EXCEPT ![c].plan = PlanBy(u, c), ![c].rev = @ + 1]
    /\ UNCHANGED <<role, sources, form, roleChanges>>

\* Mutant: the current owner is compared instead of the originator.
IndependentOfOwner(u, c) == u \notin {bcase[c].owner, bcase[c].plan.by}

Independent(u, c) == u \notin {bcase[c].creator, bcase[c].plan.by}

Review(u) ==
    /\ IsAdministrator(u)
    /\ \E c \in Cases, verdict \in {"approved", "rejected"} :
        /\ Submits(u, c)
        /\ AwaitsReview(c)
        /\ form[u].seen.plan # NoPlan
        /\ form[u].seen.plan.id = bcase[c].plan.id
        /\ Independent(u, c)
        /\ EvidenceStands(c)
        /\ HasCapacity(c)
        /\ bcase' = [bcase EXCEPT ![c].plan.state = verdict, ![c].plan.reviewer = u,
                                  ![c].rev = @ + 1]
    /\ UNCHANGED <<role, sources, form, roleChanges>>

-----------------------------------------------------------------------------
(* BankingCaseTransferService: offer, accept, decline, cancel *)

Offer(u) ==
    /\ \E c \in Cases, v \in Users :
        /\ Submits(u, c)
        /\ CanRead(u, c)
        /\ Transferable(c)
        /\ ~AwaitsReceiver(c)
        /\ v # bcase[c].owner
        /\ role[v] \in Departments \ {bcase[c].dept}
        /\ bcase' = [bcase EXCEPT
            ![c].offer = [id |-> bcase[c].rev + 1, by |-> u, to |-> v, dept |-> role[v]],
            ![c].rev = @ + 1]
    /\ UNCHANGED <<role, sources, form, roleChanges>>

\* Mutant: the receiver's department is taken from the offer, unchecked.
InvitedOnce(u, c) ==
    /\ AwaitsReceiver(c)
    /\ bcase[c].offer.to = u
    /\ role[u] \in Departments

Invited(u, c) ==
    /\ AwaitsReceiver(c)
    /\ bcase[c].offer.to = u
    /\ role[u] = bcase[c].offer.dept

\* The invitation projection: all the receiver sees of it is its id and revision.
OpenInvitation(u) ==
    /\ \E c \in Cases :
        /\ bcase[c] # NoCase
        /\ Invited(u, c)
        /\ Load(u, c)
    /\ UNCHANGED <<bcase, role, sources, roleChanges>>

\* The transferId submitted is the pending offer's.
SameOffer(u, c) ==
    /\ AwaitsReceiver(c)
    /\ form[u].seen.offer # NoOffer
    /\ form[u].seen.offer.id = bcase[c].offer.id

Accept(u) ==
    /\ \E c \in Cases :
        /\ Submits(u, c)
        /\ SameOffer(u, c)
        /\ Invited(u, c)
        /\ Transferable(c)
        /\ bcase' = [bcase EXCEPT ![c].owner = u, ![c].dept = bcase[c].offer.dept,
                                  ![c].offer = NoOffer, ![c].rev = @ + 1]
    /\ UNCHANGED <<role, sources, form, roleChanges>>

Decline(u) ==
    /\ \E c \in Cases :
        /\ Submits(u, c)
        /\ SameOffer(u, c)
        /\ Invited(u, c)
        /\ Transferable(c)
        /\ bcase' = [bcase EXCEPT ![c].offer = NoOffer, ![c].rev = @ + 1]
    /\ UNCHANGED <<role, sources, form, roleChanges>>

Cancel(u) ==
    /\ \E c \in Cases :
        /\ Submits(u, c)
        /\ CanRead(u, c)
        /\ SameOffer(u, c)
        /\ Transferable(c)
        /\ bcase' = [bcase EXCEPT ![c].offer = NoOffer, ![c].rev = @ + 1]
    /\ UNCHANGED <<role, sources, form, roleChanges>>

-----------------------------------------------------------------------------
(* The institution around the cases *)

ChangeRole(u) ==
    /\ roleChanges < MaxRoleChanges
    /\ roleChanges' = roleChanges + 1
    /\ \E r \in Roles \ {role[u]} : role' = [role EXCEPT ![u] = r]
    /\ UNCHANGED <<bcase, sources, form>>

\* A referenced record goes, for instance by deleteDocument.
DeleteSource(s) ==
    /\ s \in sources
    /\ sources' = sources \ {s}
    /\ UNCHANGED <<bcase, role, form, roleChanges>>

-----------------------------------------------------------------------------

Act(u) ==
    \/ Create(u) \/ CreatePreview(u) \/ Open(u) \/ Handoff(u)
    \/ LinkEvidence(u) \/ Propose(u) \/ Review(u)
    \/ OpenInvitation(u) \/ Offer(u) \/ Accept(u) \/ Decline(u) \/ Cancel(u)

Next ==
    \/ \E u \in Users : Act(u) \/ ChangeRole(u)
    \/ \E s \in Sources : DeleteSource(s)

Spec == Init /\ [][Next]_vars

-----------------------------------------------------------------------------

Exists(c) == bcase[c] # NoCase

TypeOK ==
    /\ bcase \in [Cases -> CaseRecords \union {NoCase}]
    /\ role \in [Users -> Roles]
    /\ sources \subseteq Sources
    /\ form \in [Users -> [case: Cases, seen: CaseRecords] \union {NoForm}]
    /\ roleChanges \in 0..MaxRoleChanges

\* The originator of a case and the proposer of its plan are never the one who
\* decided the plan, whoever owned the case in between
\* (bankingCaseReviewService.ts: review).
MakerChecker ==
    \A c \in Cases : Exists(c) /\ bcase[c].plan # NoPlan /\ ~AwaitsReview(c) =>
        bcase[c].plan.reviewer \in Users \ {bcase[c].creator, bcase[c].plan.by}

\* From the proposal to the verdict nothing happens to the case: no evidence,
\* no owner and no offer comes in between, so what is decided is what was
\* proposed.  (A plan's id is the revision that proposed it.)
ReviewUndisturbed ==
    \A c \in Cases : Exists(c) /\ AwaitsReview(c) =>
        /\ bcase[c].plan.id = bcase[c].rev
        /\ bcase[c].plan.links = bcase[c].links
        /\ ~AwaitsReceiver(c)

\* From the offer to the answer nothing happens to the case: the receiver
\* takes over what was offered.
OfferUndisturbed ==
    \A c \in Cases : Exists(c) /\ AwaitsReceiver(c) =>
        /\ bcase[c].offer.id = bcase[c].rev
        /\ bcase[c].offer.to # bcase[c].owner
        /\ bcase[c].offer.dept # bcase[c].dept

\* Every change of an existing case is made by someone who has that very state
\* of the case in front of them: no stale, replayed or resubmitted form takes
\* effect, whatever two people do at once.
NoStaleChange ==
    [][\A c \in Cases : Exists(c) /\ bcase'[c] # bcase[c] =>
        \E u \in Users :
            form[u] # NoForm /\ form[u].case = c /\ form[u].seen = bcase[c]]_vars

\* One review cycle: a decided plan is final, and a pending one only ever
\* receives its verdict.
OneCycle ==
    [][\A c \in Cases : Exists(c) /\ bcase[c].plan # NoPlan =>
        /\ bcase'[c].plan.id = bcase[c].plan.id
        /\ bcase'[c].plan.links = bcase[c].plan.links
        /\ ~AwaitsReview(c) => bcase'[c].plan = bcase[c].plan]_vars

\* A new owner is a current member of the department the case lands in, even
\* if memberships changed after the offer, and was either the invited receiver
\* or put there when no invitation and no plan was open.
OwnershipLands ==
    [][\A c \in Cases : Exists(c) /\ bcase'[c].owner # bcase[c].owner =>
        /\ role[bcase'[c].owner] = bcase'[c].dept
        /\ IF AwaitsReceiver(c)
           THEN bcase'[c].owner = bcase[c].offer.to
           ELSE ~AwaitsReview(c)]_vars

\* "must approve or reject the plan": evidence deleted meanwhile does not stop
\* the checker from rejecting.
PlanCanBeRejected ==
    \A c \in Cases : Exists(c) /\ AwaitsReview(c) => EvidenceStands(c)

-----------------------------------------------------------------------------
(* The inductive invariant *)

\* A form never runs ahead of its case, and a revision is one state of it.
FormsTrail ==
    \A u \in Users : form[u] # NoForm =>
        LET c == form[u].case IN
        /\ Exists(c)
        /\ form[u].seen.rev <= bcase[c].rev
        /\ form[u].seen.rev = bcase[c].rev => form[u].seen = bcase[c]

IInv == TypeOK /\ FormsTrail /\ MakerChecker /\ ReviewUndisturbed /\ OfferUndisturbed
=============================================================================
