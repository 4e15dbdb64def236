------------------------------ MODULE Evidence ------------------------------
(***************************************************************************)
(* Evidence about subjects: provenance records, verification decisions     *)
(* that rest on them, certifications that rest on verifications.           *)
(*                                                                         *)
(* All three are append-only logs, and the state of a subject is its       *)
(* latest decision.  A decision's time is later than its predecessor's     *)
(* whatever the clock says (nextDecisionTimestamp), so the latest is the   *)
(* last: only it, and its number in the log, are kept here.                *)
(***************************************************************************)
EXTENDS Naturals, FiniteSets

CONSTANTS
    Subjects,
    ProvIds,
    MaxDecisions,   \* bound on the verification decisions about a subject
    MaxTime,        \* bound on the clock
    NoProv

ASSUME EvidenceAssumption == MaxDecisions \in Nat /\ MaxTime \in Nat

VerificationStates == {"unverified", "pending", "verified", "rejected", "invalidated"}

VerificationTransitions ==
    [unverified  |-> {"pending", "verified", "rejected"},
     pending     |-> {"verified", "rejected"},
     verified    |-> {"invalidated"},
     rejected    |-> {"pending", "verified"},
     invalidated |-> {"pending", "verified"}]

CertificationDecisions == {"pending", "certified", "denied", "revoked"}

CertificationTransitions ==
    [uncertified |-> {"pending", "certified"},
     pending     |-> {"certified", "denied"},
     certified   |-> {"revoked"},
     denied      |-> {"pending", "certified"},
     revoked     |-> {"pending", "certified"},
     expired     |-> {"pending", "certified"}]

\* measures: a "supports" record made by the measurement method of stage 7.
ProvRecords == [of: Subjects, measures: BOOLEAN]

ASSUME NoProvAssumption == NoProv \notin ProvRecords

VARIABLES
    prov,    \* provenance records
    verif,   \* latest verification of a subject: its number, state and basis
    cert,    \* latest certification: state, the verification it is on, its end
    now      \* the clock that certifications expire by

evidenceVars == <<prov, verif, cert, now>>

Unverified == [n |-> 0, state |-> "unverified", basis |-> {}]
Uncertified == [state |-> "uncertified", on |-> 0, until |-> 0]

EvidenceInit ==
    /\ prov = [p \in ProvIds |-> NoProv]
    /\ verif = [s \in Subjects |-> Unverified]
    /\ cert = [s \in Subjects |-> Uncertified]
    /\ now = 0

-----------------------------------------------------------------------------

\* deriveCertificationState
CertState(s) ==
    IF cert[s].state = "certified" /\ cert[s].until <= now
    THEN "expired"
    ELSE cert[s].state

Verified(s) == verif[s].state = "verified"

ProvOf(s) == {p \in ProvIds : prov[p] # NoProv /\ prov[p].of = s}
Measurements(s) == {p \in ProvOf(s) : prov[p].measures}

AddProvenance(s, measures) ==
    \E p \in ProvIds :
        /\ prov[p] = NoProv
        /\ prov' = [prov EXCEPT ![p] = [of |-> s, measures |-> measures]]

RecordProvenance(s) ==
    /\ \E measures \in BOOLEAN : AddProvenance(s, measures)
    /\ UNCHANGED <<verif, cert, now>>

\* Only the basis of a verified decision is ever read.
Kept(state, basis) == IF state = "verified" THEN basis ELSE {}

\* assertVerificationRecordInvariant, and the record it lets through.
Decide(s, state, basis) ==
    /\ verif[s].n < MaxDecisions
    /\ state \in VerificationTransitions[verif[s].state]
    /\ state = "verified" => basis # {}
    /\ verif' = [verif EXCEPT ![s] =
           [n |-> verif[s].n + 1, state |-> state, basis |-> Kept(state, basis)]]

\* Mutant: a certified verification can be invalidated.
MayDecideAlways(s, state) == TRUE

MayDecide(s, state) == state = "invalidated" => CertState(s) # "certified"

RecordVerification(s) ==
    \E state \in VerificationStates \ {"unverified"}, basis \in SUBSET ProvOf(s) :
        /\ MayDecide(s, state)
        /\ Decide(s, state, basis)
        /\ UNCHANGED <<prov, cert, now>>

\* A certification names the current verification, the others name none here.
RecordCertification(s) ==
    \E state \in CertificationTransitions[CertState(s)], until \in 0 .. MaxTime + 1 :
        /\ state \in {"pending", "certified"} => Verified(s)
        /\ cert' = [cert EXCEPT ![s] =
               IF state = "certified"
               THEN [state |-> state, on |-> verif[s].n, until |-> until]
               ELSE [state |-> state, on |-> 0, until |-> 0]]
        /\ UNCHANGED <<prov, verif, now>>

Tick ==
    /\ now < MaxTime
    /\ now' = now + 1
    /\ UNCHANGED <<prov, verif, cert>>

EvidenceStep(s) == RecordProvenance(s) \/ RecordVerification(s) \/ RecordCertification(s)

-----------------------------------------------------------------------------

EvidenceTypeOK ==
    /\ prov \in [ProvIds -> ProvRecords \union {NoProv}]
    /\ verif \in [Subjects -> [n: 0 .. MaxDecisions, state: VerificationStates,
                               basis: SUBSET ProvIds]]
    /\ cert \in [Subjects -> [state: CertificationDecisions \union {"uncertified"},
                              on: 0 .. MaxDecisions, until: 0 .. MaxTime + 1]]
    /\ now \in 0 .. MaxTime

\* What is certified is verified, by the very decision that was certified:
\* whatever is invalidated, revoked or left to expire, and by whom.
CertifiedIsVerified ==
    \A s \in Subjects : CertState(s) = "certified" =>
        Verified(s) /\ cert[s].on = verif[s].n
=============================================================================
