--------------------------- MODULE ValueLifecycle ---------------------------
(***************************************************************************)
(* From a value opportunity to the value captured: the stage 7 commands on *)
(* opportunities and their actions, beside the workflow engine that        *)
(* executes the actions, the evidence that measures them, and the plain    *)
(* actions of the rest of the product.                                     *)
(*                                                                         *)
(* Every command is one SERIALIZABLE transaction and therefore one step; a *)
(* command that throws changes nothing and is none.                        *)
(***************************************************************************)
EXTENDS Evidence, WorkflowRuns

CONSTANTS
    Opps,
    Actions,
    Captures,      \* identifiers of ledger entries
    NoOpp, NoAction, NoCapture

\* Evidence is about actions here; the run of a lifecycle action is named
\* after it (run-value-<action>), other runs have names of their own.
ASSUME LifecycleAssumption == Actions = Subjects /\ Actions \subseteq Runs

OppStages == {"Identified", "Validated", "Approved", "Executing", "Captured"}
ActionStages == {"Ready", "Approved", "In Progress", "Completed", "Measured"}
ActionRecords ==
    [opp: Opps \union {NoOpp}, named: Opps \union {NoOpp}, status: ActionStages]
CaptureRecords == [opp: Opps, action: Actions, evidence: SUBSET ProvIds]

ASSUME LifecycleNonesAssumption ==
    NoOpp \notin Opps /\ NoAction \notin ActionRecords /\ NoCapture \notin CaptureRecords

VARIABLES
    opp,       \* stage of an opportunity
    action,    \* action rows; opp is the opportunity stage 7 links them to by
               \* their provenance, named the one whose link is their insightSource
    captured   \* ledger entries

valueVars == <<opp, action, captured>>
vars == <<opp, action, captured, prov, verif, cert, now, wf, run, softened>>

Init ==
    /\ EvidenceInit
    /\ RunsInit
    /\ opp = [o \in Opps |-> "Identified"]
    /\ action = [a \in Actions |-> NoAction]
    /\ captured = [v \in Captures |-> NoCapture]

LinkedTo(o) == {a \in Actions : action[a] # NoAction /\ action[a].opp = o}
CapturesOf(o) == {v \in Captures : captured[v] # NoCapture /\ captured[v].opp = o}

\* assertActionLinkedToOpportunity
Linked(a, o) == a \in LinkedTo(o)

-----------------------------------------------------------------------------

Promote(o, from, to) == opp[o] = from /\ opp' = [opp EXCEPT ![o] = to]
Advance(a, from, to) ==
    action[a].status = from /\ action' = [action EXCEPT ![a].status = to]

ValidateOpportunity(o) ==
    /\ Promote(o, "Identified", "Validated")
    /\ UNCHANGED <<action, captured, evidenceVars, runVars>>

ApproveOpportunity(o) ==
    /\ Promote(o, "Validated", "Approved")
    /\ UNCHANGED <<action, captured, evidenceVars, runVars>>

\* Mutant: a second action may be made for the same opportunity.
FreeToAct(o) == TRUE

\* No action bears the link of the opportunity yet, whoever made it.
NotActedUpon(o) == \A a \in Actions : action[a] # NoAction => action[a].named # o

NewAction(o, name) ==
    \E a \in Actions :
        /\ action[a] = NoAction
        /\ action' = [action EXCEPT ![a] = [opp |-> o, named |-> name, status |-> "Ready"]]

CreateAction(o) ==
    /\ opp[o] = "Approved"
    /\ NotActedUpon(o)
    /\ NewAction(o, o)
    /\ UNCHANGED <<opp, captured, evidenceVars, runVars>>

ApproveAction(o) ==
    /\ opp[o] = "Approved"
    /\ \E a \in Actions : Linked(a, o) /\ Advance(a, "Ready", "Approved")
    /\ UNCHANGED <<opp, captured, evidenceVars, runVars>>

\* The run of an action is made with it; it shows "running" even where it
\* starts at an approval.
StartExecution(o) ==
    \E a \in Actions, w \in Workflows :
        /\ Linked(a, o)
        /\ Promote(o, "Approved", "Executing")
        /\ Advance(a, "Approved", "In Progress")
        /\ Executable(w)
        /\ run[a] = NoRun
        /\ run' = [run EXCEPT ![a] = Started(w, "running")]
        /\ UNCHANGED <<captured, evidenceVars, wf, softened>>

\* Mutant: it is enough that the run has ended.
RunEnded(a) == run[a] # NoRun /\ run[a].status \in {"completed", "failed"}

\* The run of the action exists and is completed.
RunDone(a) == run[a] # NoRun /\ run[a].status = "completed"

CompleteExecution(o) ==
    /\ opp[o] = "Executing"
    /\ \E a \in Actions :
        /\ Linked(a, o)
        /\ RunDone(a)
        /\ Advance(a, "In Progress", "Completed")
    /\ UNCHANGED <<opp, captured, evidenceVars, runVars>>

\* What recording, verifying and rejecting a measurement have in common.
Executed(a, o) == opp[o] = "Executing" /\ Linked(a, o) /\ RunDone(a)

RecordMeasurement(o) ==
    /\ \E a \in Actions :
        /\ Executed(a, o)
        /\ action[a].status = "Completed"
        /\ AddProvenance(a, TRUE)
    /\ UNCHANGED <<valueVars, verif, cert, now, runVars>>

\* createMeasurementVerification: what is verified already must cover the
\* basis asked for, and then stands; another basis is a new decision.
VerifyOn(a, basis) ==
    \/ Verified(a) /\ basis \subseteq verif[a].basis /\ UNCHANGED verif
    \/ ~Verified(a) /\ Decide(a, "verified", basis)

VerifyMeasurement(o) ==
    /\ \E a \in Actions, basis \in (SUBSET ProvIds) \ {{}} :
        /\ Executed(a, o)
        /\ basis \subseteq Measurements(a)
        /\ VerifyOn(a, basis)
        /\ Advance(a, "Completed", "Measured")
    /\ UNCHANGED <<opp, captured, prov, cert, now, runVars>>

RejectMeasurement(o) ==
    /\ \E a \in Actions, basis \in (SUBSET ProvIds) \ {{}} :
        /\ Executed(a, o)
        /\ action[a].status = "Completed"
        /\ basis \subseteq Measurements(a)
        /\ Decide(a, "rejected", basis)
    /\ UNCHANGED <<valueVars, prov, cert, now, runVars>>

\* The current verification covers every measurement the capture names.
Covered(a, basis) ==
    basis \subseteq Measurements(a) /\ Verified(a) /\ basis \subseteq verif[a].basis

CaptureValue(o) ==
    /\ Promote(o, "Executing", "Captured")
    /\ \E a \in Actions, v \in Captures, basis \in (SUBSET ProvIds) \ {{}} :
        /\ Linked(a, o)
        /\ action[a].status = "Measured"
        /\ RunDone(a)
        /\ Covered(a, basis)
        /\ CapturesOf(o) = {}
        /\ captured[v] = NoCapture
        /\ captured' = [captured EXCEPT ![v] = [opp |-> o, action |-> a, evidence |-> basis]]
    /\ UNCHANGED <<action, evidenceVars, runVars>>

-----------------------------------------------------------------------------
(* Actions outside the lifecycle (actionService).                          *)

\* Its insightSource is free text, and may be the link of an opportunity.
CreatePlainAction ==
    /\ \E name \in Opps \union {NoOpp} : NewAction(NoOpp, name)
    /\ UNCHANGED <<opp, captured, evidenceVars, runVars>>

NextStage(stage) ==
    CASE stage = "Ready" -> "Approved"
      [] stage = "Approved" -> "In Progress"
      [] stage = "In Progress" -> "Completed"
      [] stage = "Completed" -> "Measured"

\* advanceAction: whatever comes next, except for linked actions.
AdvanceAction ==
    /\ \E a \in LinkedTo(NoOpp) :
        /\ action[a].status # "Measured"
        /\ action' = [action EXCEPT ![a].status = NextStage(action[a].status)]
    /\ UNCHANGED <<opp, captured, evidenceVars, runVars>>

-----------------------------------------------------------------------------

Command(o) ==
    \/ ValidateOpportunity(o) \/ ApproveOpportunity(o)
    \/ CreateAction(o) \/ ApproveAction(o)
    \/ StartExecution(o) \/ CompleteExecution(o)
    \/ RecordMeasurement(o) \/ VerifyMeasurement(o) \/ RejectMeasurement(o)
    \/ CaptureValue(o)

\* Evidence can be recorded of any action there is, at any time.
EvidenceNext ==
    /\ \/ \E a \in Actions : action[a] # NoAction /\ EvidenceStep(a)
       \/ Tick
    /\ UNCHANGED <<valueVars, runVars>>

WorkflowNext ==
    /\ \/ CreateWorkflow
       \/ UpdateWorkflow
       \/ \E r \in Runs \ Actions : TriggerRun(r)
       \/ \E r \in Runs : AdvanceStep(r)
    /\ UNCHANGED <<valueVars, evidenceVars>>

Next ==
    \/ \E o \in Opps : Command(o)
    \/ CreatePlainAction
    \/ AdvanceAction
    \/ EvidenceNext
    \/ WorkflowNext

Spec == Init /\ [][Next]_vars

-----------------------------------------------------------------------------

TypeOK ==
    /\ EvidenceTypeOK
    /\ RunsTypeOK
    /\ opp \in [Opps -> OppStages]
    /\ action \in [Actions -> ActionRecords \union {NoAction}]
    /\ captured \in [Captures -> CaptureRecords \union {NoCapture}]

\* An opportunity has at most one action, exactly one from its execution on,
\* and its value is captured once: however often and by whom these are tried.
ActedOnce ==
    \A o \in Opps :
        /\ \A a, b \in LinkedTo(o) : a = b
        /\ opp[o] \in {"Identified", "Validated"} => LinkedTo(o) = {}
        /\ opp[o] \in {"Executing", "Captured"} => LinkedTo(o) # {}
        /\ \A v, w \in CapturesOf(o) : v = w
        /\ opp[o] = "Captured" <=> CapturesOf(o) # {}

\* Opportunity, action and run are at stages that fit.  In particular an
\* action only counts as done when its run is: a run that failed keeps both
\* action and opportunity where they are, for good.
StagesAgree ==
    \A o \in Opps : \A a \in LinkedTo(o) :
        /\ opp[o] = "Approved" <=> action[a].status \in {"Ready", "Approved"}
        /\ opp[o] = "Approved" => run[a] = NoRun
        /\ action[a].status \in {"Completed", "Measured"} =>
               run[a] # NoRun /\ run[a].status = "completed"
        /\ opp[o] = "Captured" => action[a].status = "Measured"
=============================================================================
