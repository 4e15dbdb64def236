------------------------ MODULE ValueLifecycleProofs ------------------------
(***************************************************************************)
(* Proofs about ValueLifecycle, for any number of opportunities, actions,  *)
(* runs, definitions and decisions.                                        *)
(***************************************************************************)
EXTENDS ValueLifecycle, TLAPS

\* A run of the lifecycle is that of an action: its name is not taken before.
RunsBacked == \A a \in Actions : run[a] # NoRun => action[a] # NoAction

\* An action of the lifecycle also bears the link of its opportunity.
LinksNamed ==
    \A a \in Actions : action[a] # NoAction /\ action[a].opp # NoOpp =>
        action[a].named = action[a].opp

StageInv == ActedOnce /\ StagesAgree /\ RunsBacked /\ LinksNamed

IInv == TypeOK /\ StageInv

-----------------------------------------------------------------------------
(* Types.                                                                  *)

\* The steps a run starts with are steps of its definition.
LEMMA InitialStepsType ==
    ASSUME NEW d \in Definitions
    PROVE  InitialSteps(d) \in [DOMAIN d -> StepRecords(d)]
<1>1. \A i \in DOMAIN d : d[i].id \in Ids(d)
  BY DEF Ids
<1> QED BY <1>1 DEF InitialSteps, StepRecords

\* A run that is started is well formed.
LEMMA StartedType ==
    ASSUME NEW w \in Workflows, wf[w] \in WorkflowRecords,
           NEW status \in {"running", "waiting"}
    PROVE  Started(w, status) \in RunRecords(wf[w].def)
<1>1. InitialSteps(wf[w].def) \in [DOMAIN wf[w].def -> StepRecords(wf[w].def)]
  BY InitialStepsType DEF WorkflowRecords
<1> QED BY <1>1 DEF Started, RunRecords, WorkflowRecords

\* Ending a step leaves a run well formed.
LEMMA EndedType ==
    ASSUME NEW d, NEW steps \in [DOMAIN d -> StepRecords(d)], NEW k \in DOMAIN d,
           NEW decision \in {"none", "approved", "rejected"}
    PROVE  Ended(steps, k, decision) \in [DOMAIN d -> StepRecords(d)]
BY DEF Ended, StepRecords

\* A new decision is well typed.
LEMMA DecideType ==
    ASSUME EvidenceTypeOK, NEW s \in Subjects, NEW state \in VerificationStates,
           NEW basis \in SUBSET ProvIds, Decide(s, state, basis)
    PROVE  verif' \in [Subjects -> [n: 0 .. MaxDecisions, state: VerificationStates,
                                    basis: SUBSET ProvIds]]
<1>1. verif[s].n + 1 \in 0 .. MaxDecisions
  BY EvidenceAssumption DEF EvidenceTypeOK, Decide
<1>2. Kept(state, basis) \in SUBSET ProvIds
  BY DEF Kept
<1> QED BY <1>1, <1>2 DEF Decide, EvidenceTypeOK

\* What is said of any subject keeps to the types.
LEMMA EvidenceType ==
    ASSUME EvidenceTypeOK, NEW s \in Subjects, EvidenceStep(s)
    PROVE  EvidenceTypeOK'
<1>1. CASE RecordProvenance(s)
  <2>1. prov' \in [ProvIds -> ProvRecords \union {NoProv}]
    BY <1>1 DEF RecordProvenance, AddProvenance, ProvRecords, EvidenceTypeOK
  <2> QED BY <1>1, <2>1 DEF RecordProvenance, EvidenceTypeOK
<1>2. CASE RecordVerification(s)
  <2>1. PICK state \in VerificationStates \ {"unverified"}, basis \in SUBSET ProvOf(s) :
            Decide(s, state, basis)
    BY <1>2 DEF RecordVerification
  <2>2. basis \in SUBSET ProvIds
    BY DEF ProvOf
  <2> QED BY <1>2, <2>1, <2>2, DecideType DEF RecordVerification, EvidenceTypeOK
<1>3. CASE RecordCertification(s)
  <2>1. PICK state \in CertificationTransitions[CertState(s)], until \in 0 .. MaxTime + 1 :
            cert' = [cert EXCEPT ![s] =
               IF state = "certified"
               THEN [state |-> state, on |-> verif[s].n, until |-> until]
               ELSE [state |-> state, on |-> 0, until |-> 0]]
    BY <1>3 DEF RecordCertification
  <2>2. CertState(s) \in {"uncertified", "pending", "certified", "denied", "revoked", "expired"}
    BY DEF CertState, EvidenceTypeOK, CertificationDecisions
  <2>3. state \in CertificationDecisions
    BY <2>1, <2>2 DEF CertificationTransitions, CertificationDecisions
  <2>4. verif[s].n \in 0 .. MaxDecisions /\ 0 \in 0 .. MaxDecisions /\ 0 \in 0 .. MaxTime + 1
    BY EvidenceAssumption DEF EvidenceTypeOK
  <2>5. cert' \in [Subjects -> [state: CertificationDecisions \union {"uncertified"},
                                on: 0 .. MaxDecisions, until: 0 .. MaxTime + 1]]
    BY <2>1, <2>3, <2>4 DEF EvidenceTypeOK
  <2> QED BY <1>3, <2>5 DEF RecordCertification, EvidenceTypeOK
<1> QED BY <1>1, <1>2, <1>3 DEF EvidenceStep

\* Workflows are edited, and runs go on, within the types.
LEMMA RunsType ==
    ASSUME RunsTypeOK, WorkflowNext
    PROVE  RunsTypeOK'
<1>1. CASE CreateWorkflow
  BY <1>1, DefinitionsAssumption DEF CreateWorkflow, RunsTypeOK, WorkflowRecords
<1>2. CASE UpdateWorkflow
  <2>1. PICK w \in Workflows, d \in Definitions, active \in BOOLEAN :
            /\ wf[w] # NoWorkflow /\ wf[w].version < MaxVersion /\ run' = run
            /\ wf' = [wf EXCEPT ![w] =
                   [def |-> d, version |-> wf[w].version + 1, active |-> active]]
    BY <1>2 DEF UpdateWorkflow
  <2>2. wf[w].version + 1 \in 1 .. MaxVersion
    BY <2>1, DefinitionsAssumption DEF RunsTypeOK, WorkflowRecords
  <2>3. softened' \subseteq Runs \X Nodes
    BY <1>2 DEF UpdateWorkflow, RunsTypeOK, Ahead
  <2> QED BY <2>1, <2>2, <2>3 DEF RunsTypeOK, WorkflowRecords
<1>3. CASE \E r \in Runs \ Actions : TriggerRun(r)
  <2>1. PICK r \in Runs, w \in Workflows, status \in {"running", "waiting"} :
            /\ Executable(w) /\ wf' = wf /\ softened' = softened
            /\ run' = [run EXCEPT ![r] = Started(w, status)]
    BY <1>3 DEF TriggerRun
  <2>2. wf[w] \in WorkflowRecords /\ wf[w].def \in Definitions
    BY <2>1 DEF RunsTypeOK, WorkflowRecords, Executable
  <2> QED BY <2>1, <2>2, StartedType DEF RunsTypeOK
<1>4. CASE \E r \in Runs : AdvanceStep(r)
  <2>1. PICK r \in Runs : AdvanceStep(r)
    BY <1>4
  <2>2. PICK k \in DOMAIN run[r].steps, decision \in {"none", "approved", "rejected"} :
            run' = [run EXCEPT ![r].steps = Ended(run[r].steps, k, decision),
                       ![r].status = StatusAfter(run[r].of, Ended(run[r].steps, k, decision))]
    BY <2>1 DEF AdvanceStep
  <2>3. PICK d \in Definitions : run[r] \in RunRecords(d)
    BY <2>1 DEF AdvanceStep, Going, RunsTypeOK
  <2>4. Ended(run[r].steps, k, decision) \in [DOMAIN d -> StepRecords(d)]
    BY <2>2, <2>3, EndedType DEF RunRecords
  <2>5. StatusAfter(run[r].of, Ended(run[r].steps, k, decision))
            \in {"running", "waiting", "completed", "failed"}
    BY DEF StatusAfter
  <2>6. run'[r] \in RunRecords(d)
    BY <2>2, <2>3, <2>4, <2>5 DEF RunRecords, RunsTypeOK
  <2>7. wf' = wf /\ softened' = softened
    BY <2>1 DEF AdvanceStep
  <2> QED BY <2>2, <2>3, <2>6, <2>7 DEF RunsTypeOK
<1> QED BY <1>1, <1>2, <1>3, <1>4 DEF WorkflowNext

\* A row that is new or of a new stage is all that changes in a step.
OthersKept(a) == \A b \in Actions \ {a} : action'[b] = action[b]

Made(a, o, name) ==
    /\ action[a] = NoAction
    /\ action'[a] # NoAction /\ action'[a].opp = o /\ action'[a].named = name
    /\ action'[a].status = "Ready"
    /\ OthersKept(a)

Moved(a, o, from, to) ==
    /\ action[a] # NoAction /\ action[a].opp = o /\ action[a].status = from
    /\ action'[a] # NoAction /\ action'[a].opp = o /\ action'[a].status = to
    /\ action'[a].named = action[a].named
    /\ OthersKept(a)

LEMMA NewActionMakes ==
    ASSUME TypeOK, NEW o \in Opps \union {NoOpp}, NEW name \in Opps \union {NoOpp},
           NewAction(o, name)
    PROVE  /\ \E a \in Actions : Made(a, o, name)
           /\ action' \in [Actions -> ActionRecords \union {NoAction}]
<1>1. PICK a \in Actions :
          /\ action[a] = NoAction
          /\ action' = [action EXCEPT ![a] = [opp |-> o, named |-> name, status |-> "Ready"]]
  BY DEF NewAction
<1>2. [opp |-> o, named |-> name, status |-> "Ready"] \in ActionRecords
  BY DEF ActionRecords, ActionStages
<1>3. action'[a] = [opp |-> o, named |-> name, status |-> "Ready"]
  BY <1>1 DEF TypeOK
<1> QED BY <1>1, <1>2, <1>3, LifecycleNonesAssumption DEF Made, OthersKept, TypeOK

LEMMA AdvanceMoves ==
    ASSUME TypeOK, NEW o, NEW a \in LinkedTo(o), NEW from,
           NEW to \in ActionStages, Advance(a, from, to)
    PROVE  /\ Moved(a, o, from, to)
           /\ action' \in [Actions -> ActionRecords \union {NoAction}]
<1>1. a \in Actions /\ action[a] \in ActionRecords /\ action[a].opp = o
  BY DEF LinkedTo, TypeOK
<1>2. action' = [action EXCEPT ![a].status = to] /\ action[a].status = from
  BY DEF Advance
<1>3. action'[a] = [action[a] EXCEPT !.status = to]
  BY <1>1, <1>2 DEF TypeOK
<1>4. action'[a] = [opp |-> action[a].opp, named |-> action[a].named, status |-> to] /\ action'[a] \in ActionRecords
  BY <1>1, <1>3 DEF ActionRecords
<1> QED BY <1>1, <1>2, <1>4, LifecycleNonesAssumption DEF Moved, OthersKept, TypeOK, LinkedTo

\* What is left alone stays well typed.
LEMMA Frame ==
    /\ EvidenceTypeOK /\ UNCHANGED evidenceVars => EvidenceTypeOK'
    /\ RunsTypeOK /\ UNCHANGED runVars => RunsTypeOK'
BY DEF evidenceVars, runVars, EvidenceTypeOK, RunsTypeOK

\* A command leaves everything well typed.
LEMMA CommandType ==
    ASSUME TypeOK, NEW o \in Opps, Command(o)
    PROVE  TypeOK'
<1> USE DEF TypeOK
<1>1. CASE ValidateOpportunity(o) \/ ApproveOpportunity(o)
  <2>1. opp' \in [Opps -> OppStages]
    BY <1>1 DEF ValidateOpportunity, ApproveOpportunity, Promote, OppStages
  <2> QED BY <1>1, <2>1, Frame DEF ValidateOpportunity, ApproveOpportunity
<1>2. CASE CreateAction(o)
  BY <1>2, NewActionMakes, Frame DEF CreateAction
<1>9. CASE ApproveAction(o)
  BY <1>9, AdvanceMoves, Frame DEF ApproveAction, Linked, ActionStages
<1>3. CASE StartExecution(o)
  <2>1. PICK a \in Actions, w \in Workflows :
            /\ Linked(a, o) /\ Advance(a, "Approved", "In Progress") /\ Executable(w)
            /\ run' = [run EXCEPT ![a] = Started(w, "running")]
    BY <1>3 DEF StartExecution
  <2>2. wf[w] \in WorkflowRecords /\ wf[w].def \in Definitions
    BY <2>1 DEF RunsTypeOK, WorkflowRecords, Executable
  <2>3. Started(w, "running") \in RunRecords(wf[w].def)
    BY <2>2, StartedType
  <2>4. RunsTypeOK'
    BY <1>3, <2>1, <2>2, <2>3, LifecycleAssumption DEF RunsTypeOK, StartExecution
  <2>5. action' \in [Actions -> ActionRecords \union {NoAction}]
    BY <2>1, AdvanceMoves DEF Linked, ActionStages
  <2>6. opp' \in [Opps -> OppStages]
    BY <1>3 DEF StartExecution, Promote, OppStages
  <2> QED BY <1>3, <2>4, <2>5, <2>6 DEF StartExecution, evidenceVars, EvidenceTypeOK
<1>4. CASE CompleteExecution(o)
  BY <1>4, AdvanceMoves, Frame DEF CompleteExecution, Linked, ActionStages
<1>5. CASE RecordMeasurement(o)
  <2>1. prov' \in [ProvIds -> ProvRecords \union {NoProv}]
    BY <1>5, LifecycleAssumption
       DEF RecordMeasurement, AddProvenance, ProvRecords, EvidenceTypeOK
  <2> QED BY <1>5, <2>1 DEF RecordMeasurement, valueVars, runVars, EvidenceTypeOK, RunsTypeOK
<1>6. CASE VerifyMeasurement(o)
  <2>1. PICK a \in Actions, basis \in SUBSET ProvIds :
            /\ Linked(a, o) /\ VerifyOn(a, basis) /\ Advance(a, "Completed", "Measured")
    BY <1>6 DEF VerifyMeasurement, Executed
  <2>2. EvidenceTypeOK'
    BY <1>6, <2>1, DecideType, LifecycleAssumption
       DEF VerifyMeasurement, VerifyOn, EvidenceTypeOK, VerificationStates
  <2>3. action' \in [Actions -> ActionRecords \union {NoAction}]
    BY <2>1, AdvanceMoves DEF Linked, ActionStages
  <2> QED BY <1>6, <2>2, <2>3 DEF VerifyMeasurement, runVars, RunsTypeOK
<1>7. CASE RejectMeasurement(o)
  <2>1. EvidenceTypeOK'
    BY <1>7, DecideType, LifecycleAssumption
       DEF RejectMeasurement, EvidenceTypeOK, VerificationStates
  <2> QED BY <1>7, <2>1 DEF RejectMeasurement, valueVars, runVars, RunsTypeOK
<1>8. CASE CaptureValue(o)
  <2>1. captured' \in [Captures -> CaptureRecords \union {NoCapture}]
    BY <1>8 DEF CaptureValue, CaptureRecords
  <2>2. opp' \in [Opps -> OppStages]
    BY <1>8 DEF CaptureValue, Promote, OppStages
  <2> QED BY <1>8, <2>1, <2>2, Frame DEF CaptureValue
<1> QED BY <1>1, <1>2, <1>3, <1>4, <1>5, <1>6, <1>7, <1>8, <1>9 DEF Command

\* So does any other step.
LEMMA StepType ==
    ASSUME TypeOK, [Next]_vars
    PROVE  TypeOK'
<1>1. CASE \E o \in Opps : Command(o)
  BY <1>1, CommandType
<1>2. CASE CreatePlainAction \/ AdvanceAction
  <2>1. CASE CreatePlainAction
    BY <2>1, NewActionMakes, Frame DEF TypeOK, CreatePlainAction
  <2>2. CASE AdvanceAction
    <3>1. PICK a \in LinkedTo(NoOpp) :
              action' = [action EXCEPT ![a].status = NextStage(action[a].status)]
              /\ action[a].status # "Measured"
      BY <2>2 DEF AdvanceAction
    <3>2. NextStage(action[a].status) \in ActionStages
      BY <3>1 DEF LinkedTo, TypeOK, ActionRecords, ActionStages, NextStage
    <3>3. action' \in [Actions -> ActionRecords \union {NoAction}]
      BY <3>1, <3>2, AdvanceMoves DEF Advance
    <3> QED BY <2>2, <3>3, Frame DEF TypeOK, AdvanceAction
  <2> QED BY <1>2, <2>1, <2>2
<1>3. CASE EvidenceNext
  <2>1. CASE Tick
    BY <1>3, <2>1, EvidenceAssumption
       DEF Tick, TypeOK, EvidenceNext, EvidenceTypeOK, valueVars, runVars, RunsTypeOK
  <2>2. CASE \E a \in Actions : EvidenceStep(a)
    BY <1>3, <2>2, EvidenceType, LifecycleAssumption
       DEF TypeOK, EvidenceNext, valueVars, runVars, RunsTypeOK
  <2> QED BY <1>3, <2>1, <2>2 DEF EvidenceNext
<1>4. CASE WorkflowNext
  BY <1>4, RunsType DEF TypeOK, WorkflowNext, valueVars, evidenceVars, EvidenceTypeOK
<1>5. CASE UNCHANGED vars
  BY <1>5 DEF TypeOK, vars, EvidenceTypeOK, RunsTypeOK
<1> QED BY <1>1, <1>2, <1>3, <1>4, <1>5 DEF Next

LEMMA InitType == Init => TypeOK
BY EvidenceAssumption
   DEF Init, TypeOK, EvidenceInit, RunsInit, EvidenceTypeOK, RunsTypeOK, Unverified,
       Uncertified, VerificationStates, OppStages

\* Every reachable state is well typed: in particular every run has the steps
\* of the definition it was started from.
THEOREM TypeCorrect == Spec => []TypeOK
BY InitType, StepType, PTL DEF Spec

-----------------------------------------------------------------------------
(* Opportunities, actions and runs.                                        *)

\* Runs are started under names of their own, and go on only until they are
\* completed: the engine never disturbs what stage 7 has seen of a run.
LEMMA WorkflowKeepsStages ==
    ASSUME TypeOK, StageInv, WorkflowNext
    PROVE  StageInv'
<1>1. UNCHANGED valueVars
  BY DEF WorkflowNext
<1>2. \A a \in Actions : run'[a] # run[a] => Going(a)
  BY LifecycleAssumption DEF WorkflowNext, CreateWorkflow, UpdateWorkflow, TriggerRun,
      AdvanceStep, TypeOK, RunsTypeOK
<1>3. \A a \in Actions : run[a] = NoRun \/ run[a].status = "completed" => run'[a] = run[a]
  BY <1>2 DEF Going
<1>4. \A a \in Actions : run'[a] # NoRun => run[a] # NoRun
  BY <1>3
<1> QED BY <1>1, <1>3, <1>4
        DEF StageInv, ActedOnce, StagesAgree, RunsBacked, LinksNamed, LinkedTo, CapturesOf, valueVars

\* An action that moves on, from a stage that fits to one that fits.
LEMMA MoveKeepsStages ==
    ASSUME StageInv, NEW o \in Opps, NEW a \in Actions, NEW from, NEW to,
           Moved(a, o, from, to), opp' = opp, captured' = captured, run' = run,
           opp[o] = "Approved" <=> to \in {"Ready", "Approved"},
           opp[o] = "Captured" => to = "Measured",
           to \in {"Completed", "Measured"} => RunDone(a)
    PROVE  StageInv'
<1>1. ActedOnce'
  BY DEF StageInv, ActedOnce, LinkedTo, CapturesOf, Moved, OthersKept
<1>2. StagesAgree'
  BY DEF StageInv, StagesAgree, LinkedTo, Moved, OthersKept, RunDone
<1>3. RunsBacked'
  BY DEF StageInv, RunsBacked, Moved, OthersKept
<1>4. LinksNamed'
  BY DEF StageInv, LinksNamed, Moved, OthersKept
<1> QED BY <1>1, <1>2, <1>3, <1>4 DEF StageInv

\* A command takes opportunity, action and run on together.
LEMMA CommandKeepsStages ==
    ASSUME TypeOK, StageInv, NEW o \in Opps, Command(o)
    PROVE  StageInv'
<1>1. CASE ValidateOpportunity(o) \/ ApproveOpportunity(o)
  <2>1. /\ opp[o] \in {"Identified", "Validated"} /\ opp'[o] \in {"Validated", "Approved"}
        /\ \A x \in Opps \ {o} : opp'[x] = opp[x]
    BY <1>1 DEF ValidateOpportunity, ApproveOpportunity, Promote, TypeOK
  <2>2. UNCHANGED <<action, captured, run>>
    BY <1>1 DEF ValidateOpportunity, ApproveOpportunity, runVars
  <2> QED BY <2>1, <2>2 DEF StageInv, ActedOnce, StagesAgree, RunsBacked, LinksNamed, LinkedTo, CapturesOf
<1>2. CASE CreateAction(o)
  <2>1. PICK a \in Actions : Made(a, o, o)
    BY <1>2, NewActionMakes DEF CreateAction
  <2>2. opp[o] = "Approved" /\ NotActedUpon(o) /\ UNCHANGED <<opp, captured, run>>
    BY <1>2 DEF CreateAction, runVars
  <2>3. LinkedTo(o) = {}
    BY <2>2, LifecycleNonesAssumption DEF StageInv, LinksNamed, LinkedTo, NotActedUpon
  <2>4. ActedOnce'
    BY <2>1, <2>2, <2>3 DEF StageInv, ActedOnce, LinkedTo, CapturesOf, Made, OthersKept
  <2>5. StagesAgree' /\ RunsBacked' /\ LinksNamed'
    BY <2>1, <2>2 DEF StageInv, StagesAgree, RunsBacked, LinksNamed, LinkedTo, Made, OthersKept
  <2> QED BY <2>4, <2>5 DEF StageInv
<1>3. CASE ApproveAction(o)
  <2>1. PICK a \in Actions : Moved(a, o, "Ready", "Approved")
    BY <1>3, AdvanceMoves DEF ApproveAction, Linked, LinkedTo, ActionStages
  <2> QED BY <1>3, <2>1, MoveKeepsStages DEF ApproveAction, runVars
<1>4. CASE StartExecution(o)
  <2>1. PICK a \in Actions, w \in Workflows :
            /\ Linked(a, o) /\ Advance(a, "Approved", "In Progress")
            /\ run' = [run EXCEPT ![a] = Started(w, "running")]
    BY <1>4 DEF StartExecution
  <2>2. Promote(o, "Approved", "Executing") /\ captured' = captured
    BY <1>4 DEF StartExecution
  <2>3. /\ opp[o] = "Approved" /\ opp'[o] = "Executing"
        /\ \A x \in Opps \ {o} : opp'[x] = opp[x]
    BY <2>2 DEF Promote, TypeOK
  <2>4. \A b \in Actions \ {a} : run'[b] = run[b]
    BY <2>1, LifecycleAssumption DEF TypeOK, RunsTypeOK
  <2>5. Moved(a, o, "Approved", "In Progress")
    BY <2>1, AdvanceMoves DEF Linked, ActionStages
  <2>9. \A x \in Opps : LinkedTo(x)' = LinkedTo(x) /\ CapturesOf(x)' = CapturesOf(x)
    BY <2>2, <2>5 DEF LinkedTo, CapturesOf, Moved, OthersKept
  <2>10. a \in LinkedTo(o)
    BY <2>1 DEF Linked
  <2>6. ActedOnce'
    BY <2>3, <2>9, <2>10 DEF StageInv, ActedOnce
  <2>7. StagesAgree'
    <3>1. SUFFICES ASSUME NEW x \in Opps, NEW b \in LinkedTo(x)
                   PROVE  /\ opp'[x] = "Approved" <=> action'[b].status \in {"Ready", "Approved"}
                          /\ opp'[x] = "Approved" => run'[b] = NoRun
                          /\ action'[b].status \in {"Completed", "Measured"} =>
                                 run'[b] # NoRun /\ run'[b].status = "completed"
                          /\ opp'[x] = "Captured" => action'[b].status = "Measured"
      BY <2>9 DEF StagesAgree
    <3>2. CASE x = o
      BY <2>3, <2>5, <2>10, <3>2 DEF StageInv, ActedOnce, Moved
    <3>3. CASE x # o
      <4>1. b # a /\ b \in Actions
        BY <2>10, <3>3 DEF LinkedTo
      <4>2. action'[b] = action[b] /\ run'[b] = run[b] /\ opp'[x] = opp[x]
        BY <2>3, <2>4, <2>5, <3>3, <4>1 DEF Moved, OthersKept
      <4> QED BY <4>2 DEF StageInv, StagesAgree
    <3> QED BY <3>2, <3>3
  <2>8. RunsBacked' /\ LinksNamed'
    BY <2>4, <2>5 DEF StageInv, RunsBacked, LinksNamed, Moved, OthersKept
  <2> QED BY <2>6, <2>7, <2>8 DEF StageInv
<1>5. CASE CompleteExecution(o)
  <2>1. PICK a \in Actions :
            Linked(a, o) /\ RunDone(a) /\ Advance(a, "In Progress", "Completed")
    BY <1>5 DEF CompleteExecution
  <2>2. Moved(a, o, "In Progress", "Completed")
    BY <2>1, AdvanceMoves DEF Linked, ActionStages
  <2> QED BY <1>5, <2>1, <2>2, MoveKeepsStages DEF CompleteExecution, runVars
<1>6. CASE RecordMeasurement(o) \/ RejectMeasurement(o)
  <2>1. UNCHANGED <<opp, action, captured, run>>
    BY <1>6 DEF RecordMeasurement, RejectMeasurement, valueVars, runVars
  <2> QED BY <2>1 DEF StageInv, ActedOnce, StagesAgree, RunsBacked, LinksNamed, LinkedTo, CapturesOf
<1>7. CASE VerifyMeasurement(o)
  <2>1. PICK a \in Actions : Executed(a, o) /\ Advance(a, "Completed", "Measured")
    BY <1>7 DEF VerifyMeasurement
  <2>2. Moved(a, o, "Completed", "Measured")
    BY <2>1, AdvanceMoves DEF Executed, Linked, ActionStages
  <2> QED BY <1>7, <2>1, <2>2, MoveKeepsStages DEF VerifyMeasurement, Executed, runVars
<1>8. CASE CaptureValue(o)
  <2>1. /\ opp[o] = "Executing" /\ opp'[o] = "Captured"
        /\ \A x \in Opps \ {o} : opp'[x] = opp[x]
        /\ UNCHANGED <<action, run>>
    BY <1>8 DEF CaptureValue, Promote, TypeOK, runVars
  <2>2. PICK a \in Actions, v \in Captures :
            /\ Linked(a, o) /\ action[a].status = "Measured" /\ CapturesOf(o) = {}
            /\ captured[v] = NoCapture
            /\ captured'[v] # NoCapture /\ captured'[v].opp = o
            /\ \A u \in Captures \ {v} : captured'[u] = captured[u]
    <3>1. PICK a \in Actions, v \in Captures, basis \in SUBSET ProvIds :
              /\ Linked(a, o) /\ action[a].status = "Measured" /\ CapturesOf(o) = {}
              /\ captured[v] = NoCapture
              /\ captured' = [captured EXCEPT ![v] =
                     [opp |-> o, action |-> a, evidence |-> basis]]
      BY <1>8 DEF CaptureValue
    <3>2. [opp |-> o, action |-> a, evidence |-> basis] \in CaptureRecords
      BY DEF CaptureRecords
    <3> QED BY <3>1, <3>2, LifecycleNonesAssumption DEF TypeOK
  <2>3. ActedOnce'
    BY <2>1, <2>2 DEF StageInv, ActedOnce, Linked, LinkedTo, CapturesOf
  <2>4. StagesAgree' /\ RunsBacked' /\ LinksNamed'
    BY <2>1, <2>2 DEF StageInv, ActedOnce, StagesAgree, RunsBacked, LinksNamed, Linked, LinkedTo
  <2> QED BY <2>3, <2>4 DEF StageInv
<1> QED BY <1>1, <1>2, <1>3, <1>4, <1>5, <1>6, <1>7, <1>8 DEF Command

LEMMA StepKeepsStages ==
    ASSUME TypeOK, StageInv, [Next]_vars
    PROVE  StageInv'
<1>1. CASE \E o \in Opps : Command(o)
  BY <1>1, CommandKeepsStages
<1>2. CASE CreatePlainAction \/ AdvanceAction
  <2>1. PICK a \in Actions :
            /\ action[a] = NoAction \/ action[a].opp = NoOpp
            /\ action'[a] # NoAction /\ action'[a].opp = NoOpp
            /\ \A b \in Actions \ {a} : action'[b] = action[b]
    <3>1. CASE CreatePlainAction
      BY <3>1, NewActionMakes DEF CreatePlainAction, Made, OthersKept
    <3>2. CASE AdvanceAction
      <4>1. PICK a \in LinkedTo(NoOpp) :
                action' = [action EXCEPT ![a].status = NextStage(action[a].status)]
                /\ action[a].status # "Measured"
        BY <3>2 DEF AdvanceAction
      <4>2. NextStage(action[a].status) \in ActionStages
        BY <4>1 DEF LinkedTo, TypeOK, ActionRecords, ActionStages, NextStage
      <4> QED BY <4>1, <4>2, AdvanceMoves DEF Advance, Moved, OthersKept, LinkedTo
    <3> QED BY <1>2, <3>1, <3>2
  <2>2. UNCHANGED <<opp, captured, run>>
    BY <1>2 DEF CreatePlainAction, AdvanceAction, runVars
  <2> QED BY <2>1, <2>2, LifecycleNonesAssumption
          DEF StageInv, ActedOnce, StagesAgree, RunsBacked, LinksNamed, LinkedTo, CapturesOf
<1>3. CASE EvidenceNext \/ UNCHANGED vars
  BY <1>3 DEF EvidenceNext, vars, valueVars, runVars, StageInv, ActedOnce,
      StagesAgree, RunsBacked, LinksNamed, LinkedTo, CapturesOf
<1>4. CASE WorkflowNext
  BY <1>4, WorkflowKeepsStages
<1> QED BY <1>1, <1>2, <1>3, <1>4 DEF Next

LEMMA InitStages == Init => StageInv
BY LifecycleAssumption
   DEF Init, RunsInit, StageInv, ActedOnce, StagesAgree, RunsBacked, LinksNamed, LinkedTo, CapturesOf

LEMMA Inductive == Spec => []IInv
BY InitType, StepType, InitStages, StepKeepsStages, PTL DEF Spec, IInv

\* One action and one capture for an opportunity, whatever commands are tried
\* and repeated.
THEOREM ActsOnce == Spec => []ActedOnce
BY Inductive, PTL DEF IInv, StageInv

\* An action counts as done only when its run is, for good.
THEOREM StagesStayTogether == Spec => []StagesAgree
BY Inductive, PTL DEF IInv, StageInv

-----------------------------------------------------------------------------
(* Evidence.                                                               *)

\* A certified verification cannot be replaced: it is verified already, and
\* to invalidate it the certificate has to be revoked or expired.
LEMMA StepKeepsCertified ==
    ASSUME TypeOK, CertifiedIsVerified, [Next]_vars
    PROVE  CertifiedIsVerified'
<1>1. CASE \E o \in Opps : VerifyMeasurement(o) \/ RejectMeasurement(o)
  <2>1. PICK a \in Actions, basis \in SUBSET ProvIds :
            \/ UNCHANGED verif
            \/ ~Verified(a) /\ Decide(a, "verified", basis)
            \/ Decide(a, "rejected", basis)
    BY <1>1 DEF VerifyMeasurement, VerifyOn, RejectMeasurement
  <2>2. UNCHANGED <<cert, now>>
    BY <1>1 DEF VerifyMeasurement, RejectMeasurement
  <2>3. verif' # verif => ~Verified(a) /\ \A s \in Subjects \ {a} : verif'[s] = verif[s]
    BY <2>1 DEF Decide, Verified, VerificationTransitions, TypeOK, EvidenceTypeOK
  <2> QED BY <2>2, <2>3 DEF CertifiedIsVerified, CertState, Verified
<1>2. CASE EvidenceNext
  <2>1. CASE Tick
    BY <2>1 DEF Tick, CertifiedIsVerified, CertState, Verified, TypeOK, EvidenceTypeOK
  <2>2. CASE \E s \in Subjects : RecordProvenance(s)
    BY <2>2 DEF RecordProvenance, CertifiedIsVerified, CertState, Verified
  <2>3. CASE \E s \in Subjects : RecordVerification(s)
    <3>1. PICK s \in Subjects, state \in VerificationStates \ {"unverified"},
              basis \in SUBSET ProvIds :
              /\ MayDecide(s, state) /\ Decide(s, state, basis)
              /\ UNCHANGED <<prov, cert, now>>
      BY <2>3 DEF RecordVerification, ProvOf
    <3>2. CertState(s) # "certified"
      BY <3>1 DEF CertifiedIsVerified, MayDecide, Decide, Verified, VerificationTransitions
    <3>3. \A x \in Subjects \ {s} : verif'[x] = verif[x]
      BY <3>1 DEF Decide, TypeOK, EvidenceTypeOK
    <3> QED BY <3>1, <3>2, <3>3 DEF CertifiedIsVerified, CertState, Verified
  <2>4. CASE \E s \in Subjects : RecordCertification(s)
    <3>1. PICK s \in Subjects : RecordCertification(s)
      BY <2>4
    <3>2. cert'[s].state = "certified" => Verified(s) /\ cert'[s].on = verif[s].n
      BY <3>1 DEF RecordCertification, TypeOK, EvidenceTypeOK
    <3>3. \A x \in Subjects \ {s} : cert'[x] = cert[x]
      BY <3>1 DEF RecordCertification, TypeOK, EvidenceTypeOK
    <3>4. UNCHANGED <<verif, now>>
      BY <3>1 DEF RecordCertification
    <3> QED BY <3>2, <3>3, <3>4 DEF CertifiedIsVerified, CertState, Verified
  <2> QED BY <1>2, <2>1, <2>2, <2>3, <2>4, LifecycleAssumption DEF EvidenceNext, EvidenceStep
<1>3. CASE UNCHANGED <<verif, cert, now>>
  BY <1>3 DEF CertifiedIsVerified, CertState, Verified
<1>4. \/ \E o \in Opps : VerifyMeasurement(o) \/ RejectMeasurement(o)
      \/ EvidenceNext
      \/ UNCHANGED <<verif, cert, now>>
  BY DEF Next, Command, ValidateOpportunity, ApproveOpportunity, CreateAction,
      ApproveAction, StartExecution, CompleteExecution, RecordMeasurement, CaptureValue,
      CreatePlainAction, AdvanceAction, WorkflowNext, evidenceVars, vars
<1> QED BY <1>1, <1>2, <1>3, <1>4

LEMMA InitCertified == Init => CertifiedIsVerified
BY DEF Init, EvidenceInit, CertifiedIsVerified, CertState, Uncertified

\* What is certified is verified, by the decision that was certified.
THEOREM CertificatesStand == Spec => []CertifiedIsVerified
BY InitType, StepType, InitCertified, StepKeepsCertified, PTL DEF Spec

-----------------------------------------------------------------------------
(* Runs.                                                                   *)

\* Where the steps of a run stand: those before k are completed, k is
\* executing or failed, those behind it are pending.
StandAt(steps, k, status) ==
    \A i \in DOMAIN steps :
        steps[i].status = IF i < k THEN "completed" ELSE IF i = k THEN status ELSE "pending"

\* A run has got to a step, or through all of them, and its status says so.
Ordered(x) ==
    \E k \in 1 .. Len(x.def) + 1, status \in {"executing", "failed"} :
        /\ StandAt(x.steps, k, status)
        /\ x.status \in IF k = Len(x.def) + 1 THEN {"completed"}
                        ELSE IF status = "failed" THEN {"failed"}
                        ELSE {"running", "waiting"}

\* Its steps are the nodes of its definition.
Copied(x) ==
    /\ wf[x.of] # NoWorkflow
    /\ \A i \in DOMAIN x.def : x.steps[i].node = x.def[i].id

\* Its approvals were decided or still will be, but for those taken away.
Decided(r, x) ==
    \A i \in DOMAIN x.steps : x.def[i].type = "approval" =>
        \/ <<r, x.steps[i].node>> \in softened
        \/ IF x.steps[i].status = "completed" THEN x.steps[i].decision = "approved"
           ELSE NeedsDecision(x.of, x.steps[i].node)

RunInv == \A r \in Runs : run[r] # NoRun => Ordered(run[r]) /\ Copied(run[r]) /\ Decided(r, run[r])

\* A definition is a list of nodes with different names.
LEMMA DefinitionShape ==
    ASSUME NEW d \in Definitions
    PROVE  /\ Len(d) \in Nat \ {0} /\ DOMAIN d = 1 .. Len(d)
           /\ \A i, j \in DOMAIN d : d[i].id = d[j].id => i = j
<1>1. d \in Seq([id: Ids(d), type: NodeTypes]) /\ d # <<>>
  BY DefinitionsAssumption DEF Valid
<1>2. \A i, j \in DOMAIN d : d[i].id = d[j].id => i = j
  BY DefinitionsAssumption DEF Valid
<1> HIDE DefinitionsAssumption
<1> QED BY <1>1, <1>2

\* The type of a node is looked up by its name.
LEMMA LookedUp ==
    ASSUME NEW w \in Workflows, wf[w].def \in Definitions, NEW k \in DOMAIN wf[w].def
    PROVE  NeedsDecision(w, wf[w].def[k].id) <=> wf[w].def[k].type = "approval"
<1> DEFINE d == wf[w].def
           P(i) == d[i].id = d[k].id
<1>1. d[k].id \in Ids(d)
  BY DEF Ids
<1>2. (CHOOSE i \in DOMAIN d : P(i)) = k
  <2>1. P(k) /\ \A i \in DOMAIN d : P(i) => i = k
    BY DefinitionShape
  <2> HIDE DEF P
  <2> QED BY <2>1
<1> QED BY <1>1, <1>2 DEF NeedsDecision, TypeIn

\* A run starts behind the leading trigger.
LEMMA StartedSound ==
    ASSUME NEW w \in Workflows, wf[w] \in WorkflowRecords, wf[w] # NoWorkflow,
           NEW status \in {"running", "waiting"}, NEW r
    PROVE  LET x == Started(w, status) IN Ordered(x) /\ Copied(x) /\ Decided(r, x)
<1> DEFINE d == wf[w].def
           first == IF d[1].type = "trigger" THEN 2 ELSE 1
           steps == InitialSteps(d)
           x == Started(w, status)
<1>1. d \in Definitions /\ wf[w].version \in Nat
  BY DEF WorkflowRecords
<1>2. Len(d) \in Nat \ {0} /\ DOMAIN d = 1 .. Len(d)
  BY <1>1, DefinitionShape
<1>3. /\ DOMAIN steps = DOMAIN d
      /\ \A i \in DOMAIN d :
            /\ steps[i].node = d[i].id
            /\ steps[i].status = IF i < first THEN "completed"
                                ELSE IF i = first THEN "executing" ELSE "pending"
  BY DEF InitialSteps
<1>4. /\ x.of = w /\ x.def = d /\ x.version = wf[w].version /\ x.steps = steps
      /\ x.status = IF AllCompleted(steps) THEN "completed" ELSE status
  BY DEF Started
<1>5. first \in 1 .. Len(d) + 1 /\ (AllCompleted(steps) <=> first = Len(d) + 1)
  BY <1>2, <1>3 DEF AllCompleted
<1>6. \A i \in DOMAIN d : steps[i].status = "completed" => d[i].type # "approval"
  BY <1>2, <1>3
<1> HIDE DEF x, steps, first
<1>7. Ordered(x)
  BY <1>3, <1>4, <1>5 DEF Ordered, StandAt
<1>8. Copied(x)
  BY <1>3, <1>4 DEF Copied
<1>9. Decided(r, x)
  BY <1>1, <1>3, <1>4, <1>6, LookedUp DEF Decided
<1> QED BY <1>7, <1>8, <1>9 DEF x

\* When a step ends, the next one starts, unless it failed or was the last.
LEMMA EndedOrder ==
    ASSUME NEW d \in Definitions, NEW steps \in [DOMAIN d -> StepRecords(d)],
           NEW k \in DOMAIN d, StandAt(steps, k, "executing"),
           NEW decision \in {"none", "approved", "rejected"}
    PROVE  IF decision = "rejected"
           THEN StandAt(Ended(steps, k, decision), k, "failed")
           ELSE StandAt(Ended(steps, k, decision), k + 1, "executing")
<1>1. Len(d) \in Nat \ {0} /\ DOMAIN d = 1 .. Len(d) /\ DOMAIN steps = DOMAIN d
  BY DefinitionShape
<1>2. \A i \in DOMAIN d : i \in NextPending(steps, k) <=> i = k + 1
  BY <1>1 DEF NextPending, StandAt
<1>3. \A i \in DOMAIN d : steps[i] \in StepRecords(d)
  OBVIOUS
<1>4. DOMAIN Ended(steps, k, decision) = DOMAIN d
  BY <1>1 DEF Ended
<1>5. \A i \in DOMAIN d :
        Ended(steps, k, decision)[i].status =
            IF i = k THEN IF decision = "rejected" THEN "failed" ELSE "completed"
            ELSE IF i = k + 1 /\ decision # "rejected" THEN "executing"
            ELSE steps[i].status
  BY <1>1, <1>2, <1>3 DEF Ended, StepRecords
<1> QED BY <1>1, <1>4, <1>5 DEF StandAt

\* Ending a step neither renames steps nor touches decisions of others.
LEMMA EndedKeeps ==
    ASSUME NEW d \in Definitions, NEW steps \in [DOMAIN d -> StepRecords(d)],
           NEW k \in DOMAIN d, NEW decision \in {"none", "approved", "rejected"}
    PROVE  \A i \in DOMAIN d :
             /\ Ended(steps, k, decision)[i].node = steps[i].node
             /\ Ended(steps, k, decision)[i].decision =
                    IF i = k THEN decision ELSE steps[i].decision
             /\ i # k /\ Ended(steps, k, decision)[i].status = "completed"
                  => steps[i].status = "completed"
BY DEF Ended, StepRecords

\* A step ends.
LEMMA AdvanceSound ==
    ASSUME RunsTypeOK, RunInv, NEW r \in Runs, AdvanceStep(r)
    PROVE  RunInv'
<1>1. PICK k \in DOMAIN run[r].steps : run[r].steps[k].status = "executing" /\
        \E decision \in IF DecisionDue(r, k) THEN {"approved", "rejected"} ELSE {"none"} :
            LET steps == Ended(run[r].steps, k, decision) IN
            run' = [run EXCEPT ![r].steps = steps,
                               ![r].status = StatusAfter(run[r].of, steps)]
  BY DEF AdvanceStep
<1>2. PICK decision \in IF DecisionDue(r, k) THEN {"approved", "rejected"} ELSE {"none"} :
        run' = [run EXCEPT ![r].steps = Ended(run[r].steps, k, decision),
                   ![r].status = StatusAfter(run[r].of, Ended(run[r].steps, k, decision))]
  BY <1>1
<1> DEFINE x == run[r]
           steps == Ended(x.steps, k, decision)
           y == [x EXCEPT !.steps = steps, !.status = StatusAfter(x.of, steps)]
<1>3. /\ run[r] # NoRun /\ x.status \in {"running", "waiting"}
      /\ wf' = wf /\ softened' = softened
  BY DEF AdvanceStep, Going
<1>4. PICK d \in Definitions : x \in RunRecords(d)
  BY <1>3 DEF RunsTypeOK
<1>5. /\ x.def = d /\ x.steps \in [DOMAIN d -> StepRecords(d)] /\ x.of \in Workflows
      /\ k \in DOMAIN d /\ Len(d) \in Nat \ {0} /\ DOMAIN d = 1 .. Len(d)
      /\ x.version \in 1 .. MaxVersion
  BY <1>1, <1>4, DefinitionShape DEF RunRecords
<1>6. /\ y.def = d /\ y.steps = steps /\ y.of = x.of /\ y.version = x.version
      /\ y.status = StatusAfter(x.of, steps)
  BY <1>4 DEF RunRecords
<1>7. /\ run'[r] = y
      /\ \A q \in Runs : q # r => run'[q] = run[q]
  <2>1. run = [q \in Runs |-> run[q]]
    BY DEF RunsTypeOK
  <2> QED BY <1>2, <2>1
<1>8. decision \in {"none", "approved", "rejected"}
  BY <1>2
<1>9. steps \in [DOMAIN d -> StepRecords(d)] /\ DOMAIN steps = DOMAIN d
  <2>1. Ended(x.steps, k, decision) \in [DOMAIN d -> StepRecords(d)]
    BY <1>5, <1>8, EndedType
  <2> QED BY <2>1
<1>10. StandAt(x.steps, k, "executing") /\ Copied(x) /\ Decided(r, x)
  <2>1. PICK m \in 1 .. Len(d) + 1, status \in {"executing", "failed"} :
          StandAt(x.steps, m, status)
    BY <1>3, <1>5 DEF RunInv, Ordered
  <2>2. k = m /\ status = "executing"
    BY <1>1, <1>5, <2>1 DEF StandAt
  <2> QED BY <1>3, <2>1, <2>2 DEF RunInv
<1>11. IF decision = "rejected" THEN StandAt(steps, k, "failed")
       ELSE StandAt(steps, k + 1, "executing")
  BY <1>5, <1>8, <1>10, EndedOrder
<1>12. \A i \in DOMAIN d :
         /\ steps[i].node = x.steps[i].node
         /\ steps[i].decision = IF i = k THEN decision ELSE x.steps[i].decision
         /\ i # k /\ steps[i].status = "completed" => x.steps[i].status = "completed"
  BY <1>5, <1>8, EndedKeeps
<1> HIDE DEF x, steps, y
<1>13. Ordered(y)
  <2>1. CASE decision = "rejected"
    <3>1. steps[k].status = "failed"
      BY <1>5, <1>9, <1>11, <2>1 DEF StandAt
    <3>2. y.status = "failed"
      BY <1>5, <1>6, <1>9, <3>1 DEF StatusAfter
    <3> QED BY <1>5, <1>6, <1>11, <2>1, <3>2 DEF Ordered
  <2>2. CASE decision # "rejected"
    <3>1. \A i \in DOMAIN steps : steps[i].status # "failed"
      BY <1>5, <1>9, <1>11, <2>2 DEF StandAt
    <3>2. AllCompleted(steps) <=> k = Len(d)
      BY <1>5, <1>9, <1>11, <2>2 DEF StandAt, AllCompleted
    <3>3. y.status \in IF k = Len(d) THEN {"completed"} ELSE {"running", "waiting"}
      BY <1>6, <3>1, <3>2 DEF StatusAfter
    <3>4. k + 1 \in 1 .. Len(d) + 1 /\ (k + 1 = Len(d) + 1 <=> k = Len(d))
      BY <1>5
    <3> QED BY <1>6, <1>11, <2>2, <3>3, <3>4 DEF Ordered
  <2> QED BY <2>1, <2>2
<1>14. Copied(y)
  BY <1>5, <1>6, <1>10, <1>12 DEF Copied
<1>15. Decided(r, y)
  <2>1. SUFFICES ASSUME NEW i \in DOMAIN d, d[i].type = "approval",
                        <<r, x.steps[i].node>> \notin softened
                 PROVE  IF steps[i].status = "completed" THEN steps[i].decision = "approved"
                        ELSE NeedsDecision(x.of, x.steps[i].node)
    BY <1>6, <1>9, <1>12 DEF Decided
  <2>2. IF x.steps[i].status = "completed" THEN x.steps[i].decision = "approved"
        ELSE NeedsDecision(x.of, x.steps[i].node)
    BY <1>5, <1>10, <2>1 DEF Decided
  <2>3. CASE i = k
    <3>1. NeedsDecision(x.of, x.steps[k].node)
      BY <1>5, <1>10, <2>2, <2>3 DEF StandAt
    <3>2. decision \in {"approved", "rejected"}
      BY <1>2, <3>1 DEF DecisionDue, x
    <3>3. steps[k].status = "completed" => decision # "rejected"
      BY <1>5, <1>9, <1>11 DEF StandAt
    <3> QED BY <1>5, <1>12, <2>3, <3>1, <3>2, <3>3
  <2>4. CASE i # k
    <3>1. steps[i].status = "completed" <=> x.steps[i].status = "completed"
      BY <1>5, <1>9, <1>10, <1>11, <2>4 DEF StandAt
    <3> QED BY <1>12, <2>2, <2>4, <3>1
  <2> QED BY <2>3, <2>4
<1>16. SUFFICES ASSUME NEW q \in Runs, run'[q] # NoRun
                PROVE  Ordered(run[q])' /\ Copied(run[q])' /\ Decided(q, run[q])'
  BY DEF RunInv
<1>17. CASE q = r
  BY <1>3, <1>7, <1>13, <1>14, <1>15, <1>17 DEF Ordered, Copied, Decided, NeedsDecision
<1>18. CASE q # r
  BY <1>3, <1>7, <1>16, <1>18 DEF RunInv, Ordered, Copied, Decided, NeedsDecision
<1> QED BY <1>17, <1>18

\* A run starts.
LEMMA StartSound ==
    ASSUME RunsTypeOK, RunInv, NEW r \in Runs, NEW w \in Workflows, Executable(w),
           NEW status \in {"running", "waiting"}, wf' = wf, softened' = softened,
           run' = [run EXCEPT ![r] = Started(w, status)]
    PROVE  RunInv'
<1>1. wf[w] \in WorkflowRecords /\ wf[w] # NoWorkflow
  BY DEF RunsTypeOK, Executable
<1> DEFINE x == Started(w, status)
<1>2. Ordered(x) /\ Copied(x) /\ Decided(r, x)
  BY <1>1, StartedSound
<1> HIDE DEF x
<1>3. run'[r] = x /\ \A q \in Runs : q # r => run'[q] = run[q]
  <2>1. run = [q \in Runs |-> run[q]]
    BY DEF RunsTypeOK
  <2> QED BY <2>1 DEF x
<1>4. SUFFICES ASSUME NEW q \in Runs, run'[q] # NoRun
               PROVE  Ordered(run[q])' /\ Copied(run[q])' /\ Decided(q, run[q])'
  BY DEF RunInv
<1>5. CASE q = r
  BY <1>2, <1>3, <1>5 DEF Ordered, Copied, Decided, NeedsDecision
<1>6. CASE q # r
  BY <1>3, <1>4, <1>6 DEF RunInv, Ordered, Copied, Decided, NeedsDecision
<1> QED BY <1>5, <1>6

\* A workflow is created: no run is one of it.
LEMMA CreateSound ==
    ASSUME RunsTypeOK, RunInv, CreateWorkflow
    PROVE  RunInv'
<1>1. PICK w \in Workflows, d \in Definitions, active \in BOOLEAN :
        /\ wf[w] = NoWorkflow /\ UNCHANGED <<run, softened>>
        /\ wf' = [wf EXCEPT ![w] = [def |-> d, version |-> 1, active |-> active]]
  BY DEF CreateWorkflow
<1>2. \A r \in Runs : run[r] # NoRun => run[r].of # w
  BY <1>1 DEF RunInv, Copied
<1>3. \A v \in Workflows : v # w => wf'[v] = wf[v]
  BY <1>1 DEF RunsTypeOK
<1>4. \A r \in Runs : run[r] # NoRun => run[r].of \in Workflows
  BY DEF RunsTypeOK, RunRecords
<1>5. SUFFICES ASSUME NEW r \in Runs, run[r] # NoRun
               PROVE  Ordered(run[r])' /\ Copied(run[r])' /\ Decided(r, run[r])'
  BY <1>1 DEF RunInv
<1>6. Ordered(run[r]) /\ Copied(run[r]) /\ Decided(r, run[r])
  BY <1>5 DEF RunInv
<1>7. wf'[run[r].of] = wf[run[r].of]
  BY <1>2, <1>3, <1>4, <1>5
<1>8. Ordered(run[r])' /\ Copied(run[r])'
  BY <1>1, <1>6, <1>7 DEF Ordered, Copied
<1>9. Decided(r, run[r])'
  BY <1>1, <1>6, <1>7 DEF Decided, NeedsDecision
<1> QED BY <1>8, <1>9

\* A workflow is edited: its runs keep their definition, and where the edit
\* takes away an approval still ahead of one, that is remembered.
LEMMA EditSound ==
    ASSUME RunsTypeOK, RunInv, UpdateWorkflow
    PROVE  RunInv'
<1>1. PICK w \in Workflows, d \in Definitions, active \in BOOLEAN :
        /\ wf[w] # NoWorkflow /\ wf[w].version < MaxVersion /\ run' = run
        /\ wf' = [wf EXCEPT ![w] =
               [def |-> d, version |-> wf[w].version + 1, active |-> active]]
        /\ softened' = (softened \ Ahead(w))
               \union {p \in Ahead(w) : TypeIn(d, p[2]) # "approval"}
  BY DEF UpdateWorkflow
<1>2. [def |-> d, version |-> wf[w].version + 1, active |-> active] # NoWorkflow
  BY <1>1, NoWorkflowAssumption, DefinitionsAssumption DEF WorkflowRecords, RunsTypeOK
<1>3. /\ \A v \in Workflows : v # w => wf'[v] = wf[v]
      /\ wf'[w] # NoWorkflow /\ wf'[w].def = d
  BY <1>1, <1>2 DEF RunsTypeOK
<1> SUFFICES ASSUME NEW r \in Runs, run[r] # NoRun
             PROVE  Copied(run[r])' /\ Decided(r, run[r])'
  BY <1>1 DEF RunInv, Ordered
<1> DEFINE x == run[r]
<1>4. Copied(x) /\ Decided(r, x)
  BY DEF RunInv
<1>5. PICK e \in Definitions : x \in RunRecords(e)
  BY DEF RunsTypeOK
<1>6. /\ x.of \in Workflows /\ x.def = e /\ DOMAIN x.steps = DOMAIN e
      /\ \A i \in DOMAIN e : x.steps[i].node \in Nodes
  BY <1>5 DEF RunRecords, StepRecords, Nodes
<1>7. Copied(run[r])'
  BY <1>1, <1>3, <1>4, <1>6 DEF Copied
<1>8. Decided(r, run[r])'
  <2>1. SUFFICES ASSUME NEW i \in DOMAIN e, x.def[i].type = "approval",
                        <<r, x.steps[i].node>> \notin softened'
                 PROVE  IF x.steps[i].status = "completed" THEN x.steps[i].decision = "approved"
                        ELSE NeedsDecision(x.of, x.steps[i].node)'
    BY <1>1, <1>6 DEF Decided, NeedsDecision
  <2> DEFINE p == <<r, x.steps[i].node>>
  <2>2. p \in Runs \X Nodes /\ p[1] = r /\ p[2] = x.steps[i].node
    BY <1>6
  <2>3. CASE p \in Ahead(w)
    <3>1. x.of = w
      BY <2>2, <2>3 DEF Ahead
    <3>2. TypeIn(d, x.steps[i].node) = "approval"
      BY <1>1, <2>1, <2>2, <2>3
    <3>3. NeedsDecision(x.of, x.steps[i].node)'
      BY <1>1, <1>3, <3>1, <3>2 DEF NeedsDecision
    <3>4. x.steps[i].status # "completed"
      <4>1. PICK j \in DOMAIN x.steps : x.steps[j].node = p[2] /\ x.steps[j].status # "completed"
        BY <2>2, <2>3 DEF Ahead
      <4>2. j = i
        BY <1>4, <1>6, <2>2, <4>1, DefinitionShape DEF Copied
      <4> QED BY <4>1, <4>2
    <3> QED BY <3>3, <3>4
  <2>4. CASE p \notin Ahead(w)
    <3>1. p \notin softened
      BY <1>1, <2>1, <2>4
    <3>2. IF x.steps[i].status = "completed" THEN x.steps[i].decision = "approved"
          ELSE NeedsDecision(x.of, x.steps[i].node)
      BY <1>4, <1>6, <2>1, <3>1 DEF Decided
    <3>3. x.steps[i].status # "completed" => x.of # w
      BY <1>6, <2>1, <2>2, <2>4 DEF Ahead
    <3>4. x.of # w => NeedsDecision(x.of, x.steps[i].node)' = NeedsDecision(x.of, x.steps[i].node)
      BY <1>1, <1>3, <1>6 DEF NeedsDecision
    <3> QED BY <3>2, <3>3, <3>4
  <2> QED BY <2>3, <2>4
<1> QED BY <1>7, <1>8

LEMMA StepKeepsRuns ==
    ASSUME TypeOK, RunInv, [Next]_vars
    PROVE  RunInv'
<1>1. CASE UNCHANGED runVars
  BY <1>1 DEF runVars, RunInv, Ordered, Copied, Decided, NeedsDecision
<1>2. CASE WorkflowNext
  <2>1. CASE \E r \in Runs \ Actions : TriggerRun(r)
    <3>1. PICK r \in Runs, w \in Workflows, status \in {"running", "waiting"} :
            /\ Executable(w) /\ UNCHANGED <<wf, softened>>
            /\ run' = [run EXCEPT ![r] = Started(w, status)]
      BY <2>1 DEF TriggerRun
    <3> QED BY <3>1, StartSound DEF TypeOK
  <2> QED BY <1>2, <2>1, CreateSound, EditSound, AdvanceSound DEF WorkflowNext, TypeOK
<1>3. CASE \E o \in Opps : StartExecution(o)
  <2>1. PICK a \in Actions, w \in Workflows :
          /\ Executable(w) /\ UNCHANGED <<wf, softened>>
          /\ run' = [run EXCEPT ![a] = Started(w, "running")]
    BY <1>3 DEF StartExecution
  <2> QED BY <2>1, StartSound, LifecycleAssumption DEF TypeOK
<1>4. UNCHANGED runVars \/ WorkflowNext \/ \E o \in Opps : StartExecution(o)
  BY DEF Next, Command, ValidateOpportunity, ApproveOpportunity, CreateAction, ApproveAction,
      CompleteExecution, RecordMeasurement, VerifyMeasurement, RejectMeasurement,
      CaptureValue, CreatePlainAction, AdvanceAction, EvidenceNext, runVars, vars
<1> QED BY <1>1, <1>2, <1>3, <1>4

LEMMA InitRuns == Init => RunInv
BY DEF Init, RunsInit, RunInv

LEMMA RunsInvariant == Spec => [](TypeOK /\ RunInv)
BY InitType, StepType, InitRuns, StepKeepsRuns, PTL DEF Spec

\* A run goes through its steps in order, and its status tells how far it is.
THEOREM RunsStayInOrder == Spec => []RunsInOrder
<1>1. TypeOK /\ RunInv => RunsInOrder
  <2>1. SUFFICES ASSUME TypeOK, RunInv, NEW r \in Runs, run[r] # NoRun
                 PROVE  LET steps == run[r].steps
                            At(status) == {i \in DOMAIN steps : steps[i].status = status}
                        IN  /\ \A i \in DOMAIN steps, j \in At("completed") :
                                   i < j => i \in At("completed")
                            /\ \A i \in At("pending"), j \in DOMAIN steps :
                                   i < j => j \in At("pending")
                            /\ \A i, j \in At("executing") \union At("failed") : i = j
                            /\ run[r].status \in {"running", "waiting"} <=> At("executing") # {}
                            /\ run[r].status = "failed" <=> At("failed") # {}
                            /\ run[r].status = "completed" <=> AllCompleted(steps)
    BY DEF RunsInOrder
  <2> DEFINE steps == run[r].steps
             At(status) == {i \in DOMAIN steps : steps[i].status = status}
  <2>2. PICK d \in Definitions : run[r] \in RunRecords(d)
    BY <2>1 DEF TypeOK, RunsTypeOK
  <2>3. /\ run[r].def = d /\ DOMAIN steps = 1 .. Len(d) /\ Len(d) \in Nat \ {0}
    BY <2>2, DefinitionShape DEF RunRecords
  <2>4. PICK k \in 1 .. Len(d) + 1, status \in {"executing", "failed"} :
          /\ StandAt(steps, k, status)
          /\ run[r].status \in IF k = Len(d) + 1 THEN {"completed"}
                               ELSE IF status = "failed" THEN {"failed"}
                               ELSE {"running", "waiting"}
    BY <2>1, <2>3 DEF RunInv, Ordered
  <2> HIDE DEF steps
  <2>5. \A i \in 1 .. Len(d) :
          steps[i].status = IF i < k THEN "completed" ELSE IF i = k THEN status ELSE "pending"
    BY <2>3, <2>4 DEF StandAt
  <2>6. \A i \in DOMAIN steps, j \in At("completed") : i < j => i \in At("completed")
    BY <2>3, <2>5
  <2>7. \A i \in At("pending"), j \in DOMAIN steps : i < j => j \in At("pending")
    BY <2>3, <2>5
  <2>8. \A i, j \in At("executing") \union At("failed") : i = j
    BY <2>3, <2>5
  <2>9. run[r].status \in {"running", "waiting"} <=> At("executing") # {}
    BY <2>3, <2>4, <2>5
  <2>10. run[r].status = "failed" <=> At("failed") # {}
    BY <2>3, <2>4, <2>5
  <2>11. run[r].status = "completed" <=> AllCompleted(steps)
    BY <2>3, <2>4, <2>5 DEF AllCompleted
  <2> QED BY <2>6, <2>7, <2>8, <2>9, <2>10, <2>11 DEF steps
<1> QED BY <1>1, RunsInvariant, PTL

\* No approval of a run completes without a decision, however its workflow is
\* edited, unless an edit took that approval away before its step was done.
THEOREM ApprovalsAreDecided == Spec => []ApprovalsDecided
<1>1. RunInv => ApprovalsDecided
  BY DEF RunInv, Decided, ApprovalsDecided
<1> QED BY <1>1, RunsInvariant, PTL
=============================================================================
