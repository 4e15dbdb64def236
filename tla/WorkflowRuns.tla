---------------------------- MODULE WorkflowRuns ----------------------------
(***************************************************************************)
(* Workflow definitions and their runs.  A run copies the nodes of the     *)
(* definition as its steps, and follows them in that order (connections    *)
(* are validated and otherwise not used); whether a step needs a human     *)
(* decision is looked up in the definition as it is when the step ends.    *)
(***************************************************************************)
EXTENDS Naturals, Sequences

CONSTANTS
    Workflows,
    Runs,
    Definitions,   \* the definitions people may write: sequences of nodes
    MaxVersion,    \* bound on the versions of a workflow
    NoWorkflow, NoRun

NodeTypes == {"trigger", "task", "approval"}
Ids(d) == {d[i].id : i \in DOMAIN d}
Nodes == UNION {Ids(d) : d \in Definitions}

\* validateWorkflowGraph
Valid(d) ==
    /\ d # <<>>
    /\ \A i, j \in DOMAIN d : d[i].id = d[j].id => i = j
    /\ \E i \in DOMAIN d : d[i].type = "trigger"
    /\ \A i \in DOMAIN d : d[i].type \in NodeTypes

ASSUME DefinitionsAssumption ==
    MaxVersion \in Nat \ {0} /\ \A d \in Definitions : d \in Seq([id: Ids(d), type: NodeTypes]) /\ Valid(d)

WorkflowRecords == [def: Definitions, version: 1 .. MaxVersion, active: BOOLEAN]

ASSUME NoWorkflowAssumption == NoWorkflow \notin WorkflowRecords

VARIABLES
    wf,        \* workflow rows
    run,       \* run rows; def is the definition the run was started from
    softened   \* history: approvals of runs, by run and node, that an edit of
               \* the workflow had taken away by the time their step was done

runVars == <<wf, run, softened>>

RunsInit ==
    /\ wf = [w \in Workflows |-> NoWorkflow]
    /\ run = [r \in Runs |-> NoRun]
    /\ softened = {}

-----------------------------------------------------------------------------

\* The type of a node in a definition, if it is there.
TypeIn(d, id) ==
    IF id \in Ids(d) THEN d[CHOOSE i \in DOMAIN d : d[i].id = id].type ELSE "none"

\* Whether a node of a workflow as it is now needs a human decision.
NeedsDecision(w, id) == TypeIn(wf[w].def, id) = "approval"

\* The approvals still ahead of the runs of a workflow.
Ahead(w) ==
    {p \in Runs \X Nodes :
        LET x == run[p[1]] IN
        /\ x # NoRun /\ x.of = w
        /\ \E i \in DOMAIN x.steps :
            /\ x.steps[i].node = p[2] /\ x.steps[i].status # "completed"
            /\ x.def[i].type = "approval"}

CreateWorkflow ==
    \E w \in Workflows, d \in Definitions, active \in BOOLEAN :
        /\ wf[w] = NoWorkflow
        /\ wf' = [wf EXCEPT ![w] = [def |-> d, version |-> 1, active |-> active]]
        /\ UNCHANGED <<run, softened>>

UpdateWorkflow ==
    \E w \in Workflows, d \in Definitions, active \in BOOLEAN :
        /\ wf[w] # NoWorkflow
        /\ wf[w].version < MaxVersion
        /\ wf' = [wf EXCEPT ![w] =
               [def |-> d, version |-> wf[w].version + 1, active |-> active]]
        /\ softened' = (softened \ Ahead(w))
               \union {p \in Ahead(w) : TypeIn(d, p[2]) # "approval"}
        /\ UNCHANGED run

\* A leading trigger is done at once; the next node is where the run starts.
InitialSteps(d) ==
    LET first == IF d[1].type = "trigger" THEN 2 ELSE 1 IN
    [i \in DOMAIN d |->
        [node |-> d[i].id, decision |-> "none",
         status |-> IF i < first THEN "completed"
                    ELSE IF i = first THEN "executing" ELSE "pending"]]

AllCompleted(steps) == \A i \in DOMAIN steps : steps[i].status = "completed"

Executable(w) == wf[w] # NoWorkflow /\ wf[w].active

\* first: the status of a run that does not end as it starts.
Started(w, status) ==
    LET steps == InitialSteps(wf[w].def) IN
    [of |-> w, def |-> wf[w].def, version |-> wf[w].version, steps |-> steps,
     status |-> IF AllCompleted(steps) THEN "completed" ELSE status]

\* triggerWorkflowRun: waits for a decision at once when it starts at one.
TriggerRun(r) ==
    \E w \in Workflows :
        /\ Executable(w)
        /\ run[r] = NoRun
        /\ LET steps == InitialSteps(wf[w].def)
               atApproval == \E i \in DOMAIN steps :
                   steps[i].status = "executing" /\ NeedsDecision(w, steps[i].node)
           IN run' = [run EXCEPT ![r] =
                  Started(w, IF atApproval THEN "waiting" ELSE "running")]
        /\ UNCHANGED <<wf, softened>>

\* Mutant: every step behind the one that ended is promoted.
NextPendingAll(steps, k) == {i \in DOMAIN steps : i > k /\ steps[i].status = "pending"}

\* The step that starts when step k is done: the first pending one behind it.
NextPending(steps, k) ==
    {i \in DOMAIN steps :
        /\ i > k /\ steps[i].status = "pending"
        /\ \A j \in k + 1 .. i - 1 : steps[j].status # "pending"}

Ended(steps, k, decision) ==
    [i \in DOMAIN steps |->
        IF i = k
        THEN [steps[i] EXCEPT !.decision = decision,
                  !.status = IF decision = "rejected" THEN "failed" ELSE "completed"]
        ELSE IF i \in NextPending(steps, k) /\ decision # "rejected"
             THEN [steps[i] EXCEPT !.status = "executing"]
             ELSE steps[i]]

StatusAfter(w, steps) ==
    IF \E i \in DOMAIN steps : steps[i].status = "failed" THEN "failed"
    ELSE IF AllCompleted(steps) THEN "completed"
    ELSE IF \E i \in DOMAIN steps :
                steps[i].status = "executing" /\ NeedsDecision(w, steps[i].node)
         THEN "waiting" ELSE "running"

Going(r) == run[r] # NoRun /\ run[r].status \in {"running", "waiting"}

\* Mutant: what a run shows is taken for what its step needs.
DueWhenWaiting(r, k) == run[r].status = "waiting"

\* Whether a step needs a decision is read off today's definition.
DecisionDue(r, k) == NeedsDecision(run[r].of, run[r].steps[k].node)

\* advanceWorkflowStep.
AdvanceStep(r) ==
    /\ Going(r)
    /\ \E k \in DOMAIN run[r].steps :
        /\ run[r].steps[k].status = "executing"
        /\ \E decision \in IF DecisionDue(r, k) THEN {"approved", "rejected"} ELSE {"none"} :
            LET steps == Ended(run[r].steps, k, decision) IN
            run' = [run EXCEPT ![r].steps = steps,
                               ![r].status = StatusAfter(run[r].of, steps)]
    /\ UNCHANGED <<wf, softened>>

-----------------------------------------------------------------------------

StepRecords(d) ==
    [node: Ids(d), decision: {"none", "approved", "rejected"},
     status: {"pending", "executing", "completed", "failed"}]

RunRecords(d) ==
    [of: Workflows, def: {d}, version: 1 .. MaxVersion, steps: [DOMAIN d -> StepRecords(d)],
     status: {"running", "waiting", "completed", "failed"}]

RunsTypeOK ==
    /\ wf \in [Workflows -> WorkflowRecords \union {NoWorkflow}]
    /\ run = [r \in Runs |-> run[r]]
    /\ \A r \in Runs : run[r] # NoRun => \E d \in Definitions : run[r] \in RunRecords(d)
    /\ softened \subseteq Runs \X Nodes

\* A run goes through its steps in order: what is done, then at most one step
\* that is executing or failed, then what is pending; and its status says so.
RunsInOrder ==
    \A r \in Runs : run[r] # NoRun =>
        LET steps == run[r].steps
            At(status) == {i \in DOMAIN steps : steps[i].status = status}
        IN  /\ \A i \in DOMAIN steps, j \in At("completed") : i < j => i \in At("completed")
            /\ \A i \in At("pending"), j \in DOMAIN steps : i < j => j \in At("pending")
            /\ \A i, j \in At("executing") \union At("failed") : i = j
            /\ run[r].status \in {"running", "waiting"} <=> At("executing") # {}
            /\ run[r].status = "failed" <=> At("failed") # {}
            /\ run[r].status = "completed" <=> AllCompleted(steps)

\* "Human approval steps require an explicit approved or rejected decision":
\* however a run was started, whatever it shows, and however its workflow is
\* edited meanwhile, an approval among its steps completes without one only if
\* an edit has taken that approval itself out of the workflow before the step
\* was done.
ApprovalsDecided ==
    \A r \in Runs : run[r] # NoRun =>
        \A i \in DOMAIN run[r].steps :
            run[r].def[i].type = "approval" /\ run[r].steps[i].status = "completed"
            => \/ run[r].steps[i].decision = "approved"
               \/ <<r, run[r].steps[i].node>> \in softened
=============================================================================
