\* One opportunity among two actions, a workflow that is edited twice.
SPECIFICATION Spec
CONSTANTS
    o1 = o1
    a1 = a1
    a2 = a2
    r1 = r1
    w1 = w1
    p1 = p1
    p2 = p2
    v1 = v1
    v2 = v2
    start = start
    check = check
    report = report
    Opps = {o1}
    Actions = {a1, a2}
    Subjects = {a1, a2}
    Runs = {a1, a2, r1}
    Workflows = {w1}
    Captures = {v1, v2}
    ProvIds = {p1, p2}
    Definitions <- DefinitionsUsed
    MaxVersion = 3
    MaxDecisions = 4
    MaxTime = 2
    NoOpp = NoOpp
    NoAction = NoAction
    NoCapture = NoCapture
    NoProv = NoProv
    NoWorkflow = NoWorkflow
    NoRun = NoRun
SYMMETRY LifecycleSymmetry
CONSTRAINT Focus
ACTION_CONSTRAINT Timely
INVARIANTS
    ActedOnce
    StagesAgree
    CertifiedIsVerified
    RunsInOrder
    ApprovalsDecided
CHECK_DEADLOCK FALSE
