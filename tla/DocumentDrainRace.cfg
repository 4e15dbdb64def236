\* A retry call beside an upload, with no failure at all.
SPECIFICATION Spec
CONSTANTS
    d1 = d1
    d2 = d2
    w1 = w1
    w2 = w2
    w3 = w3
    Docs = {d1}
    Workers = {w1, w2}
    Drainers = {w2}
    Limit = 20
    MaxFaults = 0
    NoOp = NoOp
INVARIANTS
    DrainIsSafe
CHECK_DEADLOCK FALSE
