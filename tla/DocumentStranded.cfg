\* Two documents, two handlers, one failure, and retry calls with room for one
\* operation: the operation of a deleted document keeps the other from recovery.
SPECIFICATION FairSpec
CONSTANTS
    d1 = d1
    d2 = d2
    w1 = w1
    w2 = w2
    w3 = w3
    Docs = {d1, d2}
    Workers = {w1, w2}
    Drainers = {w1}
    Limit = 1
    MaxFaults = 1
    NoOp = NoOp
PROPERTY
    NotStranded
CHECK_DEADLOCK FALSE
