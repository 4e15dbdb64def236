\* Three concurrent requests for one document, one of them the retry calls at
\* times, two failures anywhere.
SPECIFICATION FairSpec
CONSTANTS
    d1 = d1
    d2 = d2
    w1 = w1
    w2 = w2
    w3 = w3
    Docs = {d1}
    Workers = {w1, w2, w3}
    Drainers = {w1}
    Limit = 20
    MaxFaults = 2
    NoOp = NoOp
INVARIANTS
    RowHasBlob
    NoForgottenBlob
    CompletedMeansSettled
PROPERTIES
    IndexedIsStable
    KeepsPromise
    OwedDeletionsHappen
    RecoveredIfReached
CHECK_DEADLOCK FALSE
