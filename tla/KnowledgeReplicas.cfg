\* Two replicas whose clocks differ, a deletion, up to three revisions.
SPECIFICATION Spec
CONSTANTS
    i1 = i1
    s1 = s1
    s2 = s2
    r1 = r1
    r2 = r2
    w1 = w1
    w2 = w2
    Items = {i1}
    Sources = {s1, s2}
    Replicas = {r1, r2}
    Deleters = {w1}
    Skew <- Apart
    MaxRevisions = 3
    MaxTime = 1
    NoRow = NoRow
    NoSource = NoSource
    NoDelete = NoDelete
    NoItem = NoItem
    Removed = Removed
CONSTRAINT TimeOnFirst
SYMMETRY SourceSymmetry
INVARIANTS
    HistoryReadable
    RowShowsRevision
    ShownSourceStands
    OnePending
    OutcomeIsFold
PROPERTIES
    DecisionsAreFinal
    KeepsPromise
CHECK_DEADLOCK FALSE
