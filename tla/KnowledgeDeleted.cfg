\* A deletion that checked before the publication.
SPECIFICATION Spec
CONSTANTS
    i1 = i1
    s1 = s1
    s2 = s2
    r1 = r1
    r2 = r2
    w1 = w1
    w2 = w2
    Items = {i1}
    Sources = {s1, s2}
    Replicas = {r1, r2}
    Deleters = {w1, w2}
    Skew <- Apart
    MaxRevisions = 2
    MaxTime = 2
    NoRow = NoRow
    NoSource = NoSource
    NoDelete = NoDelete
    NoItem = NoItem
    Removed = Removed
PROPERTIES
    PublishedIsKept
CHECK_DEADLOCK FALSE
