\* A traversal of up to four rows, or a list of up to three with two requests in
\* flight, one row a page.
SPECIFICATION Spec
CONSTANTS
    s1 = s1
    s2 = s2
    Rows <- MCRows
    PageSize = 1
    Start = Start
    MaxPages = 3
    Slots = {s1, s2}
    NoAsk = NoAsk
SYMMETRY Symmetry
CONSTRAINT ThreeListed
INVARIANTS
    CollectsStanding
    ListsComplete
    PageIsSlice
CHECK_DEADLOCK FALSE
