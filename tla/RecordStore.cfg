SPECIFICATION Spec
CONSTANTS
    Records <- MCRecords
    KindOf <- MCKindOf
    NoRecord = NoRecord
    LastVersion = 2
    Transactions = {x1, x2}
SYMMETRY Symmetry
INVARIANT ReferencesHold
PROPERTY StoreKeepsPromise
