SPECIFICATION Spec
CONSTANTS
    Users = {u1, u2}
    Sources = {s1}
    SigningKeys = {k1}
    Tickets = {t1, t2}
    Files = {f1, f2}
    Versions = {v1, v2}
    Intakes = {x1}
    Workers = {w1, w2}
    NoKey = NoKey
    NoOne = NoOne
    NoSource = NoSource
    NoDossier = NoDossier
    NoImport = NoImport
    NoVersion = NoVersion
    NoSnapshot = NoSnapshot
    NoIntake = NoIntake
    Idle = Idle
SYMMETRY Symmetry
INVARIANTS
    WrittenOnce
    CommittedIsSigned
PROPERTIES
    RevokedIsFinal
    SettledStands
