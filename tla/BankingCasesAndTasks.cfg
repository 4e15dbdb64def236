\* Three people around one case, a preview candidate's or not, with one source,
\* and two tasks where one fits.
SPECIFICATION TaskSpec
CONSTANTS
    u1 = u1
    u2 = u2
    u3 = u3
    c1 = c1
    c2 = c2
    s1 = s1
    s2 = s2
    t1 = t1
    t2 = t2
    Users = {u1, u2, u3}
    Cases = {c1, c2}
    PreviewCases = {c2}
    Sources = {s1}
    MaxEvents = 5
    MaxLinks = 1
    MaxRoleChanges = 1
    Tasks = {t1, t2}
    MaxCaseTasks = 1
    NoCase = NoCase
    NoSource = NoSource
    NoPlan = NoPlan
    NoOffer = NoOffer
    NoForm = NoForm
    NoUser = NoUser
    NoTask = NoTask
CONSTRAINTS
    OneAtATime
    TasksEarly
SYMMETRY TaskSymmetry
INVARIANTS
    MakerChecker
    ReviewUndisturbed
    OfferUndisturbed
PROPERTIES
    NoStaleChange
    OneCycle
    OwnershipLands
    FirstClaimWins
    RequestsAreCurrent
CHECK_DEADLOCK FALSE
