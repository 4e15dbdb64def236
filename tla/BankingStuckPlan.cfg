\* Evidence is deleted while a plan awaits review.
SPECIFICATION Spec
CONSTANTS
    u1 = u1
    u2 = u2
    u3 = u3
    c1 = c1
    c2 = c2
    s1 = s1
    s2 = s2
    Users = {u1, u2, u3}
    Cases = {c1}
    PreviewCases = {}
    Sources = {s1}
    MaxEvents = 5
    MaxLinks = 1
    MaxRoleChanges = 1
    NoCase = NoCase
    NoSource = NoSource
    NoPlan = NoPlan
    NoOffer = NoOffer
    NoForm = NoForm
    NoUser = NoUser
INVARIANTS
    PlanCanBeRejected
CHECK_DEADLOCK FALSE
