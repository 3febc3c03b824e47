SPECIFICATION FairSpec
CONSTANTS
    c1 = c1
    c2 = c2
    c3 = c3
    a = a
    u = u
    s1 = s1
    Callers = {c1, c2}
    Projects = {a, u}
    Budgets <- OneBudget
    NoProject = NoProject
    Limit <- Limit2
    SoftPercent <- Soft50
    Persisted <- Persisted1
    MinEstimate = 1
    MaxEstimate = 2
    MaxCost = 2
    Subscribers = {s1}
    ChanCap = 2
    UsedCap = 20
INVARIANTS FrozenIsHeld UsedIsAccounted BoundedOvershoot ExhaustionAnnounced
PROPERTIES IsLedger SettlementEnds ExhaustionDelivered
