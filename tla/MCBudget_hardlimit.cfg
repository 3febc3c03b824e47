SPECIFICATION Spec
CONSTANTS
    c1 = c1
    c2 = c2
    c3 = c3
    a = a
    u = u
    s1 = s1
    Callers = {c1, c2}
    Projects = {a}
    Budgets <- OneBudget
    NoProject = NoProject
    Limit <- Limit3
    SoftPercent <- Soft50
    Persisted <- Persisted1
    MinEstimate = 2
    MaxEstimate = 2
    MaxCost = 2
    Subscribers = {}
    ChanCap = 1
    UsedCap = 20
INVARIANT HardLimitKept
