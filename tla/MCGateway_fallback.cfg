SPECIFICATION Spec
CONSTANTS
    q1 = q1
    q2 = q2
    q3 = q3
    a = a
    u = u
    main = main
    spare = spare
    ghost = ghost
    Requests = {q1}
    Projects = {a}
    Budgets <- OneBudget
    NoProject = NoProject
    Limit <- Limit3
    Spent0 <- Fresh
    Targets = {main, spare, ghost}
    Upstreams = {main, spare}
    DefaultTarget = main
    NoTarget = NoTarget
    Decisions <- ThreePlans
    Estimate <- Estimates
    MaxEstimate = 2
    LineCost = 2
    MaxLines = 1
    Readers = {q1}
CHECK_DEADLOCK FALSE
INVARIANT FallbackReached
