SPECIFICATION SpecCharged
CONSTANTS
    q1 = q1
    q2 = q2
    q3 = q3
    a = a
    u = u
    main = main
    spare = spare
    ghost = ghost
    Requests = {q1, q2}
    Projects = {a, u}
    Budgets <- OneBudget
    NoProject = NoProject
    Limit <- Limit3
    Spent0 <- Started
    Targets = {main, spare, ghost}
    Upstreams = {main, spare}
    DefaultTarget = main
    NoTarget = NoTarget
    Decisions <- ThreePlans
    Estimate <- Estimates
    MaxEstimate = 2
    LineCost = 1
    MaxLines = 2
    Readers = {q1}
CHECK_DEADLOCK FALSE
INVARIANTS AtMostOneRetry FrozenIsHolds SpentIsStreams EndSeenIsSettled StrayHolds
PROPERTIES AbortedSettles TrippedEnds
