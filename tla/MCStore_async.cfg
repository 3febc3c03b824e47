SPECIFICATION FairSpec
CONSTANTS
    r1 = r1
    r2 = r2
    r3 = r3
    r4 = r4
    w1 = w1
    w2 = w2
    yesterday = yesterday
    today = today
    Records = {r1, r2, r3}
    Keys = {yesterday, today}
    KeyOf <- TwoDays
    OldKeys = {yesterday}
    Workers = {w1, w2}
    Nobody = Nobody
    QueueCap = 2
    BatchMax = 2
    DeductLimit = 1
INVARIANTS OnePlace DailyIsRows ClosedIsDrained
PROPERTIES DeductWithinLimit KeepsPromise AcceptedSettles CloseReturns
