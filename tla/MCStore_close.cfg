SPECIFICATION Spec
CONSTANTS
    r1 = r1
    r2 = r2
    r3 = r3
    r4 = r4
    w1 = w1
    w2 = w2
    yesterday = yesterday
    today = today
    Records = {r1, r2}
    Keys = {yesterday, today}
    KeyOf <- OneDay
    OldKeys = {yesterday}
    Workers = {w1}
    Nobody = Nobody
    QueueCap = 2
    BatchMax = 2
    DeductLimit = 0
PROPERTY CloseDrains
