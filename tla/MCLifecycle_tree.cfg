SPECIFICATION SpecUnix
CONSTANTS
    leader = leader
    m1 = m1
    s1 = s1
    s2 = s2
    Leader = leader
    Members = {m1}
    Streams = {s1, s2}
CHECK_DEADLOCK FALSE
INVARIANTS TreeStopped
