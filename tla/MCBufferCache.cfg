SPECIFICATION FairSpec
CONSTANTS
    p1 = p1
    p2 = p2
    q1 = q1
    q2 = q2
    NoProc = NoProc
    v1 = v1
    v2 = v2
    Blank = v1
    Procs = {p1, p2, q1, q2}
    outer <- MCouter
    Nested <- MCNested
    Blocks = {1, 2, 3}
    SuperBlock = 1
    Values = {v1, v2}
    NBUF = 2
    NUM = 4
    MaxPinned = 1
CHECK_DEADLOCK FALSE
INVARIANTS DriverInv CacheInv NoLostWakeup PanicsOnlyIfAllInUse
PROPERTIES ImplementsBlockStore DiskCallsReturn
