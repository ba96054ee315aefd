SPECIFICATION SyncFairSpec
CONSTANTS
    p1 = p1
    p2 = p2
    b1 = b1
    b2 = b2
    b3 = b3
    b4 = b4
    v1 = v1
    v2 = v2
    Procs = {p1, p2}
    Blocks = {b1, b2, b3, b4}
    Values = {v1, v2}
    Calls <- MCCalls
    MAXOPBLOCKS = 2
    LOGBLOCKS = 4
    OpBlocks = 2
INVARIANTS LogInv NoPanic
PROPERTIES ImplementsAtomicDisk BeginReturns SyncReturns
