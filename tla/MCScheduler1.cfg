SPECIFICATION FairSpec
CONSTANTS
    NPROC = 3
    NCPU = 1
    PRIORITY_MIN = 0
    PRIORITY_MAX = 2
    PRIORITY_DEFAULT = 1
    AGING_INTERVAL = 2
INVARIANTS BoundedWaiting
PROPERTIES BestIsDispatched
