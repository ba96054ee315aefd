SPECIFICATION RoundFairSpec
CONSTANTS
    NPROC = 2
    NCPU = 2
    PRIORITY_MIN = 0
    PRIORITY_MAX = 2
    PRIORITY_DEFAULT = 1
    AGING_INTERVAL = 2
INVARIANTS IInv
PROPERTIES TableSpec NoneBetterAllRound IdleOnlyIfNoneAllRound NoStarvation
