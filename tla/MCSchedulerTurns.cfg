SPECIFICATION TurnSpec
CONSTANTS
    NPROC = 3
    NCPU = 1
    PRIORITY_MIN = 0
    PRIORITY_MAX = 1
    PRIORITY_DEFAULT = 1
    AGING_INTERVAL = 5

PROPERTIES RoundRobinOrder
