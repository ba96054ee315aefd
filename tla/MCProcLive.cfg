SPECIFICATION FairSpec
CONSTANTS
    NPROC = 3
    NCPU = 1
PROPERTIES WaitReturns OrphansReaped KilledExits
