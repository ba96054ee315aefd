SPECIFICATION Spec
CONSTANTS
    NPROC = 3
    NCPU = 1
PROPERTIES BornAlive
