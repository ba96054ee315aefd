CONSTANTS
    Pages <- MCPages
    PGSIZE = 2
    LEVELS = 2
    ENTRIES = 3
    Procs = {1, 2}
    Init1 = 1
    USERSTACK = 1
    Images <- MCImages
    ArgSizes = {1, 3}
    Increments <- MCIncrements
    Addresses = {1, 7}
    Lens = {3}
SPECIFICATION Spec
VIEW Shape
INVARIANTS PagesInv
PROPERTIES ImplementsSpaces
CHECK_DEADLOCK FALSE
