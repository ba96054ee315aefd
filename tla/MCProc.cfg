SPECIFICATION Spec
CONSTANTS
    NPROC = 3
    NCPU = 2
INVARIANTS NoMissedZombie LivingParent FreeSlotOffCpu
PROPERTIES ImplementsTable
