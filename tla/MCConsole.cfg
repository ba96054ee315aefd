CONSTANTS
    Harts = {"h0", "h1"}
    Hart0 = "h0"
    Procs = {"p", "q"}
    Spinlocks = {"cons", "ticks", "tx_lock"}
    Nobody = "nobody"
    Users <- MCUsers
    INPUT_BUF_SIZE = 2
    Batch = 1
    WRAP = 4
    Fifo = 2
SPECIFICATION Spec
INVARIANTS InterruptInv NoneStuck
PROPERTIES ImplementsTerminal
