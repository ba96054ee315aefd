----------------------------- MODULE AtomicDisk -----------------------------
(***************************************************************************)
(* What the log of kernel/log.c promises to the file system: operations    *)
(* between begin_op() and end_op() change the blocks of the disk, a crash  *)
(* takes the disk back to the last commit, a commit never contains half of *)
(* an operation, and when sync() returns every operation that had ended    *)
(* before it was called has been committed.                                *)
(***************************************************************************)
CONSTANTS
    Procs,      \* processes that make file system calls
    Blocks,     \* blocks of the file system, outside the log
    Values      \* contents of a block

VARIABLES
    current,    \* the blocks, as the file system sees them
    committed,  \* the blocks, as they would be after a crash
    inOp,       \* the processes between begin_op() and end_op()
    ended,      \* some operation has ended that is not committed
    syncing     \* for each process: in no sync(), owed a commit, or owed none

diskVars == <<current, committed, inOp, ended, syncing>>

Begin(p) ==
    /\ p \notin inOp
    /\ inOp' = inOp \cup {p}
    /\ UNCHANGED <<current, committed, ended, syncing>>

Write(p, b, v) ==
    /\ p \in inOp
    /\ current' = [current EXCEPT ![b] = v]
    /\ UNCHANGED <<committed, inOp, ended, syncing>>

End(p) ==
    /\ p \in inOp
    /\ inOp' = inOp \ {p}
    /\ ended' = TRUE
    /\ UNCHANGED <<current, committed, syncing>>

\* All operations that have ended, and no part of any other.
Commit ==
    /\ inOp = {}
    /\ committed' = current
    /\ ended' = FALSE
    /\ syncing' = [p \in Procs |-> IF syncing[p] = "owed" THEN "free" ELSE syncing[p]]
    /\ UNCHANGED <<current, inOp>>

SyncCall(p) ==
    /\ syncing[p] = "no"
    /\ syncing' = [syncing EXCEPT ![p] = IF ended THEN "owed" ELSE "free"]
    /\ UNCHANGED <<current, committed, inOp, ended>>

SyncReturn(p) ==
    /\ syncing[p] = "free"
    /\ syncing' = [syncing EXCEPT ![p] = "no"]
    /\ UNCHANGED <<current, committed, inOp, ended>>

Crash ==
    /\ current' = committed
    /\ inOp' = {}
    /\ ended' = FALSE
    /\ syncing' = [p \in Procs |-> "no"]
    /\ UNCHANGED committed

DiskInit ==
    /\ current \in [Blocks -> Values]
    /\ committed = current
    /\ inOp = {}
    /\ ended = FALSE
    /\ syncing = [p \in Procs |-> "no"]

\* Most of what the log does, the file system does not see.
Idle == UNCHANGED diskVars

DiskNext ==
    \/ Idle
    \/ Commit \/ Crash
    \/ \E p \in Procs :
        \/ Begin(p) \/ End(p) \/ SyncCall(p) \/ SyncReturn(p)
        \/ \E b \in Blocks, v \in Values : Write(p, b, v)

DiskSpec == DiskInit /\ [][DiskNext]_diskVars

==============================================================================
