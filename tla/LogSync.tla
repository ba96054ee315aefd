------------------------------ MODULE LogSync -------------------------------
(***************************************************************************)
(* The log implements an atomic disk.  Two history variables record what   *)
(* sync() is owed: whether an operation has ended since the last commit,   *)
(* and for each process in sys_sync() whether one had when it was called.  *)
(***************************************************************************)
EXTENDS Log

VARIABLES ended, syncing

syncVars == <<vars, ended, syncing>>

SyncInit == Init /\ ended = FALSE /\ syncing = [p \in Procs |-> "no"]

\* The commit point: the header is on the disk, or there is nothing to write.
commits(p) == write_head(p) \/ (commit(p) /\ lh = <<>>)

newEnded ==
    /\ ~Recovering'
    /\ ~ \E p \in Procs : commits(p)
    /\ ended \/ \E p \in Procs : end_op(p)

newSyncing(p) ==
    IF Recovering' THEN "no"
    ELSE IF \E q \in Procs : commits(q) THEN IF syncing[p] = "owed" THEN "free" ELSE syncing[p]
    ELSE IF sys_sync(p) THEN IF ended THEN "owed" ELSE "free"
    ELSE IF sync_return(p) THEN "no"
    ELSE syncing[p]

SyncNext == Next /\ ended' = newEnded /\ syncing' = [p \in Procs |-> newSyncing(p)]

SyncSpec == SyncInit /\ [][SyncNext]_syncVars

\* Why sync() keeps its promise: while a commit is owed to a process in it,
\* the process is behind log.ncommit, and an operation is inside or a commit
\* has not reached the header.
SyncInv ==
    /\ ended \in BOOLEAN /\ syncing \in [Procs -> {"no", "owed", "free"}]
    /\ Recovering => ~ended /\ \A p \in Procs : syncing[p] = "no"
    /\ system = "up" =>
        /\ \A p \in Procs :
            /\ syncing[p] = "no" <=> pc[p] \notin {"sync", "sync_sleep", "synced"}
            /\ syncing[p] = "owed" => pc[p] # "synced" /\ p \in behind
        /\ \/ ~committing /\ outstanding = 0
           \/ \E p \in Procs : pc[p] \in {"install", "clear", "finish"}
           => ~ended /\ \A p \in Procs : syncing[p] # "owed"

\* What recovery would make of the disk as it is.
recovered ==
    [b \in Blocks |-> IF b \in blocksOf(header)
                      THEN logdata[CHOOSE i \in DOMAIN header : header[i] = b]
                      ELSE home[b]]

Atomic == INSTANCE AtomicDisk WITH
    current <- IF Recovering THEN recovered ELSE cache,
    committed <- recovered

\* A crash at any moment, recovery included, takes the file system back to the
\* last commit; a commit has all of each operation or none; and sync() returns
\* after the commit of all that had ended (log.c: "Thus there is never any
\* reasoning required about whether a commit might write an uncommitted
\* system call's updates to disk").
ImplementsAtomicDisk == Atomic!DiskSpec

==============================================================================
