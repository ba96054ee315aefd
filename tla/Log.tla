-------------------------------- MODULE Log ---------------------------------
(***************************************************************************)
(* The write-ahead log of kernel/log.c.  File system calls run between     *)
(* begin_op() and end_op(), several at a time; the last to end commits     *)
(* what all of them wrote.  Power may fail at any moment, also during      *)
(* recovery.                                                               *)
(*                                                                         *)
(* A section under log.lock is one step, and so is each write of a block   *)
(* to the disk: bwrite() returns when the disk has the block, and the disk *)
(* writes a block entirely or not at all.  A block that is modified and    *)
(* given to log_write() is locked in between, so that is one step too.     *)
(***************************************************************************)
EXTENDS Integers, Sequences, FiniteSets

CONSTANTS
    Procs,          \* processes that make file system calls
    Blocks,         \* blocks of the file system, outside the log
    Values,         \* contents of a block
    MAXOPBLOCKS,    \* param.h
    LOGBLOCKS,      \* size of the log (param.h)
    OpBlocks,       \* different blocks that a file system call really writes
    Calls           \* what calls write: for each a set of <<block, contents>>

ASSUME LogAssumption ==
    /\ MAXOPBLOCKS \in Nat /\ LOGBLOCKS \in Nat /\ OpBlocks \in Nat
    /\ OpBlocks <= MAXOPBLOCKS

ASSUME FiniteAssumption == IsFiniteSet(Procs) /\ IsFiniteSet(Blocks)

VARIABLES
    home,           \* on disk: the blocks of the file system
    logdata,        \* on disk: the blocks of the log
    header,         \* on disk: the block numbers in the log's header
    cache,          \* what bread() returns for each block
    pinned,         \* the blocks whose buffer bpin() keeps in the cache
    lh,             \* log.lh, as a sequence of block numbers
    outstanding,    \* log.outstanding
    committing,     \* log.committing
    tail,           \* the index of write_log() and install_trans(), from 1
    behind,         \* the processes in sys_sync() with log.ncommit < n
    chan,           \* the processes with &log as their p->chan
    wrote,          \* the blocks written by the operation each process is in
    pc,             \* where each process is
    system          \* "up", how far recovery has come, or "panic"

disk == <<home, logdata, header>>
memory == <<cache, pinned, lh>>
counters == <<outstanding, committing>>
waits == <<behind, chan>>
vars == <<disk, memory, counters, tail, waits, wrote, pc, system>>

Slots == 1 .. LOGBLOCKS

\* The elements of a list of block numbers.
blocksOf(s) == {s[i] : i \in DOMAIN s}

\* What block b may hold.
contents(b) == {v \in Values : \E c \in Calls : <<b, v>> \in c}

\* After mkfs: the log is empty.
Init ==
    /\ home \in [Blocks -> Values] /\ \A b \in Blocks : home[b] \in contents(b)
    /\ logdata \in [Slots -> Values] /\ \A i, j \in Slots : logdata[i] = logdata[j]
    /\ header = <<>>
    /\ cache = home
    /\ pinned = {}
    /\ lh = <<>>
    /\ outstanding = 0
    /\ committing = FALSE
    /\ tail = 1
    /\ behind = {}
    /\ chan = {}
    /\ wrote = [p \in Procs |-> {}]
    /\ pc = [p \in Procs |-> "user"]
    /\ system = "up"

At(p, l) == system = "up" /\ pc[p] = l

Goto(p, l) == pc' = [pc EXCEPT ![p] = l]

panic ==
    /\ system' = "panic"
    /\ UNCHANGED <<disk, memory, counters, tail, waits, wrote, pc>>

(***************************************************************************)
(* begin_op() and sleeping on &log.                                        *)
(***************************************************************************)

begin_op(p) ==
    /\ At(p, "user")
    /\ Goto(p, "begin")
    /\ UNCHANGED <<disk, memory, counters, tail, waits, wrote, system>>

\* A name that ends in an underscore and a capitalised word: a variant with a bug.
mustWait_IgnoresLog == committing \/ (outstanding + 1) * MAXOPBLOCKS > LOGBLOCKS

\* The conditions under which begin_op() sleeps.
mustWait == committing \/ Len(lh) + (outstanding + 1) * MAXOPBLOCKS > LOGBLOCKS

begin_wait(p) ==
    /\ At(p, "begin")
    /\ mustWait
    /\ chan' = chan \cup {p}
    /\ Goto(p, "begin_sleep")
    /\ UNCHANGED <<disk, memory, counters, tail, behind, wrote, system>>

begin_admit(p) ==
    /\ At(p, "begin")
    /\ ~mustWait
    /\ outstanding' = outstanding + 1
    /\ wrote' = [wrote EXCEPT ![p] = {}]
    /\ Goto(p, "op")
    /\ UNCHANGED <<disk, memory, committing, tail, waits, system>>

\* sleep() returns once wakeup(&log) has cleared chan, and the caller looks again.
sleep(p) ==
    /\ \/ At(p, "begin_sleep") /\ Goto(p, "begin")
       \/ At(p, "sync_sleep") /\ Goto(p, "sync")
    /\ p \notin chan
    /\ UNCHANGED <<disk, memory, counters, tail, waits, wrote, system>>

\* kkill() also ends a sleep, without clearing chan.
kkill(p) ==
    /\ \/ At(p, "begin_sleep") /\ Goto(p, "begin")
       \/ At(p, "sync_sleep") /\ Goto(p, "sync")
    /\ p \in chan
    /\ UNCHANGED <<disk, memory, counters, tail, waits, wrote, system>>

(***************************************************************************)
(* bread(), a change of the block, log_write(), brelse().  A call writes   *)
(* at most OpBlocks different blocks, each as often as it likes.           *)
(***************************************************************************)
logged_Twice(b) == Append(lh, b)

\* log.lh after log_write(b): the block is absorbed if it is there already.
logged(b) == IF b \in blocksOf(lh) THEN lh ELSE Append(lh, b)

log_write(p, b, v) ==
    /\ At(p, "op")
    /\ \E c \in Calls : <<b, v>> \in c /\ wrote[p] \subseteq {w[1] : w \in c}
    /\ Cardinality(wrote[p] \cup {b}) <= OpBlocks
    /\ IF Len(lh) >= LOGBLOCKS \/ outstanding < 1
       THEN panic
       ELSE /\ cache' = [cache EXCEPT ![b] = v]
            /\ lh' = logged(b)
            /\ pinned' = pinned \cup {b}
            /\ wrote' = [wrote EXCEPT ![p] = @ \cup {b}]
            /\ UNCHANGED <<disk, counters, tail, waits, pc, system>>

(***************************************************************************)
(* end_op() and commit().  The one process with committing set works on    *)
(* the disk without log.lock.                                              *)
(***************************************************************************)
end_op(p) ==
    /\ At(p, "op")
    /\ IF committing
       THEN panic
       ELSE /\ outstanding' = outstanding - 1
            /\ committing' = (outstanding = 1)
            /\ chan' = IF outstanding = 1 THEN chan ELSE {}
            /\ Goto(p, IF outstanding = 1 THEN "commit" ELSE "user")
            /\ wrote' = [wrote EXCEPT ![p] = {}]
            /\ UNCHANGED <<disk, memory, tail, behind, system>>

commit(p) ==
    /\ At(p, "commit")
    /\ Goto(p, IF lh = <<>> THEN "finish" ELSE "write_log")
    /\ UNCHANGED <<disk, memory, counters, tail, waits, wrote, system>>

\* The end of a loop over the log, or its next iteration.
advance(p, here, next) ==
    IF tail = Len(lh)
    THEN tail' = 1 /\ Goto(p, next)
    ELSE tail' = tail + 1 /\ Goto(p, here)

write_log_NoHead(p) ==
    /\ At(p, "write_log")
    /\ logdata' = [logdata EXCEPT ![tail] = cache[lh[tail]]]
    /\ advance(p, "write_log", "install")
    /\ UNCHANGED <<home, header, memory, counters, waits, wrote, system>>

write_log(p) ==
    /\ At(p, "write_log")
    /\ logdata' = [logdata EXCEPT ![tail] = cache[lh[tail]]]
    /\ advance(p, "write_log", "write_head")
    /\ UNCHANGED <<home, header, memory, counters, waits, wrote, system>>

\* The commit point.
write_head(p) ==
    /\ At(p, "write_head")
    /\ header' = lh
    /\ Goto(p, "install")
    /\ UNCHANGED <<home, logdata, memory, counters, tail, waits, wrote, system>>

\* An iteration of install_trans(): home and cache get the block of the log.
install ==
    /\ home' = [home EXCEPT ![lh[tail]] = logdata[tail]]
    /\ cache' = [cache EXCEPT ![lh[tail]] = logdata[tail]]

install_trans(p) ==
    /\ At(p, "install")
    /\ install
    /\ pinned' = pinned \ {lh[tail]}
    /\ advance(p, "install", "clear")
    /\ UNCHANGED <<logdata, header, lh, counters, waits, wrote, system>>

\* log.lh.n = 0; write_head();
clear(p) ==
    /\ At(p, "clear")
    /\ lh' = <<>>
    /\ header' = <<>>
    /\ Goto(p, "finish")
    /\ UNCHANGED <<home, logdata, cache, pinned, counters, tail, waits, wrote, system>>

finish_Silent(p) ==
    /\ At(p, "finish")
    /\ committing' = FALSE
    /\ behind' = {}
    /\ Goto(p, "user")
    /\ UNCHANGED <<disk, memory, outstanding, tail, chan, wrote, system>>

finish_NotCounted(p) ==
    /\ At(p, "finish")
    /\ committing' = FALSE
    /\ chan' = {}
    /\ Goto(p, "user")
    /\ UNCHANGED <<disk, memory, outstanding, tail, behind, wrote, system>>

\* The last section of end_op(), with ncommit += 1 and wakeup(&log).
finish(p) ==
    /\ At(p, "finish")
    /\ committing' = FALSE
    /\ behind' = {}
    /\ chan' = {}
    /\ Goto(p, "user")
    /\ UNCHANGED <<disk, memory, outstanding, tail, wrote, system>>

(***************************************************************************)
(* sys_sync().                                                             *)
(***************************************************************************)
syncMustWait == committing \/ outstanding > 0

sys_sync(p) ==
    /\ At(p, "user")
    /\ behind' = IF syncMustWait THEN behind \cup {p} ELSE behind
    /\ chan' = IF syncMustWait THEN chan \cup {p} ELSE chan
    /\ Goto(p, IF syncMustWait THEN "sync_sleep" ELSE "synced")
    /\ UNCHANGED <<disk, memory, counters, tail, wrote, system>>

\* The condition of its loop, after a sleep.
sync_again(p) ==
    /\ At(p, "sync")
    /\ chan' = IF p \in behind THEN chan \cup {p} ELSE chan
    /\ Goto(p, IF p \in behind THEN "sync_sleep" ELSE "synced")
    /\ UNCHANGED <<disk, memory, counters, tail, behind, wrote, system>>

sync_return(p) ==
    /\ At(p, "synced")
    /\ Goto(p, "user")
    /\ UNCHANGED <<disk, memory, counters, tail, waits, wrote, system>>

(***************************************************************************)
(* The buffer of a block that nobody uses may be recycled at any time.     *)
(***************************************************************************)
recycle(b) ==
    /\ system = "up"
    /\ b \notin pinned
    /\ cache' = [cache EXCEPT ![b] = home[b]]
    /\ UNCHANGED <<disk, pinned, lh, counters, tail, waits, wrote, pc, system>>

(***************************************************************************)
(* A crash, or the reset after a panic, loses the memory; the machine      *)
(* boots and initlog() recovers before any file system call.               *)
(***************************************************************************)
crash ==
    /\ system' = "read_head"
    /\ cache' = home
    /\ pinned' = {}
    /\ lh' = <<>>
    /\ outstanding' = 0
    /\ committing' = FALSE
    /\ tail' = 1
    /\ behind' = {}
    /\ chan' = {}
    /\ wrote' = [p \in Procs |-> {}]
    /\ pc' = [p \in Procs |-> "user"]
    /\ UNCHANGED disk

read_head ==
    /\ system = "read_head"
    /\ lh' = header
    /\ system' = IF header = <<>> THEN "clear" ELSE "install"
    /\ UNCHANGED <<disk, cache, pinned, counters, tail, waits, wrote, pc>>

recover_install ==
    /\ system = "install"
    /\ install
    /\ IF tail = Len(lh)
       THEN tail' = 1 /\ system' = "clear"
       ELSE tail' = tail + 1 /\ UNCHANGED system
    /\ UNCHANGED <<logdata, header, pinned, lh, counters, waits, wrote, pc>>

recover_clear ==
    /\ system = "clear"
    /\ lh' = <<>>
    /\ header' = <<>>
    /\ system' = "up"
    /\ UNCHANGED <<home, logdata, cache, pinned, counters, tail, waits, wrote, pc>>

recover_from_log == read_head \/ recover_install \/ recover_clear

\* A step of p inside begin_op(), end_op() or sys_sync().
continues(p) ==
    \/ begin_wait(p) \/ begin_admit(p) \/ sleep(p)
    \/ end_op(p) \/ commit(p) \/ write_log(p) \/ write_head(p)
    \/ install_trans(p) \/ clear(p) \/ finish(p)
    \/ sync_again(p) \/ sync_return(p)

Next ==
    \/ crash
    \/ recover_from_log
    \/ \E b \in Blocks : recycle(b)
    \/ \E p \in Procs :
        \/ begin_op(p) \/ sys_sync(p) \/ kkill(p)
        \/ continues(p)
        \/ \E b \in Blocks, v \in Values : log_write(p, b, v)

Spec == Init /\ [][Next]_vars

\* A file system call ends, and what is inside the log goes on: weak
\* fairness, since nothing disables such a step but another step of the same
\* process.  Power need not fail, and nobody needs to call.
FairSpec ==
    /\ Spec
    /\ WF_vars(recover_from_log)
    /\ \A p \in Procs : WF_vars(continues(p))

(***************************************************************************)
(* Properties.                                                             *)
(***************************************************************************)

PCs == {"user", "begin", "begin_sleep", "op", "commit", "write_log", "write_head",
        "install", "clear", "finish", "sync", "sync_sleep", "synced"}

\* Types; the log fits on the disk.
TypeOK ==
    /\ home \in [Blocks -> Values]
    /\ cache \in [Blocks -> Values]
    /\ logdata \in [Slots -> Values]
    /\ \A s \in {lh, header} : s \in Seq(Blocks) /\ Len(s) <= LOGBLOCKS
    /\ pinned \subseteq Blocks
    /\ outstanding \in Nat
    /\ committing \in BOOLEAN
    /\ tail \in Nat \ {0}
    /\ behind \subseteq Procs /\ chan \subseteq Procs
    /\ wrote \in [Procs -> SUBSET Blocks]
    /\ pc \in [Procs -> PCs]
    /\ system \in {"up", "read_head", "install", "clear", "panic"}

\* "too big a transaction", "log_write outside of trans" and "log.committing"
\* do not happen: what begin_op() reserves is enough for all that are in.
NoPanic == system # "panic"

Recovering == system \in {"read_head", "install", "clear"}

inOp == {p \in Procs : pc[p] = "op"}

\* The blocks that operations have reserved and not yet used, numbered.
reserve ==
    {r \in Procs \X (1 .. MAXOPBLOCKS) :
        pc[r[1]] = "op" /\ r[2] > Cardinality(wrote[r[1]])}

\* Why: there is room in the log for what has been logged and for all that is
\* reserved, at any time, although begin_op() counts what an operation has
\* already logged twice and end_op() gives up reservations.
SpaceReserved ==
    ~Recovering =>
        /\ Len(lh) + Cardinality(reserve) <= LOGBLOCKS
        /\ \A p \in inOp : wrote[p] \subseteq blocksOf(lh) /\ Cardinality(wrote[p]) <= OpBlocks

CommitPCs == {"commit", "write_log", "write_head", "install", "clear", "finish"}

\* At most one process commits, with committing set and no operation inside.
CommitInv ==
    /\ system = "up" =>
        /\ \A p, q \in Procs : pc[p] \in CommitPCs =>
            /\ committing
            /\ pc[q] # "op"
            /\ pc[q] \in CommitPCs => q = p
        /\ committing => \E p \in Procs : pc[p] \in CommitPCs
    /\ Recovering => ~committing /\ \A p \in Procs : pc[p] = "user"

\* The first n blocks of the log hold what cache (or home) has for them.
inLog(n, where) == \A i \in 1 .. n : logdata[i] = where[lh[i]]

\* Between commits, and until the header is written, the log on disk is empty
\* and what has been logged is in the cache, pinned.
NotCommitted == header = <<>> /\ pinned = blocksOf(lh)

\* What is in memory, in the log and at home while p commits.
StageInv(p) ==
    /\ pc[p] = "commit" => NotCommitted /\ tail = 1
    /\ pc[p] = "write_log" => NotCommitted /\ tail \in DOMAIN lh /\ inLog(tail - 1, cache)
    /\ pc[p] = "write_head" => NotCommitted /\ tail = 1 /\ lh # <<>> /\ inLog(Len(lh), cache)
    /\ pc[p] = "install" =>
        /\ header = lh /\ tail \in DOMAIN lh
        /\ inLog(Len(lh), cache) /\ inLog(tail - 1, home)
        /\ pinned = {lh[i] : i \in tail .. Len(lh)}
    /\ pc[p] = "clear" =>
        /\ header = lh /\ tail = 1
        /\ inLog(Len(lh), home)
        /\ pinned = {}
    /\ pc[p] = "finish" => NotCommitted /\ tail = 1 /\ lh = <<>>

\* The same for recovery, which may itself be cut short by a crash.
RecoverInv ==
    /\ Recovering => pinned = {}
    /\ system = "read_head" => tail = 1
    /\ system = "install" => header = lh /\ tail \in DOMAIN lh /\ inLog(tail - 1, home)
    /\ system = "clear" => header = lh /\ tail = 1 /\ inLog(Len(lh), home)

NoDuplicates(s) == \A i, j \in DOMAIN s : s[i] = s[j] => i = j

\* The inductive invariant: outstanding counts the operations inside; the
\* disk, the log and the cache agree at every stage of a commit and of
\* recovery; and a buffer that differs from the disk is pinned, since bget()
\* may recycle any other.
LogInv ==
    /\ TypeOK
    /\ outstanding = Cardinality(inOp)
    /\ NoDuplicates(lh) /\ NoDuplicates(header)
    /\ CommitInv
    /\ system = "up" /\ ~committing => NotCommitted /\ tail = 1
    /\ system = "up" => \A p \in Procs : StageInv(p)
    /\ RecoverInv
    /\ \A b \in Blocks \ pinned : cache[b] = home[b]

(***************************************************************************)
(* Liveness.                                                               *)
(***************************************************************************)

\* Nobody is admitted any more.
NoneAdmitted == <>[][\A p \in Procs : ~begin_admit(p)]_vars

\* A call that waits for space or for a commit gets in, once the others stop
\* beginning: no wakeup is lost.  (While others go on, they may take the space
\* each time.)  Put differently, since one that waits for ever is not admitted
\* either: it is never so that calls wait and nobody is admitted any more.
BeginReturns ==
    NoneAdmitted => []<>(\A p \in Procs : pc[p] \notin {"begin", "begin_sleep"})

\* Nobody stays in sync() once operations stop beginning.  (As long as they
\* overlap, there is no commit to wait for.)
SyncReturns ==
    NoneAdmitted => <>[](\A p \in Procs : pc[p] \notin {"sync", "sync_sleep"})

==============================================================================
