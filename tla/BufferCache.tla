----------------------------- MODULE BufferCache -----------------------------
(***************************************************************************)
(* The buffer cache of kernel/bio.c, with the sleep locks of               *)
(* kernel/sleeplock.c, on top of the disk driver.  A section under         *)
(* bcache.lock or under the spinlock of a sleep lock is one step.          *)
(*                                                                         *)
(* The callers are those of kernel/log.c and kernel/fs.c: a block is read, *)
(* perhaps changed and then given to log_write(), which pins its buffer,   *)
(* or written to the disk by the log and then unpinned, and released.      *)
(*                                                                         *)
(* Some of them hold a buffer while they wait in bread() for a second one: *)
(* install_trans() and write_log() a block of the log and then its home,   *)
(* bmap() and itrunc() an indirect block and then what balloc() or bfree() *)
(* reads.  Such a process is two elements of Procs, one for each buffer,   *)
(* of which only one is inside a call at a time.                           *)
(***************************************************************************)
EXTENDS VirtioDisk

CONSTANTS
    NoProc,
    Blank,          \* what a block holds at first
    MaxPinned,      \* the blocks a transaction may log
    SuperBlock,     \* the block that is only read (fs.c: readsb())
    outer,          \* for a second buffer, the element that holds the first
    Nested          \* <<k, j>>: some caller asks for block j while it holds k

\* b->dev and b->blockno of a buffer never used: no device 0 is ever read.
NoBlock == 0

ASSUME BufferAssumption ==
    /\ IsFiniteSet(Procs) /\ NoProc \notin Procs /\ Blank \in Values
    /\ NoBlock \notin Blocks
    /\ {NUM, NBUF, MaxPinned} \subseteq Nat /\ NUM > 3

\* A process holds at most two buffers, and asks for them in one order: a block
\* of the log (level 0), an indirect block (1), any other (2).
ASSUME OrderAssumption ==
    /\ outer \in [Procs -> Procs \cup {NoProc}]
    /\ \A p \in Procs : outer[p] # NoProc => outer[outer[p]] = NoProc
    /\ \E level \in [Blocks -> 0 .. 2] : \A n \in Nested : level[n[1]] < level[n[2]]

VARIABLES
    valid, refcnt,  \* the other fields of struct buf
    lru,            \* the list from bcache.head.next on
    holder,         \* b->lock: the process that has it
    pinned,         \* the buffers that log_write() pinned
    bp,             \* the buffer each process works on
    writing         \* the second argument of virtio_disk_rw()

cacheVars == <<valid, refcnt, lru, holder, pinned, bp, writing>>
vars == <<driverVars, cacheVars>>

binit ==
    /\ blockno = [b \in Bufs |-> NoBlock]
    /\ data = [b \in Bufs |-> Blank]
    /\ valid = {}
    /\ refcnt = [b \in Bufs |-> 0]
    /\ lru = [i \in 1 .. NBUF |-> NBUF + 1 - i]
    /\ holder = [b \in Bufs |-> NoProc]

Init ==
    /\ virtio_disk_init
    /\ binit
    /\ platter = [k \in Blocks |-> Blank]
    /\ pinned = {}
    /\ bp = [p \in Procs |-> NoBuf]
    /\ writing = [p \in Procs |-> FALSE]
    /\ chan = [p \in Procs |-> <<>>]
    /\ pc = [p \in Procs |-> "idle"]
    /\ panic = FALSE

At(p, l) == pc[p] = l

\* The other element for the process of p, if it is two.
mates(p) == {q \in Procs : outer[q] = p \/ outer[p] = q}

mayAsk_AnyOrder(p, k) ==
    \A q \in mates(p) :
        IF q = outer[p] THEN At(q, "held") /\ blockno[bp[q]] # k ELSE At(q, "idle")

\* bread(k) is called with no buffer held, or with one that may be held then.
mayAsk(p, k) ==
    \A q \in mates(p) :
        IF q = outer[p] THEN At(q, "held") /\ <<blockno[bp[q]], k>> \in Nested ELSE At(q, "idle")

cached(k) == {b \in Bufs : blockno[b] = k}

unused == {i \in DOMAIN lru : refcnt[lru[i]] = 0}

bget_hit(p, k) ==
    /\ At(p, "idle")
    /\ \E b \in cached(k) :
        /\ refcnt' = [refcnt EXCEPT ![b] = @ + 1]
        /\ bp' = [bp EXCEPT ![p] = b]
    /\ Goto(p, "lock")
    /\ UNCHANGED <<bufVars, queueVars, deviceVars, intr, head, chan, panic,
                   valid, lru, holder, pinned, writing>>

recycled_KeepsValid(b) == valid

recycled(b) == valid \ {b}

bget_recycle_Anyway(p, k) ==
    /\ At(p, "idle")
    /\ unused # {}
    /\ LET b == lru[Max(unused)] IN
        /\ blockno' = [blockno EXCEPT ![b] = k]
        /\ valid' = recycled(b)
        /\ refcnt' = [refcnt EXCEPT ![b] = 1]
        /\ bp' = [bp EXCEPT ![p] = b]
    /\ Goto(p, "lock")
    /\ UNCHANGED <<data, owned, queueVars, deviceVars, intr, head, chan, panic,
                   lru, holder, pinned, writing>>

\* Not cached: the least recently used buffer that nobody uses.
bget_recycle(p, k) ==
    /\ At(p, "idle")
    /\ cached(k) = {}
    /\ unused # {}
    /\ LET b == lru[Max(unused)] IN
        /\ blockno' = [blockno EXCEPT ![b] = k]
        /\ valid' = recycled(b)
        /\ refcnt' = [refcnt EXCEPT ![b] = 1]
        /\ bp' = [bp EXCEPT ![p] = b]
    /\ Goto(p, "lock")
    /\ UNCHANGED <<data, owned, queueVars, deviceVars, intr, head, chan, panic,
                   lru, holder, pinned, writing>>

bget_panics(p, k) ==
    /\ At(p, "idle")
    /\ cached(k) = {}
    /\ unused = {}
    /\ panic' = TRUE
    /\ UNCHANGED <<bufVars, queueVars, deviceVars, intr, head, chan, pc, cacheVars>>

bget(p, k) == mayAsk(p, k) /\ (bget_hit(p, k) \/ bget_recycle(p, k) \/ bget_panics(p, k))

(***************************************************************************)
(* The three loops around sleep(), one step per turn.  A process asleep    *)
(* has chan set; it takes its next turn when wakeup() has cleared chan, or *)
(* earlier when kkill() wakes it.  Nobody reads the chan of a process that *)
(* has left its loop, so that is cleared.                                  *)
(***************************************************************************)
awake(p) == chan' = [chan EXCEPT ![p] = <<>>]

\* bread() once acquiresleep() has the lock.
acquiresleep(p) ==
    /\ At(p, "lock")
    /\ holder[bp[p]] = NoProc
    /\ holder' = [holder EXCEPT ![bp[p]] = p]
    /\ awake(p)
    /\ Goto(p, IF bp[p] \in valid THEN "held" ELSE "rw")
    /\ UNCHANGED <<bufVars, queueVars, deviceVars, intr, head, panic,
                   valid, refcnt, lru, pinned, bp, writing>>

acquiresleep_waits(p) ==
    /\ At(p, "lock")
    /\ holder[bp[p]] # NoProc
    /\ chan' = [chan EXCEPT ![p] = <<"lock", bp[p]>>]
    /\ UNCHANGED <<bufVars, queueVars, deviceVars, intr, head, pc, panic, cacheVars>>

rw_submit(p) ==
    /\ At(p, "rw")
    /\ virtio_submit(p, bp[p], writing[p])
    /\ Goto(p, "rw_wait")
    /\ UNCHANGED cacheVars

rw_full(p) == At(p, "rw") /\ virtio_full(p) /\ UNCHANGED <<pc, cacheVars>>

rw_again(p) == At(p, "rw_wait") /\ virtio_again(p, bp[p]) /\ UNCHANGED <<pc, cacheVars>>

\* The end of bread() after a read, or of bwrite().
rw_done(p) ==
    /\ At(p, "rw_wait")
    /\ virtio_done(p, bp[p])
    /\ valid' = valid \cup {bp[p]}
    /\ writing' = [writing EXCEPT ![p] = FALSE]
    /\ Goto(p, IF writing[p] THEN "written" ELSE "held")
    /\ UNCHANGED <<refcnt, lru, holder, pinned, bp>>

(***************************************************************************)
(* What the log and the file system do with a locked buffer.               *)
(***************************************************************************)
bpin(b) == [refcnt EXCEPT ![b] = @ + 1]

\* A change, and log_write(), which pins a buffer not yet in the log.
log_write(p, v) ==
    /\ At(p, "held")
    /\ blockno[bp[p]] # SuperBlock
    /\ LET b == bp[p] IN
        /\ b \in pinned \/ Cardinality(pinned) < MaxPinned
        /\ data' = [data EXCEPT ![b] = v]
        /\ pinned' = pinned \cup {b}
        /\ refcnt' = IF b \in pinned THEN refcnt ELSE bpin(b)
    /\ UNCHANGED <<blockno, owned, queueVars, deviceVars, intr, head, chan, pc, panic,
                   valid, lru, holder, bp, writing>>

\* bwrite(), after the caller has filled the buffer.
bwrite(p, v) ==
    /\ At(p, "held")
    /\ blockno[bp[p]] # SuperBlock
    /\ data' = [data EXCEPT ![bp[p]] = v]
    /\ writing' = [writing EXCEPT ![p] = TRUE]
    /\ Goto(p, "rw")
    /\ UNCHANGED <<blockno, owned, queueVars, deviceVars, intr, head, chan, panic,
                   valid, refcnt, lru, holder, pinned, bp>>

\* install_trans() unpins what it has written.
bunpin(p) ==
    /\ At(p, "written")
    /\ LET b == bp[p] IN
        /\ pinned' = pinned \ {b}
        /\ refcnt' = IF b \in pinned THEN [refcnt EXCEPT ![b] = @ - 1] ELSE refcnt
    /\ Goto(p, "held")
    /\ UNCHANGED <<bufVars, queueVars, deviceVars, intr, head, chan, panic,
                   valid, lru, holder, bp, writing>>

releasesleep_Silent(p) ==
    /\ At(p, "held")
    /\ holder' = [holder EXCEPT ![bp[p]] = NoProc]
    /\ Goto(p, "release")
    /\ UNCHANGED <<bufVars, queueVars, deviceVars, intr, head, chan, panic,
                   valid, refcnt, lru, pinned, bp, writing>>

\* brelse() first lets the lock go,
releasesleep(p) ==
    /\ At(p, "held")
    /\ holder' = [holder EXCEPT ![bp[p]] = NoProc]
    /\ chan' = wakeup(<<"lock", bp[p]>>)
    /\ Goto(p, "release")
    /\ UNCHANGED <<bufVars, queueVars, deviceVars, intr, head, panic,
                   valid, refcnt, lru, pinned, bp, writing>>

\* The list once b is unlinked and linked in again at bcache.head.
toFront(b) ==
    LET at == CHOOSE i \in DOMAIN lru : lru[i] = b
    IN  [i \in DOMAIN lru |-> IF i = 1 THEN b ELSE IF i <= at THEN lru[i - 1] ELSE lru[i]]

brelse_KeepsRef(p) ==
    /\ At(p, "release")
    /\ lru' = toFront(bp[p])
    /\ bp' = [bp EXCEPT ![p] = NoBuf]
    /\ Goto(p, "idle")
    /\ UNCHANGED <<bufVars, queueVars, deviceVars, intr, head, chan, panic,
                   valid, refcnt, holder, pinned, writing>>

\* and then counts its reference down.  A buffer nobody uses is now the most
\* recently used one.
brelse(p) ==
    /\ At(p, "release")
    /\ LET b == bp[p] IN
        /\ refcnt' = [refcnt EXCEPT ![b] = @ - 1]
        /\ lru' = IF refcnt[b] = 1 THEN toFront(b) ELSE lru
    /\ bp' = [bp EXCEPT ![p] = NoBuf]
    /\ Goto(p, "idle")
    /\ UNCHANGED <<bufVars, queueVars, deviceVars, intr, head, chan, panic,
                   valid, holder, pinned, writing>>

(***************************************************************************)
(* The specification.                                                      *)
(***************************************************************************)

\* What a process does once it has asked for a block, until it has released it.
continues(p) ==
    \/ acquiresleep(p) \/ acquiresleep_waits(p)
    \/ rw_submit(p) \/ rw_full(p) \/ rw_again(p) \/ rw_done(p)
    \/ bunpin(p) \/ releasesleep(p) \/ brelse(p)

uses(p) ==
    \/ \E k \in Blocks : bget(p, k)
    \/ \E v \in Values : log_write(p, v) \/ bwrite(p, v)

\* The process of p is not inside a call for its other buffer.
runs(p) == \A q \in mates(p) : pc[q] \in {"idle", "held"}

Drives == (device \/ interrupt) /\ UNCHANGED cacheVars

Next ==
    /\ ~panic
    /\ Drives \/ \E p \in Procs : runs(p) /\ (continues(p) \/ uses(p))

Spec == Init /\ [][Next]_vars

\* The device serves requests and interrupts, and processes run on, until they
\* have released what they hold.
FairSpec ==
    /\ Spec
    /\ WF_vars(device_takes /\ UNCHANGED cacheVars)
    /\ \A i \in Descs : WF_vars(device_finishes(i) /\ UNCHANGED cacheVars)
    /\ WF_vars(interrupt /\ UNCHANGED cacheVars)
    /\ \A p \in Procs : outer[p] = NoProc =>
        WF_vars(\E q \in {p} \cup mates(p) : chan[q] = <<>> /\ runs(q) /\ continues(q))

(***************************************************************************)
(* Invariants.                                                             *)
(***************************************************************************)

\* The processes in virtio_disk_rw() whose request is with the device.
inFlight == {p \in Procs : head[p] # NoDesc}

Holds(p) == bp[p] # NoBuf /\ holder[bp[p]] = p

\* Descriptors are free or in the chain of one request; a request is once on
\* its way through the device, with the buffer that its caller waits for; so
\* rings of NUM entries never overflow, and no interrupt finds a request that
\* is gone.
DriverInv ==
    /\ \A p \in inFlight :
        /\ Cardinality(chainOf(head[p])) = 3
        /\ chainOf(head[p]) \cap free = {}
        /\ req[head[p]].b = bp[p] /\ Holds(p)
        /\ \A q \in inFlight \ {p} : chainOf(head[p]) \cap chainOf(head[q]) = {}
    /\ Cardinality(free) + 3 * Cardinality(inFlight) = NUM
    /\ LET inside == avail \o used
           onWay == {inside[i] : i \in DOMAIN inside} \cup serving
       IN  /\ Len(inside) + Cardinality(serving) = Cardinality(onWay)
           /\ onWay \subseteq {head[p] : p \in inFlight}
           /\ owned = {req[i].b : i \in onWay}

\* A block has at most one buffer, however many miss it at once; a buffer in use
\* is never recycled, because refcnt counts who works on it, who waits for its
\* lock, and the log.  bwrite() returns when the disk has the block.
CacheInv ==
    /\ \A k \in Blocks : Cardinality(cached(k)) <= 1
    /\ \A b \in Bufs :
        refcnt[b] = Cardinality({p \in Procs : bp[p] = b}) + (IF b \in pinned THEN 1 ELSE 0)
    /\ {lru[i] : i \in DOMAIN lru} = Bufs /\ Len(lru) = NBUF
    /\ \A p \in Procs : At(p, "written") => platter[blockno[bp[p]]] = data[bp[p]]

\* Whoever sleeps has something to wait for: its wakeup, or the interrupt that
\* will bring it, is still to come.  virtio_disk_intr() acknowledges before it
\* looks, so what is on the ring after its last look asks for another interrupt.
NoLostWakeup ==
    /\ used # <<>> => isr \/ intr
    /\ \A p \in Procs :
        /\ chan[p] = <<"free">> => Cardinality(free) < 3
        /\ \A b \in Bufs :
            /\ chan[p] = <<"lock", b>> => holder[b] # NoProc
            /\ chan[p] = <<"buf", b>> => b \in owned

\* "free_desc 2" and "virtio_disk_intr status" do not happen, and "bget: no
\* buffers" only if the log or a process has every single buffer: no reference is
\* ever lost.  (The log may pin LOGBLOCKS of the NBUF buffers, which is all of
\* them in param.h.)
PanicsOnlyIfAllInUse ==
    panic => \A b \in Bufs : b \in pinned \/ \E p \in Procs : bp[p] = b

(***************************************************************************)
(* Refinement: the latest contents of a block are in its buffer, if that   *)
(* is valid, and else on the disk.                                         *)
(***************************************************************************)
latest ==
    [k \in Blocks |-> IF cached(k) \cap valid = {} THEN platter[k]
                     ELSE data[CHOOSE b \in cached(k) \cap valid : TRUE]]

ownerOf ==
    [k \in Blocks |->
        LET has == {p \in Procs : Holds(p) /\ blockno[bp[p]] = k /\ bp[p] \in valid}
        IN  IF has = {} THEN NoProc ELSE CHOOSE p \in has : TRUE]

Store == INSTANCE BlockStore WITH contents <- latest, owner <- ownerOf

\* Recycling, reading, pinning and requests that finish in any order change
\* nothing for the callers: each block has one owner at a time, and its contents
\* are what the last owner left.
ImplementsBlockStore == Store!StoreSpec

(***************************************************************************)
(* Liveness.                                                               *)
(***************************************************************************)

\* Processes that wait for a buffer's lock, for descriptors or for the disk get
\* on, and all buffers are released, once nobody asks for more: no wakeup and no
\* interrupt is lost, and nobody waits in a circle, although processes hold a
\* buffer while they wait for another.
DiskCallsReturn ==
    []~panic /\ <>[][\A q \in Procs : ~uses(q)]_vars => []<>(\A p \in Procs : bp[p] = NoBuf)

==============================================================================
