----------------------------- MODULE VirtioDisk ------------------------------
(***************************************************************************)
(* The disk driver of kernel/virtio_disk.c and the device it drives.  A    *)
(* section under vdisk_lock is one step, except that the device works      *)
(* beside the loop of virtio_disk_intr(), which therefore holds the lock   *)
(* over several steps (intr).                                              *)
(*                                                                         *)
(* The avail and used rings, with indices that only grow, are queues; that *)
(* a ring of NUM entries can hold them is part of DriverInv.               *)
(***************************************************************************)
EXTENDS Integers, Sequences, FiniteSets, FiniteSetsExt

CONSTANTS
    Procs,          \* processes that use the disk
    NBUF,           \* size of the buffer cache (param.h)
    Blocks,         \* block numbers
    Values,         \* contents of a block
    NUM             \* descriptors (virtio.h)

VARIABLES
    blockno, data,  \* the fields of struct buf that the driver reads
    owned,          \* b->disk: the buffers the disk owns
    free,           \* disk.free
    next,           \* desc[i].next, or NoDesc without VRING_DESC_F_NEXT
    req,            \* what the chain from i on asks for, with disk.info[i]
    avail, used,    \* the rings, from what the other side has not seen yet
    serving,        \* the requests the device has read from avail
    isr,            \* the device asks for an interrupt
    intr,           \* virtio_disk_intr() is in its loop
    platter,        \* the blocks on the disk
    head,           \* idx[0] of the request a process is in
    chan,           \* p->chan
    pc,             \* where each process is
    panic           \* a panic was reached

bufVars == <<blockno, data, owned>>
queueVars == <<free, next, req, avail>>
deviceVars == <<used, serving, isr, platter>>
driverVars == <<bufVars, queueVars, deviceVars, intr, head, chan, pc, panic>>

Bufs == 1 .. NBUF

NoBuf == 0

Descs == 0 .. NUM - 1

NoDesc == NUM

NoReq == [b |-> NoBuf, write |-> FALSE, sector |-> 0, status |-> "0xff"]

\* All descriptors are free and nothing is on the rings.
virtio_disk_init ==
    /\ owned = {}
    /\ free = Descs
    /\ next = [i \in Descs |-> NoDesc]
    /\ req = [i \in Descs |-> NoReq]
    /\ avail = <<>> /\ used = <<>>
    /\ serving = {}
    /\ isr = FALSE /\ intr = FALSE
    /\ head = [p \in Procs |-> NoDesc]

Goto(p, l) == pc' = [pc EXCEPT ![p] = l]

\* p->chan of all processes after wakeup(c).
wakeup(c) == [q \in Procs |-> IF chan[q] = c THEN <<>> ELSE chan[q]]

alloc3_desc ==
    LET i == Min(free) j == Min(free \ {i}) IN <<i, j, Min(free \ {i, j})>>

\* virtio_disk_rw() up to its second sleep(): the request is on the ring.
virtio_submit(p, b, write) ==
    /\ ~intr
    /\ Cardinality(free) >= 3
    /\ LET idx == alloc3_desc IN
        /\ free' = free \ {idx[1], idx[2], idx[3]}
        /\ next' = [next EXCEPT ![idx[1]] = idx[2], ![idx[2]] = idx[3], ![idx[3]] = NoDesc]
        /\ req' = [req EXCEPT ![idx[1]] =
                    [b |-> b, write |-> write, sector |-> blockno[b], status |-> "0xff"]]
        /\ avail' = Append(avail, idx[1])
        /\ head' = [head EXCEPT ![p] = idx[1]]
    /\ owned' = owned \cup {b}
    /\ chan' = [chan EXCEPT ![p] = <<"buf", b>>]
    /\ UNCHANGED <<blockno, data, deviceVars, intr, panic>>

\* A name that ends in an underscore and a capitalised word: a variant with a bug.
virtio_full_KeepsSome(p) ==
    /\ ~intr
    /\ Cardinality(free) < 3
    /\ free' = {}
    /\ chan' = [wakeup(<<"free">>) EXCEPT ![p] = <<"free">>]
    /\ UNCHANGED <<bufVars, next, req, avail, deviceVars, intr, head, panic>>

\* Too few descriptors: alloc3_desc() gives back what it took, which wakes the
\* others that wait for descriptors, and p waits.
virtio_full(p) ==
    /\ ~intr
    /\ Cardinality(free) < 3
    /\ chan' = [(IF free = {} THEN chan ELSE wakeup(<<"free">>)) EXCEPT ![p] = <<"free">>]
    /\ UNCHANGED <<bufVars, queueVars, deviceVars, intr, head, panic>>

\* After a sleep in the second loop of virtio_disk_rw(): not finished yet.
virtio_again(p, b) ==
    /\ ~intr
    /\ b \in owned
    /\ chan' = [chan EXCEPT ![p] = <<"buf", b>>]
    /\ UNCHANGED <<bufVars, queueVars, deviceVars, intr, head, panic>>

\* The descriptors linked to i.
chainOf(i) ==
    LET j == next[i] IN ({i, j} \cup IF j = NoDesc THEN {} ELSE {next[j]}) \ {NoDesc}

\* free_chain() and free_desc(), which refuses a descriptor that is free.
free_chain(i) ==
    /\ free' = free \cup chainOf(i)
    /\ next' = [d \in Descs |-> IF d \in chainOf(i) THEN NoDesc ELSE next[d]]
    /\ panic' = (panic \/ chainOf(i) \cap free # {})

\* The end of virtio_disk_rw().
virtio_done(p, b) ==
    /\ ~intr
    /\ b \notin owned
    /\ req' = [req EXCEPT ![head[p]] = NoReq]
    /\ free_chain(head[p])
    /\ head' = [head EXCEPT ![p] = NoDesc]
    /\ chan' = [wakeup(<<"free">>) EXCEPT ![p] = <<>>]
    /\ UNCHANGED <<bufVars, avail, deviceVars, intr>>

\* virtio_disk_intr() acknowledges the interrupt, before it looks at the ring.
virtio_intr ==
    /\ isr /\ isr' = FALSE
    /\ ~intr /\ intr' = TRUE
    /\ UNCHANGED <<bufVars, queueVars, used, serving, platter, head, chan, pc, panic>>

\* One iteration of its loop: the buffer of the request is the driver's again.
intr_entry ==
    /\ intr
    /\ used # <<>>
    /\ LET id == Head(used) IN
        /\ panic' = (panic \/ req[id].status # "ok")
        /\ owned' = owned \ {req[id].b}
        /\ chan' = wakeup(<<"buf", req[id].b>>)
    /\ used' = Tail(used)
    /\ UNCHANGED <<blockno, data, queueVars, serving, isr, platter, intr, head, pc>>

intr_return ==
    /\ intr /\ intr' = FALSE
    /\ used = <<>>
    /\ UNCHANGED <<bufVars, queueVars, deviceVars, head, chan, pc, panic>>

(***************************************************************************)
(* The device reads the requests in the order of the ring, and may finish  *)
(* them in any other order.                                                *)
(***************************************************************************)
device_takes ==
    /\ avail # <<>>
    /\ serving' = serving \cup {Head(avail)}
    /\ avail' = Tail(avail)
    /\ UNCHANGED <<bufVars, free, next, req, used, isr, platter, intr, head, chan, pc, panic>>

device_finishes(i) ==
    /\ i \in serving /\ serving' = serving \ {i}
    /\ LET b == req[i].b k == req[i].sector IN
        IF req[i].write
        THEN platter' = [platter EXCEPT ![k] = data[b]] /\ UNCHANGED data
        ELSE data' = [data EXCEPT ![b] = platter[k]] /\ UNCHANGED platter
    /\ req' = [req EXCEPT ![i].status = "ok"]
    /\ used' = Append(used, i)
    /\ isr' = TRUE
    /\ UNCHANGED <<blockno, owned, free, next, avail, intr, head, chan, pc, panic>>

device == device_takes \/ \E i \in Descs : device_finishes(i)

interrupt == virtio_intr \/ intr_entry \/ intr_return

==============================================================================
