------------------------------- MODULE Memory -------------------------------
(***************************************************************************)
(* The memory of processes: what fork(), exec(), sbrk(), exit() and wait() *)
(* of kernel/proc.c, kernel/exec.c and kernel/sysproc.c do to it, page     *)
(* faults, and the copying of system calls.                                *)
(*                                                                         *)
(* A page table is used by its own process only (and by its parent before  *)
(* the process runs and after it has ended), so a system call is one step; *)
(* how many pages it gets while others allocate too is any number.         *)
(***************************************************************************)
EXTENDS PageTables, Sequences, SequencesExt

CONSTANTS
    Procs, Init1,   \* the process slots, and the one of init
    USERSTACK,      \* pages of a user stack (param.h)
    Images,         \* executables: sequences of segments
    ArgSizes,       \* bytes of arguments of an exec()
    Increments,     \* arguments of sbrk()
    Addresses, Lens \* of stores and of buffers of system calls

VARIABLES mem, proc

vars == <<mem, proc>>

UnusedProc == [state |-> "UNUSED", parent |-> 0, table |-> NoTable, trapframe |-> 0, sz |-> 0]

Text == "text"
Args == "args"
Stored == "stored"

\* The memory for a call during which f calls of kalloc() succeed.
Some(f) == [mem EXCEPT !.fuel = f]
Fuels == 0 .. Cardinality(mem.free)
Settle(m) == mem' = [m EXCEPT !.fuel = 0]

\* A trapframe and a page table, or nothing.
withTable(r, tf) ==
    IF r.ok THEN [m |-> r.m, ok |-> TRUE, T |-> r.T, tf |-> tf] ELSE [m |-> kfree(r.m, {tf}), ok |-> FALSE]

withTrapframe(m, got) ==
    IF got = <<>> THEN [m |-> m, ok |-> FALSE]
    ELSE withTable(proc_pagetable(taken(m, got), got[0]), got[0])

allocproc(m) == withTrapframe(m, kalloc(m, {0}))

freeproc(m, T, tf, sz) == proc_freepagetable(kfree(m, {tf}), T, sz)

isNext(c) == proc[c].state = "UNUSED" /\ \A d \in Procs : d < c => proc[d].state # "UNUSED"

\* A child for which memory runs out is freed again.
kfork(p) ==
    \E c \in Procs, f \in Fuels : \E np \in {allocproc(Some(f))} :
        /\ isNext(c)
        /\ \/ ~np.ok /\ Settle(np.m) /\ UNCHANGED proc
           \/ /\ np.ok
              /\ \E r \in {uvmcopy(np.m, proc[p].table, np.T, proc[p].sz)} :
                 \/ ~r.ok /\ Settle(freeproc(r.m, r.T, np.tf, 0)) /\ UNCHANGED proc
                 \/ /\ r.ok /\ Settle(r.m)
                    /\ proc' = [proc EXCEPT ![c] =
                            [state |-> "RUNNING", parent |-> p, table |-> r.T,
                             trapframe |-> np.tf, sz |-> proc[p].sz]]

(***************************************************************************)
(* exec.c.  A segment of an executable has the page it starts at, its size *)
(* in bytes in memory and in the file, its permissions, and what reading   *)
(* it comes to: "ok", a "bad" header, or "short" contents.                 *)
(***************************************************************************)
loadseg(m, T, seg) ==
    LET vs == seg.vaddr .. seg.vaddr + PGROUNDUP(seg.filesz) - 1
    IN  [fill(m, {T.leaf[v].pa : v \in {v \in vs : user(T, v)}}, Text)
            EXCEPT !.panic = @ \/ \E v \in vs : ~user(T, v)]

\* A segment that has its memory, or not; sz is what `bad' frees.
loaded(l, seg, r, newsz) ==
    IF ~r.ok \/ newsz = 0 THEN [m |-> r.m, T |-> r.T, sz |-> l.sz, ok |-> FALSE]
    ELSE [m |-> loadseg(r.m, r.T, seg), T |-> r.T, sz |-> newsz, ok |-> seg.read = "ok"]

loadOne(l, seg) ==
    LET newsz == Max({l.sz, seg.vaddr * PGSIZE + seg.memsz}) IN
    IF ~l.ok \/ seg.read = "bad" THEN [l EXCEPT !.ok = FALSE]
    ELSE loaded(l, seg, uvmalloc(l.m, l.T, l.sz, newsz, seg.perm), newsz)

\* The guard page, the stack and the arguments.
withArgs(c, sz) == [m |-> c.m, T |-> c.T, sz |-> sz, ok |-> TRUE]

withStack(r, base, sz, args) ==
    LET guarded == uvmclear(r.T, PGROUNDUP(base)) IN
    CASE ~r.ok -> [m |-> r.m, T |-> r.T, sz |-> base, ok |-> FALSE]
      [] r.ok /\ args > USERSTACK * PGSIZE -> [m |-> r.m, T |-> guarded, sz |-> sz, ok |-> FALSE]
      [] OTHER -> withArgs(copyout(r.m, guarded, sz, sz - args, args, Args), sz)

addStack(l, args) ==
    LET base == PGROUNDUP(l.sz) * PGSIZE
        sz == base + (USERSTACK + 1) * PGSIZE
    IN  IF l.ok THEN withStack(uvmalloc(l.m, l.T, base, sz, {"W"}), base, sz, args) ELSE l

\* The new image, or the memory as `bad' leaves it.
orBad(l) == IF l.ok THEN l ELSE [m |-> proc_freepagetable(l.m, l.T, l.sz), ok |-> FALSE]

imageIn(pt, segs, args) ==
    IF pt.ok
    THEN orBad(addStack(FoldLeft(loadOne, [m |-> pt.m, T |-> pt.T, sz |-> 0, ok |-> TRUE], segs), args))
    ELSE pt

newImage(m, tf, segs, args) == imageIn(proc_pagetable(m, tf), segs, args)

kexec(p) ==
    \E segs \in Images, args \in ArgSizes, f \in Fuels :
        \E new \in {newImage(Some(f), proc[p].trapframe, segs, args)} :
        IF new.ok
        THEN /\ Settle(proc_freepagetable(new.m, proc[p].table, proc[p].sz))
             /\ proc' = [proc EXCEPT ![p].table = new.T, ![p].sz = new.sz]
        ELSE Settle(new.m) /\ UNCHANGED proc

(***************************************************************************)
(* sbrk(), stores and the copying of system calls.                         *)
(***************************************************************************)
growproc(p, n) ==
    LET sz == proc[p].sz IN
    \/ /\ n > 0 /\ sz + n <= TRAPFRAME * PGSIZE
       /\ \E f \in Fuels : \E r \in {uvmalloc(Some(f), proc[p].table, sz, sz + n, {"W"})} :
            /\ Settle(r.m)
            /\ proc' = [proc EXCEPT ![p].table = r.T, ![p].sz = IF r.ok THEN sz + n ELSE sz]
    \* a size below zero is a huge one, and changes nothing
    \/ /\ n < 0 /\ sz + n >= 0
       /\ \E r \in {uvmdealloc(mem, proc[p].table, sz, sz + n)} :
            Settle(r.m) /\ proc' = [proc EXCEPT ![p].table = r.T, ![p].sz = sz + n]

sys_sbrk(p) ==
    \E n \in Increments :
        \/ growproc(p, n)
        \* SBRK_LAZY
        \/ /\ n > 0 /\ proc[p].sz + n <= TRAPFRAME * PGSIZE
           /\ proc' = [proc EXCEPT ![p].sz = @ + n]
           /\ UNCHANGED mem

kexit(p) ==
    /\ proc' = [c \in Procs |->
            CASE c = p -> [proc[p] EXCEPT !.state = "ZOMBIE"]
              [] proc[c].parent = p -> [proc[c] EXCEPT !.parent = Init1]
              [] OTHER -> proc[c]]
    /\ UNCHANGED mem

\* A load or store of the user.  A fault that vmfault() cannot resolve kills.
access(p, a, isStore) ==
    LET v == PGROUNDDOWN(a) T == proc[p].table IN
    \E f \in Fuels :
    \E r \in {IF user(T, v) /\ (isStore => writable(T, v)) THEN Succeeds([m |-> mem, T |-> T])
              ELSE vmfault(Some(f), T, proc[p].sz, a)} :
        IF r.ok THEN /\ Settle(IF isStore THEN fill(r.m, {r.T.leaf[v].pa}, Stored) ELSE r.m)
                     /\ proc' = [proc EXCEPT ![p].table = r.T]
        ELSE p # Init1 /\ kexit(p)

\* A system call fills or reads a buffer of the user.
transfer(p, a, len) ==
    \E f \in Fuels : \E r \in {copyout(Some(f), proc[p].table, proc[p].sz, a, len, Stored),
                               copyin(Some(f), proc[p].table, proc[p].sz, a, len)} :
        Settle(r.m) /\ proc' = [proc EXCEPT ![p].table = r.T]

\* The status of the child goes to the user first, unless the address is null:
\* then there is nothing to copy.  If it cannot, the child stays.
Status == {<<0, 0>>} \cup (Addresses \X Lens)

kwait(p) ==
    \E c \in Procs, s \in Status, f \in Fuels :
        /\ proc[c].state = "ZOMBIE" /\ proc[c].parent = p
        /\ \E r \in {copyout(Some(f), proc[p].table, proc[p].sz, s[1], s[2], Stored)} :
            IF r.vs = pagesOf(s[1], s[2])
            THEN /\ Settle(freeproc(r.m, proc[c].table, proc[c].trapframe, proc[c].sz))
                 /\ proc' = [proc EXCEPT ![p].table = r.T, ![c] = UnusedProc]
            ELSE Settle(r.m) /\ proc' = [proc EXCEPT ![p].table = r.T]

\* init, made by userinit() and the exec() in forkret().
Init ==
    LET m0 == [free |-> Pages, data |-> [pa \in Pages |-> Junk],
               fuel |-> Cardinality(Pages), panic |-> FALSE]
    IN  \E p \in {allocproc(m0)}, boot \in {i \in Images : \A s \in DOMAIN i : i[s].read = "ok"} :
        \E new \in {newImage(p.m, p.tf, boot, 1)} :
        /\ mem = [proc_freepagetable(new.m, p.T, 0) EXCEPT !.fuel = 0]
        /\ proc = [c \in Procs |-> IF c # Init1 THEN UnusedProc ELSE
                    [state |-> "RUNNING", parent |-> 0, table |-> new.T,
                     trapframe |-> p.tf, sz |-> new.sz]]

runs(p) == proc[p].state = "RUNNING"

Next ==
    \E p \in Procs :
        /\ runs(p)
        /\ \/ kfork(p) \/ kexec(p) \/ sys_sbrk(p) \/ kwait(p)
           \/ p # Init1 /\ kexit(p)
           \/ \E a \in Addresses, isStore \in BOOLEAN : access(p, a, isStore)
           \/ \E a \in Addresses, len \in Lens : transfer(p, a, len)

Spec == Init /\ [][Next]_vars

(***************************************************************************)
(* Properties.                                                             *)
(***************************************************************************)

\* What p uses physical pages for: page-table pages, its trapframe, and its
\* memory.
uses(p) ==
    LET T == proc[p].table IN
    IF proc[p].state = "UNUSED" THEN {}
    ELSE {<<p, n, <<>>, T.node[n]>> : n \in DOMAIN T.node}
         \cup {<<p, <<>>, <<v>>, T.leaf[v].pa>> : v \in DOMAIN T.leaf \ {TRAMPOLINE}}

\* Every physical page is free or has exactly one use by one process: no page is
\* shared, lost, or freed while in use, whatever call failed on the way.  What a
\* process has mapped is below its size.  No panic of kalloc.c, vm.c or exec.c is
\* reached.
PagesInv ==
    LET all == UNION {uses(p) : p \in Procs} IN
    /\ ~mem.panic
    /\ {u[4] : u \in all} = Pages \ mem.free
    /\ Cardinality(all) = Cardinality(Pages \ mem.free)
    /\ \A p \in Procs : DOMAIN proc[p].table.leaf \subseteq below(proc[p].sz) \cup {TRAPFRAME, TRAMPOLINE}
    /\ \A p \in Procs : runs(p) => proc[p].table.leaf[TRAPFRAME].pa = proc[p].trapframe

spaceOf(p) ==
    LET T == proc[p].table vs == below(proc[p].sz)
    IN  IF proc[p].state = "UNUSED" THEN [sz |-> -1, page |-> <<>>, ro |-> {}]
        ELSE [sz |-> proc[p].sz,
              page |-> [v \in vs |-> IF ismapped(T, v) THEN mem.data[T.leaf[v].pa] ELSE Zero],
              ro |-> {v \in vs : ismapped(T, v) /\ ~writable(T, v)}]

\* What exec() of an executable gives a process.
imageOf(segs, args) ==
    LET top == IF segs = <<>> THEN 0 ELSE Max({s.vaddr * PGSIZE + s.memsz : s \in {segs[i] : i \in DOMAIN segs}})
        guard == PGROUNDUP(top)
        n == guard + 1 + USERSTACK
        in(v, seg) == seg.vaddr <= v /\ v < seg.vaddr + PGROUNDUP(seg.filesz)
    IN  [sz |-> n * PGSIZE,
         page |-> [v \in 0 .. n - 1 |->
                CASE \E i \in DOMAIN segs : in(v, segs[i]) -> Text
                  [] v > guard /\ v >= PGROUNDDOWN(n * PGSIZE - args) -> Args
                  [] OTHER -> Zero],
         ro |-> {guard} \cup {v \in 0 .. guard - 1 : \E i \in DOMAIN segs :
                    /\ "W" \notin segs[i].perm
                    /\ v < PGROUNDUP(segs[i].vaddr * PGSIZE + segs[i].memsz)
                    /\ \A j \in 1 .. i - 1 : v >= PGROUNDUP(segs[j].vaddr * PGSIZE + segs[j].memsz)}]

Space == INSTANCE AddressSpaces WITH
    PageSize <- PGSIZE, Limit <- TRAPFRAME, ZeroPage <- Zero, Values <- {Stored},
    Images <- {imageOf(segs, args) : segs \in {i \in Images : \A s \in DOMAIN i : i[s].read = "ok"},
                                     args \in {a \in ArgSizes : a <= USERSTACK * PGSIZE}},
    space <- [p \in Procs |-> spaceOf(p)]

\* The page tables give every process an address space of its own, zero where
\* it never wrote, copied by fork() and replaced by exec(), also if memory runs
\* out in the middle of a call and if pages are allocated on their first use.
ImplementsSpaces == Space!SpaceSpec
==============================================================================
