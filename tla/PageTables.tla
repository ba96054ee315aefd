------------------------------ MODULE PageTables ------------------------------
(***************************************************************************)
(* The page allocator kernel/kalloc.c and the page tables of kernel/vm.c,  *)
(* as operators on the physical memory and on page tables.                 *)
(*                                                                         *)
(*   m = [free, data, fuel, panic]                                         *)
(*                                                                         *)
(* has the free pages, what each page holds (one value for all its bytes), *)
(* how many more calls of kalloc() succeed, and whether the kernel has     *)
(* panicked.  Other CPUs allocate and free pages while a system call runs; *)
(* all that the call sees of this is when its calls of kalloc() begin to   *)
(* fail, so fuel is any number.                                            *)
(*                                                                         *)
(*   T = [node, leaf]                                                      *)
(*                                                                         *)
(* has the page-table pages of a tree, named by level and index, and the   *)
(* page and flags that each mapped virtual page has.  A loop over virtual  *)
(* pages that allocates is given by the order of its calls of kalloc().    *)
(***************************************************************************)
EXTENDS Integers, FiniteSets, FiniteSetsExt, Functions, TLC

CONSTANTS
    Pages,          \* physical pages, as numbers
    PGSIZE,         \* riscv.h
    LEVELS,         \* of a page table: 3
    ENTRIES         \* of a page-table page: 512

ASSUME PageAssumption ==
    /\ Pages \subseteq Nat \ {0}
    /\ {PGSIZE, LEVELS} \subseteq Nat \ {0} /\ ENTRIES \in Nat \ {0, 1}

\* Counted in pages, as all virtual addresses called v are.
MAXVA == ENTRIES ^ LEVELS
TRAMPOLINE == MAXVA - 1
TRAPFRAME == TRAMPOLINE - 1

\* The page of an address, and the number of pages of a size.
PGROUNDDOWN(a) == a \div PGSIZE
PGROUNDUP(sz) == (sz + PGSIZE - 1) \div PGSIZE
below(sz) == 0 .. PGROUNDUP(sz) - 1

trampoline == 0                     \* the page of trampoline.S, not one of kalloc()
Junk == "junk"
Zero == "zero"

(***************************************************************************)
(* kalloc.c                                                                *)
(***************************************************************************)
rank(x, S) == Cardinality({y \in S : y < x})

\* The pages that kalloc() returns for a set of requests, in order, until there
\* is none.  Which page the free list has first does not matter.
kalloc(m, requests) ==
    LET got == {r \in requests : rank(r, requests) < Min({m.fuel, Cardinality(m.free)})}
    IN  [r \in got |-> CHOOSE pa \in m.free : rank(pa, m.free) = rank(r, got)]

taken(m, got) == [m EXCEPT !.free = @ \ Range(got), !.fuel = @ - Cardinality(DOMAIN got)]

\* kfree() of several pages.  To free a page twice is as bad as a panic.
kfree(m, pages) ==
    [m EXCEPT !.free = @ \cup pages,
              !.data = [pa \in Pages |-> IF pa \in pages THEN Junk ELSE @[pa]],
              !.panic = @ \/ ~(pages \subseteq Pages) \/ pages \cap m.free # {}]

(***************************************************************************)
(* vm.c                                                                    *)
(***************************************************************************)

\* The page-table pages that walk() passes on the way to v.
path(v) == {<<l, v \div ENTRIES ^ l>> : l \in 1 .. LEVELS}

\* The order of requests: first the page for v, then its page-table pages from
\* the root down.
pageRequest(v) == v * (LEVELS + 1)
nodeRequest(v, n) == pageRequest(v) + 1 + LEVELS - n[1]

ismapped(T, v) == v \in DOMAIN T.leaf
user(T, v) == ismapped(T, v) /\ "U" \in T.leaf[v].flags
writable(T, v) == user(T, v) /\ "W" \in T.leaf[v].flags

\* The page that mappages() found no room for.
unneeded_Leaks(m, pages) == m

unneeded(m, pages) == kfree(m, pages)

fill(m, pages, value) ==
    [m EXCEPT !.data = [pa \in Pages |-> IF pa \in pages THEN value ELSE @[pa]]]

\* The requests for page-table pages that T lacks on the way to vs.
nodeRequests(T, vs) ==
    [n \in UNION {path(v) : v \in vs} \ DOMAIN T.node |->
        nodeRequest(Min({v \in vs : n \in path(v)}), n)]

\* A page of vs whose requests are not all met is not mapped, nor is any after it;
\* stop is the first of them.
mapGot(m, T, vs, data, flags, req, got) ==
    LET met(v) == {pageRequest(v)} \cup {req[n] : n \in path(v) \cap DOMAIN req} \subseteq DOMAIN got
        stop == Min({MAXVA} \cup {v \in vs : ~met(v)})
        mapped == {v \in vs : v < stop}
        extra == {v \in vs \ mapped : pageRequest(v) \in DOMAIN got}
        node == [n \in {n \in DOMAIN req : req[n] \in DOMAIN got} |-> got[req[n]]]
    IN  [stop |-> stop,
         T |-> [node |-> T.node @@ node,
                leaf |-> T.leaf @@ [v \in mapped |-> [pa |-> got[pageRequest(v)], flags |-> flags[v]]]],
         m |-> [unneeded(taken(m, got), {got[pageRequest(v)] : v \in extra})
            EXCEPT !.data = [pa \in Pages |->
                        IF \E v \in mapped : got[pageRequest(v)] = pa
                        THEN data[CHOOSE v \in mapped : got[pageRequest(v)] = pa] ELSE @[pa]],
                   !.panic = @ \/ vs \cap DOMAIN T.leaf # {}]]

\* For each page v of vs in turn, kalloc() a page, fill it with data[v] and map it
\* with flags[v], until a page cannot be had.
mapEach(m, T, vs, data, flags) ==
    LET req == nodeRequests(T, vs)
    IN  mapGot(m, T, vs, data, flags, req, kalloc(m, {pageRequest(v) : v \in vs} \cup Range(req)))

Zeros(vs) == [v \in vs |-> Zero]

uvmunmap(m, T, vs, do_free) ==
    LET gone == {T.leaf[v].pa : v \in vs \cap DOMAIN T.leaf}
    IN  [m |-> IF do_free THEN kfree(m, gone) ELSE m,
         T |-> [T EXCEPT !.leaf = Restrict(@, DOMAIN @ \ vs)]]

uvmdealloc(m, T, oldsz, newsz) ==
    uvmunmap(m, T, below(oldsz) \ below(newsz), TRUE)

Succeeds(r) == [m |-> r.m, T |-> r.T, ok |-> TRUE]
Fails(r) == [m |-> r.m, T |-> r.T, ok |-> FALSE]

\* All pages from oldsz to newsz, or none.
allocated(r, oldsz) ==
    IF r.stop = MAXVA THEN Succeeds(r) ELSE Fails(uvmdealloc(r.m, r.T, r.stop * PGSIZE, oldsz))

uvmalloc(m, T, oldsz, newsz, xperm) ==
    LET vs == below(newsz) \ below(oldsz)
    IN  allocated(mapEach(m, T, vs, Zeros(vs), [v \in vs |-> {"R", "U"} \cup xperm]), oldsz)

\* All leaves must be gone.
freewalk(u) == [kfree(u.m, Range(u.T.node)) EXCEPT !.panic = @ \/ DOMAIN u.T.leaf # {}]

uvmfree(m, T, sz) == freewalk(uvmunmap(m, T, below(sz), TRUE))

copied(r) ==
    IF r.stop = MAXVA THEN Succeeds(r) ELSE Fails(uvmunmap(r.m, r.T, 0 .. r.stop - 1, TRUE))

uvmcopy(m, old, T, sz) ==
    LET vs == below(sz) \cap DOMAIN old.leaf
    IN  copied(mapEach(m, T, vs, [v \in vs |-> m.data[old.leaf[v].pa]], [v \in vs |-> old.leaf[v].flags]))

uvmclear(T, v) == [T EXCEPT !.leaf[v].flags = @ \ {"U"}]

\* Pages for those of vs, all below sz, that have none yet.
faultIn(m, T, vs) ==
    LET new == {v \in vs : ~ismapped(T, v)}
    IN  mapEach(m, T, new, Zeros(new), [v \in new |-> {"W", "U", "R"}])

faulted(r) == IF r.stop = MAXVA THEN Succeeds(r) ELSE Fails(r)

\* The page of address a, if that is below sz and nothing is mapped there.
vmfault(m, T, sz, a) ==
    IF a >= sz \/ ismapped(T, PGROUNDDOWN(a)) THEN Fails([m |-> m, T |-> T])
    ELSE faulted(faultIn(m, T, {PGROUNDDOWN(a)}))

\* copyout() (write) and copyin() or copyinstr(): the pages from v on, up to the
\* first that the user may not access that way, are faulted in as needed, and
\* copied even if the call then fails.
upTo(lim, vs, r) == [vs |-> {v \in vs : v < lim /\ v < r.stop}, m |-> r.m, T |-> r.T]

refused_ReadOnly(T, sz, v, write) == IF ismapped(T, v) THEN ~user(T, v) ELSE v * PGSIZE >= sz

refused(T, sz, v, write) ==
    IF ismapped(T, v) THEN ~user(T, v) \/ (write /\ ~writable(T, v)) ELSE v * PGSIZE >= sz

copies(m, T, sz, vs, write) ==
    LET lim == Min({MAXVA} \cup {v \in vs : refused(T, sz, v, write)})
    IN  upTo(lim, vs, faultIn(m, T, {v \in vs : v < lim}))

pagesOf(a, len) == PGROUNDDOWN(a) .. PGROUNDDOWN(a + len - 1)

\* What copyout() of value leaves behind.
written(r, value) == [r EXCEPT !.m = fill(@, {r.T.leaf[v].pa : v \in r.vs}, value)]

copyout(m, T, sz, a, len, value) == written(copies(m, T, sz, pagesOf(a, len), TRUE), value)

copyin(m, T, sz, a, len) == copies(m, T, sz, pagesOf(a, len), FALSE)

(***************************************************************************)
(* The page tables of processes (kernel/proc.c).                           *)
(***************************************************************************)
NoTable == [node |-> <<>>, leaf |-> <<>>]

\* A root and the way to the trampoline and the trapframe, or nothing.
tableOf(m, tf, req, got) ==
    LET T == [node |-> [n \in {n \in DOMAIN req : req[n] \in DOMAIN got} |-> got[req[n]]],
              leaf |-> (TRAMPOLINE :> [pa |-> trampoline, flags |-> {"R", "X"}])
                       @@ (TRAPFRAME :> [pa |-> tf, flags |-> {"R", "W"}])]
    IN  IF DOMAIN T.node = DOMAIN req THEN Succeeds([m |-> taken(m, got), T |-> T])
        ELSE Fails([m |-> uvmfree(taken(m, got), [T EXCEPT !.leaf = <<>>], 0), T |-> NoTable])

proc_pagetable(m, tf) ==
    LET req == [n \in path(TRAMPOLINE) \cup path(TRAPFRAME) |-> nodeRequest(n[2] * ENTRIES ^ n[1], n)]
    IN  tableOf(m, tf, req, kalloc(m, Range(req)))

proc_freepagetable(m, T, sz) == uvmfree(m, uvmunmap(m, T, {TRAMPOLINE, TRAPFRAME}, FALSE).T, sz)
==============================================================================
