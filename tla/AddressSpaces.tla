---------------------------- MODULE AddressSpaces ----------------------------
(***************************************************************************)
(* What memory management promises to programs: every process has an       *)
(* address space of its own, in which pages it never wrote are zero, and   *)
(* which only its own stores and system calls change.                      *)
(***************************************************************************)
EXTENDS Integers

CONSTANTS
    Procs,
    PageSize,       \* bytes of a page
    Limit,          \* the largest number of pages
    Images,         \* what exec() may start with: [sz, page, ro]
    Values,         \* what a process may store
    ZeroPage

VARIABLE space      \* [sz, page, ro] for each process, or None

None == [sz |-> -1, page |-> <<>>, ro |-> {}]
pagesOf(sz) == (sz + PageSize - 1) \div PageSize

Fork(p, c) == space[p] # None /\ space[c] = None /\ space' = [space EXCEPT ![c] = space[p]]

Exec(p) == space[p] # None /\ \E image \in Images : space' = [space EXCEPT ![p] = image]

\* Bytes are added or removed at the end; new pages are zero and may be written.
Sbrk(p) ==
    /\ space[p] # None
    /\ \E sz \in 0 .. Limit * PageSize :
        space' = [space EXCEPT ![p] =
            [sz |-> sz,
             page |-> [v \in 0 .. pagesOf(sz) - 1 |-> IF v \in DOMAIN @.page THEN @.page[v] ELSE ZeroPage],
             ro |-> {v \in @.ro : v < pagesOf(sz)}]]

\* Pages in a row that may all be written.
runs(s) == {vs \in {v .. last : v, last \in DOMAIN s.page} : vs \cap s.ro = {}}

\* What a store makes of a space: the pages of a run change, and no others.
stored(s) ==
    {[s EXCEPT !.page = [w \in DOMAIN @ |-> IF w \in vs THEN value ELSE @[w]]] :
        vs \in runs(s), value \in Values}

Store(p) == space[p] # None /\ \E s \in stored(space[p]) : space' = [space EXCEPT ![p] = s]

\* p waits for c, whose status it may store.
Wait(p, c) ==
    /\ space[p] # None /\ p # c
    /\ \E s \in {space[p]} \cup stored(space[p]) : space' = [space EXCEPT ![p] = s, ![c] = None]

SpaceNext ==
    \E p \in Procs : Exec(p) \/ Sbrk(p) \/ Store(p) \/ \E c \in Procs : Fork(p, c) \/ Wait(p, c)

\* One process is started by the kernel.
SpaceInit ==
    \E p \in Procs, image \in Images : space = [q \in Procs |-> IF q = p THEN image ELSE None]

SpaceSpec == SpaceInit /\ [][SpaceNext]_space
==============================================================================
