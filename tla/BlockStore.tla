----------------------------- MODULE BlockStore ------------------------------
(***************************************************************************)
(* What the buffer cache promises (the interface in kernel/bio.c): bread() *)
(* gives a block, with its latest contents, to one process at a time, and  *)
(* only that process changes it, until brelse().                           *)
(***************************************************************************)
CONSTANTS Procs, Blocks, Values, NoProc

VARIABLES contents, owner

storeVars == <<contents, owner>>

StoreInit ==
    /\ contents \in [Blocks -> Values]
    /\ owner = [k \in Blocks |-> NoProc]

Read(p, k) ==
    /\ owner[k] = NoProc
    /\ owner' = [owner EXCEPT ![k] = p]
    /\ UNCHANGED contents

Change(p, k, v) ==
    /\ owner[k] = p
    /\ contents' = [contents EXCEPT ![k] = v]
    /\ UNCHANGED owner

Release(p, k) ==
    /\ owner[k] = p
    /\ owner' = [owner EXCEPT ![k] = NoProc]
    /\ UNCHANGED contents

\* Most of what the cache does, its callers do not see.
Idle == UNCHANGED storeVars

StoreNext ==
    \/ Idle
    \/ \E p \in Procs, k \in Blocks :
        Read(p, k) \/ Release(p, k) \/ \E v \in Values : Change(p, k, v)

StoreSpec == StoreInit /\ [][StoreNext]_storeVars

==============================================================================
