-------------------------------- MODULE Proc --------------------------------
(***************************************************************************)
(* The life of a process in kernel/proc.c: kfork(), kexit(), kwait(),      *)
(* kkill(), and the sleep_prepare()/sleep()/wakeup() protocol kwait()      *)
(* sleeps with.  Any RUNNABLE process may be dispatched (Scheduler.tla has *)
(* the choice); what matters here is how the critical sections of several  *)
(* processes interleave.                                                   *)
(*                                                                         *)
(* wait_lock is explicit, and held over several steps.  A section under a  *)
(* single p->lock is one step, except the one in which kexit() sets ZOMBIE *)
(* and lets go of wait_lock while it still holds p->lock and is still on   *)
(* its kernel stack: that one ends in a step of its own, exit_sched.       *)
(*                                                                         *)
(* kwait() sleeps on the address of its own struct proc, and nothing else  *)
(* here sleeps, so wakeup(q) concerns slot q alone.  Opening, closing and  *)
(* memory are left out.                                                    *)
(***************************************************************************)
EXTENDS ProcTable

VARIABLES
    parent,     \* p->parent
    chan,       \* p->chan: p itself when it waits in kwait(), or NoProc
    killed,     \* p->killed
    wait_lock,  \* the process that holds wait_lock, or NoProc
    child,      \* np, a local of the kfork() that p is in, or NoProc
    shell,      \* pid, the shell in the program of init (user/init.c), or NoProc
    pc          \* where process p is

vars == <<state, cproc, parent, chan, killed, wait_lock, child, shell, pc>>

initproc == 0

\* Where a process calls acquire(&wait_lock), and where it spins for it.
spinOf == [fork_parent |-> "fork_spin", wait |-> "wait_spin", exit |-> "exit_spin"]

Spins == {"fork_spin", "wait_spin", "exit_spin"}

PCs == {"user", "fork_ready", "wait_sleep", "exit_reparent", "exit_wakeup",
        "exit_zombie", "exit_sched", "panic"} \cup DOMAIN spinOf \cup Spins

Init ==
    /\ TableInit
    /\ parent = [p \in Procs |-> NoProc]
    /\ chan = [p \in Procs |-> NoProc]
    /\ killed = [p \in Procs |-> FALSE]
    /\ wait_lock = NoProc
    /\ child = [p \in Procs |-> NoProc]
    /\ shell = NoProc
    /\ pc = [p \in Procs |-> "user"]

\* Process p executes at program point l.
At(p, l) == state[p] = "RUNNING" /\ pc[p] = l

Goto(p, l) == pc' = [pc EXCEPT ![p] = l]

children(p) == {q \in Procs : parent[q] = p}

\* p starts a system call; usertrap() lets no killed process do so.
Calls(p) == At(p, "user") /\ ~killed[p]

\* The program of init: fork a shell, wait() until that shell is reaped, again.
InitForks(p) == p = initproc => shell = NoProc
InitWaits(p) == p = initproc => shell # NoProc

(***************************************************************************)
(* The scheduler: any RUNNABLE process, any idle CPU.  A process yields on *)
(* a timer interrupt; acquire() turns interrupts off before it spins, and  *)
(* release() turns them on again.                                          *)
(***************************************************************************)

\* p leaves its CPU with a new state.
leaveCpu(p, new) ==
    /\ state' = [state EXCEPT ![p] = new]
    /\ cproc' = [c \in CPUs |-> IF cproc[c] = p THEN NoProc ELSE cproc[c]]

run(c, p) ==
    /\ cproc[c] = NoProc
    /\ state[p] = "RUNNABLE"
    /\ state' = [state EXCEPT ![p] = "RUNNING"]
    /\ cproc' = [cproc EXCEPT ![c] = p]
    /\ UNCHANGED <<parent, chan, killed, wait_lock, child, shell, pc>>

\* A definition whose name ends in an underscore and a capitalised word is the
\* one it is named after with a bug put in: the properties below must tell the
\* two apart.
yield(p) ==
    /\ state[p] = "RUNNING"
    /\ wait_lock # p
    /\ pc[p] \notin Spins
    /\ leaveCpu(p, "RUNNABLE")
    /\ UNCHANGED <<parent, chan, killed, wait_lock, child, shell, pc>>

\* push_off(), and the loop of acquire(&wait_lock) begins.
acquire(p) ==
    /\ state[p] = "RUNNING"
    /\ pc[p] \in DOMAIN spinOf
    /\ Goto(p, spinOf[pc[p]])
    /\ UNCHANGED <<state, cproc, parent, chan, killed, wait_lock, child, shell>>

\* p, spinning at l, gets wait_lock.
Acquired(p, l) == At(p, l) /\ wait_lock = NoProc

(***************************************************************************)
(* kfork().                                                                *)
(***************************************************************************)

\* allocproc() and the copy of the parent, under the child's lock.  Neither
\* assigns p->killed.
kfork(p, np) ==
    /\ Calls(p) /\ InitForks(p)
    /\ state[np] = "UNUSED"
    /\ state' = [state EXCEPT ![np] = "USED"]
    /\ child' = [child EXCEPT ![p] = np]
    /\ shell' = IF p = initproc THEN np ELSE shell
    /\ Goto(p, "fork_parent")
    /\ UNCHANGED <<cproc, parent, chan, killed, wait_lock>>

\* A page is missing: freeproc(), and -1.  init then exits.
kfork_nomem(p, np) ==
    /\ Calls(p) /\ InitForks(p)
    /\ state[np] = "UNUSED"
    /\ chan' = [chan EXCEPT ![np] = NoProc]
    /\ killed' = [killed EXCEPT ![np] = FALSE]
    /\ Goto(p, IF p = initproc THEN "panic" ELSE "user")
    /\ UNCHANGED <<state, cproc, parent, wait_lock, child, shell>>

\* No slot is UNUSED: -1.
kfork_full(p) ==
    /\ Calls(p) /\ InitForks(p)
    /\ p = initproc
    /\ \A q \in Procs : state[q] # "UNUSED"
    /\ Goto(p, "panic")
    /\ UNCHANGED <<state, cproc, parent, chan, killed, wait_lock, child, shell>>

\* np->parent = p, under wait_lock.
fork_parent(p) ==
    /\ Acquired(p, "fork_spin")
    /\ parent' = [parent EXCEPT ![child[p]] = p]
    /\ Goto(p, "fork_ready")
    /\ UNCHANGED <<state, cproc, chan, killed, wait_lock, child, shell>>

fork_ready(p) ==
    /\ At(p, "fork_ready")
    /\ state' = [state EXCEPT ![child[p]] = "RUNNABLE"]
    /\ child' = [child EXCEPT ![p] = NoProc]
    /\ Goto(p, "user")
    /\ UNCHANGED <<cproc, parent, chan, killed, wait_lock, shell>>

(***************************************************************************)
(* wakeup(q), the part that concerns slot q: state and chan afterwards.    *)
(***************************************************************************)
wakeup_SleepersOnly(q) ==
    /\ state' = [state EXCEPT ![q] =
                    IF chan[q] = q /\ @ = "SLEEPING" THEN "RUNNABLE" ELSE @]
    /\ chan' = [chan EXCEPT ![q] = IF state[q] = "SLEEPING" THEN NoProc ELSE @]

wakeup(q) ==
    /\ state' = [state EXCEPT ![q] =
                    IF chan[q] = q /\ @ = "SLEEPING" THEN "RUNNABLE" ELSE @]
    /\ chan' = [chan EXCEPT ![q] = NoProc]

(***************************************************************************)
(* kexit(), from exit() or from usertrap() when killed.                    *)
(***************************************************************************)
kexit(p) ==
    /\ At(p, "user")
    /\ p # initproc
    /\ Goto(p, "exit")
    /\ UNCHANGED <<state, cproc, parent, chan, killed, wait_lock, child, shell>>

exit_lock(p) ==
    /\ Acquired(p, "exit_spin")
    /\ wait_lock' = p
    /\ Goto(p, "exit_reparent")
    /\ UNCHANGED <<state, cproc, parent, chan, killed, child, shell>>

\* init exiting: it was killed.
init_exiting(p) ==
    /\ At(p, "user")
    /\ p = initproc
    /\ killed[p]
    /\ Goto(p, "panic")
    /\ UNCHANGED <<state, cproc, parent, chan, killed, wait_lock, child, shell>>

reparent_Forgotten(p) ==
    /\ At(p, "exit_reparent")
    /\ Goto(p, "exit_wakeup")
    /\ UNCHANGED <<state, cproc, parent, chan, killed, wait_lock, child, shell>>

\* reparent(p), with the wakeups of init: it cannot look before wait_lock is
\* released, so one wakeup after the last assignment does for all.
reparent(p) ==
    /\ At(p, "exit_reparent")
    /\ parent' = [q \in Procs |-> IF parent[q] = p THEN initproc ELSE parent[q]]
    /\ IF children(p) # {} THEN wakeup(initproc) ELSE UNCHANGED <<state, chan>>
    /\ Goto(p, "exit_wakeup")
    /\ UNCHANGED <<cproc, killed, wait_lock, child, shell>>

exit_wakeup(p) ==
    /\ At(p, "exit_wakeup")
    /\ wakeup(parent[p])
    /\ Goto(p, "exit_zombie")
    /\ UNCHANGED <<cproc, parent, killed, wait_lock, child, shell>>

exit_zombie_KeepsLock(p) ==
    /\ At(p, "exit_zombie")
    /\ state' = [state EXCEPT ![p] = "ZOMBIE"]
    /\ Goto(p, "exit_sched")
    /\ UNCHANGED <<cproc, parent, chan, killed, wait_lock, child, shell>>

\* ZOMBIE, and release(&wait_lock), with p->lock held from here on.
exit_zombie(p) ==
    /\ At(p, "exit_zombie")
    /\ state' = [state EXCEPT ![p] = "ZOMBIE"]
    /\ wait_lock' = NoProc
    /\ Goto(p, "exit_sched")
    /\ UNCHANGED <<cproc, parent, chan, killed, child, shell>>

\* sched(): scheduler() clears c->proc and releases p->lock.
exit_sched(p) ==
    /\ state[p] = "ZOMBIE"
    /\ pc[p] = "exit_sched"
    /\ leaveCpu(p, "ZOMBIE")
    /\ Goto(p, "user")
    /\ UNCHANGED <<parent, chan, killed, wait_lock, child, shell>>

(***************************************************************************)
(* kwait().  From acquire(&wait_lock) to its release is one step: all that *)
(* the scan reads changes under wait_lock only.                            *)
(***************************************************************************)

kwait(p) ==
    /\ Calls(p) /\ InitWaits(p)
    /\ Goto(p, "wait")
    /\ UNCHANGED <<state, cproc, parent, chan, killed, wait_lock, child, shell>>

zombies(p) == {q \in children(p) : state[q] = "ZOMBIE"}

Found_Unlocked(p, pp) ==
    pp \in zombies(p) /\ \A q \in zombies(p) : pp <= q

\* pp is the child that the scan stops at: the first ZOMBIE, once its lock
\* and the locks of the children before it are free.
Found(p, pp) ==
    /\ pp \in zombies(p)
    /\ \A q \in children(p) : q <= pp => pc[q] # "exit_sched"
    /\ \A q \in zombies(p) : pp <= q

\* The child is freed and its pid returned.
reap(p, pp) ==
    /\ Acquired(p, "wait_spin")
    /\ Found(p, pp)
    /\ parent' = [parent EXCEPT ![pp] = NoProc]
    /\ chan' = [chan EXCEPT ![pp] = NoProc]
    /\ killed' = [killed EXCEPT ![pp] = FALSE]
    /\ state' = [state EXCEPT ![pp] = "UNUSED"]
    /\ shell' = IF p = initproc /\ pp = shell THEN NoProc ELSE shell
    /\ Goto(p, "user")
    /\ UNCHANGED <<cproc, wait_lock, child>>

\* copyout() of the status fails: -1, and the child stays.  init passes no
\* address.
wait_fault(p, pp) ==
    /\ Acquired(p, "wait_spin")
    /\ p # initproc
    /\ Found(p, pp)
    /\ Goto(p, "user")
    /\ UNCHANGED <<state, cproc, parent, chan, killed, wait_lock, child, shell>>

\* No children, or killed: -1.  init then exits.
wait_fails(p) ==
    /\ Acquired(p, "wait_spin")
    /\ zombies(p) = {}
    /\ children(p) = {} \/ killed[p]
    /\ Goto(p, IF p = initproc THEN "panic" ELSE "user")
    /\ UNCHANGED <<state, cproc, parent, chan, killed, wait_lock, child, shell>>

\* sleep_prepare(p); release(&wait_lock);
wait_prepare(p) ==
    /\ Acquired(p, "wait_spin")
    /\ zombies(p) = {}
    /\ children(p) # {}
    /\ ~killed[p]
    /\ chan' = [chan EXCEPT ![p] = p]
    /\ Goto(p, "wait_sleep")
    /\ UNCHANGED <<state, cproc, parent, killed, wait_lock, child, shell>>

\* sleep(), unless a wakeup() came first.
sleep(p) ==
    /\ At(p, "wait_sleep")
    /\ IF chan[p] # NoProc
       THEN leaveCpu(p, "SLEEPING")
       ELSE UNCHANGED <<state, cproc>>
    /\ Goto(p, "wait")
    /\ UNCHANGED <<parent, chan, killed, wait_lock, child, shell>>

(***************************************************************************)
(* kkill() and setkilled().                                                *)
(***************************************************************************)

killSlot_Any(q) ==
    /\ killed' = [killed EXCEPT ![q] = TRUE]
    /\ state' = [state EXCEPT ![q] = "RUNNABLE"]
    /\ UNCHANGED <<cproc, parent, chan, wait_lock, child, shell, pc>>

\* What kkill() does to the slot it finds.
killSlot(q) ==
    /\ killed' = [killed EXCEPT ![q] = TRUE]
    /\ state' = [state EXCEPT ![q] = IF @ = "SLEEPING" THEN "RUNNABLE" ELSE @]
    /\ UNCHANGED <<cproc, parent, chan, wait_lock, child, shell, pc>>

\* kkill() of a process.
kkill(p, q) ==
    /\ Calls(p) /\ p # initproc
    /\ state[q] # "UNUSED"
    /\ killSlot(q)

\* kkill(0): the pid of an UNUSED slot is 0, and the first one is found.
kkill_zero(p, q) ==
    /\ Calls(p) /\ p # initproc
    /\ state[q] = "UNUSED"
    /\ \A r \in Procs : r < q => state[r] # "UNUSED"
    /\ killSlot(q)

\* An unexpected trap from user mode.
setkilled(p) ==
    /\ Calls(p) /\ p # initproc
    /\ killed' = [killed EXCEPT ![p] = TRUE]
    /\ UNCHANGED <<state, cproc, parent, chan, wait_lock, child, shell, pc>>

Step(p) ==
    \/ acquire(p)
    \/ kfork_full(p) \/ fork_parent(p) \/ fork_ready(p)
    \/ kexit(p) \/ init_exiting(p) \/ exit_lock(p) \/ reparent(p)
    \/ exit_wakeup(p) \/ exit_zombie(p) \/ exit_sched(p)
    \/ kwait(p) \/ wait_fails(p) \/ wait_prepare(p) \/ sleep(p)
    \/ setkilled(p)

Step2(p, q) ==
    \/ kfork(p, q) \/ kfork_nomem(p, q)
    \/ reap(p, q) \/ wait_fault(p, q)
    \/ kkill(p, q) \/ kkill_zero(p, q)

Next ==
    \/ \E c \in CPUs, p \in Procs : run(c, p)
    \/ \E p \in Procs : yield(p) \/ Step(p)
    \/ \E p, q \in Procs : Step2(p, q)

Spec == Init /\ [][Next]_vars

\* The step p has to take next, in the kernel or in the program of init: a
\* user program other than init's need never call the kernel, but when killed
\* it exits at the next interrupt.
continues(p) ==
    \/ acquire(p) \/ fork_parent(p) \/ fork_ready(p)
    \/ (kexit(p) /\ killed[p]) \/ init_exiting(p)
    \/ exit_lock(p) \/ reparent(p) \/ exit_wakeup(p) \/ exit_zombie(p) \/ exit_sched(p)
    \/ wait_fails(p) \/ wait_prepare(p) \/ sleep(p) \/ \E q \in Procs : reap(p, q)
    \/ p = initproc /\ (kwait(p) \/ kfork_full(p) \/ \E q \in Procs : kfork(p, q))

\* The timer of every CPU makes its process yield; an interrupt that comes
\* while interrupts are off stays pending.  A RUNNABLE process gets a
\* CPU again and again (NoStarvation of Scheduler), so it gets done what it
\* has to do next, although it may be preempted before and others may get
\* wait_lock first: strong fairness.
FairSpec ==
    /\ Spec
    /\ \A c \in CPUs : SF_vars(\E p \in Procs : cproc[c] = p /\ yield(p))
    /\ \A p \in Procs : SF_vars(\E c \in CPUs : run(c, p)) /\ SF_vars(continues(p))

(***************************************************************************)
(* Invariants.                                                             *)
(***************************************************************************)

\* Types; and a process only ever sleeps on its own address.
TypeOK ==
    /\ TableTypeOK
    /\ parent \in [Procs -> Procs \cup {NoProc}]
    /\ chan \in [Procs -> Procs \cup {NoProc}]
    /\ \A p \in Procs : chan[p] \in {p, NoProc}
    /\ killed \in [Procs -> BOOLEAN]
    /\ wait_lock \in Procs \cup {NoProc}
    /\ child \in [Procs -> Procs \cup {NoProc}]
    /\ shell \in Procs \cup {NoProc}
    /\ pc \in [Procs -> PCs]

\* No process sleeps in wait(), or is about to, with a ZOMBIE child: kexit()
\* wakes the parent before it sets ZOMBIE, under the lock the parent scans
\* under, and sleep_prepare() registers before that lock is released.
NoMissedZombie ==
    \A p, q \in Procs : parent[q] = p /\ state[q] = "ZOMBIE" =>
        /\ state[p] # "SLEEPING"
        /\ pc[p] = "wait_sleep" => chan[p] = NoProc

\* A process that has been forked always has a parent that can still wait()
\* for it: reparent() hands children over before their parent is a ZOMBIE.
LivingParent ==
    \A q \in Procs \ {initproc} : state[q] \in {"UNUSED", "USED"} \/
        /\ parent[q] # NoProc
        /\ state[parent[q]] \in {"RUNNABLE", "RUNNING", "SLEEPING"}

\* The kernel stack of a slot is free when the slot is: kwait() takes the
\* child's lock, which kexit() holds until scheduler() is off its stack.
FreeSlotOffCpu ==
    \A p \in Procs : state[p] = "UNUSED" =>
        parent[p] = NoProc /\ \A c \in CPUs : cproc[c] # p

\* "Kill the process with the given pid" (kkill()): a slot taken by kfork() is
\* a new process, that nobody can have killed yet.
BornAlive ==
    [][\A np \in Procs :
        state[np] = "UNUSED" /\ state'[np] = "USED" => ~killed'[np]]_vars

(***************************************************************************)
(* The process table, as others see it: a process in exit_sched still runs. *)
(***************************************************************************)
seenState == [p \in Procs |-> IF pc[p] = "exit_sched" THEN "RUNNING" ELSE state[p]]

Table == INSTANCE ProcTable WITH state <- seenState

\* kfork(), kexit(), kwait() and kkill() move the process table only along
\* the arcs of ProcTable.
ImplementsTable == Table!TableSpec

(***************************************************************************)
(* Liveness.                                                               *)
(***************************************************************************)

\* The parent of an exited process is in wait(), and returns from it.
WaitReturns ==
    \A p \in Procs :
        pc[p] \in {"wait", "wait_spin", "wait_sleep"} /\ zombies(p) # {} ~> pc[p] \in {"user", "panic"}

\* An exited process whose parent is init, its own or by reparent(), is freed,
\* unless init itself has been made to exit.  Only if forks come to an end:
\* kwait() takes the first ZOMBIE of the table, and a shell that exits at once
\* each time init restarts it in a lower slot is preferred for ever.
OrphansReaped ==
    \A q \in Procs :
        <>[][\A p, np \in Procs : ~kfork(p, np)]_vars =>
            (state[q] = "ZOMBIE" /\ parent[q] = initproc ~>
                state[q] = "UNUSED" \/ pc[initproc] = "panic")

\* A killed process that is about to return to user space, or is there, exits.
KilledExits ==
    \A p \in Procs \ {initproc} :
        killed[p] /\ At(p, "user") ~> state[p] \in {"ZOMBIE", "UNUSED"}

==============================================================================
