------------------------------ MODULE Scheduler ------------------------------
(***************************************************************************)
(* The static-priority scheduler with aging of kernel/proc.c.              *)
(*                                                                         *)
(* Every CPU runs scheduler() on its own: a first scan over proc[] ages    *)
(* the RUNNABLE processes, counts one more round of waiting for each and   *)
(* remembers the best priority; a second scan, from this CPU's next_index, *)
(* switches to the first RUNNABLE process of that priority.  Each          *)
(* iteration of a scan is one critical section under that slot's p->lock,  *)
(* so it is one action here, and the scans of several CPUs and the system  *)
(* calls of running processes interleave between iterations.               *)
(*                                                                         *)
(* The rest of the kernel appears as what a process that runs on a CPU, or *)
(* an interrupt handler there, does to the process table.                  *)
(***************************************************************************)
EXTENDS ProcTable

CONSTANTS
    PRIORITY_MIN,       \* the best priority; 0 in proc.h
    PRIORITY_MAX,       \* the worst priority; 31 in proc.h
    PRIORITY_DEFAULT,   \* 10 in proc.h
    AGING_INTERVAL      \* rounds of waiting that earn a boost; 50 in proc.h

ASSUME PriorityAssumption ==
    /\ PRIORITY_MIN \in Int
    /\ PRIORITY_MAX \in Int
    /\ PRIORITY_DEFAULT \in PRIORITY_MIN .. PRIORITY_MAX

ASSUME AgingAssumption == AGING_INTERVAL \in Nat \ {0}

VARIABLES
    priority,       \* p->priority
    wait_ticks,     \* p->wait_ticks
    forking,        \* the child p is creating inside kfork(), or NoProc
    pc,             \* where scheduler() is, on each CPU
    cursor,         \* the index of its scan: p - proc, or offset
    best_priority,  \* best_priority, a local of scheduler()
    next_index      \* next_index, a local of scheduler()

procVars == <<state, priority, wait_ticks, forking>>
cpuVars == <<cproc, pc, cursor, best_priority, next_index>>
vars == <<procVars, cpuVars>>

Priorities == PRIORITY_MIN .. PRIORITY_MAX

priority_valid(n) == n \in Priorities

\* A definition whose name ends in an underscore and a capitalised word is the one
\* it is named after with a bug put in: the properties below must tell the two apart.

\* The value best_priority has while found is 0.  The code sets found and
\* best_priority together, so found is best_priority # NoPriority.
NoPriority == PRIORITY_MAX + 1

(***************************************************************************)
(* After procinit() and userinit(), with every CPU about to enter the loop *)
(* of scheduler().                                                         *)
(***************************************************************************)
Init ==
    /\ state = [p \in Procs |-> IF p = 0 THEN "RUNNABLE" ELSE "UNUSED"]
    /\ priority = [p \in Procs |-> PRIORITY_DEFAULT]
    /\ wait_ticks = [p \in Procs |-> 0]
    /\ forking = [p \in Procs |-> NoProc]
    /\ cproc = [c \in CPUs |-> NoProc]
    /\ pc = [c \in CPUs |-> "top"]
    /\ cursor = [c \in CPUs |-> 0]
    /\ best_priority = [c \in CPUs |-> NoPriority]
    /\ next_index = [c \in CPUs |-> c % NPROC]

(***************************************************************************)
(* scheduler().  pc is "top" at the head of the loop, the only place where *)
(* interrupts are on, "scan" and "select" in the two scans, "wfi" when     *)
(* idle and "running" between the two sides of swtch().                    *)
(***************************************************************************)

\* intr_on(); intr_off(); and a new round begins.
start_round(c) ==
    /\ pc[c] = "top"
    /\ pc' = [pc EXCEPT ![c] = "scan"]
    /\ cursor' = [cursor EXCEPT ![c] = 0]
    /\ best_priority' = [best_priority EXCEPT ![c] = NoPriority]
    /\ UNCHANGED <<procVars, cproc, next_index>>

\* The guard of apply_aging().
ages(p) ==
    /\ state[p] = "RUNNABLE"
    /\ wait_ticks[p] >= AGING_INTERVAL
    /\ priority_valid(priority[p])
    /\ priority[p] > PRIORITY_MIN

aged_priority_Kept(p) == priority[p]

\* p->priority after apply_aging(p).
aged_priority(p) == IF ages(p) THEN priority[p] - 1 ELSE priority[p]

\* p->wait_ticks after apply_aging(p).
aged_wait(p) == IF ages(p) THEN 0 ELSE wait_ticks[p]

new_best_BelowMax(c, p) ==
    IF /\ state[p] = "RUNNABLE"
       /\ aged_priority(p) < best_priority[c]
       /\ aged_priority(p) < PRIORITY_MAX
    THEN aged_priority(p)
    ELSE best_priority[c]

\* best_priority after the first scan has passed p.
new_best(c, p) ==
    IF state[p] = "RUNNABLE" /\ aged_priority(p) < best_priority[c]
    THEN aged_priority(p)
    ELSE best_priority[c]

\* One iteration of the first scan: aging, and one more round of waiting.
\* The last iteration goes on to the second scan if any process was found.
scan(c) ==
    LET p == cursor[c]
        best == new_best(c, p)
        last == p + 1 = NPROC
    IN  /\ pc[c] = "scan"
        /\ priority' = [priority EXCEPT ![p] = aged_priority(p)]
        /\ wait_ticks' = [wait_ticks EXCEPT ![p] =
                IF state[p] = "RUNNABLE" THEN aged_wait(p) + 1 ELSE aged_wait(p)]
        /\ best_priority' = [best_priority EXCEPT ![c] = best]
        /\ cursor' = [cursor EXCEPT ![c] = IF last THEN 0 ELSE p + 1]
        /\ pc' = [pc EXCEPT ![c] = CASE ~last -> "scan"
                                     [] last /\ best # NoPriority -> "select"
                                     [] last /\ best = NoPriority -> "wfi"]
        /\ UNCHANGED <<state, forking, cproc, next_index>>

candidate_FromZero(c) == cursor[c]

\* The slot the second scan looks at.
candidate(c) == (next_index[c] + cursor[c]) % NPROC

selectable_AnyPriority(c) ==
    pc[c] = "select" /\ state[candidate(c)] = "RUNNABLE"

\* The second scan finds the slot it looks at.
selectable(c) ==
    /\ pc[c] = "select"
    /\ state[candidate(c)] = "RUNNABLE"
    /\ priority[candidate(c)] = best_priority[c]

\* An iteration of the second scan that finds a process and switches to it.
\* The locals of the round are dead from here on.
dispatch(c) ==
    LET p == candidate(c)
    IN  /\ selectable(c)
        /\ state' = [state EXCEPT ![p] = "RUNNING"]
        /\ cproc' = [cproc EXCEPT ![c] = p]
        /\ wait_ticks' = [wait_ticks EXCEPT ![p] = 0]
        /\ pc' = [pc EXCEPT ![c] = "running"]
        /\ cursor' = [cursor EXCEPT ![c] = 0]
        /\ best_priority' = [best_priority EXCEPT ![c] = NoPriority]
        /\ UNCHANGED <<priority, forking, next_index>>

\* An iteration that does not.  After the last one another CPU has taken the
\* process, and the round is retried.
skip(c) ==
    LET last == cursor[c] + 1 = NPROC
    IN  /\ pc[c] = "select"
        /\ ~selectable(c)
        /\ cursor' = [cursor EXCEPT ![c] = IF last THEN 0 ELSE cursor[c] + 1]
        /\ pc' = [pc EXCEPT ![c] = IF last THEN "top" ELSE "select"]
        /\ best_priority' = [best_priority EXCEPT ![c] =
                                IF last THEN NoPriority ELSE best_priority[c]]
        /\ UNCHANGED <<procVars, cproc, next_index>>

\* wfi returns at the next interrupt; every CPU has a timer.
wfi_returns(c) ==
    /\ pc[c] = "wfi"
    /\ pc' = [pc EXCEPT ![c] = "top"]
    /\ UNCHANGED <<procVars, cproc, cursor, best_priority, next_index>>

(***************************************************************************)
(* The process on a CPU gives it up: sched() and the second half of        *)
(* scheduler()'s iteration, all under its p->lock.                         *)
(***************************************************************************)
sched_KeepsProc(c, new) ==
    /\ pc[c] = "running"
    /\ state' = [state EXCEPT ![cproc[c]] = new]
    /\ next_index' = [next_index EXCEPT ![c] = (cproc[c] + 1) % NPROC]
    /\ pc' = [pc EXCEPT ![c] = "top"]
    /\ UNCHANGED <<priority, wait_ticks, forking, cproc, cursor, best_priority>>

sched(c, new) ==
    /\ pc[c] = "running"
    /\ state' = [state EXCEPT ![cproc[c]] = new]
    /\ cproc' = [cproc EXCEPT ![c] = NoProc]
    /\ next_index' = [next_index EXCEPT ![c] = (cproc[c] + 1) % NPROC]
    /\ pc' = [pc EXCEPT ![c] = "top"]
    /\ UNCHANGED <<priority, wait_ticks, forking, cursor, best_priority>>

\* The process on CPU c, when it runs outside kfork().
inFork(c) == forking[cproc[c]] # NoProc

\* From a timer interrupt in usertrap() or kerneltrap(), so also in kfork().
yield(c) == sched(c, "RUNNABLE")

sleep(c) == sched(c, "SLEEPING") /\ ~inFork(c)

kexit(c) == sched(c, "ZOMBIE") /\ ~inFork(c) /\ cproc[c] # 0

(***************************************************************************)
(* What the code running on CPU c does to other slots.                     *)
(***************************************************************************)

\* kfork() up to the release of the child's lock.  The child is locked all
\* along, so this is one step, at the moment the parent's priority is read.
\* The scan of allocproc() may have passed slots that are UNUSED by now.
kfork_alloc(c, np) ==
    LET p == cproc[c]
    IN  /\ pc[c] = "running"
        /\ ~inFork(c)
        /\ state[np] = "UNUSED"
        /\ state' = [state EXCEPT ![np] = "USED"]
        /\ priority' = [priority EXCEPT ![np] =
                IF priority_valid(priority[p]) THEN priority[p] ELSE PRIORITY_DEFAULT]
        /\ wait_ticks' = [wait_ticks EXCEPT ![np] = 0]
        /\ forking' = [forking EXCEPT ![p] = np]
        /\ UNCHANGED cpuVars

\* The last critical section of kfork().
kfork_ready(c) ==
    LET p == cproc[c]
    IN  /\ pc[c] = "running"
        /\ inFork(c)
        /\ state' = [state EXCEPT ![forking[p]] = "RUNNABLE"]
        /\ forking' = [forking EXCEPT ![p] = NoProc]
        /\ UNCHANGED <<priority, wait_ticks, cpuVars>>

wakeup_Any(c, p) ==
    /\ pc[c] \in {"running", "top"}
    /\ state' = [state EXCEPT ![p] = "RUNNABLE"]
    /\ UNCHANGED <<priority, wait_ticks, forking, cpuVars>>

\* The iteration of wakeup() or kkill() that finds p asleep; in a process on
\* c or in an interrupt handler there.
wakeup(c, p) ==
    /\ pc[c] \in {"running", "top"}
    /\ state[p] = "SLEEPING"
    /\ state' = [state EXCEPT ![p] = "RUNNABLE"]
    /\ UNCHANGED <<priority, wait_ticks, forking, cpuVars>>

\* freeproc() of an exited child, in kwait().
freeproc(c, p) ==
    /\ pc[c] = "running"
    /\ ~inFork(c)
    /\ state[p] = "ZOMBIE"
    /\ state' = [state EXCEPT ![p] = "UNUSED"]
    /\ priority' = [priority EXCEPT ![p] = PRIORITY_DEFAULT]
    /\ wait_ticks' = [wait_ticks EXCEPT ![p] = 0]
    /\ UNCHANGED <<forking, cpuVars>>

\* A successful setpriority() of the process in slot p.  A failing one and
\* kgetpriority() change nothing.
ksetpriority(c, p, n) ==
    /\ pc[c] = "running"
    /\ ~inFork(c)
    /\ priority_valid(n)
    /\ state[p] # "UNUSED"
    /\ priority' = [priority EXCEPT ![p] = n]
    /\ wait_ticks' = [wait_ticks EXCEPT ![p] = 0]
    /\ UNCHANGED <<state, forking, cpuVars>>

scheduler(c) ==
    start_round(c) \/ scan(c) \/ dispatch(c) \/ skip(c) \/ wfi_returns(c)

Next ==
    \E c \in CPUs :
        \/ scheduler(c)
        \/ yield(c)
        \/ sleep(c)
        \/ kexit(c)
        \/ kfork_ready(c)
        \/ \E p \in Procs :
            \/ kfork_alloc(c, p)
            \/ wakeup(c, p)
            \/ freeproc(c, p)
            \/ \E n \in Priorities : ksetpriority(c, p, n)

Spec == Init /\ [][Next]_vars

\* Every CPU executes scheduler(), and its timer interrupts (clockintr() asks
\* for the next one on every CPU) end wfi and make a running process yield.
\* Nothing else is fair: a process may run for ever in user mode between
\* two ticks, never call the kernel, and never be woken.
FairSpec ==
    /\ Spec
    /\ \A c \in CPUs : WF_vars(scheduler(c)) /\ WF_vars(yield(c))

(***************************************************************************)
(* Invariants.                                                             *)
(***************************************************************************)

PCs == {"top", "scan", "select", "wfi", "running"}

\* Types.  In particular p->priority is valid in every slot at all times: it
\* is the promise of priority_valid() that best_priority starts out from.
TypeOK ==
    /\ TableTypeOK
    /\ priority \in [Procs -> Priorities]
    /\ wait_ticks \in [Procs -> Nat]
    /\ forking \in [Procs -> Procs \cup {NoProc}]
    /\ pc \in [CPUs -> PCs]
    /\ cursor \in [CPUs -> Procs]
    /\ best_priority \in [CPUs -> Priorities \cup {NoPriority}]
    /\ next_index \in [CPUs -> Procs]

\* A CPU is between the two sides of swtch() exactly while it has a process,
\* and it enters the second scan only with a priority to look for.
PcInv ==
    \A c \in CPUs :
        /\ pc[c] = "running" <=> cproc[c] # NoProc
        /\ pc[c] = "select" => best_priority[c] # NoPriority

\* wait_ticks counts rounds of waiting: only a RUNNABLE process has any
\* (dispatch clears them, so a sleep does not age), and one that can still
\* be boosted never has more than AGING_INTERVAL.
WaitTicksInv ==
    \A p \in Procs :
        /\ state[p] # "RUNNABLE" => wait_ticks[p] = 0
        /\ priority[p] > PRIORITY_MIN => wait_ticks[p] <= AGING_INTERVAL

\* A child in kfork() is USED, is not visible to any CPU, and belongs to one
\* forking process that is still alive.
ForkInv ==
    \A p \in Procs : forking[p] # NoProc =>
        /\ state[p] \in {"RUNNABLE", "RUNNING"}
        /\ state[forking[p]] = "USED"
        /\ \A q \in Procs : forking[q] = forking[p] => q = p

\* The inductive invariant of SchedulerProofs.  OneCpuPerProc needs PcInv (a
\* CPU in the second scan has no process yet), ForkInv needs OneCpuPerProc
\* (the process that leaves a CPU is not a child still in kfork()).
IInv ==
    /\ TypeOK
    /\ PcInv
    /\ OneCpuPerProc
    /\ ForkInv
    /\ WaitTicksInv

\* Bounded waiting.  A process at PRIORITY_MIN gets no further boost, and
\* wait_ticks goes on counting; but each round of a CPU that sees it there
\* dispatches from next_index, so at most NPROC rounds per CPU pass it by.
\* In particular the 32-bit counter never wraps.
BoundedWaiting ==
    \A p \in Procs :
        \/ wait_ticks[p] <= AGING_INTERVAL
        \/ priority[p] = PRIORITY_MIN /\ wait_ticks[p] <= NCPU * NPROC

(***************************************************************************)
(* Action properties.                                                      *)
(***************************************************************************)

\* CPU c switches to a process in this step.
Dispatches(c) == cproc[c] = NoProc /\ cproc'[c] # NoProc

\* "find the highest-priority runnable process" (scheduler()): a CPU switches
\* to a process only if no RUNNABLE process has a better priority.  True of a
\* single CPU, whose interrupts are off between the two scans.
BestIsDispatched ==
    [][\A c \in CPUs : Dispatches(c) =>
        \A q \in Procs : state[q] = "RUNNABLE" =>
            priority[cproc'[c]] <= priority[q]]_vars

(***************************************************************************)
(* Liveness.                                                               *)
(***************************************************************************)

\* Some process calls setpriority() on p, which also restarts p's waiting.
Reniced(p) == \E c \in CPUs, n \in Priorities : ksetpriority(c, p, n)

\* Aging keeps a process from starving, whatever the priorities of the
\* others and however often they run: one that is RUNNABLE gets a CPU, unless
\* its own priority is set again and again.
NoStarvation ==
    \A p \in Procs :
        <>[][~Reniced(p)]_vars => (state[p] = "RUNNABLE" ~> state[p] = "RUNNING")

==============================================================================
