------------------------------ MODULE ProcTable ------------------------------
(***************************************************************************)
(* What the process table of xv6 promises to everything built on it: each  *)
(* slot of proc[NPROC] moves through the states of enum procstate          *)
(* (kernel/proc.h) along a fixed set of arcs, and a process is RUNNING     *)
(* exactly when one CPU has it in its c->proc.  Which RUNNABLE process a    *)
(* CPU takes, who wakes a sleeper and who frees a zombie are left open:     *)
(* Scheduler.tla and Proc.tla decide them and implement this module.       *)
(***************************************************************************)
EXTENDS Integers

CONSTANTS
    NPROC,  \* number of slots of the process table (param.h)
    NCPU    \* number of CPUs (param.h)

ASSUME NProcAssumption == NPROC \in Nat \ {0}

ASSUME NCpuAssumption == NCPU \in Nat \ {0}

VARIABLES
    state,  \* p->state, for every slot p
    cproc   \* c->proc, for every CPU c

Procs == 0 .. NPROC - 1

CPUs == 0 .. NCPU - 1

\* The null pointer in c->proc.
NoProc == -1

ProcStates == {"UNUSED", "USED", "SLEEPING", "RUNNABLE", "RUNNING", "ZOMBIE"}

tableVars == <<state, cproc>>

(***************************************************************************)
(* The arcs between states.                                                *)
(***************************************************************************)

\* At boot userinit() has made the first process RUNNABLE; no CPU runs one.
TableInit ==
    /\ state = [p \in Procs |-> IF p = 0 THEN "RUNNABLE" ELSE "UNUSED"]
    /\ cproc = [c \in CPUs |-> NoProc]

\* A slot changes state and no CPU changes hands.
Move(p, from, to) ==
    /\ state[p] = from
    /\ state' = [state EXCEPT ![p] = to]
    /\ UNCHANGED cproc

\* allocproc() takes a slot.
Create(p) == Move(p, "UNUSED", "USED")

\* The end of kfork() makes the child ready to run.
Ready(p) == Move(p, "USED", "RUNNABLE")

\* wakeup() or kkill() ends a sleep.
Wake(p) == Move(p, "SLEEPING", "RUNNABLE")

\* freeproc(), from wait() on a ZOMBIE.
Free(p) == Move(p, "ZOMBIE", "UNUSED")

\* The scheduler of CPU c switches to p.
Dispatch(c, p) ==
    /\ cproc[c] = NoProc
    /\ state[p] = "RUNNABLE"
    /\ state' = [state EXCEPT ![p] = "RUNNING"]
    /\ cproc' = [cproc EXCEPT ![c] = p]

\* The process on CPU c gives it up, in yield(), sleep() or kexit().
Leave(c, to) ==
    /\ cproc[c] # NoProc
    /\ state' = [state EXCEPT ![cproc[c]] = to]
    /\ cproc' = [cproc EXCEPT ![c] = NoProc]

TableNext ==
    \/ \E p \in Procs : Create(p) \/ Ready(p) \/ Wake(p) \/ Free(p)
    \/ \E c \in CPUs, p \in Procs : Dispatch(c, p)
    \/ \E c \in CPUs, to \in {"RUNNABLE", "SLEEPING", "ZOMBIE"} : Leave(c, to)

TableSpec == TableInit /\ [][TableNext]_tableVars

(***************************************************************************)
(* Properties.                                                             *)
(***************************************************************************)

\* Types of the table.
TableTypeOK ==
    /\ state \in [Procs -> ProcStates]
    /\ cproc \in [CPUs -> Procs \cup {NoProc}]

\* A process is RUNNING exactly when some CPU's c->proc is it, and then only
\* one CPU's: two CPUs on one kernel stack would corrupt it (scheduler()
\* sets the state and c->proc under p->lock for this reason).
OneCpuPerProc ==
    /\ \A p \in Procs : state[p] = "RUNNING" <=> \E c \in CPUs : cproc[c] = p
    /\ \A c, d \in CPUs : cproc[c] = cproc[d] /\ cproc[c] # NoProc => c = d

==============================================================================
