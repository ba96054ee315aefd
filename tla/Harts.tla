-------------------------------- MODULE Harts --------------------------------
(***************************************************************************)
(* What a hart does with interrupts, spinlocks and threads: kernel/trap.c, *)
(* kernel/spinlock.c, and the switch between threads of kernel/proc.c.     *)
(*                                                                         *)
(* A thread is a process in the kernel, or the scheduler of a hart.  It    *)
(* has the steps it will take next; an interrupt puts its handler in front *)
(* of them.  A process without steps is in user mode.  What a hart does to *)
(* its own registers with interrupts off is one step with what follows.    *)
(* Which process a scheduler chooses is the subject of module Scheduler;   *)
(* here any runnable one may be.                                           *)
(***************************************************************************)
EXTENDS Integers, Sequences, FiniteSets, SequencesExt

CONSTANTS
    Harts, Hart0,   \* the harts, and the one that counts ticks
    Procs,
    Spinlocks,      \* besides p->lock, which is named as the process is
    Nobody          \* no hart, no process, no wait channel

VARIABLES
    reg,            \* the registers and the struct cpu of each hart
    lock,           \* who holds each spinlock
    code,           \* the steps of each thread
    cur,            \* the process that runs on each hart
    state, chan, killed,
    panic

hartVars == <<reg, lock, code, cur, state, chan, killed, panic>>

Ctx(h) == IF cur[h] = Nobody THEN h ELSE cur[h]
InUser(h) == cur[h] # Nobody /\ code[cur[h]] = <<>>
At(h, step) == ~InUser(h) /\ Head(code[Ctx(h)])[1] = step
Arg(h, k) == Head(code[Ctx(h)])[k]
Then(h, steps) == code' = [code EXCEPT ![Ctx(h)] = steps \o Tail(@)]
Panics(cond) == panic' = (panic \/ cond)

Acquire(l) == <<<<"acquire", l>>>>
Release(l) == <<<<"release", l>>>>
Prepare(ch) == <<<<"sleep_prepare", ch>>>>
Sleep == <<<<"sleep">>>>
Yield == <<<<"yield">>>>

\* Traps go to uservec only when no interrupt can come from the kernel any more.
prepare_return(epc) == <<<<"intr_off">>, <<"w_stvec">>, <<"to_user", epc>>>>

Wakeup(ch) == LET ps == SetToSeq(Procs) IN [k \in DOMAIN ps |-> <<"wake", ch, ps[k]>>]

(***************************************************************************)
(* Spinlocks.                                                              *)
(***************************************************************************)
pushed(r) ==
    [r EXCEPT !.sie = FALSE, !.noff = @ + 1, !.intena = IF r.noff = 0 THEN r.sie ELSE @]

\* intena has no use when noff is 0, so it is then forgotten.
popped(r) ==
    [r EXCEPT !.noff = @ - 1, !.sie = r.noff = 1 /\ r.intena, !.intena = r.noff > 1 /\ @]
badPop(r) == r.sie \/ r.noff < 1

free(h, l) == lock[l] \in {Nobody, h}

\* With interrupts off; it spins if another hart has the lock.
acquire(h) ==
    /\ At(h, "acquire")
    /\ reg' = [reg EXCEPT ![h] = pushed(@)]
    /\ IF free(h, Arg(h, 2))
       THEN lock' = [lock EXCEPT ![Arg(h, 2)] = h] /\ Then(h, <<>>)
       ELSE Then(h, <<<<"spin", Arg(h, 2)>>>>) /\ UNCHANGED lock
    /\ Panics(lock[Arg(h, 2)] = h)
    /\ UNCHANGED <<cur, state, chan, killed>>

spin(h) ==
    /\ At(h, "spin") /\ free(h, Arg(h, 2))
    /\ lock' = [lock EXCEPT ![Arg(h, 2)] = h]
    /\ Then(h, <<>>)
    /\ UNCHANGED <<reg, cur, state, chan, killed, panic>>

release(h) ==
    /\ At(h, "release")
    /\ lock' = [lock EXCEPT ![Arg(h, 2)] = Nobody]
    /\ Panics(lock[Arg(h, 2)] # h \/ badPop(reg[h]))
    /\ reg' = [reg EXCEPT ![h] = popped(@)]
    /\ Then(h, <<>>)
    /\ UNCHANGED <<cur, state, chan, killed>>

(***************************************************************************)
(* Sleep and wakeup.  What they do with p->lock held is one step.          *)
(***************************************************************************)
sleep_prepare(h) ==
    /\ At(h, "sleep_prepare") /\ free(h, cur[h])
    /\ chan' = [chan EXCEPT ![cur[h]] = Arg(h, 2)]
    /\ Panics(lock[cur[h]] = h)
    /\ Then(h, <<>>)
    /\ UNCHANGED <<reg, lock, cur, state, killed>>

woken(s) == IF s = "SLEEPING" THEN "RUNNABLE" ELSE s

wake(h) ==
    /\ At(h, "wake") /\ free(h, Arg(h, 3))
    /\ LET p == Arg(h, 3) IN
       /\ IF chan[p] = Arg(h, 2)
          THEN chan' = [chan EXCEPT ![p] = Nobody] /\ state' = [state EXCEPT ![p] = woken(@)]
          ELSE UNCHANGED <<chan, state>>
       /\ Panics(lock[p] = h)
    /\ Then(h, <<>>)
    /\ UNCHANGED <<reg, lock, cur, killed>>

kkill(p) ==
    /\ lock[p] = Nobody /\ ~killed[p]
    /\ killed' = [killed EXCEPT ![p] = TRUE]
    /\ state' = [state EXCEPT ![p] = woken(@)]
    /\ UNCHANGED <<reg, lock, code, cur, chan, panic>>

(***************************************************************************)
(* Switching.  sched() leaves p->lock to the scheduler, and keeps intena   *)
(* for the thread.                                                         *)
(***************************************************************************)
sched(h, s) ==
    /\ free(h, cur[h])
    /\ Panics(lock[cur[h]] = h \/ reg[h].noff # 0)
    /\ lock' = [lock EXCEPT ![cur[h]] = h]
    /\ reg' = [reg EXCEPT ![h] = pushed(@)]
    /\ state' = [state EXCEPT ![cur[h]] = s]
    /\ Then(h, <<<<"resumed", pushed(reg[h]).intena>>>>)
    /\ cur' = [cur EXCEPT ![h] = Nobody]
    /\ UNCHANGED <<chan, killed>>

yield(h) == At(h, "yield") /\ sched(h, "RUNNABLE")
kexit(h) == At(h, "kexit") /\ sched(h, "ZOMBIE")
sleep(h) == At(h, "sleep") /\ chan[cur[h]] # Nobody /\ sched(h, "SLEEPING")

sleep_returns(h) ==
    /\ At(h, "sleep") /\ chan[cur[h]] = Nobody
    /\ Then(h, <<>>)
    /\ UNCHANGED <<reg, lock, cur, state, chan, killed, panic>>

intenaAfter_Hart(r, saved) == r

intenaAfter(r, saved) == [r EXCEPT !.intena = saved]

resumed(h) ==
    /\ At(h, "resumed")
    /\ lock' = [lock EXCEPT ![cur[h]] = Nobody]
    /\ Panics(lock[cur[h]] # h \/ badPop(reg[h]))
    /\ reg' = [reg EXCEPT ![h] = popped(intenaAfter(@, Arg(h, 2)))]
    /\ Then(h, <<>>)
    /\ UNCHANGED <<cur, state, chan, killed>>

\* The loop of the scheduler turns interrupts on, and off again before it looks.
scheduler(h) ==
    /\ At(h, "scheduler")
    /\ \E p \in Procs :
        /\ state[p] = "RUNNABLE" /\ lock[p] = Nobody
        /\ lock' = [lock EXCEPT ![p] = h]
        /\ reg' = [reg EXCEPT ![h] = pushed([@ EXCEPT !.sie = FALSE])]
        /\ state' = [state EXCEPT ![p] = "RUNNING"]
        /\ cur' = [cur EXCEPT ![h] = p]
        /\ code' = [code EXCEPT ![h] = <<<<"switched", p>>>>]
    /\ UNCHANGED <<chan, killed, panic>>

switched(h) ==
    /\ At(h, "switched")
    /\ lock' = [lock EXCEPT ![Arg(h, 2)] = Nobody]
    /\ reg' = [reg EXCEPT ![h] = [popped([@ EXCEPT !.intena = FALSE]) EXCEPT !.sie = TRUE]]
    /\ Panics(lock[Arg(h, 2)] # h \/ badPop(reg[h]))
    /\ Then(h, <<<<"scheduler">>>>)
    /\ UNCHANGED <<cur, state, chan, killed>>

(***************************************************************************)
(* Traps.  The timer may interrupt at any time, as its interval is much    *)
(* longer than a step.                                                     *)
(***************************************************************************)
interruptible(h) == InUser(h) \/ reg[h].sie
pc(h) == <<Ctx(h), Len(code[Ctx(h)])>>

\* What the hart does, before it goes where stvec says.
trapped(h) == [reg[h] EXCEPT !.sie = FALSE, !.spie = reg[h].sie, !.spp = ~InUser(h), !.sepc = pc(h)]

\* kerneltrap() keeps sepc and sstatus on its stack.
kerneltrap(h, cause, handler, r) ==
    /\ r.stvec = "kernelvec"
    /\ Panics(~r.spp \/ r.sie)
    /\ reg' = [reg EXCEPT ![h] = r]
    /\ code' = [code EXCEPT ![Ctx(h)] =
            handler \o (IF cause = "timer" /\ cur[h] # Nobody THEN Yield ELSE <<>>)
            \o <<<<"restore", r.sepc, r.spp, r.spie>>>> \o @]
    /\ UNCHANGED <<lock, cur, state, chan, killed>>

\* A system call turns interrupts on.
usertrap(h, cause, handler, r) ==
    /\ r.stvec = "uservec"
    /\ Panics(r.spp)
    /\ LET dies == cause = "ecall" /\ killed[cur[h]] IN
       /\ reg' = [reg EXCEPT ![h] = [r EXCEPT !.stvec = "kernelvec", !.sie = cause = "ecall" /\ ~dies]]
       /\ code' = [code EXCEPT ![cur[h]] =
            IF dies THEN <<<<"kexit">>>> ELSE handler \o <<<<"usertrap", cause, r.sepc>>>>]
    /\ UNCHANGED <<lock, cur, state, chan, killed>>

trap(h, cause, handler) ==
    kerneltrap(h, cause, handler, trapped(h)) \/ usertrap(h, cause, handler, trapped(h))

\* sret, with the thread at the given place.  sepc is then forgotten.
sret(h, r, at) ==
    /\ reg' = [reg EXCEPT ![h] = [r EXCEPT !.sie = r.spie, !.spie = TRUE, !.spp = FALSE, !.sepc = <<>>]]
    /\ Panics(r.sepc # at)
    /\ UNCHANGED <<lock, cur, state, chan, killed>>

restored(r, sepc, spp, spie) == [r EXCEPT !.sepc = sepc, !.spp = spp, !.spie = spie]

restore(h) ==
    /\ At(h, "restore")
    /\ Then(h, <<>>)
    /\ sret(h, restored(reg[h], Arg(h, 2), Arg(h, 3), Arg(h, 4)), <<Ctx(h), Len(code[Ctx(h)]) - 1>>)

usertrap_end(h) ==
    /\ At(h, "usertrap")
    /\ Then(h, IF killed[cur[h]] THEN <<<<"kexit">>>>
               ELSE (IF Arg(h, 2) = "timer" THEN Yield ELSE <<>>) \o prepare_return(Arg(h, 3)))
    /\ UNCHANGED <<reg, lock, cur, state, chan, killed, panic>>

intr_off(h) ==
    /\ At(h, "intr_off")
    /\ reg' = [reg EXCEPT ![h].sie = FALSE]
    /\ Then(h, <<>>)
    /\ UNCHANGED <<lock, cur, state, chan, killed, panic>>

w_stvec(h) ==
    /\ At(h, "w_stvec")
    /\ reg' = [reg EXCEPT ![h].stvec = "uservec"]
    /\ Then(h, <<>>)
    /\ UNCHANGED <<lock, cur, state, chan, killed, panic>>

to_user(h) ==
    /\ At(h, "to_user")
    /\ Then(h, <<>>)
    /\ sret(h, restored(reg[h], Arg(h, 2), FALSE, TRUE), <<cur[h], 0>>)

(***************************************************************************)
(* A new process starts in forkret(), with its lock held.                  *)
(***************************************************************************)
forkret(p) == Release(p) \o prepare_return(<<p, 0>>)

HartInit ==
    /\ reg = [h \in Harts |-> [sie |-> TRUE, spie |-> TRUE, spp |-> FALSE, sepc |-> <<>>,
                               stvec |-> "kernelvec", noff |-> 0, intena |-> FALSE]]
    /\ lock = [l \in Spinlocks \cup Procs |-> Nobody]
    /\ code = [t \in Harts \cup Procs |-> IF t \in Procs THEN forkret(t) ELSE <<<<"scheduler">>>>]
    /\ cur = [h \in Harts |-> Nobody]
    /\ state = [p \in Procs |-> "RUNNABLE"]
    /\ chan = [p \in Procs |-> Nobody]
    /\ killed = [p \in Procs |-> FALSE]
    /\ panic = FALSE

HartStep(h) ==
    \/ acquire(h) \/ spin(h) \/ release(h)
    \/ sleep_prepare(h) \/ sleep(h) \/ sleep_returns(h) \/ wake(h)
    \/ yield(h) \/ kexit(h) \/ resumed(h) \/ scheduler(h) \/ switched(h)
    \/ restore(h) \/ usertrap_end(h) \/ intr_off(h) \/ w_stvec(h) \/ to_user(h)
==============================================================================
