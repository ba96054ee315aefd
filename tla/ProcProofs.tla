------------------------------ MODULE ProcProofs ------------------------------
(***************************************************************************)
(* Proofs about Proc.tla, for any number of slots and CPUs.                *)
(***************************************************************************)
EXTENDS Proc, TLAPS

(***************************************************************************)
(* The inductive invariant.                                                *)
(***************************************************************************)

Living == {"RUNNABLE", "RUNNING", "SLEEPING"}

Forking == {"fork_parent", "fork_spin", "fork_ready"}

Holding == {"exit_reparent", "exit_wakeup", "exit_zombie"}

Exiting == {"exit", "exit_spin", "exit_sched"} \cup Holding

\* What a slot's state says of where its process is.
StateInv ==
    \A p \in Procs :
        /\ state[p] \in {"UNUSED", "USED"} => pc[p] = "user"
        /\ state[p] = "SLEEPING" => pc[p] = "wait" /\ chan[p] = p
        /\ state[p] = "ZOMBIE" => pc[p] \in {"user", "exit_sched"}
        /\ pc[p] = "exit_sched" => state[p] = "ZOMBIE"

\* p's kernel stack is in use.
OnCpu(p) == state[p] = "RUNNING" \/ pc[p] = "exit_sched"

CpuInv ==
    /\ \A p \in Procs : OnCpu(p) <=> \E c \in CPUs : cproc[c] = p
    /\ \A c, d \in CPUs : cproc[c] = cproc[d] /\ cproc[c] # NoProc => c = d

\* wait_lock is held over the steps of kexit(), by a process that keeps its CPU.
LockInv ==
    \A p \in Procs :
        /\ wait_lock = p <=> pc[p] \in Holding
        /\ wait_lock = p => state[p] = "RUNNING"

\* init never exits.
InitprocInv == state[initproc] \in Living /\ pc[initproc] \notin Exiting

\* Between allocproc() and its end a kfork() has a USED slot to itself.
ForkInv ==
    /\ \A p \in Procs :
        /\ pc[p] \in Forking <=> child[p] # NoProc
        /\ child[p] # NoProc => state[child[p]] = "USED"
        /\ pc[p] = "fork_ready" => parent[child[p]] = p
    /\ \A p, q \in Procs : child[p] = child[q] /\ child[p] # NoProc => p = q

\* A parent is alive, and past reparent() nobody's parent.
ParentInv ==
    \A q \in Procs :
        /\ state[q] = "UNUSED" => parent[q] = NoProc
        /\ state[q] \in Living \cup {"ZOMBIE"} /\ q # initproc => parent[q] # NoProc
        /\ parent[q] # NoProc =>
            state[parent[q]] \in Living /\ pc[parent[q]] \notin {"exit_wakeup", "exit_zombie"}

\* p does not sleep in kwait() and is not going to before it has looked again.
Awake(p) == state[p] # "SLEEPING" /\ (pc[p] = "wait_sleep" => chan[p] = NoProc)

\* NoMissedZombie holds of a child from its wakeup() of the parent on.
WakeInv ==
    \A q \in Procs :
        parent[q] # NoProc /\ (state[q] = "ZOMBIE" \/ pc[q] = "exit_zombie") => Awake(parent[q])

IInv ==
    /\ TypeOK /\ StateInv /\ CpuInv /\ LockInv
    /\ InitprocInv /\ ForkInv /\ ParentInv /\ WakeInv

(***************************************************************************)
(* Every step preserves it.                                                *)
(***************************************************************************)

\* initproc is a slot and NoProc is none.
LEMMA SlotFacts == initproc \in Procs /\ NoProc \notin Procs
  BY NProcAssumption DEF initproc, NoProc, Procs

\* A process that spins does so at a place of its own.
LEMMA SpinFacts ==
    /\ DOMAIN spinOf = {"fork_parent", "wait", "exit"}
    /\ \A l \in DOMAIN spinOf : spinOf[l] \in {"fork_spin", "wait_spin", "exit_spin"}
  BY DEF spinOf

\* userinit() establishes the invariant.
LEMMA InitIInv == Init => IInv
<1> SUFFICES ASSUME Init PROVE IInv
  BY Zenon
<1> USE SlotFacts DEF Init, TableInit
<1>1. TypeOK
  BY Zenon DEF TypeOK, TableTypeOK, ProcStates, PCs, spinOf, Spins, initproc
<1>2. StateInv /\ LockInv /\ InitprocInv
  BY Zenon DEF StateInv, LockInv, InitprocInv, Holding, Exiting, Living, initproc
<1>3. CpuInv
  BY Zenon DEF CpuInv, OnCpu
<1>4. ForkInv /\ ParentInv /\ WakeInv
  BY Zenon DEF ForkInv, ParentInv, WakeInv, Forking, Living, initproc
<1> QED
  BY <1>1, <1>2, <1>3, <1>4, Zenon DEF IInv

\* The steps that only move a process from one place to another, neither in
\* the middle of a fork, nor of an exit, nor about to sleep.
LEMMA QuietPreserves ==
  ASSUME IInv, NEW p \in Procs, NEW l \in PCs, state[p] = "RUNNING",
         pc' = [pc EXCEPT ![p] = l],
         UNCHANGED <<state, cproc, parent, chan, killed, wait_lock, child, shell>>,
         pc[p] \notin Holding, l \notin Holding,
         pc[p] \in Forking <=> l \in Forking, l # "fork_ready",
         l \notin {"exit_sched", "wait_sleep"},
         p = initproc => l \notin Exiting
  PROVE  IInv'
<1> USE SlotFacts DEF IInv
<1>1. \A q \in Procs : pc'[q] = IF q = p THEN l ELSE pc[q]
  BY Zenon DEF TypeOK
<1>2. TypeOK'
  BY Zenon DEF TypeOK, TableTypeOK
<1>3. StateInv' /\ LockInv' /\ InitprocInv'
  BY <1>1 DEF StateInv, LockInv, InitprocInv, initproc
<1>4. CpuInv'
  BY <1>1 DEF CpuInv, OnCpu, StateInv
<1>5. ForkInv'
  BY <1>1 DEF ForkInv
<1>6. ParentInv'
  BY <1>1 DEF ParentInv, TypeOK, Holding
<1>7. WakeInv'
  BY <1>1, Zenon DEF WakeInv, Awake, TypeOK, Holding
<1> QED
  BY <1>2, <1>3, <1>4, <1>5, <1>6, <1>7, Zenon

\* kkill() and setkilled().
LEMMA KillPreserves ==
  ASSUME IInv, NEW q \in Procs,
         killed' \in [Procs -> BOOLEAN],
         state' = [state EXCEPT ![q] = IF @ = "SLEEPING" THEN "RUNNABLE" ELSE @],
         UNCHANGED <<cproc, parent, chan, wait_lock, child, shell, pc>>
  PROVE  IInv'
<1> USE SlotFacts DEF IInv
<1>1. \A r \in Procs : state'[r] = IF r = q /\ state[q] = "SLEEPING" THEN "RUNNABLE" ELSE state[r]
  BY Zenon DEF TypeOK, TableTypeOK
<1>2. TypeOK'
  BY Zenon DEF TypeOK, TableTypeOK, ProcStates
<1>3. StateInv' /\ LockInv' /\ InitprocInv'
  BY <1>1 DEF StateInv, LockInv, InitprocInv, Living, Holding
<1>4. CpuInv'
  BY <1>1 DEF CpuInv, OnCpu
<1>5. ForkInv'
  BY <1>1 DEF ForkInv, TypeOK
<1>6. ParentInv'
  BY <1>1 DEF ParentInv, TypeOK, Living
<1>7. WakeInv'
  BY <1>1 DEF WakeInv, Awake, TypeOK
<1> QED
  BY <1>2, <1>3, <1>4, <1>5, <1>6, <1>7, Zenon

\* scheduler() switches to a process.
LEMMA RunPreserves ==
  ASSUME IInv, NEW c \in CPUs, NEW p \in Procs, run(c, p) PROVE IInv'
<1> USE SlotFacts DEF IInv, run
<1>1. /\ \A q \in Procs : state'[q] = IF q = p THEN "RUNNING" ELSE state[q]
      /\ \A d \in CPUs : cproc'[d] = IF d = c THEN p ELSE cproc[d]
  BY Zenon DEF TypeOK, TableTypeOK
<1>2. TypeOK'
  BY Zenon DEF TypeOK, TableTypeOK, ProcStates
<1>3. StateInv' /\ LockInv' /\ InitprocInv'
  BY <1>1 DEF StateInv, LockInv, InitprocInv, Living
<1>4. CpuInv'
  <2>1. \A d \in CPUs : cproc[d] # p
    BY Zenon DEF CpuInv, OnCpu, StateInv
  <2> QED
    BY <1>1, <2>1 DEF CpuInv, OnCpu
<1>5. ForkInv'
  BY <1>1 DEF ForkInv, TypeOK
<1>6. ParentInv'
  BY <1>1 DEF ParentInv, TypeOK, Living
<1>7. WakeInv'
  BY <1>1 DEF WakeInv, Awake, TypeOK
<1> QED
  BY <1>2, <1>3, <1>4, <1>5, <1>6, <1>7, Zenon

\* A process gives up its CPU, in yield() or to sleep.
LEMMA LeavePreserves ==
  ASSUME IInv, NEW p \in Procs, yield(p) \/ sleep(p) PROVE IInv'
<1> USE SlotFacts DEF IInv
<1> DEFINE leaves == yield(p) \/ chan[p] # NoProc
           new == IF yield(p) THEN "RUNNABLE" ELSE "SLEEPING"
           l == IF yield(p) THEN pc[p] ELSE "wait"
<1>0. /\ state[p] = "RUNNING"
      /\ IF leaves THEN leaveCpu(p, new) ELSE UNCHANGED <<state, cproc>>
      /\ pc' = [pc EXCEPT ![p] = l]
      /\ UNCHANGED <<parent, chan, killed, wait_lock, child, shell>>
  BY Zenon DEF yield, sleep, At, Goto, leaveCpu, TypeOK
<1>a. /\ wait_lock # p
      /\ ~yield(p) => pc[p] = "wait_sleep" /\ chan[p] \in {p, NoProc}
  BY Zenon DEF yield, sleep, At, LockInv, Holding, TypeOK
<1>b. new \in {"RUNNABLE", "SLEEPING"} /\ (~yield(p) => new = "SLEEPING" /\ l = "wait")
      /\ (yield(p) => leaves /\ new = "RUNNABLE" /\ l = pc[p])
      /\ (~yield(p) /\ leaves => chan[p] = p)
  BY <1>a, Zenon
<1> HIDE DEF leaves, new, l
<1>1. /\ \A q \in Procs : state'[q] = IF q = p /\ leaves THEN new ELSE state[q]
      /\ \A q \in Procs : pc'[q] = IF q = p THEN l ELSE pc[q]
      /\ \A c \in CPUs : cproc'[c] = IF cproc[c] = p /\ leaves THEN NoProc ELSE cproc[c]
  BY <1>0, Zenon DEF leaveCpu, TypeOK, TableTypeOK
<1>2. TypeOK'
  BY <1>0, <1>b, Zenon DEF TypeOK, TableTypeOK, ProcStates, PCs, leaveCpu, spinOf
<1>3. StateInv' /\ LockInv' /\ InitprocInv'
  BY <1>0, <1>1, <1>a, <1>b DEF StateInv, LockInv, InitprocInv, Living, Holding, Exiting, initproc
<1>4. CpuInv'
  BY <1>0, <1>1, <1>a, <1>b DEF CpuInv, OnCpu, StateInv
<1>5. ForkInv'
  BY <1>0, <1>1, <1>a, <1>b DEF ForkInv, TypeOK, Forking
<1>6. ParentInv'
  BY <1>0, <1>1, <1>a, <1>b DEF ParentInv, TypeOK, Living
<1>7. WakeInv'
  BY <1>0, <1>1, <1>a, <1>b DEF WakeInv, Awake, TypeOK, StateInv
<1> QED
  BY <1>2, <1>3, <1>4, <1>5, <1>6, <1>7, Zenon

\* kfork() takes a slot.
LEMMA KforkPreserves ==
  ASSUME IInv, NEW p \in Procs, NEW np \in Procs, kfork(p, np) PROVE IInv'
<1> USE SlotFacts DEF IInv, kfork, Calls, At, Goto
<1>1. /\ \A q \in Procs : state'[q] = IF q = np THEN "USED" ELSE state[q]
      /\ \A q \in Procs : child'[q] = IF q = p THEN np ELSE child[q]
      /\ \A q \in Procs : pc'[q] = IF q = p THEN "fork_parent" ELSE pc[q]
      /\ p # np
  BY Zenon DEF TypeOK, TableTypeOK
<1>2. TypeOK'
  BY Zenon DEF TypeOK, TableTypeOK, ProcStates, PCs, spinOf
<1>3. StateInv' /\ LockInv' /\ InitprocInv'
  BY <1>1 DEF StateInv, LockInv, InitprocInv, Living, Holding, Exiting
<1>4. CpuInv'
  BY <1>1 DEF CpuInv, OnCpu, StateInv
<1>5. ForkInv'
  BY <1>1 DEF ForkInv, TypeOK, Forking
<1>6. ParentInv'
  BY <1>1 DEF ParentInv, TypeOK, Living
<1>7. WakeInv'
  BY <1>1 DEF WakeInv, Awake, TypeOK, StateInv
<1> QED
  BY <1>2, <1>3, <1>4, <1>5, <1>6, <1>7, Zenon

\* A kfork() that fails has cleared what freeproc() clears.
LEMMA KforkNomemPreserves ==
  ASSUME IInv, NEW p \in Procs, NEW np \in Procs, kfork_nomem(p, np) PROVE IInv'
<1> USE SlotFacts DEF IInv, kfork_nomem, Calls, At, Goto
<1>1. /\ \A q \in Procs : chan'[q] = IF q = np THEN NoProc ELSE chan[q]
      /\ \A q \in Procs \ {p} : pc'[q] = pc[q]
      /\ pc'[p] \in {"panic", "user"}
  BY Zenon DEF TypeOK
<1>2. TypeOK'
  BY Zenon DEF TypeOK, TableTypeOK, PCs
<1>3. StateInv' /\ LockInv' /\ InitprocInv'
  BY <1>1 DEF StateInv, LockInv, InitprocInv, Holding, Exiting
<1>4. CpuInv'
  BY <1>1 DEF CpuInv, OnCpu, StateInv
<1>5. ForkInv'
  BY <1>1 DEF ForkInv, Forking
<1>6. ParentInv'
  BY <1>1 DEF ParentInv, TypeOK
<1>7. WakeInv'
  BY <1>1 DEF WakeInv, Awake, TypeOK
<1> QED
  BY <1>2, <1>3, <1>4, <1>5, <1>6, <1>7, Zenon

\* kfork() sets the child's parent.
LEMMA ForkParentPreserves ==
  ASSUME IInv, NEW p \in Procs, fork_parent(p) PROVE IInv'
<1> USE SlotFacts DEF IInv, fork_parent, Acquired, At, Goto
<1>0. child[p] \in Procs /\ state[child[p]] = "USED"
  BY DEF ForkInv, Forking, TypeOK
<1>1. /\ \A q \in Procs : parent'[q] = IF q = child[p] THEN p ELSE parent[q]
      /\ \A q \in Procs : pc'[q] = IF q = p THEN "fork_ready" ELSE pc[q]
  BY Zenon DEF TypeOK
<1>2. TypeOK'
  BY <1>0, Zenon DEF TypeOK, TableTypeOK, PCs
<1>3. StateInv' /\ LockInv' /\ InitprocInv'
  BY <1>1 DEF StateInv, LockInv, InitprocInv, Holding, Exiting
<1>4. CpuInv'
  BY <1>1 DEF CpuInv, OnCpu, StateInv
<1>5. ForkInv'
  BY <1>0, <1>1 DEF ForkInv, Forking, TypeOK
<1>6. ParentInv'
  BY <1>0, <1>1 DEF ParentInv, TypeOK, Living
<1>7. WakeInv'
  BY <1>0, <1>1 DEF WakeInv, Awake, TypeOK, StateInv
<1> QED
  BY <1>2, <1>3, <1>4, <1>5, <1>6, <1>7, Zenon

\* kfork() makes the child RUNNABLE.
LEMMA ForkReadyPreserves ==
  ASSUME IInv, NEW p \in Procs, fork_ready(p) PROVE IInv'
<1> USE SlotFacts DEF IInv, fork_ready, At, Goto
<1>0. /\ child[p] \in Procs /\ state[child[p]] = "USED"
      /\ parent[child[p]] = p /\ child[p] # p
  BY DEF ForkInv, Forking, TypeOK
<1>1. /\ \A q \in Procs : state'[q] = IF q = child[p] THEN "RUNNABLE" ELSE state[q]
      /\ \A q \in Procs : child'[q] = IF q = p THEN NoProc ELSE child[q]
      /\ \A q \in Procs : pc'[q] = IF q = p THEN "user" ELSE pc[q]
  BY Zenon DEF TypeOK, TableTypeOK
<1>2. TypeOK'
  BY <1>0, Zenon DEF TypeOK, TableTypeOK, PCs, ProcStates
<1>3. StateInv' /\ LockInv' /\ InitprocInv'
  BY <1>0, <1>1 DEF StateInv, LockInv, InitprocInv, Holding, Exiting, Living
<1>4. CpuInv'
  BY <1>0, <1>1 DEF CpuInv, OnCpu, StateInv
<1>5. ForkInv'
  BY <1>0, <1>1 DEF ForkInv, Forking, TypeOK
<1>6. ParentInv'
  BY <1>0, <1>1 DEF ParentInv, TypeOK, Living
<1>7. WakeInv'
  BY <1>0, <1>1 DEF WakeInv, Awake, TypeOK, StateInv
<1> QED
  BY <1>2, <1>3, <1>4, <1>5, <1>6, <1>7, Zenon

\* kexit() takes wait_lock.
LEMMA ExitLockPreserves ==
  ASSUME IInv, NEW p \in Procs, exit_lock(p) PROVE IInv'
<1> USE SlotFacts DEF IInv, exit_lock, Acquired, At, Goto
<1>1. \A q \in Procs : pc'[q] = IF q = p THEN "exit_reparent" ELSE pc[q]
  BY Zenon DEF TypeOK
<1>2. TypeOK'
  BY Zenon DEF TypeOK, TableTypeOK, PCs
<1>3. StateInv' /\ LockInv' /\ InitprocInv'
  BY <1>1 DEF StateInv, LockInv, InitprocInv, Holding, Exiting
<1>4. CpuInv'
  BY <1>1 DEF CpuInv, OnCpu, StateInv
<1>5. ForkInv'
  BY <1>1 DEF ForkInv, Forking
<1>6. ParentInv'
  BY <1>1 DEF ParentInv, TypeOK
<1>7. WakeInv'
  BY <1>1, Zenon DEF WakeInv, Awake, TypeOK
<1> QED
  BY <1>2, <1>3, <1>4, <1>5, <1>6, <1>7, Zenon

\* After wakeup(q) process q does not sleep; no other slot changes.
LEMMA WakeupFacts ==
  ASSUME IInv, NEW q \in Procs, wakeup(q)
  PROVE  /\ state' \in [Procs -> ProcStates]
         /\ chan' \in [Procs -> Procs \cup {NoProc}]
         /\ \A r \in Procs : state'[r] =
                IF r = q /\ state[q] = "SLEEPING" THEN "RUNNABLE" ELSE state[r]
         /\ \A r \in Procs : chan'[r] = IF r = q THEN NoProc ELSE chan[r]
<1> USE DEF IInv, wakeup
<1>1. state[q] = "SLEEPING" => chan[q] = q
  BY Zenon DEF StateInv
<1> QED
  BY <1>1, Zenon DEF TypeOK, TableTypeOK, ProcStates

\* kexit() hands its children to init.
LEMMA ReparentPreserves ==
  ASSUME IInv, NEW p \in Procs, reparent(p) PROVE IInv'
<1> USE SlotFacts DEF IInv, reparent, At, Goto
<1>0. p # initproc
  BY Zenon DEF InitprocInv, Exiting, Holding
<1>a. /\ state' \in [Procs -> ProcStates]
      /\ chan' \in [Procs -> Procs \cup {NoProc}]
      /\ \A r \in Procs : state'[r] # state[r] =>
            r = initproc /\ state[r] = "SLEEPING" /\ state'[r] = "RUNNABLE"
      /\ \A r \in Procs : chan'[r] # chan[r] => r = initproc /\ chan'[r] = NoProc
      /\ state[initproc] # "SLEEPING" => state'[initproc] = state[initproc]
      /\ \A r \in Procs : state'[r] = "SLEEPING" => chan'[r] = chan[r]
      /\ children(p) # {} => state'[initproc] # "SLEEPING" /\ chan'[initproc] = NoProc
  <2>1. CASE children(p) # {}
    BY <2>1, WakeupFacts, Zenon
  <2>2. CASE children(p) = {}
    BY <2>2, Zenon DEF TypeOK, TableTypeOK
  <2> QED
    BY <2>1, <2>2, Zenon
<1>1. /\ \A q \in Procs : parent'[q] = IF parent[q] = p THEN initproc ELSE parent[q]
      /\ \A q \in Procs : pc'[q] = IF q = p THEN "exit_wakeup" ELSE pc[q]
  BY Zenon DEF TypeOK
<1>2. TypeOK'
  <2>1. parent' \in [Procs -> Procs \cup {NoProc}] /\ pc' \in [Procs -> PCs]
    BY Zenon DEF TypeOK, PCs
  <2>2. \A q \in Procs : chan'[q] \in {q, NoProc}
    BY <1>a, Zenon DEF TypeOK
  <2> QED
    BY <1>a, <2>1, <2>2, Zenon DEF TypeOK, TableTypeOK
<1>3. StateInv' /\ LockInv' /\ InitprocInv'
  BY <1>0, <1>1, <1>a DEF StateInv, LockInv, InitprocInv, Holding, Exiting, Living, initproc
<1>4. CpuInv'
  BY <1>1, <1>a DEF CpuInv, OnCpu, StateInv
<1>5. ForkInv'
  <2>1. \A q \in Procs : state[q] = "USED" => state'[q] = "USED"
    BY <1>a, Zenon
  <2>2. \A q \in Procs : child[q] # NoProc => child[q] \in Procs /\ state'[child[q]] = "USED"
    BY <2>1, Zenon DEF ForkInv, TypeOK
  <2>3. \A q \in Procs : pc'[q] \in Forking <=> pc[q] \in Forking
    BY <1>1 DEF Forking
  <2>4. ASSUME NEW q \in Procs, pc'[q] = "fork_ready" PROVE parent'[child[q]] = q
    <3>1. q # p /\ pc[q] = "fork_ready" /\ child[q] \in Procs
      BY <2>4, <1>1 DEF ForkInv, Forking, TypeOK
    <3> QED
      BY <3>1, <1>1, Zenon DEF ForkInv
  <2> QED
    BY <2>2, <2>3, <2>4, Zenon DEF ForkInv
<1>6. ParentInv'
  <2> SUFFICES ASSUME NEW q \in Procs
      PROVE /\ state'[q] = "UNUSED" => parent'[q] = NoProc
            /\ state'[q] \in Living \cup {"ZOMBIE"} /\ q # initproc => parent'[q] # NoProc
            /\ parent'[q] # NoProc => state'[parent'[q]] \in Living
                    /\ pc'[parent'[q]] \notin {"exit_wakeup", "exit_zombie"}
    BY Zenon DEF ParentInv
  <2>1. CASE parent[q] = p
    <3>1. parent'[q] = initproc /\ state[q] # "UNUSED"
      BY <2>1, <1>1, Zenon DEF ParentInv
    <3>2. state'[initproc] \in Living /\ pc'[initproc] = pc[initproc]
      BY <1>0, <1>1, <1>a, Zenon DEF InitprocInv, Living
    <3>3. state'[q] # "UNUSED"
      BY <3>1, <1>a, Zenon
    <3> QED
      BY <3>1, <3>2, <3>3, Zenon DEF InitprocInv, Exiting, Holding
  <2>2. CASE parent[q] # p
    <3>1. parent'[q] = parent[q] /\ (state'[q] = "UNUSED" => state[q] = "UNUSED")
          /\ (state'[q] \in Living \cup {"ZOMBIE"} => state[q] \in Living \cup {"ZOMBIE"})
      BY <2>2, <1>1, <1>a, Zenon DEF Living
    <3>2. CASE parent[q] # NoProc
      <4>1. /\ parent[q] \in Procs /\ state[parent[q]] \in Living
            /\ pc[parent[q]] \notin {"exit_wakeup", "exit_zombie"}
        BY <3>2 DEF ParentInv, TypeOK
      <4>2. state'[parent[q]] \in Living /\ pc'[parent[q]] = pc[parent[q]]
        BY <2>2, <4>1, <1>1, <1>a, Zenon DEF Living
      <4> QED
        BY <3>1, <3>2, <4>1, <4>2, Zenon DEF ParentInv
    <3>3. CASE parent[q] = NoProc
      BY <3>1, <3>3, Zenon DEF ParentInv
    <3> QED
      BY <3>2, <3>3, Zenon
  <2> QED
    BY <2>1, <2>2, Zenon
<1>7. WakeInv'
  <2> SUFFICES ASSUME NEW q \in Procs, parent'[q] # NoProc,
                      state'[q] = "ZOMBIE" \/ pc'[q] = "exit_zombie"
               PROVE  /\ state'[parent'[q]] # "SLEEPING"
                      /\ pc'[parent'[q]] = "wait_sleep" => chan'[parent'[q]] = NoProc
    BY Zenon DEF WakeInv, Awake
  <2>1. state[q] = "ZOMBIE" \/ pc[q] = "exit_zombie"
    BY <1>1, <1>a
  <2>2. CASE parent[q] = p
    <3>1. children(p) # {} /\ parent'[q] = initproc
      BY <2>2, <1>1, Zenon DEF children
    <3> QED
      BY <3>1, <1>a, Zenon DEF Awake
  <2>3. CASE parent[q] # p
    <3>1. parent'[q] = parent[q] /\ parent[q] \in Procs /\ Awake(parent[q])
      BY <2>1, <2>3, <1>1, Zenon DEF WakeInv, TypeOK
    <3> QED
      BY <2>3, <3>1, <1>1, <1>a, Zenon DEF Awake
  <2> QED
    BY <2>2, <2>3, Zenon
<1> QED
  BY <1>2, <1>3, <1>4, <1>5, <1>6, <1>7, Zenon

\* kexit() wakes the parent.
LEMMA ExitWakeupPreserves ==
  ASSUME IInv, NEW p \in Procs, exit_wakeup(p) PROVE IInv'
<1> USE SlotFacts DEF IInv, exit_wakeup, At, Goto
<1>0. parent[p] \in Procs /\ parent[p] # p
  BY DEF InitprocInv, Exiting, Holding, ParentInv, Living, TypeOK
<1>a. /\ state' \in [Procs -> ProcStates]
      /\ chan' \in [Procs -> Procs \cup {NoProc}]
      /\ \A r \in Procs : state'[r] =
            IF r = parent[p] /\ state[r] = "SLEEPING" THEN "RUNNABLE" ELSE state[r]
      /\ \A r \in Procs : chan'[r] = IF r = parent[p] THEN NoProc ELSE chan[r]
  BY <1>0, WakeupFacts, Zenon
<1>1. \A q \in Procs : pc'[q] = IF q = p THEN "exit_zombie" ELSE pc[q]
  BY Zenon DEF TypeOK
<1>2. TypeOK'
  BY <1>a, Zenon DEF TypeOK, TableTypeOK, PCs
<1>3. StateInv' /\ LockInv' /\ InitprocInv'
  BY <1>1, <1>a DEF StateInv, LockInv, InitprocInv, Holding, Exiting, Living
<1>4. CpuInv'
  BY <1>1, <1>a DEF CpuInv, OnCpu, StateInv
<1>5. ForkInv'
  BY <1>1, <1>a DEF ForkInv, Forking, TypeOK
<1>6. ParentInv'
  BY <1>1, <1>a DEF ParentInv, TypeOK, Living
<1>7. WakeInv'
  BY <1>0, <1>1, <1>a DEF WakeInv, Awake, TypeOK
<1> QED
  BY <1>2, <1>3, <1>4, <1>5, <1>6, <1>7, Zenon

\* kexit() sets ZOMBIE and releases wait_lock.
LEMMA ExitZombiePreserves ==
  ASSUME IInv, NEW p \in Procs, exit_zombie(p) PROVE IInv'
<1> USE SlotFacts DEF IInv, exit_zombie, At, Goto
<1>0. wait_lock = p /\ p # initproc
  BY Zenon DEF LockInv, InitprocInv, Exiting, Holding
<1>1. /\ \A q \in Procs : state'[q] = IF q = p THEN "ZOMBIE" ELSE state[q]
      /\ \A q \in Procs : pc'[q] = IF q = p THEN "exit_sched" ELSE pc[q]
  BY Zenon DEF TypeOK, TableTypeOK
<1>2. TypeOK'
  BY Zenon DEF TypeOK, TableTypeOK, PCs, ProcStates
<1>3. StateInv' /\ LockInv' /\ InitprocInv'
  BY <1>0, <1>1 DEF StateInv, LockInv, InitprocInv, Holding
<1>4. CpuInv'
  BY <1>1 DEF CpuInv, OnCpu
<1>5. ForkInv'
  BY <1>1 DEF ForkInv, Forking, TypeOK
<1>6. ParentInv'
  BY <1>1 DEF ParentInv, TypeOK, Living
<1>7. WakeInv'
  BY <1>1 DEF WakeInv, Awake, TypeOK
<1> QED
  BY <1>2, <1>3, <1>4, <1>5, <1>6, <1>7, Zenon

\* An exiting process leaves its CPU for good.
LEMMA ExitSchedPreserves ==
  ASSUME IInv, NEW p \in Procs, exit_sched(p) PROVE IInv'
<1> USE SlotFacts DEF IInv, exit_sched, leaveCpu, Goto
<1>0. p # initproc
  BY Zenon DEF InitprocInv, Exiting
<1>1. /\ state' = state
      /\ \A q \in Procs : pc'[q] = IF q = p THEN "user" ELSE pc[q]
      /\ \A c \in CPUs : cproc'[c] = IF cproc[c] = p THEN NoProc ELSE cproc[c]
  BY Zenon DEF TypeOK, TableTypeOK
<1>2. TypeOK'
  BY <1>1, Zenon DEF TypeOK, TableTypeOK, PCs
<1>3. StateInv' /\ LockInv' /\ InitprocInv'
  BY <1>0, <1>1 DEF StateInv, LockInv, InitprocInv, Holding
<1>4. CpuInv'
  BY <1>1 DEF CpuInv, OnCpu
<1>5. ForkInv'
  BY <1>1 DEF ForkInv, Forking
<1>6. ParentInv'
  BY <1>1 DEF ParentInv, TypeOK
<1>7. WakeInv'
  BY <1>1 DEF WakeInv, Awake, TypeOK
<1> QED
  BY <1>2, <1>3, <1>4, <1>5, <1>6, <1>7, Zenon

\* kwait() frees a child.
LEMMA ReapPreserves ==
  ASSUME IInv, NEW p \in Procs, NEW pp \in Procs, reap(p, pp) PROVE IInv'
<1> USE SlotFacts DEF IInv, reap, Acquired, At, Goto
<1>0. state[pp] = "ZOMBIE" /\ pc[pp] = "user" /\ pp # p
  <2>1. state[pp] = "ZOMBIE" /\ pc[pp] # "exit_sched"
    BY Zenon DEF Found, zombies, children, Procs
  <2> QED
    BY <2>1, Zenon DEF StateInv
<1>1. /\ \A q \in Procs : state'[q] = IF q = pp THEN "UNUSED" ELSE state[q]
      /\ \A q \in Procs : parent'[q] = IF q = pp THEN NoProc ELSE parent[q]
      /\ \A q \in Procs : chan'[q] = IF q = pp THEN NoProc ELSE chan[q]
      /\ \A q \in Procs : pc'[q] = IF q = p THEN "user" ELSE pc[q]
  BY Zenon DEF TypeOK, TableTypeOK
<1>2. TypeOK'
  BY Zenon DEF TypeOK, TableTypeOK, PCs, ProcStates
<1>3. StateInv' /\ LockInv' /\ InitprocInv'
  BY <1>0, <1>1 DEF StateInv, LockInv, InitprocInv, Holding, Exiting, Living
<1>4. CpuInv'
  BY <1>0, <1>1 DEF CpuInv, OnCpu
<1>5. ForkInv'
  BY <1>0, <1>1 DEF ForkInv, Forking, TypeOK
<1>6. ParentInv'
  BY <1>0, <1>1 DEF ParentInv, TypeOK, Living
<1>7. WakeInv'
  BY <1>0, <1>1 DEF WakeInv, Awake, TypeOK
<1> QED
  BY <1>2, <1>3, <1>4, <1>5, <1>6, <1>7, Zenon

\* kwait() finds no ZOMBIE and registers to sleep.
LEMMA WaitPreparePreserves ==
  ASSUME IInv, NEW p \in Procs, wait_prepare(p) PROVE IInv'
<1> USE SlotFacts DEF IInv, wait_prepare, Acquired, At, Goto
<1>0. /\ \A q \in Procs : parent[q] = p => state[q] # "ZOMBIE"
      /\ \A q \in Procs : pc[q] # "exit_zombie"
  BY Zenon DEF zombies, children, LockInv, Holding
<1>1. /\ \A q \in Procs : chan'[q] = IF q = p THEN p ELSE chan[q]
      /\ \A q \in Procs : pc'[q] = IF q = p THEN "wait_sleep" ELSE pc[q]
  BY Zenon DEF TypeOK
<1>2. TypeOK'
  BY Zenon DEF TypeOK, TableTypeOK, PCs
<1>3. StateInv' /\ LockInv' /\ InitprocInv'
  BY <1>1 DEF StateInv, LockInv, InitprocInv, Holding, Exiting
<1>4. CpuInv'
  BY <1>1 DEF CpuInv, OnCpu, StateInv
<1>5. ForkInv'
  BY <1>1 DEF ForkInv, Forking
<1>6. ParentInv'
  BY <1>1 DEF ParentInv, TypeOK
<1>7. WakeInv'
  BY <1>0, <1>1, Zenon DEF WakeInv, Awake, TypeOK
<1> QED
  BY <1>2, <1>3, <1>4, <1>5, <1>6, <1>7, Zenon

\* The steps QuietPreserves is about.
LEMMA QuietStep ==
  ASSUME IInv, NEW p \in Procs,
         \/ acquire(p) \/ kfork_full(p) \/ kexit(p) \/ init_exiting(p) \/ kwait(p)
         \/ wait_fails(p) \/ \E q \in Procs : wait_fault(p, q)
  PROVE  IInv'
<1> DEFINE l == pc'[p]
<1> USE DEF Goto, At, Acquired, Calls, IInv
<1>0. /\ state[p] = "RUNNING"
      /\ UNCHANGED <<state, cproc, parent, chan, killed, wait_lock, child, shell>>
  BY Zenon DEF acquire, kfork_full, kexit, init_exiting, kwait, wait_fails, wait_fault
<1>1. CASE acquire(p)
  <2>1. /\ \/ pc[p] = "fork_parent" /\ l = "fork_spin"
           \/ pc[p] = "wait" /\ l = "wait_spin"
           \/ pc[p] = "exit" /\ l = "exit_spin"
        /\ pc' = [pc EXCEPT ![p] = l]
    BY <1>1 DEF acquire, spinOf, TypeOK
  <2>2. l \in PCs /\ (p = initproc => l \notin Exiting)
    BY <2>1, Zenon DEF PCs, Spins, InitprocInv, Exiting, Holding
  <2> HIDE DEF l
  <2>3. /\ pc[p] \notin Holding /\ l \notin Holding
        /\ pc[p] \in Forking <=> l \in Forking
        /\ l # "fork_ready" /\ l \notin {"exit_sched", "wait_sleep"}
    BY <2>1, Zenon DEF Holding, Forking
  <2> QED
    BY <1>0, <2>1, <2>2, <2>3, QuietPreserves, Zenon
<1>2. CASE ~acquire(p)
  <2>1. /\ pc[p] \in {"user", "wait_spin"}
        /\ l \in {"user", "wait", "panic"} \/ (l = "exit" /\ p # initproc)
        /\ pc' = [pc EXCEPT ![p] = l]
    BY <1>2, Zenon DEF kfork_full, kexit, init_exiting, kwait, wait_fails, wait_fault, TypeOK
  <2>2. l \in PCs /\ (p = initproc => l \notin Exiting)
    BY <2>1, Zenon DEF PCs, spinOf, Exiting, Holding
  <2> HIDE DEF l
  <2>3. /\ pc[p] \notin Holding /\ l \notin Holding
        /\ pc[p] \in Forking <=> l \in Forking
        /\ l # "fork_ready" /\ l \notin {"exit_sched", "wait_sleep"}
    BY <2>1, Zenon DEF Holding, Forking
  <2> QED
    BY <1>0, <2>1, <2>2, <2>3, QuietPreserves, Zenon
<1> QED
  BY <1>1, <1>2, Zenon

\* The steps KillPreserves is about.
LEMMA KillStep ==
  ASSUME IInv, NEW p \in Procs, NEW q \in Procs,
         kkill(p, q) \/ kkill_zero(p, q) \/ setkilled(p)
  PROVE  IInv'
<1> USE DEF IInv
<1>1. killed' \in [Procs -> BOOLEAN] /\ UNCHANGED <<cproc, parent, chan, wait_lock, child, shell, pc>>
  BY Zenon DEF kkill, kkill_zero, setkilled, killSlot, TypeOK
<1>2. CASE kkill(p, q) \/ kkill_zero(p, q)
  BY <1>1, <1>2, KillPreserves, Zenon DEF kkill, kkill_zero, killSlot
<1>3. CASE setkilled(p)
  <2>1. state' = [state EXCEPT ![p] = IF @ = "SLEEPING" THEN "RUNNABLE" ELSE @]
    BY <1>3, Zenon DEF setkilled, Calls, At, TypeOK, TableTypeOK
  <2> QED
    BY <1>1, <2>1, KillPreserves, Zenon
<1> QED
  BY <1>2, <1>3, Zenon

\* No step of a process, of the scheduler or of the timer breaks it.
LEMMA NextIInv == IInv /\ [Next]_vars => IInv'
<1> SUFFICES ASSUME IInv, [Next]_vars PROVE IInv'
  BY Zenon
<1>1. CASE UNCHANGED vars
  BY <1>1 DEF vars, IInv, TypeOK, TableTypeOK, StateInv, CpuInv, OnCpu, LockInv,
              InitprocInv, ForkInv, ParentInv, WakeInv, Awake
<1>2. ASSUME NEW c \in CPUs, NEW p \in Procs, run(c, p) PROVE IInv'
  BY <1>2, RunPreserves, Zenon
<1>3. ASSUME NEW p \in Procs, yield(p) \/ Step(p) PROVE IInv'
  BY <1>3, QuietStep, KillStep, LeavePreserves, ForkParentPreserves, ForkReadyPreserves,
     ExitLockPreserves, ReparentPreserves, ExitWakeupPreserves, ExitZombiePreserves,
     ExitSchedPreserves, WaitPreparePreserves, Zenon DEF Step
<1>4. ASSUME NEW p \in Procs, NEW q \in Procs, Step2(p, q) PROVE IInv'
  BY <1>4, KforkPreserves, KforkNomemPreserves, ReapPreserves, QuietStep, KillStep, Zenon DEF Step2
<1> QED
  BY <1>1, <1>2, <1>3, <1>4, Zenon DEF Next

(***************************************************************************)
(* Theorems.                                                               *)
(***************************************************************************)

\* Every reachable state of kfork(), kexit(), kwait() and kkill(), however
\* their critical sections interleave, satisfies the inductive invariant.
THEOREM Invariance == Spec => []IInv
  BY InitIInv, NextIInv, PTL DEF Spec

\* kwait() never sleeps through the exit of a child: kexit()'s wakeup() comes
\* before ZOMBIE and under wait_lock.
THEOREM NoZombieMissed == Spec => []NoMissedZombie
<1>1. IInv => NoMissedZombie
  BY SlotFacts, Zenon DEF IInv, WakeInv, Awake, NoMissedZombie
<1> QED
  BY <1>1, Invariance, PTL

\* reparent() leaves no process without a parent that can wait() for it.
THEOREM ParentsLive == Spec => []LivingParent
<1>1. IInv => LivingParent
  BY DEF IInv, ParentInv, LivingParent, Living, TypeOK, TableTypeOK, ProcStates
<1> QED
  BY <1>1, Invariance, PTL

\* freeproc() frees no slot whose kernel stack a CPU still uses.
THEOREM StacksFree == Spec => []FreeSlotOffCpu
<1>1. IInv => FreeSlotOffCpu
  BY Zenon DEF IInv, ParentInv, StateInv, CpuInv, OnCpu, FreeSlotOffCpu
<1> QED
  BY <1>1, Invariance, PTL

(***************************************************************************)
(* Proc implements ProcTable.                                              *)
(***************************************************************************)

\* The mapped table, slot by slot.
LEMMA SeenFacts ==
  /\ \A r \in Procs : seenState[r] = IF pc[r] = "exit_sched" THEN "RUNNING" ELSE state[r]
  /\ \A r \in Procs : seenState'[r] = IF pc'[r] = "exit_sched" THEN "RUNNING" ELSE state'[r]
  BY Zenon DEF seenState

\* One slot of the mapped table changes.
LEMMA SeenMove ==
  ASSUME NEW q \in Procs, NEW to,
         \A r \in Procs : seenState'[r] = IF r = q THEN to ELSE seenState[r]
  PROVE  seenState' = [seenState EXCEPT ![q] = to]
  BY Zenon DEF seenState

\* No slot of the mapped table changes.
LEMMA SeenSame ==
  ASSUME \A r \in Procs : seenState'[r] = seenState[r], UNCHANGED cproc
  PROVE  UNCHANGED <<seenState, cproc>>
  BY Zenon DEF seenState

\* Giving up a CPU is a Leave of the one CPU that has the process.
LEMMA SeenLeave ==
  ASSUME IInv, NEW p \in Procs, NEW to, OnCpu(p), leaveCpu(p, to),
         pc'[p] # "exit_sched", \A r \in Procs \ {p} : pc'[r] = pc[r]
  PROVE  \E c \in CPUs : Table!Leave(c, to)
<1> USE SlotFacts DEF IInv
<1>1. PICK c \in CPUs : cproc[c] = p
  BY Zenon DEF CpuInv
<1>2. cproc' = [cproc EXCEPT ![c] = NoProc]
  BY <1>1, Zenon DEF leaveCpu, CpuInv, TypeOK, TableTypeOK
<1>3. \A r \in Procs : seenState'[r] = IF r = p THEN to ELSE seenState[r]
  BY SeenFacts, Zenon DEF leaveCpu, TypeOK, TableTypeOK
<1>4. seenState' = [seenState EXCEPT ![p] = to]
  BY <1>3, SeenMove, Zenon
<1> QED
  BY <1>1, <1>2, <1>4, Zenon DEF Table!Leave, Table!NoProc, NoProc

\* Ending a sleep, if there is one, is a Wake.
LEMMA SeenWake ==
  ASSUME IInv, NEW q \in Procs, UNCHANGED cproc,
         \A r \in Procs : state'[r] =
            IF r = q /\ state[q] = "SLEEPING" THEN "RUNNABLE" ELSE state[r],
         \A r \in Procs : pc'[r] = "exit_sched" <=> pc[r] = "exit_sched"
  PROVE  Table!Wake(q) \/ UNCHANGED <<seenState, cproc>>
<1>1. CASE state[q] = "SLEEPING"
  <2>1. seenState[q] = "SLEEPING"
    BY <1>1, SeenFacts, Zenon DEF IInv, StateInv
  <2>2. \A r \in Procs : seenState'[r] = IF r = q THEN "RUNNABLE" ELSE seenState[r]
    BY <1>1, <2>1, SeenFacts, Zenon
  <2>3. seenState' = [seenState EXCEPT ![q] = "RUNNABLE"]
    BY <2>2, SeenMove, Zenon
  <2> QED
    BY <2>1, <2>3, Zenon DEF Table!Wake, Table!Move
<1>2. CASE state[q] # "SLEEPING"
  BY <1>2, SeenFacts, SeenSame, Zenon
<1> QED
  BY <1>1, <1>2, Zenon

\* The steps that the table does not see.  In exit_zombie the state changes
\* and the process is still on its CPU.
LEMMA UnseenStep ==
  ASSUME IInv, NEW p \in Procs, NEW q \in Procs,
         \/ acquire(p) \/ kfork_full(p) \/ kfork_nomem(p, q) \/ fork_parent(p)
         \/ kexit(p) \/ init_exiting(p) \/ exit_lock(p) \/ exit_zombie(p)
         \/ kwait(p) \/ wait_fails(p) \/ wait_fault(p, q) \/ wait_prepare(p) \/ setkilled(p)
  PROVE  UNCHANGED <<seenState, cproc>>
<1> USE DEF IInv, At, Goto, Calls, Acquired
<1>1. CASE exit_zombie(p)
  <2>1. \A r \in Procs : seenState'[r] = seenState[r]
    BY <1>1, SeenFacts, Zenon DEF exit_zombie, TypeOK, TableTypeOK
  <2> QED
    BY <1>1, <2>1, SeenSame, Zenon DEF exit_zombie
<1>2. CASE ~exit_zombie(p)
  <2>1. UNCHANGED <<state, cproc>> /\ state[p] = "RUNNING"
    BY <1>2, Zenon DEF acquire, kfork_full, kfork_nomem, fork_parent, kexit, init_exiting, exit_lock,
       kwait, wait_fails, wait_fault, wait_prepare, setkilled
  <2>2. \A r \in Procs : pc'[r] = "exit_sched" <=> pc[r] = "exit_sched"
    <3>1. pc[p] # "exit_sched"
      BY <2>1, Zenon DEF StateInv
    <3>2. CASE acquire(p)
      <4>1. spinOf[pc[p]] # "exit_sched" /\ pc' = [pc EXCEPT ![p] = spinOf[pc[p]]]
        BY <3>2, SpinFacts, Zenon DEF acquire
      <4> QED BY <3>1, <4>1, Zenon DEF TypeOK
    <3>3. CASE setkilled(p)
      BY <3>3, Zenon DEF setkilled
    <3>4. CASE ~acquire(p) /\ ~setkilled(p)
      BY <1>2, <3>1, <3>4, Zenon DEF kfork_full, kfork_nomem, fork_parent, kexit, init_exiting,
         exit_lock, kwait, wait_fails, wait_fault, wait_prepare, TypeOK
    <3> QED
      BY <3>2, <3>3, <3>4, Zenon
  <2> QED
    BY <2>1, <2>2, SeenFacts, SeenSame, Zenon
<1> QED
  BY <1>1, <1>2, Zenon

\* kfork(), kexit(), kwait() and kkill() move the process table only along the
\* arcs of ProcTable, with a process that is leaving its CPU in kexit() still
\* RUNNING to everyone else.
THEOREM TableImplemented == Spec => ImplementsTable
<1> USE DEF Table!Procs, Procs, Table!CPUs, CPUs, Table!NoProc, NoProc
<1>1. Init => Table!TableInit
  BY Zenon DEF Init, TableInit, Table!TableInit, seenState
<1>2. IInv /\ [Next]_vars => [Table!TableNext]_(Table!tableVars)
  <2> SUFFICES ASSUME IInv, [Next]_vars
               PROVE  Table!TableNext \/ UNCHANGED <<seenState, cproc>>
    BY Zenon DEF Table!tableVars
  <2> USE DEF IInv, At, Goto, Calls, Acquired
  <2>1. CASE UNCHANGED vars
    BY <2>1, Zenon DEF vars, seenState
  <2>2. ASSUME NEW c \in CPUs, NEW p \in Procs, run(c, p) PROVE Table!Dispatch(c, p)
    <3>1. seenState[p] = "RUNNABLE"
      BY <2>2, SeenFacts, Zenon DEF run, StateInv
    <3>2. \A r \in Procs : seenState'[r] = IF r = p THEN "RUNNING" ELSE seenState[r]
      BY <2>2, SeenFacts, Zenon DEF run, TypeOK, TableTypeOK
    <3>3. seenState' = [seenState EXCEPT ![p] = "RUNNING"]
      BY <3>2, SeenMove, Zenon
    <3> QED
      BY <2>2, <3>1, <3>3, Zenon DEF run, Table!Dispatch
  <2>3. ASSUME NEW p \in Procs, yield(p) \/ sleep(p) \/ exit_sched(p)
        PROVE  \/ \E c \in CPUs, to \in {"RUNNABLE", "SLEEPING", "ZOMBIE"} : Table!Leave(c, to)
               \/ UNCHANGED <<seenState, cproc>>
    <3>1. CASE yield(p)
      <4>1. OnCpu(p) /\ leaveCpu(p, "RUNNABLE") /\ pc' = pc /\ pc[p] # "exit_sched"
        BY <3>1, Zenon DEF yield, OnCpu, StateInv
      <4> QED
        BY <4>1, SeenLeave, Zenon
    <3>2. CASE exit_sched(p)
      <4>1. OnCpu(p) /\ leaveCpu(p, "ZOMBIE") /\ pc' = [pc EXCEPT ![p] = "user"]
        BY <3>2, Zenon DEF exit_sched, OnCpu
      <4>2. pc'[p] # "exit_sched" /\ \A r \in Procs \ {p} : pc'[r] = pc[r]
        BY <4>1, Zenon DEF TypeOK
      <4> QED
        BY <4>1, <4>2, SeenLeave, Zenon
    <3>3. CASE sleep(p)
      <4>1. OnCpu(p) /\ pc[p] # "exit_sched" /\ pc' = [pc EXCEPT ![p] = "wait"]
        BY <3>3, Zenon DEF sleep, OnCpu
      <4>2. pc'[p] # "exit_sched" /\ \A r \in Procs \ {p} : pc'[r] = pc[r]
        BY <4>1, Zenon DEF TypeOK
      <4>3. CASE chan[p] # NoProc
        <5>1. leaveCpu(p, "SLEEPING")
          BY <3>3, <4>3, Zenon DEF sleep
        <5> QED
          BY <4>1, <4>2, <5>1, SeenLeave, Zenon
      <4>4. CASE chan[p] = NoProc
        <5>1. UNCHANGED <<state, cproc>>
          BY <3>3, <4>4, Zenon DEF sleep
        <5> QED
          BY <4>1, <4>2, <5>1, SeenFacts, SeenSame, Zenon
      <4> QED
        BY <4>3, <4>4, Zenon
    <3> QED
      BY <2>3, <3>1, <3>2, <3>3, Zenon
  <2>4. ASSUME NEW p \in Procs, NEW np \in Procs, kfork(p, np) PROVE Table!Create(np)
    <3>1. seenState[np] = "UNUSED" /\ pc[np] = "user" /\ np # p
      BY <2>4, SeenFacts, Zenon DEF kfork, StateInv
    <3>2. \A r \in Procs : seenState'[r] = IF r = np THEN "USED" ELSE seenState[r]
      BY <2>4, <3>1, SeenFacts DEF kfork, TypeOK, TableTypeOK
    <3>3. seenState' = [seenState EXCEPT ![np] = "USED"]
      BY <3>2, SeenMove, Zenon
    <3> QED
      BY <2>4, <3>1, <3>3, Zenon DEF kfork, Table!Create, Table!Move
  <2>5. ASSUME NEW p \in Procs, fork_ready(p)
        PROVE  child[p] \in Procs /\ Table!Ready(child[p])
    <3>1. child[p] \in Procs /\ state[child[p]] = "USED" /\ pc[child[p]] = "user" /\ child[p] # p
      BY <2>5 DEF fork_ready, ForkInv, Forking, TypeOK, StateInv
    <3>2. seenState[child[p]] = "USED"
      BY <3>1, SeenFacts, Zenon
    <3>3. \A r \in Procs : seenState'[r] = IF r = child[p] THEN "RUNNABLE" ELSE seenState[r]
      BY <2>5, <3>1, SeenFacts DEF fork_ready, TypeOK, TableTypeOK
    <3>4. seenState' = [seenState EXCEPT ![child[p]] = "RUNNABLE"]
      BY <3>1, <3>3, SeenMove, Zenon
    <3> QED
      BY <2>5, <3>1, <3>2, <3>4, Zenon DEF fork_ready, Table!Ready, Table!Move
  <2>6. ASSUME NEW p \in Procs, NEW pp \in Procs, reap(p, pp) PROVE Table!Free(pp)
    <3>1. state[pp] = "ZOMBIE" /\ pc[pp] # "exit_sched" /\ pp # p
      BY <2>6, Zenon DEF reap, Found, zombies, children
    <3>2. seenState[pp] = "ZOMBIE"
      BY <3>1, SeenFacts, Zenon
    <3>3. \A r \in Procs : seenState'[r] = IF r = pp THEN "UNUSED" ELSE seenState[r]
      BY <2>6, <3>1, SeenFacts DEF reap, TypeOK, TableTypeOK
    <3>4. seenState' = [seenState EXCEPT ![pp] = "UNUSED"]
      BY <3>3, SeenMove, Zenon
    <3> QED
      BY <2>6, <3>2, <3>4, Zenon DEF reap, Table!Free, Table!Move
  <2>7. ASSUME NEW p \in Procs, NEW q \in Procs, kkill(p, q) \/ kkill_zero(p, q)
        PROVE  Table!Wake(q) \/ UNCHANGED <<seenState, cproc>>
    <3>1. /\ \A r \in Procs : state'[r] =
                IF r = q /\ state[q] = "SLEEPING" THEN "RUNNABLE" ELSE state[r]
          /\ UNCHANGED <<cproc, pc>>
      BY <2>7, Zenon DEF kkill, kkill_zero, killSlot, TypeOK, TableTypeOK
    <3> QED
      BY <3>1, SeenWake, Zenon
  <2>8. ASSUME NEW p \in Procs, reparent(p) \/ exit_wakeup(p)
        PROVE  \/ \E q \in Procs : Table!Wake(q)
               \/ UNCHANGED <<seenState, cproc>>
    <3>1. /\ UNCHANGED cproc
          /\ \A r \in Procs : pc'[r] = "exit_sched" <=> pc[r] = "exit_sched"
      BY <2>8, Zenon DEF reparent, exit_wakeup, TypeOK
    <3>2. ASSUME NEW q \in Procs, wakeup(q) PROVE Table!Wake(q) \/ UNCHANGED <<seenState, cproc>>
      BY <3>1, <3>2, WakeupFacts, SeenWake, Zenon
    <3>3. CASE exit_wakeup(p)
      <4>1. parent[p] \in Procs
        BY <3>3 DEF exit_wakeup, InitprocInv, Exiting, Holding, ParentInv, Living, TypeOK
      <4> QED
        BY <3>2, <3>3, <4>1, Zenon DEF exit_wakeup
    <3>4. CASE reparent(p)
      <4>1. CASE children(p) # {}
        BY <3>2, <3>4, <4>1, SlotFacts, Zenon DEF reparent
      <4>2. CASE children(p) = {}
        <5>1. UNCHANGED state
          BY <3>4, <4>2, Zenon DEF reparent
        <5> QED
          BY <3>1, <5>1, SeenFacts, SeenSame, Zenon
      <4> QED
        BY <4>1, <4>2, Zenon
    <3> QED
      BY <2>8, <3>3, <3>4, Zenon
  <2>9. CASE Next
    BY <2>2, <2>3, <2>4, <2>5, <2>6, <2>7, <2>8, <2>9, UnseenStep, Zenon
    DEF Next, Step, Step2, Table!TableNext
  <2> QED
    BY <2>1, <2>9, Zenon
<1> QED
  BY <1>1, <1>2, Invariance, PTL DEF Spec, ImplementsTable, Table!TableSpec

==============================================================================
