--------------------------- MODULE SchedulerProofs ---------------------------
(***************************************************************************)
(* Proofs about Scheduler.tla and SchedulerRound.tla, for any number of     *)
(* slots, CPUs and priorities and any aging interval.                      *)
(***************************************************************************)
EXTENDS SchedulerRound, TLAPS

\* A remainder is an index of the table.
LEMMA ModInProcs == \A n \in Nat : n % NPROC \in Procs
  BY NProcAssumption DEF Procs

\* The second scan looks at slots of the table.
LEMMA CandidateInProcs ==
  ASSUME TypeOK, NEW c \in CPUs
  PROVE  candidate(c) \in Procs
<1>1. next_index[c] + cursor[c] \in Nat
  BY NProcAssumption DEF TypeOK, Procs
<1> QED
  BY <1>1, ModInProcs DEF candidate

\* The initial state satisfies the inductive invariant.
LEMMA InitIInv == Init => IInv
<1> SUFFICES ASSUME Init PROVE IInv
  OBVIOUS
<1> USE DEF Init, Procs, NoProc
<1>1. TypeOK
  <2>1. \A c \in CPUs : c % NPROC \in Procs
    BY ModInProcs DEF CPUs
  <2> QED
    BY <2>1, NProcAssumption, PriorityAssumption
    DEF TypeOK, TableTypeOK, ProcStates, PCs, Priorities, NoPriority
<1>2. PcInv
  BY DEF PcInv
<1>3. OneCpuPerProc
  BY DEF OneCpuPerProc
<1>4. ForkInv
  BY DEF ForkInv
<1>5. WaitTicksInv
  BY AgingAssumption DEF WaitTicksInv
<1> QED
  BY <1>1, <1>2, <1>3, <1>4, <1>5 DEF IInv

\* A step of a scan, or of an idle CPU, that touches no process state.
LEMMA StartPreserves ==
  ASSUME IInv, NEW c \in CPUs, start_round(c) PROVE IInv'
<1> USE DEF IInv, start_round, procVars
<1>1. TypeOK'
  BY NProcAssumption DEF TypeOK, TableTypeOK, PCs, Procs
<1>2. PcInv'
  BY DEF PcInv, TypeOK
<1>3. OneCpuPerProc' /\ ForkInv' /\ WaitTicksInv'
  BY DEF OneCpuPerProc, ForkInv, WaitTicksInv
<1> QED
  BY <1>1, <1>2, <1>3

\* One iteration of the first scan.
LEMMA ScanPreserves ==
  ASSUME IInv, NEW c \in CPUs, scan(c) PROVE IInv'
<1> DEFINE p == cursor[c]
<1> USE DEF IInv
<1>1. p \in Procs /\ aged_priority(p) \in Priorities /\ aged_wait(p) \in Nat
  BY PriorityAssumption
  DEF TypeOK, aged_priority, aged_wait, ages, Priorities
<1>2. TypeOK'
  <2>1. cursor' \in [CPUs -> Procs]
    BY <1>1, NProcAssumption DEF scan, TypeOK, Procs
  <2>2. priority' \in [Procs -> Priorities] /\ wait_ticks' \in [Procs -> Nat]
    BY <1>1 DEF scan, TypeOK
  <2>3. pc' \in [CPUs -> PCs]
    BY DEF scan, TypeOK, PCs
  <2>4. best_priority' \in [CPUs -> Priorities \cup {NoPriority}]
    BY <1>1 DEF scan, new_best, TypeOK
  <2> QED
    BY <2>1, <2>2, <2>3, <2>4 DEF scan, TypeOK, TableTypeOK
<1>3. PcInv'
  BY DEF scan, PcInv, TypeOK, TableTypeOK
<1>4. OneCpuPerProc' /\ ForkInv'
  BY DEF scan, OneCpuPerProc, ForkInv
<1>5. WaitTicksInv'
  <2> SUFFICES ASSUME NEW q \in Procs
               PROVE  /\ state[q] # "RUNNABLE" => wait_ticks'[q] = 0
                      /\ priority'[q] > PRIORITY_MIN => wait_ticks'[q] <= AGING_INTERVAL
    BY DEF WaitTicksInv, scan
  <2>1. CASE q # p
    BY <2>1, <1>1 DEF scan, WaitTicksInv, TypeOK
  <2>2. CASE q = p
    BY <2>2, <1>1, AgingAssumption, PriorityAssumption
    DEF scan, WaitTicksInv, TypeOK, aged_priority, aged_wait, ages,
        priority_valid, Priorities
  <2> QED
    BY <2>1, <2>2
<1> QED
  BY <1>2, <1>3, <1>4, <1>5

\* The second scan switches to a process.
LEMMA DispatchPreserves ==
  ASSUME IInv, NEW c \in CPUs, dispatch(c) PROVE IInv'
<1> DEFINE p == candidate(c)
<1> USE DEF IInv
<1>1. p \in Procs /\ state[p] = "RUNNABLE" /\ pc[c] = "select" /\ cproc[c] = NoProc
  BY CandidateInProcs DEF dispatch, selectable, PcInv, TypeOK
<1> HIDE DEF p
<1>2. /\ state' = [state EXCEPT ![p] = "RUNNING"]
      /\ cproc' = [cproc EXCEPT ![c] = p]
      /\ wait_ticks' = [wait_ticks EXCEPT ![p] = 0]
      /\ pc' = [pc EXCEPT ![c] = "running"]
      /\ cursor' = [cursor EXCEPT ![c] = 0]
      /\ best_priority' = [best_priority EXCEPT ![c] = NoPriority]
      /\ UNCHANGED <<priority, forking, next_index>>
  BY DEF dispatch, p
<1>3. TypeOK'
  BY <1>1, <1>2, NProcAssumption DEF TypeOK, TableTypeOK, PCs, Procs, ProcStates
<1>4. PcInv'
  BY <1>1, <1>2 DEF PcInv, TypeOK, TableTypeOK, NoProc, Procs
<1>5. OneCpuPerProc'
  <2>1. /\ \A q \in Procs : state'[q] = IF q = p THEN "RUNNING" ELSE state[q]
        /\ \A d \in CPUs : cproc'[d] = IF d = c THEN p ELSE cproc[d]
    BY <1>2 DEF TypeOK, TableTypeOK
  <2>2. \A d \in CPUs : cproc[d] # p
    BY <1>1 DEF OneCpuPerProc
  <2>3. p # NoProc
    BY <1>1, NProcAssumption DEF Procs, NoProc
  <2>4. \A q \in Procs : state'[q] = "RUNNING" <=> \E d \in CPUs : cproc'[d] = q
    <3> TAKE q \in Procs
    <3>1. CASE q = p
      BY <2>1, <3>1
    <3>2. CASE q # p
      BY <1>1, <2>1, <3>2, NProcAssumption DEF OneCpuPerProc, Procs, NoProc
    <3> QED
      BY <3>1, <3>2
  <2>5. \A d, e \in CPUs : cproc'[d] = cproc'[e] /\ cproc'[d] # NoProc => d = e
    BY <2>1, <2>2, <2>3 DEF OneCpuPerProc
  <2> QED
    BY <2>4, <2>5 DEF OneCpuPerProc
<1>6. ForkInv'
  BY <1>1, <1>2 DEF ForkInv, TypeOK, TableTypeOK
<1>7. WaitTicksInv'
  BY <1>1, <1>2, AgingAssumption DEF WaitTicksInv, TypeOK, TableTypeOK
<1> QED
  BY <1>3, <1>4, <1>5, <1>6, <1>7

\* An iteration of the second scan that finds nothing, and an idle CPU.
LEMMA SkipPreserves ==
  ASSUME IInv, NEW c \in CPUs, skip(c) \/ wfi_returns(c) PROVE IInv'
<1> USE DEF IInv, procVars
<1>1. TypeOK'
  <2>1. CASE wfi_returns(c)
    BY <2>1 DEF wfi_returns, TypeOK, TableTypeOK, PCs
  <2>2. CASE skip(c)
    <3>1. cursor' \in [CPUs -> Procs]
      BY <2>2, NProcAssumption DEF skip, TypeOK, Procs
    <3>2. pc' \in [CPUs -> PCs]
      BY <2>2 DEF skip, TypeOK, PCs
    <3>3. best_priority' \in [CPUs -> Priorities \cup {NoPriority}]
      BY <2>2 DEF skip, TypeOK
    <3> QED
      BY <2>2, <3>1, <3>2, <3>3 DEF skip, TypeOK, TableTypeOK
  <2> QED
    BY <2>1, <2>2
<1>2. PcInv'
  BY DEF skip, wfi_returns, PcInv, TypeOK
<1>3. OneCpuPerProc' /\ ForkInv' /\ WaitTicksInv'
  BY DEF skip, wfi_returns, OneCpuPerProc, ForkInv, WaitTicksInv
<1> QED
  BY <1>1, <1>2, <1>3

\* The process on a CPU gives it up.  A process inside kfork() only yields.
LEMMA SchedPreserves ==
  ASSUME IInv, NEW c \in CPUs, NEW new \in {"RUNNABLE", "SLEEPING", "ZOMBIE"},
         sched(c, new), new # "RUNNABLE" => ~inFork(c)
  PROVE  IInv'
<1> DEFINE p == cproc[c]
<1> USE DEF IInv
<1>1. p \in Procs /\ state[p] = "RUNNING" /\ p # NoProc /\ pc[c] = "running"
  BY DEF sched, PcInv, OneCpuPerProc, TypeOK, TableTypeOK
<1>2. /\ \A q \in Procs : state'[q] = IF q = p THEN new ELSE state[q]
      /\ \A d \in CPUs : cproc'[d] = IF d = c THEN NoProc ELSE cproc[d]
      /\ \A d \in CPUs : pc'[d] = IF d = c THEN "top" ELSE pc[d]
      /\ UNCHANGED <<priority, wait_ticks, forking, cursor, best_priority>>
  BY <1>1 DEF sched, TypeOK, TableTypeOK
<1>3. TypeOK'
  <2>1. (p + 1) % NPROC \in Procs
    BY <1>1, ModInProcs, NProcAssumption DEF Procs
  <2> QED
    BY <1>1, <2>1 DEF sched, TypeOK, TableTypeOK, PCs, ProcStates
<1>4. PcInv'
  BY <1>2 DEF PcInv
<1>5. OneCpuPerProc'
  <2>1. \A d \in CPUs : d # c => cproc[d] # p
    BY <1>1 DEF OneCpuPerProc
  <2>2. \A q \in Procs : q # NoProc
    BY NProcAssumption DEF Procs, NoProc
  <2>3. \A q \in Procs : state'[q] = "RUNNING" <=> \E d \in CPUs : cproc'[d] = q
    <3> TAKE q \in Procs
    <3>1. CASE q = p
      BY <1>2, <2>1, <2>2, <3>1
    <3>2. CASE q # p
      BY <1>2, <2>2, <3>2 DEF OneCpuPerProc
    <3> QED
      BY <3>1, <3>2
  <2>4. \A d, e \in CPUs : cproc'[d] = cproc'[e] /\ cproc'[d] # NoProc => d = e
    BY <1>2 DEF OneCpuPerProc
  <2> QED
    BY <2>3, <2>4 DEF OneCpuPerProc
<1>6. ForkInv'
  <2> SUFFICES ASSUME NEW q \in Procs, forking[q] # NoProc
               PROVE  /\ state'[q] \in {"RUNNABLE", "RUNNING"}
                      /\ state'[forking[q]] = "USED"
                      /\ \A r \in Procs : forking[r] = forking[q] => r = q
    BY <1>2 DEF ForkInv
  <2>1. forking[q] \in Procs /\ forking[q] # p
    BY <1>1 DEF ForkInv, TypeOK
  <2>2. q = p => new = "RUNNABLE"
    BY DEF inFork
  <2> QED
    BY <1>2, <2>1, <2>2 DEF ForkInv
<1>7. WaitTicksInv'
  BY <1>1, <1>2 DEF WaitTicksInv
<1> QED
  BY <1>3, <1>4, <1>5, <1>6, <1>7

\* kfork() takes a slot for the child.
LEMMA ForkAllocPreserves ==
  ASSUME IInv, NEW c \in CPUs, NEW np \in Procs, kfork_alloc(c, np)
  PROVE  IInv'
<1> DEFINE p == cproc[c]
<1> USE DEF IInv
<1>1. /\ p \in Procs /\ state[p] = "RUNNING"
      /\ state[np] = "UNUSED" /\ np # p /\ np # NoProc /\ forking[p] = NoProc
  <2>1. p \in Procs /\ state[p] = "RUNNING"
    BY DEF kfork_alloc, PcInv, OneCpuPerProc, TypeOK, TableTypeOK
  <2> QED
    BY <2>1, NProcAssumption DEF kfork_alloc, inFork, Procs, NoProc
<1>2. /\ \A q \in Procs : state'[q] = IF q = np THEN "USED" ELSE state[q]
      /\ \A q \in Procs : wait_ticks'[q] = IF q = np THEN 0 ELSE wait_ticks[q]
      /\ \A q \in Procs : q # np => priority'[q] = priority[q]
      /\ \A q \in Procs : forking'[q] = IF q = p THEN np ELSE forking[q]
      /\ UNCHANGED <<cproc, pc, cursor, best_priority, next_index>>
  BY <1>1 DEF kfork_alloc, TypeOK, TableTypeOK, cpuVars
<1>3. TypeOK'
  BY <1>1, PriorityAssumption
  DEF kfork_alloc, TypeOK, TableTypeOK, cpuVars, ProcStates, priority_valid, Priorities
<1>4. PcInv' /\ OneCpuPerProc'
  BY <1>1, <1>2 DEF PcInv, OneCpuPerProc
<1>5. ForkInv'
  <2>1. \A q \in Procs : forking[q] # np
    BY <1>1 DEF ForkInv, NoProc
  <2> QED
    BY <1>1, <1>2, <2>1 DEF ForkInv, TypeOK
<1>6. WaitTicksInv'
  BY <1>2, AgingAssumption DEF WaitTicksInv
<1> QED
  BY <1>3, <1>4, <1>5, <1>6

\* kfork() makes the child RUNNABLE.
LEMMA ForkReadyPreserves ==
  ASSUME IInv, NEW c \in CPUs, kfork_ready(c)
  PROVE  IInv'
<1> DEFINE p == cproc[c]
           np == forking[p]
<1> USE DEF IInv
<1>1. /\ p \in Procs /\ np \in Procs /\ np # NoProc
      /\ state[np] = "USED" /\ state[p] = "RUNNING"
  <2>1. p \in Procs /\ state[p] = "RUNNING"
    BY DEF kfork_ready, PcInv, OneCpuPerProc, TypeOK, TableTypeOK
  <2> QED
    BY <2>1 DEF kfork_ready, inFork, ForkInv, TypeOK
<1>2. /\ \A q \in Procs : state'[q] = IF q = np THEN "RUNNABLE" ELSE state[q]
      /\ \A q \in Procs : forking'[q] = IF q = p THEN NoProc ELSE forking[q]
      /\ UNCHANGED <<priority, wait_ticks, cproc, pc, cursor, best_priority, next_index>>
  BY <1>1 DEF kfork_ready, TypeOK, TableTypeOK, cpuVars
<1>3. TypeOK'
  BY <1>1 DEF kfork_ready, TypeOK, TableTypeOK, cpuVars, ProcStates
<1>4. PcInv' /\ OneCpuPerProc'
  BY <1>1, <1>2 DEF PcInv, OneCpuPerProc
<1>5. ForkInv'
  BY <1>1, <1>2 DEF ForkInv, TypeOK
<1>6. WaitTicksInv'
  BY <1>1, <1>2 DEF WaitTicksInv
<1> QED
  BY <1>3, <1>4, <1>5, <1>6

\* wakeup(), freeproc() and ksetpriority() on one slot.
LEMMA SlotPreserves ==
  ASSUME IInv, NEW c \in CPUs, NEW p \in Procs,
         \/ wakeup(c, p)
         \/ freeproc(c, p)
         \/ \E n \in Priorities : ksetpriority(c, p, n)
  PROVE  IInv'
<1> USE DEF IInv
<1>1. CASE wakeup(c, p)
  <2> USE <1>1 DEF wakeup, cpuVars
  <2>1. TypeOK' /\ PcInv' /\ OneCpuPerProc'
    BY DEF TypeOK, TableTypeOK, PcInv, OneCpuPerProc, ProcStates
  <2>2. ForkInv' /\ WaitTicksInv'
    BY DEF TypeOK, TableTypeOK, ForkInv, WaitTicksInv
  <2> QED
    BY <2>1, <2>2
<1>2. CASE freeproc(c, p)
  <2> USE <1>2 DEF freeproc, cpuVars
  <2>1. TypeOK' /\ PcInv' /\ OneCpuPerProc'
    BY PriorityAssumption
    DEF TypeOK, TableTypeOK, PcInv, OneCpuPerProc, ProcStates, Priorities
  <2>2. ForkInv' /\ WaitTicksInv'
    BY AgingAssumption DEF TypeOK, TableTypeOK, ForkInv, WaitTicksInv
  <2> QED
    BY <2>1, <2>2
<1>3. CASE \E n \in Priorities : ksetpriority(c, p, n)
  <2> PICK n \in Priorities : ksetpriority(c, p, n)
    BY <1>3
  <2> USE DEF ksetpriority, cpuVars
  <2>1. TypeOK' /\ PcInv' /\ OneCpuPerProc'
    BY DEF TypeOK, TableTypeOK, PcInv, OneCpuPerProc
  <2>2. ForkInv' /\ WaitTicksInv'
    BY AgingAssumption DEF TypeOK, TableTypeOK, ForkInv, WaitTicksInv
  <2> QED
    BY <2>1, <2>2
<1> QED
  BY <1>1, <1>2, <1>3

\* Every step, and every stuttering step, preserves the inductive invariant.
LEMMA NextIInv == IInv /\ [Next]_vars => IInv'
<1> SUFFICES ASSUME IInv, [Next]_vars PROVE IInv'
  OBVIOUS
<1>1. CASE UNCHANGED vars
  BY <1>1
  DEF vars, procVars, cpuVars, IInv, TypeOK, TableTypeOK, PcInv, OneCpuPerProc,
      ForkInv, WaitTicksInv
<1>2. CASE Next
  <2> PICK c \in CPUs :
        \/ scheduler(c) \/ yield(c) \/ sleep(c) \/ kexit(c) \/ kfork_ready(c)
        \/ \E p \in Procs :
            \/ kfork_alloc(c, p) \/ wakeup(c, p) \/ freeproc(c, p)
            \/ \E n \in Priorities : ksetpriority(c, p, n)
    BY <1>2 DEF Next
  <2>1. CASE scheduler(c)
    BY <2>1, StartPreserves, ScanPreserves, DispatchPreserves, SkipPreserves
    DEF scheduler
  <2>2. CASE yield(c)
    BY <2>2, SchedPreserves DEF yield
  <2>3. CASE sleep(c)
    BY <2>3, SchedPreserves DEF sleep
  <2>4. CASE kexit(c)
    BY <2>4, SchedPreserves DEF kexit
  <2>5. CASE kfork_ready(c)
    BY <2>5, ForkReadyPreserves
  <2>6. CASE \E p \in Procs : kfork_alloc(c, p)
    BY <2>6, ForkAllocPreserves
  <2>7. CASE \E p \in Procs :
               \/ wakeup(c, p) \/ freeproc(c, p)
               \/ \E n \in Priorities : ksetpriority(c, p, n)
    BY <2>7, SlotPreserves
  <2> QED
    BY <2>1, <2>2, <2>3, <2>4, <2>5, <2>6, <2>7
<1> QED
  BY <1>1, <1>2

\* The inductive invariant holds throughout.
THEOREM Invariance == Spec => []IInv
  BY InitIInv, NextIInv, PTL DEF Spec

\* Every p->priority stays valid, every index stays in the table.
THEOREM TypeCorrect == Spec => []TypeOK
<1>1. IInv => TypeOK
  BY DEF IInv
<1> QED
  BY <1>1, Invariance, PTL

\* A process runs on at most one CPU at a time, on any number of CPUs.
THEOREM RunsOnOneCpu == Spec => []OneCpuPerProc
<1>1. IInv => OneCpuPerProc
  BY DEF IInv
<1> QED
  BY <1>1, Invariance, PTL

\* wait_ticks is 0 except while RUNNABLE, and at most AGING_INTERVAL until
\* aging has taken the process to PRIORITY_MIN.
THEOREM WaitTicksBounded == Spec => []WaitTicksInv
<1>1. IInv => WaitTicksInv
  BY DEF IInv
<1> QED
  BY <1>1, Invariance, PTL

\* scheduler(), kfork(), wait() and the rest move the process table only along
\* the arcs of ProcTable.
THEOREM ImplementsTable == Spec => TableSpec
<1>1. Init => TableInit
  BY DEF Init, TableInit
<1>2. IInv /\ [Next]_vars => [TableNext]_tableVars
  <2> SUFFICES ASSUME IInv, [Next]_vars PROVE [TableNext]_tableVars
    OBVIOUS
  <2> USE DEF IInv, tableVars
  <2>1. CASE UNCHANGED vars
    BY <2>1 DEF vars, procVars, cpuVars
  <2>2. ASSUME NEW c \in CPUs,
               \/ start_round(c) \/ scan(c) \/ skip(c) \/ wfi_returns(c)
               \/ \E p \in Procs, n \in Priorities : ksetpriority(c, p, n)
        PROVE  UNCHANGED tableVars
    BY <2>2 DEF start_round, scan, skip, wfi_returns, ksetpriority, procVars, cpuVars
  <2>3. ASSUME NEW c \in CPUs, dispatch(c) PROVE Dispatch(c, candidate(c))
    BY <2>3 DEF dispatch, selectable, PcInv, Dispatch
  <2>4. ASSUME NEW c \in CPUs, NEW new, sched(c, new) PROVE Leave(c, new)
    BY <2>4 DEF sched, PcInv, Leave
  <2>5. ASSUME NEW c \in CPUs, kfork_ready(c)
        PROVE  forking[cproc[c]] \in Procs /\ Ready(forking[cproc[c]])
    <3>1. cproc[c] \in Procs
      BY <2>5 DEF kfork_ready, PcInv, TypeOK, TableTypeOK
    <3> QED
      BY <2>5, <3>1 DEF kfork_ready, inFork, ForkInv, TypeOK, Ready, Move, cpuVars
  <2>6. ASSUME NEW c \in CPUs, NEW p \in Procs PROVE
          /\ kfork_alloc(c, p) => Create(p)
          /\ wakeup(c, p) => Wake(p)
          /\ freeproc(c, p) => Free(p)
    BY DEF kfork_alloc, wakeup, freeproc, Create, Wake, Free, Move, cpuVars
  <2>7. CASE Next
    BY <2>2, <2>3, <2>4, <2>5, <2>6, <2>7, CandidateInProcs
    DEF Next, scheduler, yield, sleep, kexit, TableNext
  <2> QED
    BY <2>1, <2>7
<1> QED
  BY <1>1, <1>2, Invariance, PTL DEF Spec, TableSpec


(***************************************************************************)
(* How often a CPU can pass a process by that waits at PRIORITY_MIN.       *)
(***************************************************************************)

\* The slots the second scan looks at before p when it starts at i.
ahead(i, p) == IF p >= i THEN p - i ELSE p - i + NPROC

\* How many more rounds of c can count p, waiting at PRIORITY_MIN, before c takes
\* it.  Each round that counts it ends at p or before it, and the next one starts
\* behind where it ended; one that has not may still end anywhere.
left(c, p) ==
    IF pc[c] \in {"top", "wfi"} \/ (pc[c] = "scan" /\ cursor[c] <= p)
    THEN ahead(next_index[c], p) + 1
    ELSE IF pc[c] = "running" THEN ahead((cproc[c] + 1) % NPROC, p) + 1
    ELSE IF /\ best_priority[c] = PRIORITY_MIN
            /\ pc[c] = "select" => cursor[c] <= ahead(next_index[c], p)
    THEN ahead(next_index[c], p)
    ELSE NPROC

\* What % does to an index and the number of slots to go on by.
LEMMA Wraps ==
  ASSUME NEW i \in Procs, NEW k \in Procs
  PROVE  /\ (i + k) % NPROC = IF i + k < NPROC THEN i + k ELSE i + k - NPROC
         /\ (i + 1) % NPROC = IF i + 1 < NPROC THEN i + 1 ELSE 0
<1>1. ASSUME NEW a \in 0 .. NPROC - 1 PROVE a % NPROC = a
  BY NProcAssumption
<1>2. ASSUME NEW a \in NPROC .. 2 * NPROC - 1 PROVE a % NPROC = a - NPROC
  BY NProcAssumption
<1>3. (i + k) % NPROC = IF i + k < NPROC THEN i + k ELSE i + k - NPROC
  BY <1>1, <1>2, NProcAssumption DEF Procs
<1>4. (i + 1) % NPROC = IF i + 1 < NPROC THEN i + 1 ELSE 0
  BY <1>1, <1>2, NProcAssumption DEF Procs
<1> QED BY <1>3, <1>4, Zenon

\* The distance to p is less than NPROC, and so is what is left of the rounds.
LeftOK ==
    \A c \in CPUs, p \in Procs :
        ahead(next_index[c], p) \in 0 .. NPROC - 1 /\ left(c, p) \in 0 .. NPROC

\* That is so with next_index and c->proc in the table.
LEMMA LeftType == IInv => LeftOK
<1> SUFFICES ASSUME IInv, NEW c \in CPUs, NEW p \in Procs
             PROVE  ahead(next_index[c], p) \in 0 .. NPROC - 1 /\ left(c, p) \in 0 .. NPROC
  BY Zenon DEF LeftOK
<1>1. \A i \in Procs : ahead(i, p) \in 0 .. NPROC - 1
  BY NProcAssumption DEF ahead, Procs
<1>2. next_index[c] \in Procs
  BY Zenon DEF IInv, TypeOK
<1>3. pc[c] = "running" => (cproc[c] + 1) % NPROC \in Procs
  <2>1. pc[c] = "running" => cproc[c] \in Procs
    BY Zenon DEF IInv, TypeOK, TableTypeOK, PcInv
  <2>2. \A i \in Procs : (i + 1) % NPROC \in Procs
    BY ModInProcs, NProcAssumption DEF Procs
  <2> QED BY <2>1, <2>2, Zenon
<1>4. ASSUME NEW a \in 0 .. NPROC - 1
      PROVE  a \in 0 .. NPROC /\ a + 1 \in 0 .. NPROC /\ NPROC \in 0 .. NPROC
  BY NProcAssumption
<1>5. ahead(next_index[c], p) \in 0 .. NPROC - 1
  BY <1>1, <1>2, Zenon
<1>6. pc[c] = "running" => ahead((cproc[c] + 1) % NPROC, p) \in 0 .. NPROC - 1
  BY <1>1, <1>3, Zenon
<1>7. left(c, p) \in 0 .. NPROC
  BY <1>4, <1>5, <1>6, Zenon DEF left
<1> QED BY <1>5, <1>7, Zenon

\* A CPU whose scheduler() does not move has as many left as before.
LEMMA LeftSame ==
  ASSUME NEW c \in CPUs, NEW p \in Procs,
         pc'[c] = pc[c], cursor'[c] = cursor[c], next_index'[c] = next_index[c],
         best_priority'[c] = best_priority[c], cproc'[c] = cproc[c]
  PROVE  left(c, p)' = left(c, p)
  BY Zenon DEF left, ahead

\* A CPU that takes r, before p in the second scan, is behind r afterwards.
LEMMA BehindIsNearer ==
  ASSUME NEW i \in Procs, NEW k \in Procs, NEW p \in Procs,
         k <= ahead(i, p), (i + k) % NPROC # p
  PROVE  ahead((((i + k) % NPROC) + 1) % NPROC, p) + 1 <= ahead(i, p)
<1> DEFINE r == (i + k) % NPROC
<1>1. r = IF i + k < NPROC THEN i + k ELSE i + k - NPROC
  BY Wraps, Zenon
<1>2. r \in Procs
  BY <1>1, NProcAssumption DEF Procs
<1>3. (r + 1) % NPROC = IF r + 1 < NPROC THEN r + 1 ELSE 0
  BY <1>2, Wraps, Zenon
<1> QED BY <1>1, <1>3, NProcAssumption DEF ahead, Procs

\* The second scan reaches p after as many slots as are ahead of it.
LEMMA AheadIsCandidate ==
  ASSUME NEW i \in Procs, NEW p \in Procs
  PROVE  ahead(i, p) \in Procs /\ (i + ahead(i, p)) % NPROC = p
<1>1. ahead(i, p) \in Procs
  BY NProcAssumption DEF ahead, Procs
<1>2. (i + ahead(i, p)) % NPROC
        = IF i + ahead(i, p) < NPROC THEN i + ahead(i, p) ELSE i + ahead(i, p) - NPROC
  BY <1>1, Wraps, Zenon
<1> QED BY <1>1, <1>2, NProcAssumption DEF ahead, Procs

\* A step of the first scan leaves a CPU no more rounds, and one fewer if it is at p.
LEMMA ScanLeft ==
  ASSUME IInv, LeftOK, LeftOK', NEW c \in CPUs, scan(c), NEW p \in Procs,
         state[p] = "RUNNABLE", priority'[p] = PRIORITY_MIN
  PROVE  /\ priority[p] = PRIORITY_MIN => left(c, p)' <= left(c, p)
         /\ priority[p] = PRIORITY_MIN /\ cursor[c] = p => left(c, p)' < left(c, p)
         /\ cursor[c] = p => left(c, p)' < NPROC
<1> DEFINE a == ahead(next_index[c], p)
<1>1. /\ pc[c] = "scan" /\ cursor[c] \in Procs /\ next_index' = next_index
      /\ best_priority[c] \in Priorities \cup {NoPriority}
      /\ \A q \in Procs : aged_priority(q) \in Priorities
  BY PriorityAssumption DEF IInv, TypeOK, scan, aged_priority, ages, Priorities
<1>2. /\ best_priority'[c] = new_best(c, cursor[c])
      /\ cursor'[c] = IF cursor[c] + 1 = NPROC THEN 0 ELSE cursor[c] + 1
      /\ pc'[c] = IF cursor[c] + 1 # NPROC THEN "scan"
                  ELSE IF new_best(c, cursor[c]) # NoPriority THEN "select" ELSE "wfi"
      /\ cursor[c] = p => priority'[p] = aged_priority(p)
  BY Zenon DEF IInv, TypeOK, scan
<1>3. ahead(next_index[c], p)' = a
  BY <1>1, Zenon DEF ahead
<1>4. a \in 0 .. NPROC - 1 /\ left(c, p) \in 0 .. NPROC /\ left(c, p)' \in 0 .. NPROC
  BY Zenon DEF LeftOK
<1>5. PRIORITY_MIN # NoPriority /\ \A b \in Priorities \cup {NoPriority} : b >= PRIORITY_MIN
  BY PriorityAssumption DEF NoPriority, Priorities
<1>6. CASE cursor[c] = p
  <2>1. aged_priority(p) = PRIORITY_MIN
    BY <1>2, <1>6, Zenon
  <2>2. new_best(c, p) = PRIORITY_MIN
    BY <1>1, <1>5, <2>1, PriorityAssumption DEF new_best, Priorities, NoPriority
  <2>3. left(c, p)' = a
    BY <1>1, <1>2, <1>3, <1>4, <1>5, <1>6, <2>2, NProcAssumption DEF left, Procs
  <2>4. left(c, p) = a + 1
    BY <1>1, <1>4, <1>6 DEF left, Procs
  <2> QED BY <1>4, <2>3, <2>4, NProcAssumption
<1>7. CASE cursor[c] < p
  <2>1. left(c, p) = a + 1
    BY <1>1, <1>7, NProcAssumption DEF left, Procs
  <2>2. pc'[c] = "scan" /\ cursor'[c] <= p
    BY <1>1, <1>2, <1>7, NProcAssumption DEF Procs
  <2>3. left(c, p)' = a + 1
    BY <1>3, <2>2, Zenon DEF left
  <2> QED BY <1>1, <1>4, <1>7, <2>1, <2>3 DEF Procs
<1>8. CASE cursor[c] > p
  <2>1. CASE best_priority[c] # PRIORITY_MIN
    <3>1. left(c, p) = NPROC
      BY <1>1, <1>8, <2>1 DEF left, Procs
    <3> QED BY <1>1, <1>4, <1>8, <3>1 DEF Procs
  <2>2. CASE best_priority[c] = PRIORITY_MIN
    <3>1. new_best(c, cursor[c]) = PRIORITY_MIN
      BY <1>1, <1>5, <2>2, PriorityAssumption DEF new_best, Priorities
    <3>2. left(c, p) = a
      BY <1>1, <1>8, <2>2 DEF left, Procs
    <3>3. left(c, p)' = a
      BY <1>1, <1>2, <1>3, <1>4, <1>5, <1>8, <3>1, NProcAssumption DEF left, Procs
    <3> QED BY <1>1, <1>4, <1>8, <3>2, <3>3 DEF Procs
  <2> QED BY <2>1, <2>2, Zenon
<1> QED BY <1>1, <1>6, <1>7, <1>8 DEF Procs

\* Nor does any other step of scheduler() that does not take p itself.
LEMMA RoundLeft ==
  ASSUME IInv, LeftOK, LeftOK', NEW c \in CPUs, NEW p \in Procs,
         state[p] = "RUNNABLE", priority[p] = PRIORITY_MIN, state'[p] = "RUNNABLE",
         start_round(c) \/ dispatch(c) \/ skip(c) \/ wfi_returns(c)
  PROVE  left(c, p)' <= left(c, p)
<1> DEFINE a == ahead(next_index[c], p)
<1>1. /\ cursor[c] \in Procs /\ next_index[c] \in Procs /\ next_index' = next_index
      /\ a \in 0 .. NPROC - 1 /\ left(c, p) \in 0 .. NPROC /\ left(c, p)' \in 0 .. NPROC
  BY Zenon DEF IInv, TypeOK, start_round, dispatch, skip, wfi_returns, LeftOK
<1>2. ahead(next_index[c], p)' = a
  BY <1>1, Zenon DEF ahead
<1>3. CASE start_round(c)
  <2>1. pc[c] = "top" /\ pc'[c] = "scan" /\ cursor'[c] = 0
    BY <1>3, Zenon DEF start_round, IInv, TypeOK
  <2>2. left(c, p) = a + 1 /\ left(c, p)' = a + 1
    BY <1>2, <2>1, NProcAssumption DEF left, Procs
  <2> QED BY <1>1, <2>2
<1>4. CASE wfi_returns(c)
  <2>1. pc[c] = "wfi" /\ pc'[c] = "top"
    BY <1>4, Zenon DEF wfi_returns, IInv, TypeOK
  <2>2. left(c, p) = a + 1 /\ left(c, p)' = a + 1
    BY <1>2, <2>1, Zenon DEF left
  <2> QED BY <1>1, <2>2
<1>5. CASE (skip(c) \/ dispatch(c)) /\ ~(best_priority[c] = PRIORITY_MIN /\ cursor[c] <= a)
  <2>1. pc[c] = "select"
    BY <1>5, Zenon DEF skip, dispatch, selectable
  <2>2. left(c, p) = NPROC
    BY <1>5, <2>1, Zenon DEF left
  <2> QED BY <1>1, <2>2
<1>6. CASE skip(c) /\ best_priority[c] = PRIORITY_MIN /\ cursor[c] <= a
  <2>1. pc[c] = "select" /\ cursor[c] # a
    <3>1. pc[c] = "select" /\ ~selectable(c)
      BY <1>6, Zenon DEF skip
    <3>2. (next_index[c] + a) % NPROC = p
      BY <1>1, AheadIsCandidate, Zenon
    <3> QED BY <1>6, <3>1, <3>2, Zenon DEF selectable, candidate
  <2>2. cursor[c] + 1 # NPROC /\ cursor[c] + 1 <= a
    BY <1>1, <1>6, <2>1 DEF Procs
  <2>3. /\ pc'[c] = "select" /\ cursor'[c] = cursor[c] + 1
        /\ best_priority'[c] = PRIORITY_MIN
    BY <1>6, <2>1, <2>2, Zenon DEF skip, IInv, TypeOK
  <2>4. left(c, p) = a
    BY <1>6, <2>1, Zenon DEF left
  <2>5. left(c, p)' = a
    BY <1>2, <2>2, <2>3, Zenon DEF left
  <2> QED BY <1>1, <2>4, <2>5
<1>7. CASE dispatch(c) /\ best_priority[c] = PRIORITY_MIN /\ cursor[c] <= a
  <2>1. pc[c] = "select" /\ pc'[c] = "running" /\ cproc'[c] = candidate(c)
    BY <1>7, Zenon DEF dispatch, selectable, IInv, TypeOK, TableTypeOK
  <2>2. candidate(c) # p
    BY <1>7, Zenon DEF dispatch, IInv, TypeOK, TableTypeOK
  <2>3. ahead((candidate(c) + 1) % NPROC, p) + 1 <= a
    BY <1>1, <1>7, <2>2, BehindIsNearer, Zenon DEF candidate
  <2>4. left(c, p) = a
    BY <1>7, <2>1, Zenon DEF left
  <2>5. left(c, p)' = ahead((candidate(c) + 1) % NPROC, p) + 1
    BY <2>1, Zenon DEF left, ahead
  <2> QED BY <2>3, <2>4, <2>5, Zenon
<1> QED BY <1>3, <1>4, <1>5, <1>6, <1>7, Zenon

\* A process that gives up its CPU leaves it where it has been counted from.
LEMMA SchedLeft ==
  ASSUME IInv, NEW c \in CPUs, NEW p \in Procs, NEW new, sched(c, new)
  PROVE  left(c, p)' = left(c, p)
<1>1. pc[c] = "running" /\ pc'[c] = "top" /\ next_index'[c] = (cproc[c] + 1) % NPROC
  BY Zenon DEF sched, IInv, TypeOK
<1> QED BY <1>1, Zenon DEF left, ahead

(***************************************************************************)
(* The best priority, on a single CPU.                                     *)
(***************************************************************************)

\* best_priority is at least as good as that of every RUNNABLE process the first
\* scan has passed: all of them, in the second scan.
BestInv ==
    \A c \in CPUs, q \in Procs : state[q] = "RUNNABLE" =>
        /\ pc[c] = "scan" /\ q < cursor[c] => best_priority[c] <= priority[q]
        /\ pc[c] = "select" => best_priority[c] <= priority[q]

\* No step of the only CPU spoils that: what could runs outside the two scans.
LEMMA NextBest ==
  ASSUME NCPU = 1, IInv, BestInv, [Next]_vars
  PROVE  BestInv'
<1> SUFFICES ASSUME NEW c \in CPUs, NEW q \in Procs, state'[q] = "RUNNABLE"
             PROVE  /\ pc'[c] = "scan" /\ q < cursor'[c] => best_priority'[c] <= priority'[q]
                    /\ pc'[c] = "select" => best_priority'[c] <= priority'[q]
  BY Zenon DEF BestInv
<1>1. \A d \in CPUs : d = c
  BY DEF CPUs
<1>2. CASE UNCHANGED vars
  BY <1>2, Zenon DEF vars, procVars, cpuVars, BestInv
<1>3. ASSUME pc'[c] \notin {"scan", "select"} \/ (pc'[c] = "scan" /\ cursor'[c] = 0)
      PROVE  /\ pc'[c] = "scan" /\ q < cursor'[c] => best_priority'[c] <= priority'[q]
             /\ pc'[c] = "select" => best_priority'[c] <= priority'[q]
  BY <1>3, NProcAssumption DEF Procs
<1>4. CASE start_round(c) \/ dispatch(c) \/ wfi_returns(c)
  <2>1. pc'[c] \notin {"scan", "select"} \/ (pc'[c] = "scan" /\ cursor'[c] = 0)
    BY <1>4, Zenon DEF start_round, dispatch, wfi_returns, IInv, TypeOK
  <2> QED BY <1>3, <2>1, Zenon
<1>5. CASE skip(c)
  <2>1. \/ pc'[c] = "top"
        \/ /\ pc[c] = "select" /\ pc'[c] = "select" /\ best_priority'[c] = best_priority[c]
           /\ UNCHANGED <<state, priority>>
    BY <1>5, Zenon DEF skip, IInv, TypeOK, procVars
  <2> QED BY <1>3, <2>1, Zenon DEF BestInv
<1>6. CASE \/ yield(c) \/ sleep(c) \/ kexit(c) \/ kfork_ready(c)
           \/ \E p \in Procs : \/ kfork_alloc(c, p) \/ wakeup(c, p) \/ freeproc(c, p)
                               \/ \E n \in Priorities : ksetpriority(c, p, n)
  <2>1. pc'[c] \in {"top", "running"}
    BY <1>6, Zenon
    DEF yield, sleep, kexit, sched, kfork_ready, kfork_alloc, wakeup, freeproc, ksetpriority,
        cpuVars, IInv, TypeOK
  <2> QED BY <1>3, <2>1, Zenon
<1>7. CASE scan(c)
  <2> DEFINE p == cursor[c]
  <2>1. /\ p \in Procs /\ state[q] = "RUNNABLE" /\ pc[c] = "scan"
        /\ best_priority[c] \in Int /\ aged_priority(p) \in Int /\ priority[q] \in Int
    BY <1>7, PriorityAssumption
    DEF scan, IInv, TypeOK, aged_priority, ages, Priorities, NoPriority
  <2>2. /\ best_priority'[c] = new_best(c, p)
        /\ priority'[q] = IF q = p THEN aged_priority(p) ELSE priority[q]
        /\ cursor'[c] = IF p + 1 = NPROC THEN 0 ELSE p + 1
        /\ pc'[c] = "select" => p + 1 = NPROC
    BY <1>7, Zenon DEF scan, IInv, TypeOK
  <2>3. new_best(c, p) <= best_priority[c] /\ new_best(c, p) \in Int
    BY <2>1 DEF new_best
  <2>4. CASE q = p
    BY <2>1, <2>2, <2>4 DEF new_best
  <2>5. CASE q < p
    <3>1. best_priority[c] <= priority[q]
      BY <2>1, <2>5, Zenon DEF BestInv
    <3>2. q # p
      BY <2>1, <2>5, NProcAssumption DEF Procs
    <3> QED BY <2>1, <2>2, <2>3, <3>1, <3>2
  <2>6. CASE q > p
    BY <2>1, <2>2, <2>6, NProcAssumption DEF Procs
  <2> QED BY <2>1, <2>4, <2>5, <2>6, NProcAssumption DEF Procs
<1>8. CASE Next
  BY <1>1, <1>4, <1>5, <1>6, <1>7, <1>8, Zenon DEF Next, scheduler
<1> QED BY <1>2, <1>8, Zenon

\* With one CPU the scheduler only ever switches to a RUNNABLE process of the best
\* priority there is, whatever interrupts and system calls do between two rounds.
THEOREM BestFirst ==
  ASSUME NCPU = 1
  PROVE  Spec => BestIsDispatched
<1>1. Init => BestInv
  BY Zenon DEF Init, BestInv
<1>2. IInv /\ BestInv /\ [Next]_vars => BestInv'
  BY NextBest, Zenon
<1>3. ASSUME IInv, BestInv, [Next]_vars, NEW c \in CPUs, Dispatches(c),
             NEW q \in Procs, state[q] = "RUNNABLE"
      PROVE  priority[cproc'[c]] <= priority[q]
  <2>1. \A d \in CPUs : d = c
    BY DEF CPUs
  <2>2. dispatch(c)
    <3>1. cproc'[c] # cproc[c] /\ cproc'[c] # NoProc
      BY <1>3, Zenon DEF Dispatches
    <3>2. Next
      BY <1>3, <3>1, Zenon DEF vars, cpuVars
    <3>3. ~(start_round(c) \/ scan(c) \/ skip(c) \/ wfi_returns(c) \/ kfork_ready(c))
      BY <3>1, Zenon DEF start_round, scan, skip, wfi_returns, kfork_ready, cpuVars
    <3>4. \A p \in Procs : ~(kfork_alloc(c, p) \/ wakeup(c, p) \/ freeproc(c, p))
      BY <3>1, Zenon DEF kfork_alloc, wakeup, freeproc, cpuVars
    <3>5. \A p \in Procs, n \in Priorities : ~ksetpriority(c, p, n)
      BY <3>1, Zenon DEF ksetpriority, cpuVars
    <3>6. ~(yield(c) \/ sleep(c) \/ kexit(c))
      BY <1>3, <3>1, Zenon DEF yield, sleep, kexit, sched, IInv, TypeOK, TableTypeOK
    <3> QED BY <2>1, <3>2, <3>3, <3>4, <3>5, <3>6, Zenon DEF Next, scheduler
  <2>3. /\ pc[c] = "select" /\ cproc'[c] = candidate(c)
        /\ priority[candidate(c)] = best_priority[c]
    BY <1>3, <2>2, Zenon DEF dispatch, selectable, IInv, TypeOK, TableTypeOK
  <2> QED BY <1>3, <2>3, Zenon DEF BestInv
<1>4. IInv /\ BestInv /\ [Next]_vars =>
        [\A c \in CPUs : Dispatches(c) =>
            \A q \in Procs : state[q] = "RUNNABLE" => priority[cproc'[c]] <= priority[q]]_vars
  BY <1>3, Zenon
<1> QED
  BY <1>1, <1>2, <1>4, Invariance, PTL DEF Spec, BestIsDispatched

(***************************************************************************)
(* A stale best_priority overlooks only what changed during the round, on  *)
(* any number of CPUs.                                                     *)
(***************************************************************************)

InRound(c) == pc[c] \in {"scan", "select"}

\* The types of the record, and what it says of a process it has an entry for.
WorstInv ==
    /\ worst \in [CPUs -> [Procs -> Priorities \cup {NoPriority}]]
    /\ \A c \in CPUs, q \in Procs : worst[c][q] # NoPriority =>
        InRound(c) /\ state[q] = "RUNNABLE" /\ priority[q] <= worst[c][q]

RoundInv == IInv /\ WorstInv /\ ScannedInv

\* How worst changes in a round, entry by entry.
LEMMA NewWorst ==
  ASSUME IInv, IInv', WorstInv, RoundNext, NEW c \in CPUs, NEW q \in Procs
  PROVE  /\ worst'[c] = newWorst(c)
         /\ worst'[c][q] \in Priorities \cup {NoPriority}
         /\ worst'[c][q] # NoPriority =>
                InRound(c)' /\ state'[q] = "RUNNABLE" /\ priority'[q] <= worst'[c][q]
         /\ InRound(c) /\ InRound(c)' => worst[c][q] <= worst'[c][q]
<1>1. worst'[c] = newWorst(c)
  BY Zenon DEF RoundNext
<1>2. /\ priority[q] \in Priorities /\ priority'[q] \in Priorities
      /\ worst[c][q] \in Priorities \cup {NoPriority}
      /\ \A n \in Priorities : n < NoPriority /\ n \in Int
      /\ NoPriority \in Int
  BY PriorityAssumption DEF IInv, TypeOK, WorstInv, Priorities, NoPriority
<1>3. CASE pc[c] = "top" /\ pc'[c] = "scan"
  <2>1. start_round(c)
    BY <1>3 DEF RoundNext, Next, scheduler, start_round, scan, dispatch, skip, selectable,
        wfi_returns, yield, sleep, kexit, sched, kfork_alloc, kfork_ready, wakeup,
        freeproc, ksetpriority, cpuVars, IInv, TypeOK
  <2>2. newWorst(c)[q] = IF state[q] = "RUNNABLE" THEN priority[q] ELSE NoPriority
    BY <1>3, Zenon DEF newWorst
  <2> QED
    BY <1>1, <1>2, <1>3, <2>1, <2>2 DEF start_round, procVars, InRound
<1>4. CASE pc'[c] \in {"scan", "select"} /\ pc[c] # "top"
  <2>1. newWorst(c)[q] = IF state'[q] = "RUNNABLE" THEN worse(worst[c][q], priority'[q])
                                                   ELSE NoPriority
    BY <1>4, Zenon DEF newWorst
  <2> QED
    BY <1>1, <1>2, <1>4, <2>1 DEF worse, InRound
<1>5. CASE ~(pc[c] = "top" /\ pc'[c] = "scan") /\ ~(pc'[c] \in {"scan", "select"} /\ pc[c] # "top")
  <2>1. newWorst(c)[q] = NoPriority
    BY <1>5, Zenon DEF newWorst, NoPromise
  <2> QED
    BY <1>1, <1>2, <1>5, <2>1, Zenon DEF InRound
<1> QED
  BY <1>3, <1>4, <1>5, Zenon

\* What a step does to the round of CPU c: begin it, advance its first scan,
\* or leave best_priority and the set of scanned slots alone.
LEMMA RoundStep ==
  ASSUME IInv, Next, NEW c \in CPUs, InRound(c)'
  PROVE  \/ pc'[c] = "scan" /\ cursor'[c] = 0
         \/ scan(c)
         \/ /\ pc'[c] = pc[c] /\ best_priority'[c] = best_priority[c]
            /\ pc[c] = "scan" => cursor'[c] = cursor[c]
<1> USE DEF IInv, TypeOK, InRound
<1> PICK d \in CPUs :
      \/ scheduler(d) \/ yield(d) \/ sleep(d) \/ kexit(d) \/ kfork_ready(d)
      \/ \E p \in Procs :
          \/ kfork_alloc(d, p) \/ wakeup(d, p) \/ freeproc(d, p)
          \/ \E n \in Priorities : ksetpriority(d, p, n)
  BY Zenon DEF Next
<1>1. CASE start_round(d)
  BY <1>1, Zenon DEF start_round
<1>2. CASE scan(d)
  BY <1>2, Zenon DEF scan
<1>3. CASE dispatch(d)
  BY <1>3, Zenon DEF dispatch
<1>4. CASE skip(d)
  BY <1>4, Zenon DEF skip
<1>5. CASE wfi_returns(d)
  BY <1>5, Zenon DEF wfi_returns
<1>6. CASE yield(d) \/ sleep(d) \/ kexit(d)
  BY <1>6, Zenon DEF yield, sleep, kexit, sched
<1>7. CASE UNCHANGED cpuVars
  BY <1>7, Zenon DEF cpuVars
<1> QED
  BY <1>1, <1>2, <1>3, <1>4, <1>5, <1>6, <1>7, Zenon
  DEF scheduler, kfork_ready, kfork_alloc, wakeup, freeproc, ksetpriority, cpuVars

\* A scanned slot has been taken into account in best_priority.
LEMMA ScannedPreserved ==
  ASSUME RoundInv, RoundNext, IInv' PROVE ScannedInv'
<1> SUFFICES ASSUME NEW c \in CPUs, NEW q \in Procs,
                    pc'[c] = "select" \/ (pc'[c] = "scan" /\ q < cursor'[c])
             PROVE  best_priority'[c] <= worst'[c][q]
  BY Zenon DEF ScannedInv
<1> USE DEF RoundInv
<1>1. Next /\ InRound(c)'
  BY Zenon DEF RoundNext, InRound
<1>2. /\ best_priority[c] \in Int /\ best_priority[c] <= NoPriority
      /\ best_priority'[c] \in Int /\ best_priority'[c] <= NoPriority
      /\ worst[c][q] \in Int /\ worst'[c][q] \in Int
      /\ NoPriority \in Int
  <2>1. /\ best_priority[c] \in Priorities \cup {NoPriority}
        /\ best_priority'[c] \in Priorities \cup {NoPriority}
        /\ worst[c][q] \in Priorities \cup {NoPriority}
    BY Zenon DEF IInv, TypeOK, WorstInv
  <2>2. worst'[c][q] \in Priorities \cup {NoPriority}
    BY NewWorst, Zenon
  <2>3. NoPriority \in Int /\ \A n \in Priorities \cup {NoPriority} : n \in Int /\ n <= NoPriority
    BY PriorityAssumption DEF Priorities, NoPriority
  <2> QED
    BY <2>1, <2>2, <2>3, Zenon
<1>3. CASE pc'[c] = "scan" /\ cursor'[c] = 0
  BY <1>3, NProcAssumption DEF Procs
<1>4. CASE scan(c)
  <2>1. InRound(c) /\ worst[c][q] <= worst'[c][q]
    BY <1>1, <1>4, NewWorst, Zenon DEF scan, InRound
  <2>2. /\ cursor[c] \in Procs /\ q \in Int /\ cursor[c] \in Int
        /\ aged_priority(cursor[c]) <= priority[cursor[c]]
        /\ aged_priority(cursor[c]) \in Int
    <3>1. cursor[c] \in Procs /\ q \in Int /\ cursor[c] \in Int
      BY NProcAssumption DEF IInv, TypeOK, Procs
    <3>2. priority[cursor[c]] \in Int
      BY <3>1, PriorityAssumption DEF IInv, TypeOK, Priorities
    <3> QED
      BY <3>1, <3>2 DEF aged_priority
  <2>3. best_priority'[c] <= best_priority[c]
    BY <1>2, <1>4, <2>2 DEF scan, new_best, IInv, TypeOK
  <2>4. CASE q < cursor[c]
    BY <1>2, <1>4, <2>1, <2>3, <2>4 DEF ScannedInv, scan
  <2>5. CASE q = cursor[c] /\ worst[c][q] = NoPriority
    BY <1>2, <2>1, <2>5
  <2>6. CASE q = cursor[c] /\ worst[c][q] # NoPriority
    <3>1. state[q] = "RUNNABLE" /\ priority[q] <= worst[c][q] /\ priority[q] \in Int
      BY <2>6, PriorityAssumption DEF WorstInv, IInv, TypeOK, Priorities
    <3>2. best_priority'[c] <= aged_priority(q)
      BY <1>2, <1>4, <2>2, <2>6, <3>1 DEF scan, new_best, IInv, TypeOK
    <3> QED
      BY <1>2, <2>1, <2>2, <2>6, <3>1, <3>2
  <2>7. q <= cursor[c]
    <3>1. CASE cursor[c] + 1 = NPROC
      BY <3>1, <2>2, NProcAssumption DEF Procs
    <3>2. CASE cursor[c] + 1 # NPROC
      BY <1>4, <2>2, <3>2 DEF scan, IInv, TypeOK
    <3> QED
      BY <3>1, <3>2, Zenon
  <2> QED
    BY <2>2, <2>4, <2>5, <2>6, <2>7
<1>5. CASE /\ pc'[c] = pc[c] /\ best_priority'[c] = best_priority[c]
           /\ pc[c] = "scan" => cursor'[c] = cursor[c]
  <2>1. worst[c][q] <= worst'[c][q]
    BY <1>1, <1>5, NewWorst, Zenon DEF InRound
  <2>2. best_priority[c] <= worst[c][q]
    BY <1>5, Zenon DEF ScannedInv
  <2> QED
    BY <1>2, <1>5, <2>1, <2>2
<1> QED
  BY <1>1, <1>3, <1>4, <1>5, RoundStep, Zenon

\* The record and the scans agree throughout.
THEOREM RoundInvariance == RoundSpec => []RoundInv
<1>1. RoundInit => RoundInv
  BY InitIInv, PriorityAssumption
  DEF RoundInit, RoundInv, WorstInv, ScannedInv, NoPromise, Init, NoPriority, Priorities
<1>2. RoundInv /\ [RoundNext]_roundVars => RoundInv'
  <2> SUFFICES ASSUME RoundInv, [RoundNext]_roundVars PROVE RoundInv'
    BY Zenon
  <2>1. IInv'
    BY NextIInv, Zenon DEF RoundInv, RoundNext, roundVars
  <2>2. CASE UNCHANGED roundVars
    BY <2>1, <2>2, Zenon
    DEF RoundInv, WorstInv, ScannedInv, InRound, roundVars, vars, procVars, cpuVars
  <2>3. CASE RoundNext
    <3>1. WorstInv'
      <4>1. worst' = [c \in CPUs |-> newWorst(c)]
        BY <2>3, Zenon DEF RoundNext
      <4>2. \A c \in CPUs : newWorst(c) = [q \in Procs |-> newWorst(c)[q]]
        BY Zenon DEF newWorst, NoPromise
      <4>3. \A c \in CPUs, q \in Procs :
              /\ newWorst(c)[q] \in Priorities \cup {NoPriority}
              /\ worst'[c][q] # NoPriority =>
                   InRound(c)' /\ state'[q] = "RUNNABLE" /\ priority'[q] <= worst'[c][q]
        BY <2>1, <2>3, NewWorst, Zenon DEF RoundInv
      <4>4. \A c \in CPUs : newWorst(c) \in [Procs -> Priorities \cup {NoPriority}]
        BY <4>2, <4>3, Zenon
      <4> QED
        BY <4>1, <4>3, <4>4, Zenon DEF WorstInv
    <3>2. ScannedInv'
      BY <2>1, <2>3, ScannedPreserved, Zenon
    <3> QED
      BY <2>1, <3>1, <3>2, Zenon DEF RoundInv
  <2> QED
    BY <2>2, <2>3, Zenon
<1> QED
  BY <1>1, <1>2, PTL DEF RoundSpec

\* A CPU switches to p only if no process was RUNNABLE with a better priority
\* than p's during all of the CPU's round.
THEOREM DispatchRespectsRound == RoundSpec => NoneBetterAllRound
<1>1. RoundInv /\ [RoundNext]_roundVars =>
        [\A c \in CPUs : Dispatches(c) =>
            \A q \in Procs : priority[cproc'[c]] <= worst[c][q]]_roundVars
  <2> SUFFICES ASSUME RoundInv, RoundNext, NEW c \in CPUs, Dispatches(c), NEW q \in Procs
               PROVE  priority[cproc'[c]] <= worst[c][q]
    BY Zenon
  <2>1. dispatch(c)
    BY DEF Dispatches, RoundInv, RoundNext, IInv, TypeOK, TableTypeOK, Next, scheduler, start_round, scan,
        dispatch, skip, selectable, wfi_returns, yield, sleep, kexit, sched, kfork_alloc, kfork_ready,
        wakeup, freeproc, ksetpriority, cpuVars
  <2>2. cproc'[c] = candidate(c) /\ priority[candidate(c)] = best_priority[c]
    BY <2>1, Zenon DEF dispatch, selectable, RoundInv, IInv, TypeOK, TableTypeOK
  <2> QED
    BY <2>1, <2>2, Zenon DEF dispatch, selectable, RoundInv, ScannedInv
<1> QED
  BY <1>1, RoundInvariance, PTL DEF RoundSpec, NoneBetterAllRound

\* Every process that stayed RUNNABLE and has been passed by the first scan is
\* taken into account in best_priority.
THEOREM ScansAccountForAll == RoundSpec => []ScannedInv
<1>1. RoundInv => ScannedInv
  BY Zenon DEF RoundInv
<1> QED
  BY <1>1, RoundInvariance, PTL

\* A CPU executes wfi only if no process was RUNNABLE during all of its round.
THEOREM IdleRespectsRound == RoundSpec => IdleOnlyIfNoneAllRound
<1>1. RoundInv /\ [RoundNext]_roundVars =>
        [\A c \in CPUs : pc[c] # "wfi" /\ pc'[c] = "wfi" =>
            \A q \in Procs : worst[c][q] = NoPriority]_roundVars
  <2> SUFFICES ASSUME RoundInv, RoundNext, NEW c \in CPUs, pc[c] # "wfi", pc'[c] = "wfi",
                      NEW q \in Procs, worst[c][q] # NoPriority
               PROVE  FALSE
    BY Zenon
  <2>1. scan(c)
    BY DEF RoundInv, RoundNext, IInv, TypeOK, Next, scheduler, start_round, scan,
        dispatch, skip, selectable, wfi_returns, yield, sleep, kexit, sched, kfork_alloc, kfork_ready,
        wakeup, freeproc, ksetpriority, cpuVars
  <2>2. /\ cursor[c] \in Procs /\ cursor[c] + 1 = NPROC
        /\ new_best(c, cursor[c]) = NoPriority
    BY <2>1, Zenon DEF scan, RoundInv, IInv, TypeOK
  <2>3. /\ state[q] = "RUNNABLE" /\ priority[q] \in Priorities
        /\ worst[c][q] \in Priorities
    BY DEF RoundInv, WorstInv, IInv, TypeOK
  <2>4. /\ priority[q] \in Int /\ worst[c][q] \in Int /\ NoPriority \in Int
        /\ priority[q] < NoPriority /\ worst[c][q] < NoPriority
        /\ aged_priority(q) < NoPriority /\ aged_priority(q) \in Int
    BY <2>3, PriorityAssumption DEF Priorities, NoPriority, aged_priority
  <2>5. best_priority[c] \in Int /\ best_priority[c] <= NoPriority
    BY PriorityAssumption DEF RoundInv, IInv, TypeOK, Priorities, NoPriority
  <2>6. CASE q = cursor[c]
    BY <2>2, <2>3, <2>4, <2>5, <2>6 DEF new_best
  <2>7. CASE q # cursor[c]
    <3>1. q < cursor[c]
      BY <2>2, <2>7, NProcAssumption DEF Procs
    <3>2. best_priority[c] < NoPriority
      BY <2>1, <2>4, <2>5, <3>1 DEF scan, RoundInv, ScannedInv
    <3>3. new_best(c, cursor[c]) <= best_priority[c]
      <4>1. priority[cursor[c]] \in Int
        BY <2>2, PriorityAssumption DEF RoundInv, IInv, TypeOK, Priorities
      <4>2. aged_priority(cursor[c]) \in Int
        BY <4>1 DEF aged_priority
      <4> QED
        BY <2>5, <4>2 DEF new_best
    <3> QED
      BY <2>2, <2>4, <2>5, <3>2, <3>3
  <2> QED
    BY <2>6, <2>7, Zenon
<1> QED
  BY <1>1, RoundInvariance, PTL DEF RoundSpec, IdleOnlyIfNoneAllRound

==============================================================================
