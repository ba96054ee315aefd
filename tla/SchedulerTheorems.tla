-------------------------- MODULE SchedulerTheorems --------------------------
(***************************************************************************)
(* Bounded waiting, for any number of slots, CPUs and priorities and any    *)
(* aging interval: a count of the rounds that SchedulerProofs shows each    *)
(* CPU to have left.                                                       *)
(***************************************************************************)
EXTENDS SchedulerProofs, FiniteSets, FiniteSetTheorems

\* Of the NPROC rounds that each CPU has, those that are gone.
gone(p) == {x \in CPUs \X (1 .. NPROC) : x[2] > left(x[1], p)}

\* Each round of waiting at PRIORITY_MIN is one of those.
WaitInv ==
    \A p \in Procs :
        state[p] = "RUNNABLE" /\ priority[p] = PRIORITY_MIN => wait_ticks[p] <= Cardinality(gone(p))

\* The rounds are finitely many, NPROC for each CPU.
LEMMA RoundsFinite ==
  ASSUME NEW S \in SUBSET (CPUs \X (1 .. NPROC))
  PROVE  IsFiniteSet(S) /\ Cardinality(S) \in Nat /\ Cardinality(S) <= NCPU * NPROC
<1>1. IsFiniteSet(CPUs) /\ Cardinality(CPUs) = NCPU
  <2>1. IsFiniteSet(0 .. NCPU - 1)
        /\ Cardinality(0 .. NCPU - 1) = IF 0 > NCPU - 1 THEN 0 ELSE NCPU - 1 - 0 + 1
    BY NCpuAssumption, FS_Interval
  <2> QED BY <2>1, NCpuAssumption DEF CPUs
<1>2. IsFiniteSet(1 .. NPROC) /\ Cardinality(1 .. NPROC) = NPROC
  <2>1. IsFiniteSet(1 .. NPROC)
        /\ Cardinality(1 .. NPROC) = IF 1 > NPROC THEN 0 ELSE NPROC - 1 + 1
    BY NProcAssumption, FS_Interval
  <2> QED BY <2>1, NProcAssumption
<1>3. /\ IsFiniteSet(CPUs \X (1 .. NPROC))
      /\ Cardinality(CPUs \X (1 .. NPROC)) = NCPU * NPROC
  BY <1>1, <1>2, FS_Product, Zenon
<1>4. IsFiniteSet(S) /\ Cardinality(S) <= Cardinality(CPUs \X (1 .. NPROC))
  BY <1>3, FS_Subset, Zenon
<1> QED BY <1>3, <1>4, FS_CardinalityType, Zenon

\* Those that are gone stay so while no CPU gets more of them.
LEMMA GoneGrows ==
  ASSUME LeftOK, LeftOK', NEW p \in Procs, \A c \in CPUs : left(c, p)' <= left(c, p)
  PROVE  gone(p) \subseteq gone(p)' /\ Cardinality(gone(p)) <= Cardinality(gone(p)')
<1>1. ASSUME NEW x \in gone(p) PROVE x \in gone(p)'
  <2>1. x \in CPUs \X (1 .. NPROC) /\ x[2] > left(x[1], p)
    BY Zenon DEF gone
  <2>2. x[1] \in CPUs /\ x[2] \in 1 .. NPROC
    BY <2>1, Zenon
  <2>3. left(x[1], p) \in 0 .. NPROC /\ left(x[1], p)' \in 0 .. NPROC
    BY <2>2, Zenon DEF LeftOK
  <2>4. left(x[1], p)' <= left(x[1], p)
    BY <2>2, Zenon
  <2>5. x[2] > left(x[1], p)'
    BY <2>1, <2>2, <2>3, <2>4, NProcAssumption
  <2> QED BY <2>1, <2>5, Zenon DEF gone
<1>2. gone(p) \subseteq gone(p)'
  BY <1>1, Zenon
<1>3. gone(p)' \in SUBSET (CPUs \X (1 .. NPROC))
  BY Zenon DEF gone
<1>4. IsFiniteSet(gone(p)')
  BY <1>3, RoundsFinite, Zenon
<1> QED BY <1>2, <1>4, FS_Subset, Zenon

\* One more is gone if one CPU has fewer left.
LEMMA OneGone ==
  ASSUME LeftOK, LeftOK', NEW p \in Procs, \A c \in CPUs : left(c, p)' <= left(c, p),
         NEW d \in CPUs, left(d, p)' < left(d, p)
  PROVE  Cardinality(gone(p)) + 1 <= Cardinality(gone(p)')
<1> PICK x : x = <<d, left(d, p)>>
  BY Zenon
<1>1. left(d, p) \in 0 .. NPROC /\ left(d, p)' \in 0 .. NPROC
  BY Zenon DEF LeftOK
<1>2. left(d, p) \in 1 .. NPROC
  BY <1>1, NProcAssumption
<1>3. x \in gone(p)'
  BY <1>2, Zenon DEF gone
<1>4. x \notin gone(p)
  BY <1>1 DEF gone
<1>5. gone(p) \cup {x} \subseteq gone(p)'
  BY <1>3, GoneGrows, Zenon
<1>6. /\ gone(p) \in SUBSET (CPUs \X (1 .. NPROC))
      /\ gone(p)' \in SUBSET (CPUs \X (1 .. NPROC))
  BY Zenon DEF gone
<1>7. IsFiniteSet(gone(p)) /\ IsFiniteSet(gone(p)')
  BY <1>6, RoundsFinite, Zenon
<1>8. Cardinality(gone(p) \cup {x}) = Cardinality(gone(p)) + 1
  BY <1>4, <1>7, FS_AddElement, Zenon
<1>9. Cardinality(gone(p) \cup {x}) <= Cardinality(gone(p)')
  BY <1>5, <1>7, FS_Subset, Zenon
<1> QED BY <1>8, <1>9, Zenon

\* A process that was waiting at PRIORITY_MIN, and is, has waited no longer.
LEMMA StillWaiting ==
  ASSUME IInv, LeftOK, LeftOK', WaitInv, NEW p \in Procs,
         state[p] = "RUNNABLE", priority[p] = PRIORITY_MIN, wait_ticks'[p] = wait_ticks[p],
         \A d \in CPUs : left(d, p)' <= left(d, p)
  PROVE  wait_ticks'[p] <= Cardinality(gone(p)')
<1>1. wait_ticks[p] <= Cardinality(gone(p)) /\ wait_ticks[p] \in Nat
  BY Zenon DEF WaitInv, IInv, TypeOK
<1>2. gone(p) \in SUBSET (CPUs \X (1 .. NPROC)) /\ gone(p)' \in SUBSET (CPUs \X (1 .. NPROC))
  BY Zenon DEF gone
<1>3. Cardinality(gone(p)) \in Nat /\ Cardinality(gone(p)') \in Nat
  BY <1>2, RoundsFinite, Zenon
<1>4. Cardinality(gone(p)) <= Cardinality(gone(p)')
  BY GoneGrows, Zenon
<1> QED BY <1>1, <1>3, <1>4

\* One that starts to wait has waited no round.
LEMMA StartsWaiting ==
  ASSUME NEW p \in Procs, wait_ticks'[p] = 0
  PROVE  wait_ticks'[p] <= Cardinality(gone(p)')
<1>1. gone(p)' \in SUBSET (CPUs \X (1 .. NPROC))
  BY Zenon DEF gone
<1>2. Cardinality(gone(p)') \in Nat
  BY <1>1, RoundsFinite, Zenon
<1> QED BY <1>2

\* The first scan counts a round for the process it is at.
LEMMA ScanWait ==
  ASSUME IInv, LeftOK, LeftOK', WaitInv, NEW c \in CPUs, scan(c), NEW p \in Procs,
         state'[p] = "RUNNABLE", priority'[p] = PRIORITY_MIN
  PROVE  wait_ticks'[p] <= Cardinality(gone(p)')
<1>1. state[p] = "RUNNABLE"
  BY Zenon DEF scan
<1>2. ASSUME NEW d \in CPUs, d # c PROVE left(d, p)' = left(d, p)
  BY <1>2, LeftSame, Zenon DEF scan, IInv, TypeOK, TableTypeOK
<1>3. \A d \in CPUs : left(d, p) \in 0 .. NPROC
  BY Zenon DEF LeftOK
<1>4. priority[p] = PRIORITY_MIN => \A d \in CPUs : left(d, p)' <= left(d, p)
  BY <1>1, <1>2, <1>3, ScanLeft
<1>5. CASE cursor[c] # p
  <2>1. priority[p] = PRIORITY_MIN /\ wait_ticks'[p] = wait_ticks[p]
    BY <1>5, Zenon DEF scan, IInv, TypeOK
  <2> QED BY <1>1, <1>4, <2>1, StillWaiting, Zenon
<1>6. CASE cursor[c] = p /\ priority[p] = PRIORITY_MIN
  <2>1. left(c, p)' < left(c, p)
    BY <1>1, <1>6, ScanLeft, Zenon
  <2>2. Cardinality(gone(p)) + 1 <= Cardinality(gone(p)')
    BY <1>4, <1>6, <2>1, OneGone, Zenon
  <2>3. wait_ticks'[p] = wait_ticks[p] + 1
    BY <1>1, <1>6, PriorityAssumption DEF scan, IInv, TypeOK, aged_wait, ages
  <2>4. wait_ticks[p] <= Cardinality(gone(p)) /\ wait_ticks[p] \in Nat
    BY <1>1, <1>6, Zenon DEF WaitInv, IInv, TypeOK
  <2>5. gone(p) \in SUBSET (CPUs \X (1 .. NPROC)) /\ gone(p)' \in SUBSET (CPUs \X (1 .. NPROC))
    BY Zenon DEF gone
  <2>6. Cardinality(gone(p)) \in Nat /\ Cardinality(gone(p)') \in Nat
    BY <2>5, RoundsFinite, Zenon
  <2> QED BY <2>2, <2>3, <2>4, <2>6
<1>7. CASE cursor[c] = p /\ priority[p] # PRIORITY_MIN
  <2>1. wait_ticks'[p] = 1
    BY <1>1, <1>7 DEF scan, IInv, TypeOK, aged_wait, aged_priority
  <2>2. left(c, p)' < NPROC
    BY <1>1, <1>7, ScanLeft, Zenon
  <2>3. <<c, NPROC>> \in gone(p)'
    BY <2>2, NProcAssumption DEF gone
  <2>4. gone(p)' \in SUBSET (CPUs \X (1 .. NPROC))
    BY Zenon DEF gone
  <2>5. IsFiniteSet(gone(p)') /\ Cardinality(gone(p)') \in Nat
    BY <2>4, RoundsFinite, Zenon
  <2>6. Cardinality(gone(p)') # 0
    BY <2>3, <2>5, FS_EmptySet, Zenon
  <2> QED BY <2>1, <2>5, <2>6
<1> QED BY <1>5, <1>6, <1>7, Zenon

\* Every step keeps the count of the rounds.
LEMMA NextWait == IInv /\ IInv' /\ WaitInv /\ [Next]_vars => WaitInv'
<1> SUFFICES ASSUME IInv, IInv', WaitInv, [Next]_vars, NEW p \in Procs,
                    state'[p] = "RUNNABLE", priority'[p] = PRIORITY_MIN
             PROVE  wait_ticks'[p] <= Cardinality(gone(p)')
  BY Zenon DEF WaitInv
<1>1. LeftOK /\ LeftOK'
  <2>1. LeftOK
    BY LeftType, Zenon
  <2>2. IInv' => LeftOK'
    BY LeftType, PTL
  <2> QED BY <2>1, <2>2, Zenon
<1>2. \A d \in CPUs : left(d, p) \in 0 .. NPROC
  BY <1>1, Zenon DEF LeftOK
<1>3. ASSUME UNCHANGED cpuVars, UNCHANGED <<state[p], priority[p], wait_ticks[p]>>
      PROVE  wait_ticks'[p] <= Cardinality(gone(p)')
  <2>1. \A d \in CPUs : left(d, p)' = left(d, p)
    BY <1>3, LeftSame, Zenon DEF cpuVars
  <2>2. \A d \in CPUs : left(d, p)' <= left(d, p)
    BY <1>2, <2>1
  <2> QED BY <1>1, <1>3, <2>2, StillWaiting, Zenon
<1>4. CASE UNCHANGED vars
  BY <1>3, <1>4, Zenon DEF vars, procVars
<1>5. ASSUME NEW c \in CPUs, start_round(c) \/ dispatch(c) \/ skip(c) \/ wfi_returns(c)
      PROVE  wait_ticks'[p] <= Cardinality(gone(p)')
  <2>1. ASSUME NEW d \in CPUs, d # c PROVE left(d, p)' = left(d, p)
    BY <1>5, <2>1, LeftSame
    DEF start_round, dispatch, skip, wfi_returns, procVars, IInv, TypeOK, TableTypeOK
  <2>2. /\ state[p] = "RUNNABLE" /\ priority[p] = PRIORITY_MIN
        /\ wait_ticks'[p] = wait_ticks[p]
    <3>1. CASE dispatch(c)
      BY <3>1, CandidateInProcs, Zenon DEF dispatch, IInv, TypeOK, TableTypeOK
    <3>2. CASE start_round(c) \/ skip(c) \/ wfi_returns(c)
      BY <3>2, Zenon DEF start_round, skip, wfi_returns, procVars
    <3> QED BY <1>5, <3>1, <3>2, Zenon
  <2>3. left(c, p)' <= left(c, p)
    BY <1>1, <1>5, <2>2, RoundLeft, Zenon
  <2>4. \A d \in CPUs : left(d, p)' <= left(d, p)
    BY <1>2, <2>1, <2>3
  <2> QED BY <1>1, <2>2, <2>4, StillWaiting, Zenon
<1>6. ASSUME NEW c \in CPUs, NEW new, sched(c, new)
      PROVE  wait_ticks'[p] <= Cardinality(gone(p)')
  <2>1. ASSUME NEW d \in CPUs PROVE left(d, p)' = left(d, p)
    <3>1. CASE d = c
      BY <1>6, <3>1, SchedLeft, Zenon
    <3>2. CASE d # c
      BY <1>6, <3>2, LeftSame, Zenon DEF sched, IInv, TypeOK, TableTypeOK
    <3> QED BY <3>1, <3>2, Zenon
  <2>2. \A d \in CPUs : left(d, p)' <= left(d, p)
    BY <1>2, <2>1
  <2>3. priority[p] = PRIORITY_MIN /\ wait_ticks'[p] = wait_ticks[p]
    BY <1>6, Zenon DEF sched
  <2>4. CASE state[p] = "RUNNABLE"
    BY <1>1, <2>2, <2>3, <2>4, StillWaiting, Zenon
  <2>5. CASE state[p] # "RUNNABLE"
    BY <2>3, <2>5, StartsWaiting, Zenon DEF IInv, WaitTicksInv
  <2> QED BY <2>4, <2>5, Zenon
<1>7. ASSUME NEW c \in CPUs, kfork_ready(c) \/ \E q \in Procs : wakeup(c, q)
      PROVE  wait_ticks'[p] <= Cardinality(gone(p)')
  <2>1. UNCHANGED cpuVars /\ priority' = priority /\ wait_ticks' = wait_ticks
    BY <1>7, Zenon DEF kfork_ready, wakeup
  <2>2. CASE state[p] = "RUNNABLE"
    BY <1>3, <2>1, <2>2, Zenon
  <2>3. CASE state[p] # "RUNNABLE"
    BY <2>1, <2>3, StartsWaiting, Zenon DEF IInv, WaitTicksInv
  <2> QED BY <2>2, <2>3, Zenon
<1>8. ASSUME NEW c \in CPUs, NEW q \in Procs,
             \/ kfork_alloc(c, q) \/ freeproc(c, q)
             \/ \E n \in Priorities : ksetpriority(c, q, n)
      PROVE  wait_ticks'[p] <= Cardinality(gone(p)')
  <2>1. UNCHANGED cpuVars
    BY <1>8, Zenon DEF kfork_alloc, freeproc, ksetpriority
  <2>2. CASE p = q
    <3>1. wait_ticks'[p] = 0
      BY <1>8, <2>2, Zenon DEF kfork_alloc, freeproc, ksetpriority, IInv, TypeOK
    <3> QED BY <3>1, StartsWaiting, Zenon
  <2>3. CASE p # q
    <3>1. UNCHANGED <<state[p], priority[p], wait_ticks[p]>>
      BY <1>8, <2>3 DEF kfork_alloc, freeproc, ksetpriority, IInv, TypeOK, TableTypeOK
    <3> QED BY <1>3, <2>1, <3>1, Zenon
  <2> QED BY <2>2, <2>3, Zenon
<1>9. ASSUME NEW c \in CPUs, scan(c) PROVE wait_ticks'[p] <= Cardinality(gone(p)')
  BY <1>1, <1>9, ScanWait, Zenon
<1> QED
  BY <1>4, <1>5, <1>6, <1>7, <1>8, <1>9, Zenon DEF Next, scheduler, yield, sleep, kexit

\* A process that has waited longer than the aging interval is at PRIORITY_MIN, and
\* each CPU has passed it by at most NPROC times: wait_ticks is bounded on any number
\* of CPUs, with every priority and aging interval.
THEOREM WaitingBounded == Spec => []BoundedWaiting
<1>1. Init => WaitInv
  <2> SUFFICES ASSUME Init, NEW p \in Procs PROVE wait_ticks[p] <= Cardinality(gone(p))
    BY Zenon DEF WaitInv
  <2>1. gone(p) \in SUBSET (CPUs \X (1 .. NPROC))
    BY Zenon DEF gone
  <2>2. Cardinality(gone(p)) \in Nat
    BY <2>1, RoundsFinite, Zenon
  <2> QED BY <2>2 DEF Init
<1>2. IInv /\ WaitInv => BoundedWaiting
  <2> SUFFICES ASSUME IInv, WaitInv, NEW p \in Procs
               PROVE  \/ wait_ticks[p] <= AGING_INTERVAL
                      \/ priority[p] = PRIORITY_MIN /\ wait_ticks[p] <= NCPU * NPROC
    BY Zenon DEF BoundedWaiting
  <2>1. wait_ticks[p] \in Nat /\ priority[p] \in Priorities
    BY Zenon DEF IInv, TypeOK
  <2>2. CASE priority[p] # PRIORITY_MIN
    BY <2>1, <2>2, PriorityAssumption DEF IInv, WaitTicksInv, Priorities
  <2>3. CASE state[p] # "RUNNABLE"
    BY <2>3, AgingAssumption DEF IInv, WaitTicksInv
  <2>4. CASE state[p] = "RUNNABLE" /\ priority[p] = PRIORITY_MIN
    <3>1. gone(p) \in SUBSET (CPUs \X (1 .. NPROC))
      BY Zenon DEF gone
    <3>2. PICK m : m = NCPU * NPROC
      BY Zenon
    <3>3. m \in Nat
      BY <3>2, NCpuAssumption, NProcAssumption
    <3>4. Cardinality(gone(p)) \in Nat /\ Cardinality(gone(p)) <= m
      BY <3>1, <3>2, RoundsFinite, Zenon
    <3>5. wait_ticks[p] <= Cardinality(gone(p))
      BY <2>4, Zenon DEF WaitInv
    <3>6. wait_ticks[p] <= m
      BY <2>1, <3>3, <3>4, <3>5
    <3> QED BY <2>4, <3>2, <3>6, Zenon
  <2> QED BY <2>2, <2>3, <2>4, Zenon
<1> QED
  BY <1>1, <1>2, Invariance, NextIInv, NextWait, PTL DEF Spec

==============================================================================
