----------------------------- MODULE LogTheorems -----------------------------
(***************************************************************************)
(* The theorems about the log, for any number of processes and blocks and  *)
(* any size of the log, and the proofs that count: the operations inside,  *)
(* and the space they have reserved.                                       *)
(***************************************************************************)
EXTENDS LogSyncProofs, FiniteSetTheorems

LEMMA OpCountHolds == OpCount /\ IsFiniteSet(inOp)
<1>1. IsFiniteSet(inOp)
  BY FiniteAssumption, FS_Subset DEF inOp
<1>2. Cardinality(inOp) \in Nat
  BY <1>1, FS_CardinalityType
<1>3. ASSUME NEW p \in Procs \ inOp
      PROVE  Cardinality(inOp \cup {p}) = Cardinality(inOp) + 1
  BY <1>1, <1>2, FS_AddElement, Zenon
<1>4. ASSUME NEW p \in inOp
      PROVE  /\ Cardinality(inOp \ {p}) = Cardinality(inOp) - 1
             /\ Cardinality(inOp) > 0
             /\ Cardinality(inOp) = 1 <=> inOp = {p}
  <2>1. /\ IsFiniteSet(inOp \ {p}) /\ Cardinality(inOp \ {p}) = Cardinality(inOp) - 1
        /\ Cardinality(inOp \ {p}) \in Nat
    BY <1>1, <1>2, FS_RemoveElement, FS_CardinalityType
  <2>2. Cardinality(inOp \ {p}) = 0 <=> inOp \ {p} = {}
    BY <2>1, FS_EmptySet, Zenon
  <2> QED
    BY <1>2, <2>1, <2>2
<1> QED
  BY <1>1, <1>2, <1>3, <1>4, FS_EmptySet DEF OpCount

\* For any number of processes and any sizes, the disk, the log and the cache
\* agree at every stage of end_op(), commit() and recover_from_log(), and no
\* buffer that bget() may recycle holds anything that is not on the disk.
THEOREM LogIsConsistent == Spec => []LogInv
<1>1. Init => LogInv
  BY InitLogInv, OpCountHolds
<1>2. LogInv /\ [Next]_vars => LogInv'
  BY NextLogInv, OpCountHolds
<1> QED
  BY <1>1, <1>2, PTL DEF Spec

(***************************************************************************)
(* The space in the log.                                                   *)
(***************************************************************************)

LEMMA ReserveFinite == IsFiniteSet(reserve) /\ Cardinality(reserve) \in Nat
<1>1. IsFiniteSet(1 .. MAXOPBLOCKS)
  BY FS_Interval, LogAssumption
<1>2. IsFiniteSet(Procs \X (1 .. MAXOPBLOCKS))
  BY <1>1, FS_Product, FiniteAssumption, Zenon
<1> QED
  BY <1>2, FS_Subset, FS_CardinalityType DEF reserve

\* A step that gives up reservations and adds nothing to the log.
LEMMA SpaceShrinks ==
  ASSUME TypeOK, TypeOK', SpaceReserved, ~Recovering, reserve' \subseteq reserve,
         Len(lh') <= Len(lh),
         \A p \in inOp' : p \in inOp /\ lh' = lh /\ wrote'[p] = wrote[p]
  PROVE  SpaceReserved'
<1>1. /\ IsFiniteSet(reserve') /\ Cardinality(reserve') <= Cardinality(reserve)
      /\ Cardinality(reserve) \in Nat /\ Cardinality(reserve') \in Nat
  BY ReserveFinite, FS_Subset, FS_CardinalityType
<1>2. Len(lh) \in Nat /\ Len(lh') \in Nat /\ LOGBLOCKS \in Nat
  BY LogAssumption DEF TypeOK
<1>3. Len(lh') + Cardinality(reserve') <= LOGBLOCKS
  BY <1>1, <1>2 DEF SpaceReserved
<1>4. ASSUME NEW p \in inOp'
      PROVE  wrote'[p] \subseteq blocksOf(lh') /\ Cardinality(wrote'[p]) <= OpBlocks
  BY <1>4 DEF SpaceReserved
<1> QED
  BY <1>3, <1>4 DEF SpaceReserved

LEMMA SpaceAdmit ==
  ASSUME LogInv, SpaceReserved, NEW p \in Procs, begin_admit(p)
  PROVE  SpaceReserved'
<1>1. /\ system = "up" /\ ~(Len(lh) + (outstanding + 1) * MAXOPBLOCKS > LOGBLOCKS)
      /\ pc' = [pc EXCEPT ![p] = "op"] /\ wrote' = [wrote EXCEPT ![p] = {}]
      /\ pc[p] = "begin" /\ pc \in [Procs -> PCs] /\ wrote \in [Procs -> SUBSET Blocks]
      /\ lh' = lh /\ system' = system /\ outstanding = Cardinality(inOp)
  BY DEF begin_admit, mustWait, At, Goto, memory, LogInv, TypeOK
<1>2. inOp' = inOp \cup {p} /\ p \notin inOp
  BY <1>1 DEF inOp
<1>3. IsFiniteSet(inOp \cup {p}) /\ Cardinality(inOp \cup {p}) = outstanding + 1
  BY <1>1, <1>2, OpCountHolds, FS_AddElement DEF OpCount
<1>4. IsFiniteSet(1 .. MAXOPBLOCKS) /\ Cardinality(1 .. MAXOPBLOCKS) = MAXOPBLOCKS
  BY FS_Interval, LogAssumption
<1>5. /\ IsFiniteSet((inOp \cup {p}) \X (1 .. MAXOPBLOCKS))
      /\ Cardinality((inOp \cup {p}) \X (1 .. MAXOPBLOCKS)) = (outstanding + 1) * MAXOPBLOCKS
  <2>1. /\ IsFiniteSet((inOp \cup {p}) \X (1 .. MAXOPBLOCKS))
        /\ Cardinality((inOp \cup {p}) \X (1 .. MAXOPBLOCKS)) =
             Cardinality(inOp \cup {p}) * Cardinality(1 .. MAXOPBLOCKS)
    BY <1>3, <1>4, FS_Product, Zenon
  <2> QED
    BY <1>3, <1>4, <2>1
<1>6. reserve' \subseteq (inOp \cup {p}) \X (1 .. MAXOPBLOCKS)
  BY <1>1 DEF reserve, inOp
<1>7. Cardinality(reserve') <= (outstanding + 1) * MAXOPBLOCKS /\ Cardinality(reserve') \in Nat
  BY <1>5, <1>6, FS_Subset, FS_CardinalityType
<1>8. Len(lh) \in Nat /\ LOGBLOCKS \in Nat /\ (outstanding + 1) * MAXOPBLOCKS \in Nat
  BY <1>5, FS_CardinalityType, LogAssumption DEF LogInv, TypeOK
<1>9. Len(lh') + Cardinality(reserve') <= LOGBLOCKS
  BY <1>1, <1>7, <1>8
<1>10. ASSUME NEW q \in inOp'
       PROVE  wrote'[q] \subseteq blocksOf(lh') /\ Cardinality(wrote'[q]) <= OpBlocks
  BY <1>1, <1>2, FS_EmptySet, LogAssumption DEF SpaceReserved, Recovering, inOp
<1> QED
  BY <1>9, <1>10 DEF SpaceReserved

\* What log_write() can append, the caller had reserved.
LEMMA SpaceWrite ==
  ASSUME LogInv, SpaceReserved, NEW p \in Procs, NEW b \in Blocks, NEW v \in Values,
         log_write(p, b, v)
  PROVE  SpaceReserved' /\ (OpBlocks < MAXOPBLOCKS => system' = "up")
<1>1. /\ system = "up" /\ pc[p] = "op" /\ p \in inOp
      /\ pc \in [Procs -> PCs] /\ wrote \in [Procs -> SUBSET Blocks]
      /\ lh \in Seq(Blocks) /\ Len(lh) \in Nat
      /\ MAXOPBLOCKS \in Nat /\ LOGBLOCKS \in Nat /\ OpBlocks \in Nat /\ OpBlocks <= MAXOPBLOCKS
      /\ outstanding = Cardinality(inOp)
  BY LogAssumption DEF log_write, At, inOp, LogInv, TypeOK
<1>2. /\ Len(lh) + Cardinality(reserve) <= LOGBLOCKS
      /\ wrote[p] \subseteq blocksOf(lh) /\ Cardinality(wrote[p]) <= OpBlocks
      /\ Cardinality(wrote[p] \cup {b}) <= OpBlocks
  BY <1>1 DEF SpaceReserved, Recovering, log_write
<1>3. IsFiniteSet(reserve) /\ Cardinality(reserve) \in Nat
  BY ReserveFinite
<1>4. /\ IsFiniteSet(wrote[p]) /\ Cardinality(wrote[p]) \in Nat
      /\ Cardinality(wrote[p] \cup {b}) =
            IF b \in wrote[p] THEN Cardinality(wrote[p]) ELSE Cardinality(wrote[p]) + 1
  BY <1>1, FiniteAssumption, FS_Subset, FS_CardinalityType, FS_AddElement, Zenon
<1>5. CASE Len(lh) >= LOGBLOCKS \/ outstanding < 1
  <2>1. panic /\ UNCHANGED <<lh, wrote, pc>>
    BY <1>5 DEF log_write, panic, memory
  <2>2. SpaceReserved'
    BY <1>1, <2>1 DEF SpaceReserved, panic, Recovering, reserve, inOp, blocksOf
  <2>3. ~(outstanding < 1)
    <3>1. Cardinality(inOp) \in Nat /\ Cardinality(inOp) > 0
      BY <1>1, OpCountHolds, Zenon DEF OpCount
    <3> QED
      BY <1>1, <3>1
  <2>4. ASSUME OpBlocks < MAXOPBLOCKS PROVE FALSE
    <3>1. <<p, MAXOPBLOCKS>> \in reserve
      BY <1>1, <1>2, <1>4, <2>4 DEF reserve
    <3>2. Cardinality(reserve) # 0
      BY <1>3, <3>1, FS_EmptySet
    <3> QED
      BY <1>1, <1>2, <1>3, <1>5, <2>3, <3>2
  <2> QED
    BY <2>2, <2>4
<1>6. CASE ~(Len(lh) >= LOGBLOCKS \/ outstanding < 1)
  <2>1. /\ lh' = logged(b) /\ wrote' = [wrote EXCEPT ![p] = @ \cup {b}]
        /\ pc' = pc /\ system' = system
    BY <1>6 DEF log_write
  <2>2. /\ blocksOf(lh') = blocksOf(lh) \cup {b}
        /\ Len(lh') = IF b \in blocksOf(lh) THEN Len(lh) ELSE Len(lh) + 1
    BY <1>1, <2>1, AppendBlock DEF logged
  <2>3. ASSUME NEW q \in inOp'
        PROVE  wrote'[q] \subseteq blocksOf(lh') /\ Cardinality(wrote'[q]) <= OpBlocks
    BY <1>1, <1>2, <2>1, <2>2 DEF SpaceReserved, Recovering, inOp
  <2>4. CASE b \in wrote[p]
    <3>1. wrote' = wrote /\ Len(lh') = Len(lh)
      BY <1>1, <1>2, <2>1, <2>2, <2>4
    <3>2. reserve' = reserve
      BY <2>1, <3>1, Zenon DEF reserve
    <3> QED
      BY <1>1, <1>2, <2>1, <2>3, <3>1, <3>2 DEF SpaceReserved
  <2>5. CASE b \notin wrote[p]
    <3> DEFINE r == <<p, Cardinality(wrote[p]) + 1>>
    <3>1. r \in reserve
      BY <1>1, <1>2, <1>4, <2>5 DEF reserve
    <3>2. reserve' \subseteq reserve \ {r}
      <4>1. ASSUME NEW x \in reserve'
            PROVE  x \in reserve /\ x # r
        <5>1. /\ x \in Procs \X (1 .. MAXOPBLOCKS) /\ x = <<x[1], x[2]>> /\ x[2] \in Nat
              /\ pc[x[1]] = "op" /\ x[2] > Cardinality(wrote'[x[1]])
          BY <2>1 DEF reserve
        <5>2. CASE x[1] = p
          <6>1. Cardinality(wrote'[p]) = Cardinality(wrote[p]) + 1
            BY <1>1, <1>4, <2>1, <2>5
          <6>2. x[2] > Cardinality(wrote[p]) + 1
            BY <5>1, <5>2, <6>1
          <6>3. x \in reserve
            BY <1>4, <5>1, <5>2, <6>2 DEF reserve
          <6>4. r[2] = Cardinality(wrote[p]) + 1
            OBVIOUS
          <6> QED
            BY <1>4, <5>1, <6>2, <6>3, <6>4
        <5>3. CASE x[1] # p
          <6>1. wrote'[x[1]] = wrote[x[1]]
            BY <1>1, <2>1, <5>1, <5>3
          <6> QED
            <7>1. x \in reserve
              BY <5>1, <6>1 DEF reserve
            <7>2. r[1] = p
              OBVIOUS
            <7> QED
              BY <5>3, <7>1, <7>2
        <5> QED
          BY <5>2, <5>3
      <4> QED
        BY <4>1
    <3> HIDE DEF r
    <3>3. /\ IsFiniteSet(reserve \ {r}) /\ Cardinality(reserve \ {r}) = Cardinality(reserve) - 1
          /\ Cardinality(reserve') <= Cardinality(reserve \ {r}) /\ Cardinality(reserve') \in Nat
      BY <1>3, <3>1, <3>2, FS_RemoveElement, FS_Subset, FS_CardinalityType
    <3>4. Len(lh') + Cardinality(reserve') <= LOGBLOCKS
      BY <1>1, <1>2, <1>3, <2>2, <3>3
    <3> QED
      BY <1>1, <2>1, <2>3, <3>4, Zenon DEF SpaceReserved
  <2> QED
    BY <2>4, <2>5
<1> QED
  BY <1>5, <1>6

\* Outside an operation, a step of a process reserves nothing.
LEMMA SpaceOther ==
  ASSUME LogInv, LogInv', SpaceReserved, NEW p \in Procs, system = "up",
         NEW l \in PCs \ {"op"}, Goto(p, l),
         \A q \in Procs \ {p} : wrote'[q] = wrote[q],
         lh' = lh \/ (lh' = <<>> /\ pc[p] \in CommitPCs)
  PROVE  SpaceReserved'
<1>1. pc \in [Procs -> PCs] /\ TypeOK /\ TypeOK' /\ ~Recovering
  BY DEF LogInv, TypeOK, Recovering
<1>2. inOp' = inOp \ {p} /\ \A q \in inOp' : wrote'[q] = wrote[q]
  BY <1>1 DEF Goto, inOp
<1>3. reserve' \subseteq reserve
  <2>1. ASSUME NEW x \in reserve'
        PROVE  x \in reserve
    <3>1. x \in Procs \X (1 .. MAXOPBLOCKS) /\ pc'[x[1]] = "op" /\ x[2] > Cardinality(wrote'[x[1]])
      BY DEF reserve
    <3>2. x[1] \in Procs /\ x[1] # p
      BY <1>1, <3>1 DEF Goto
    <3>3. pc[x[1]] = "op" /\ wrote'[x[1]] = wrote[x[1]]
      BY <1>1, <3>1, <3>2 DEF Goto
    <3> QED
      BY <3>1, <3>3 DEF reserve
  <2> QED
    BY <2>1
<1>4. Len(lh') <= Len(lh)
  BY <1>1 DEF TypeOK
<1>5. ASSUME NEW q \in inOp'
      PROVE  q \in inOp /\ lh' = lh /\ wrote'[q] = wrote[q]
  <2>1. q \in inOp /\ q \in Procs /\ pc[q] = "op" /\ wrote'[q] = wrote[q]
    BY <1>2 DEF inOp
  <2>2. pc[p] \notin CommitPCs
    BY <2>1, CommitterAlone
  <2> QED
    BY <2>1, <2>2
<1> QED
  BY <1>1, <1>3, <1>4, <1>5, SpaceShrinks, Zenon

LEMMA NextSpace ==
  ASSUME LogInv, SpaceReserved, [Next]_vars
  PROVE  SpaceReserved' /\ (OpBlocks < MAXOPBLOCKS /\ NoPanic => NoPanic')
<1> USE DEF NoPanic
<1>0. LogInv'
  BY NextLogInv, OpCountHolds
<1>1. CASE UNCHANGED vars
  <2>1. UNCHANGED <<lh, wrote, pc, system>>
    BY <1>1 DEF vars, memory
  <2> QED
    BY <2>1 DEF SpaceReserved, reserve, inOp, Recovering, blocksOf
<1>2. CASE crash \/ read_head \/ recover_install
  BY <1>2 DEF crash, read_head, recover_install, SpaceReserved, Recovering
<1>3. CASE recover_clear
  <2>1. lh' = <<>> /\ system' = "up" /\ \A p \in Procs : pc'[p] = "user"
    BY <1>3, Zenon DEF recover_clear, LogInv, CommitInv, Recovering
  <2>2. inOp' = {} /\ reserve' = {}
    BY <2>1 DEF inOp, reserve
  <2> QED
    BY <2>1, <2>2, FS_EmptySet, LogAssumption DEF SpaceReserved
<1>4. ASSUME NEW b \in Blocks, recycle(b)
      PROVE  SpaceReserved' /\ NoPanic'
  <2>1. UNCHANGED <<lh, wrote, pc, system>> /\ system = "up"
    BY <1>4 DEF recycle
  <2> QED
    BY <2>1 DEF SpaceReserved, reserve, inOp, Recovering, blocksOf
<1>5. ASSUME NEW p \in Procs,
             begin_op(p) \/ sys_sync(p) \/ kkill(p) \/ begin_wait(p) \/ sleep(p)
               \/ sync_again(p) \/ sync_return(p)
      PROVE  SpaceReserved' /\ NoPanic'
  <2>1. /\ system = "up" /\ UNCHANGED <<lh, wrote, system>> /\ pc[p] # "op"
    BY <1>5 DEF begin_op, sys_sync, kkill, begin_wait, sleep, sync_again, sync_return, At, memory
  <2>2. \E l \in PCs \ {"op"} : Goto(p, l)
    BY <1>5 DEF begin_op, sys_sync, kkill, begin_wait, sleep, sync_again, sync_return, PCs
  <2> QED
    BY <1>0, <2>1, <2>2, SpaceOther
<1>6. ASSUME NEW p \in Procs,
             commit(p) \/ write_log(p) \/ write_head(p) \/ install_trans(p) \/ clear(p) \/ finish(p)
      PROVE  SpaceReserved' /\ NoPanic'
  <2>1. /\ system = "up" /\ UNCHANGED <<wrote, system>> /\ pc[p] # "op"
        /\ pc[p] \in CommitPCs /\ (lh' = lh \/ lh' = <<>>)
    BY <1>6 DEF commit, write_log, write_head, install_trans, clear, finish, At, memory, CommitPCs
  <2>2. \E l \in PCs \ {"op"} : Goto(p, l)
    BY <1>6 DEF commit, write_log, write_head, install_trans, clear, finish, advance, PCs
  <2> QED
    BY <1>0, <2>1, <2>2, SpaceOther
<1>7. ASSUME NEW p \in Procs, end_op(p)
      PROVE  SpaceReserved' /\ NoPanic'
  <2>1. system = "up" /\ pc[p] = "op"
    BY <1>7 DEF end_op, At
  <2>2. ~committing
    BY <2>1 DEF LogInv, CommitInv
  <2>3. /\ UNCHANGED <<lh, system>> /\ wrote' = [wrote EXCEPT ![p] = {}]
        /\ \E l \in PCs \ {"op"} : Goto(p, l)
    BY <1>7, <2>2 DEF end_op, memory, PCs
  <2>4. \A q \in Procs \ {p} : wrote'[q] = wrote[q]
    BY <2>3 DEF LogInv, TypeOK
  <2> QED
    BY <1>0, <2>1, <2>2, <2>3, <2>4, SpaceOther
<1>8. ASSUME NEW p \in Procs, begin_admit(p)
      PROVE  SpaceReserved' /\ NoPanic'
  BY <1>8, SpaceAdmit, Zenon DEF begin_admit, At
<1>9. ASSUME NEW p \in Procs, NEW b \in Blocks, NEW v \in Values, log_write(p, b, v)
      PROVE  SpaceReserved' /\ (OpBlocks < MAXOPBLOCKS => NoPanic')
  BY <1>9, SpaceWrite
<1> QED
  BY <1>1, <1>2, <1>3, <1>4, <1>5, <1>6, <1>7, <1>8, <1>9 DEF Next, continues, recover_from_log

LEMMA InitSpace == Init => SpaceReserved /\ NoPanic
<1> SUFFICES ASSUME Init PROVE SpaceReserved /\ NoPanic
  OBVIOUS
<1>1. lh = <<>> /\ system = "up" /\ \A p \in Procs : pc[p] = "user"
  BY DEF Init
<1>2. inOp = {} /\ reserve = {}
  BY <1>1 DEF inOp, reserve
<1> QED
  BY <1>1, <1>2, FS_EmptySet, LogAssumption DEF SpaceReserved, NoPanic

\* Whatever the sizes, the log has room for all that the operations inside may
\* still write: what begin_op() checks is enough.
THEOREM SpaceIsReserved == Spec => []SpaceReserved
<1>1. Init => SpaceReserved
  BY InitSpace
<1>2. LogInv /\ SpaceReserved /\ [Next]_vars => SpaceReserved'
  BY NextSpace
<1> QED
  BY <1>1, <1>2, LogIsConsistent, PTL DEF Spec

\* If every operation writes fewer blocks than MAXOPBLOCKS, none of the three
\* panics of log.c happens.
THEOREM LogNeverPanics ==
  ASSUME OpBlocks < MAXOPBLOCKS
  PROVE  Spec => []NoPanic
<1>1. Init => NoPanic
  BY InitSpace
<1>2. LogInv /\ SpaceReserved /\ NoPanic /\ [Next]_vars => NoPanic'
  BY NextSpace
<1> QED
  BY <1>1, <1>2, LogIsConsistent, SpaceIsReserved, PTL DEF Spec

(***************************************************************************)
(* The refinement of the atomic disk.                                      *)
(***************************************************************************)
LEMMA LogInvUnderSync == SyncSpec => []LogInv
<1>1. SyncInit => LogInv
  BY InitLogInv, OpCountHolds DEF SyncInit
<1>2. LogInv /\ [SyncNext]_syncVars => LogInv'
  BY NextLogInv, OpCountHolds DEF SyncNext, syncVars
<1> QED
  BY <1>1, <1>2, PTL DEF SyncSpec

\* What sys_sync() relies on, for any number of processes: while a commit is
\* owed to a caller it is still behind log.ncommit.
THEOREM SyncIsOwed == SyncSpec => []SyncInv
<1>1. SyncInit => SyncInv
  BY SyncInitial
<1>2. LogInv /\ LogInv' /\ SyncInv /\ [SyncNext]_syncVars => SyncInv'
  BY SyncStep
<1> QED
  BY <1>1, <1>2, LogInvUnderSync, PTL DEF SyncSpec

\* For any number of processes, blocks and values and any size of the log, the
\* log implements the atomic disk: a crash at any moment takes the disk back to
\* the last commit, which has all of each operation or none, and sync() returns
\* only after the commit of all that had ended.
THEOREM LogImplementsAtomicDisk == SyncSpec => ImplementsAtomicDisk
<1>1. SyncInit => Atomic!DiskInit
  BY SyncInitial
<1>2. LogInv /\ LogInv' /\ SyncInv /\ [SyncNext]_syncVars => [Atomic!DiskNext]_(Atomic!diskVars)
  BY SyncStep
<1> QED
  BY <1>1, <1>2, LogInvUnderSync, SyncIsOwed, PTL
  DEF SyncSpec, ImplementsAtomicDisk, Atomic!DiskSpec

==============================================================================
