---------------------------- MODULE LogSyncProofs ----------------------------
(***************************************************************************)
(* Each step of the log, with what sync() is owed, is a step of the atomic *)
(* disk or none.                                                           *)
(***************************************************************************)
EXTENDS LogSync, LogProofs

(***************************************************************************)
(* The history variables.                                                  *)
(***************************************************************************)

\* Which steps the history variables record, told by where processes are.
LEMMA RecordedSteps ==
  ASSUME LogInv, NEW p \in Procs
  PROVE  /\ commits(p) => system = "up" /\ pc[p] \in {"commit", "write_head"}
                          /\ pc'[p] \in {"finish", "install"}
         /\ end_op(p) => system = "up" /\ pc[p] = "op" /\ pc'[p] \in {"commit", "user"}
         /\ sys_sync(p) => system = "up" /\ pc[p] = "user" /\ pc'[p] \in {"sync_sleep", "synced"}
         /\ sync_return(p) => system = "up" /\ pc[p] = "synced" /\ pc'[p] = "user"
<1>1. pc \in [Procs -> PCs]
  BY DEF LogInv, TypeOK
<1>2. end_op(p) => ~committing
  BY DEF end_op, At, LogInv, CommitInv
<1> QED
  BY <1>1, <1>2 DEF commits, write_head, commit, end_op, sys_sync, sync_return, At, Goto

\* A step that is none of those leaves them alone.
LEMMA Unrecorded ==
  ASSUME LogInv, SyncInv, SyncNext, ~Recovering',
         \A q \in Procs : ~commits(q) /\ ~end_op(q) /\ ~sys_sync(q) /\ ~sync_return(q)
  PROVE  ended' = ended /\ syncing' = syncing
<1>1. ended' = ended
  BY Zenon DEF SyncNext, newEnded, SyncInv
<1>2. syncing' = [p \in Procs |-> syncing[p]]
  BY DEF SyncNext, newSyncing
<1> QED
  BY <1>1, <1>2 DEF SyncInv

\* Nor does a step in which no process moves.
LEMMA UnrecordedStill ==
  ASSUME LogInv, SyncInv, SyncNext, ~Recovering', pc' = pc
  PROVE  ended' = ended /\ syncing' = syncing
BY RecordedSteps, Unrecorded

\* Nor one in which a process moves otherwise.
LEMMA UnrecordedMove ==
  ASSUME LogInv, SyncInv, SyncNext, ~Recovering', NEW p \in Procs, NEW l \in PCs, Goto(p, l),
         ~commits(p) /\ ~end_op(p) /\ ~sys_sync(p) /\ ~sync_return(p)
  PROVE  ended' = ended /\ syncing' = syncing
<1>1. \A q \in Procs \ {p} : pc'[q] = pc[q]
  BY DEF Goto, LogInv, TypeOK
<1> QED
  BY <1>1, RecordedSteps, Unrecorded

(***************************************************************************)
(* What recovery would make of the disk.                                   *)
(***************************************************************************)

LEMMA RecoveredBlocks ==
  ASSUME LogInv
  PROVE  /\ \A i \in DOMAIN header : recovered[header[i]] = logdata[i]
         /\ \A b \in Blocks \ blocksOf(header) : recovered[b] = home[b]
         /\ \A i \in DOMAIN header : header[i] \in Blocks
<1>1. \A i \in DOMAIN header : header[i] \in Blocks /\ header[i] \in blocksOf(header)
  BY DEF LogInv, TypeOK, blocksOf
<1>2. ASSUME NEW i \in DOMAIN header
      PROVE  (CHOOSE j \in DOMAIN header : header[j] = header[i]) = i
  BY DEF LogInv, NoDuplicates
<1> QED
  BY <1>1, <1>2 DEF recovered

\* With an empty header, the disk is as it is.
LEMMA RecoveredEmpty == header = <<>> /\ home \in [Blocks -> Values] => recovered = home
BY DEF recovered, blocksOf

\* If all that the header names is at home, the header could as well be empty.
LEMMA RecoveredInstalled ==
  ASSUME LogInv, header = lh, inLog(Len(lh), home)
  PROVE  recovered = home
<1>1. \A b \in Blocks : recovered[b] = home[b]
  <2>1. ASSUME NEW i \in DOMAIN header
        PROVE  recovered[header[i]] = home[header[i]]
    BY RecoveredBlocks DEF inLog, LogInv, TypeOK
  <2> QED
    BY <2>1, RecoveredBlocks DEF blocksOf
<1>2. recovered = [b \in Blocks |-> recovered[b]] /\ home = [b \in Blocks |-> home[b]]
  BY DEF recovered, LogInv, TypeOK
<1> QED
  BY <1>1, <1>2

(***************************************************************************)
(* Each step preserves SyncInv and is a step of the atomic disk or none.   *)
(***************************************************************************)
LEMMA Hidden ==
  ASSUME recovered' = recovered, inOp' = inOp, ended' = ended, syncing' = syncing,
         (Recovering /\ Recovering') \/ (~Recovering /\ ~Recovering' /\ cache' = cache)
  PROVE  UNCHANGED Atomic!diskVars
BY DEF Atomic!diskVars

LEMMA SameDisk == UNCHANGED <<home, logdata, header>> => recovered' = recovered
BY DEF recovered, blocksOf

\* The processes and the stages that SyncInv is about.
InSync == {"sync", "sync_sleep", "synced"}
PastHead == {"install", "clear", "finish"}

\* A move of a process with nothing recorded.
LEMMA SyncInvMove ==
  ASSUME LogInv, SyncInv, NEW p \in Procs, NEW l \in PCs, Goto(p, l),
         system = "up", system' = "up", ended' = ended, syncing' = syncing,
         l \in InSync <=> pc[p] \in InSync,
         l = "synced" => p \notin behind,
         behind' = behind,
         committing' = committing, outstanding' >= outstanding,
         l \in PastHead => pc[p] \in PastHead
  PROVE  SyncInv'
<1>1. /\ pc \in [Procs -> PCs] /\ pc'[p] = l /\ \A q \in Procs \ {p} : pc'[q] = pc[q]
      /\ outstanding \in Nat
  BY DEF Goto, LogInv, TypeOK
<1>2. \A q \in Procs :
        /\ syncing'[q] = "no" <=> pc'[q] \notin {"sync", "sync_sleep", "synced"}
        /\ syncing'[q] = "owed" => pc'[q] # "synced" /\ q \in behind'
  BY <1>1 DEF SyncInv, InSync
<1>3. /\ (~committing /\ outstanding = 0)' => ~committing /\ outstanding = 0
      /\ (\E q \in Procs : pc'[q] \in PastHead) => \E q \in Procs : pc[q] \in PastHead
  <2>1. outstanding' = 0 => outstanding = 0
    BY <1>1
  <2> QED
    BY <1>1, <2>1
<1> QED
  BY <1>2, <1>3 DEF SyncInv, Recovering, PastHead

\* Moves that the atomic disk does not see.
LEMMA QuietMoves ==
  ASSUME LogInv, SyncInv, SyncNext, NEW p \in Procs,
         begin_op(p) \/ begin_wait(p) \/ sleep(p) \/ kkill(p) \/ sync_again(p)
  PROVE  SyncInv' /\ UNCHANGED Atomic!diskVars
<1>1. /\ system = "up" /\ UNCHANGED <<home, logdata, header, cache, lh, outstanding, committing,
                                      behind, system>>
      /\ pc[p] \in {"user", "begin", "begin_sleep", "sync_sleep", "sync"}
  BY DEF begin_op, begin_wait, sleep, kkill, sync_again, At, disk, memory, counters, waits
<1>2. PICK l \in {"begin", "begin_sleep", "sync_sleep", "sync", "synced"} :
        /\ Goto(p, l)
        /\ l \in InSync <=> pc[p] \in InSync
        /\ l = "synced" => p \notin behind
        /\ pc[p] = "user" => l = "begin"
  BY DEF begin_op, begin_wait, sleep, kkill, sync_again, At, InSync
<1>3. l \in PCs /\ pc'[p] = l /\ ~Recovering /\ ~Recovering' /\ inOp' = inOp
  BY <1>1, <1>2 DEF PCs, Goto, LogInv, TypeOK, Recovering, inOp
<1>4. ~commits(p) /\ ~end_op(p) /\ ~sys_sync(p) /\ ~sync_return(p)
  BY <1>1, <1>2, <1>3, RecordedSteps
<1>5. ended' = ended /\ syncing' = syncing
  BY <1>2, <1>3, <1>4, UnrecordedMove
<1>6. outstanding' >= outstanding
  BY <1>1 DEF LogInv, TypeOK
<1>7. SyncInv'
  BY <1>1, <1>2, <1>3, <1>5, <1>6, SyncInvMove DEF PastHead
<1> QED
  BY <1>1, <1>3, <1>5, <1>7, SameDisk, Hidden

LEMMA AdmitIsBegin ==
  ASSUME LogInv, SyncInv, SyncNext, NEW p \in Procs, begin_admit(p)
  PROVE  SyncInv' /\ Atomic!Begin(p)
<1>1. /\ system = "up" /\ pc[p] = "begin" /\ Goto(p, "op") /\ outstanding' = outstanding + 1
      /\ UNCHANGED <<home, logdata, header, cache, committing, behind, system>>
  BY DEF begin_admit, At, disk, memory, waits
<1>2. /\ pc'[p] = "op" /\ ~Recovering /\ ~Recovering' /\ outstanding' >= outstanding
      /\ p \notin inOp /\ inOp' = inOp \cup {p}
  BY <1>1 DEF Goto, LogInv, TypeOK, Recovering, inOp
<1>3. ended' = ended /\ syncing' = syncing
  BY <1>1, <1>2, RecordedSteps, UnrecordedMove DEF PCs
<1>4. SyncInv'
  BY <1>1, <1>2, <1>3, SyncInvMove DEF PastHead, InSync, PCs
<1> QED
  BY <1>1, <1>2, <1>3, <1>4, SameDisk DEF Atomic!Begin

LEMMA WriteIsWrite ==
  ASSUME LogInv, SyncInv, SyncNext, NEW p \in Procs, NEW b \in Blocks, NEW v \in Values,
         log_write(p, b, v)
  PROVE  SyncInv' /\ (Atomic!Write(p, b, v) \/ UNCHANGED Atomic!diskVars)
<1>1. /\ system = "up" /\ pc[p] = "op"
      /\ UNCHANGED <<home, logdata, header, outstanding, committing, behind, pc>>
      /\ \/ cache' = [cache EXCEPT ![b] = v] /\ system' = system
         \/ cache' = cache /\ system' = "panic"
  BY DEF log_write, panic, At, disk, memory, counters, waits
<1>2. p \in inOp /\ ~Recovering /\ ~Recovering' /\ inOp' = inOp /\ recovered' = recovered
  BY <1>1, SameDisk DEF Recovering, inOp
<1>3. ended' = ended /\ syncing' = syncing
  BY <1>1, <1>2, UnrecordedStill
<1>4. SyncInv'
  BY <1>1, <1>2, <1>3 DEF SyncInv
<1> QED
  BY <1>1, <1>2, <1>3, <1>4, Hidden DEF Atomic!Write

LEMMA EndIsEnd ==
  ASSUME LogInv, SyncInv, SyncNext, NEW p \in Procs, end_op(p)
  PROVE  SyncInv' /\ Atomic!End(p)
<1>1. system = "up" /\ pc[p] = "op" /\ ~committing
  BY DEF end_op, At, LogInv, CommitInv
<1>2. /\ outstanding' = outstanding - 1 /\ committing' = (outstanding = 1)
      /\ Goto(p, IF outstanding = 1 THEN "commit" ELSE "user")
      /\ UNCHANGED <<home, logdata, header, cache, behind, system>>
  BY <1>1 DEF end_op, disk, memory
<1>3. /\ pc'[p] \in {"commit", "user"} /\ \A q \in Procs \ {p} : pc'[q] = pc[q]
      /\ ~Recovering /\ ~Recovering' /\ p \in inOp /\ inOp' = inOp \ {p}
  BY <1>1, <1>2 DEF Goto, LogInv, TypeOK, Recovering, inOp
<1>4. outstanding \in Nat /\ (outstanding' = 0 => committing')
  <2>1. outstanding = 1 => committing'
    BY <1>2, Zenon
  <2> QED
    BY <1>2, <2>1 DEF LogInv, TypeOK
<1>5. \A q \in Procs : ~commits(q) /\ ~sys_sync(q) /\ ~sync_return(q)
  BY <1>1, <1>3, RecordedSteps
<1>6. ended' = TRUE /\ syncing' = syncing
  BY <1>3, <1>5 DEF SyncNext, newEnded, newSyncing, SyncInv
<1>7. \A q \in Procs : pc'[q] \notin {"install", "clear", "finish"}
  BY <1>1, <1>3 DEF LogInv, CommitInv, CommitPCs
<1>8. SyncInv'
  BY <1>1, <1>2, <1>3, <1>4, <1>6, <1>7 DEF SyncInv
<1> QED
  BY <1>2, <1>3, <1>6, <1>8, SameDisk DEF Atomic!End

LEMMA SyncIsSync ==
  ASSUME LogInv, SyncInv, SyncNext, NEW p \in Procs
  PROVE  /\ sys_sync(p) => SyncInv' /\ Atomic!SyncCall(p)
         /\ sync_return(p) => SyncInv' /\ Atomic!SyncReturn(p)
<1>1. ASSUME sys_sync(p) PROVE SyncInv' /\ Atomic!SyncCall(p)
  <2>1. /\ system = "up" /\ pc[p] = "user"
        /\ behind' = IF syncMustWait THEN behind \cup {p} ELSE behind
        /\ Goto(p, IF syncMustWait THEN "sync_sleep" ELSE "synced")
        /\ UNCHANGED <<home, logdata, header, cache, outstanding, committing, system>>
    BY <1>1 DEF sys_sync, At, disk, memory, counters
  <2>2. /\ pc'[p] = IF syncMustWait THEN "sync_sleep" ELSE "synced"
        /\ \A q \in Procs \ {p} : pc'[q] = pc[q]
        /\ ~Recovering /\ ~Recovering' /\ inOp' = inOp
    BY <2>1 DEF Goto, LogInv, TypeOK, Recovering, inOp
  <2>3. \A q \in Procs : ~commits(q) /\ ~end_op(q) /\ ~sync_return(q) /\ (sys_sync(q) => q = p)
    BY <2>1, <2>2, RecordedSteps
  <2>4. ended' = ended /\ syncing' = [syncing EXCEPT ![p] = IF ended THEN "owed" ELSE "free"]
    BY <1>1, <2>2, <2>3, Zenon DEF SyncNext, newEnded, newSyncing, SyncInv
  <2>5. ~syncMustWait => ~ended
    BY <2>1 DEF syncMustWait, SyncInv, LogInv, TypeOK
  <2>6. SyncInv'
    BY <2>1, <2>2, <2>4, <2>5 DEF SyncInv
  <2> QED
    BY <2>1, <2>2, <2>4, <2>6, SameDisk DEF Atomic!SyncCall, SyncInv
<1>2. ASSUME sync_return(p) PROVE SyncInv' /\ Atomic!SyncReturn(p)
  <2>1. /\ system = "up" /\ pc[p] = "synced" /\ Goto(p, "user")
        /\ UNCHANGED <<home, logdata, header, cache, outstanding, committing, behind, system>>
    BY <1>2 DEF sync_return, At, disk, memory, counters, waits
  <2>2. /\ pc'[p] = "user" /\ \A q \in Procs \ {p} : pc'[q] = pc[q]
        /\ ~Recovering /\ ~Recovering' /\ inOp' = inOp
    BY <2>1 DEF Goto, LogInv, TypeOK, Recovering, inOp
  <2>3. \A q \in Procs : ~commits(q) /\ ~end_op(q) /\ ~sys_sync(q) /\ (sync_return(q) => q = p)
    BY <2>1, <2>2, RecordedSteps
  <2>4. ended' = ended /\ syncing' = [syncing EXCEPT ![p] = "no"]
    BY <1>2, <2>2, <2>3, Zenon DEF SyncNext, newEnded, newSyncing, SyncInv
  <2>5. SyncInv'
    BY <2>1, <2>2, <2>4 DEF SyncInv
  <2> QED
    BY <2>1, <2>2, <2>4, <2>5, SameDisk DEF Atomic!SyncReturn, SyncInv
<1> QED
  BY <1>1, <1>2

\* Between commits and until the header is written, the disk is as it is, and
\* the cache differs from it in the logged blocks at most.
LEMMA RecoveredNotCommitted ==
  ASSUME LogInv, NotCommitted
  PROVE  recovered = home /\ \A b \in Blocks \ blocksOf(lh) : cache[b] = home[b]
BY RecoveredEmpty DEF LogInv, TypeOK, NotCommitted

\* The commit point.
LEMMA CommitsIsCommit ==
  ASSUME LogInv, LogInv', SyncInv, SyncNext, NEW p \in Procs, commits(p)
  PROVE  SyncInv' /\ Atomic!Commit
<1>1. /\ system = "up" /\ pc[p] \in {"commit", "write_head"} /\ UNCHANGED <<home, logdata, cache, lh,
           outstanding, committing, behind, system>>
      /\ Goto(p, IF pc[p] = "commit" THEN "finish" ELSE "install")
  BY DEF commits, commit, write_head, At, disk, memory, counters, waits
<1>2. /\ committing /\ \A q \in Procs : pc[q] # "op" /\ (pc[q] \in CommitPCs => q = p)
  BY <1>1, CommitterAlone DEF CommitPCs
<1>3. /\ pc'[p] \in {"finish", "install"} /\ \A q \in Procs \ {p} : pc'[q] = pc[q]
      /\ ~Recovering /\ ~Recovering' /\ inOp' = {} /\ inOp = {}
  BY <1>1, <1>2 DEF Goto, LogInv, TypeOK, Recovering, inOp
<1>4. ended' = FALSE
  BY DEF SyncNext, newEnded
<1>5. syncing' = [q \in Procs |-> IF syncing[q] = "owed" THEN "free" ELSE syncing[q]]
  BY <1>3 DEF SyncNext, newSyncing
<1>6. SyncInv'
  BY <1>1, <1>3, <1>4, <1>5, Zenon DEF SyncInv
<1>7. recovered' = cache
  <2>1. CASE pc[p] = "commit"
    <3>1. /\ NotCommitted /\ lh = <<>> /\ header' = header
      BY <1>1, <2>1 DEF LogInv, StageInv, commits, commit, write_head, At, disk
    <3>2. recovered' = recovered /\ recovered = home
      BY <1>1, <3>1, SameDisk, RecoveredNotCommitted
    <3>3. \A b \in Blocks : cache[b] = home[b]
      BY <3>1, RecoveredNotCommitted DEF blocksOf
    <3>4. cache = home
      BY <3>3 DEF LogInv, TypeOK
    <3> QED
      BY <3>2, <3>4
  <2>2. CASE pc[p] = "write_head"
    <3>1. /\ NotCommitted /\ inLog(Len(lh), cache) /\ header' = lh
      BY <1>1, <2>2 DEF LogInv, StageInv, commits, commit, write_head, At
    <3>2. /\ lh \in Seq(Blocks) /\ NoDuplicates(lh) /\ cache \in [Blocks -> Values]
          /\ DOMAIN lh = 1 .. Len(lh)
      BY DEF LogInv, TypeOK
    <3>3. recovered' =
            [b \in Blocks |-> IF b \in blocksOf(lh)
                              THEN logdata[CHOOSE i \in DOMAIN lh : lh[i] = b]
                              ELSE home[b]]
      BY <1>1, <3>1 DEF recovered, blocksOf
    <3>4. ASSUME NEW b \in Blocks
          PROVE  recovered'[b] = cache[b]
      <4>1. CASE b \in blocksOf(lh)
        <5>1. PICK i \in DOMAIN lh : lh[i] = b
          BY <4>1 DEF blocksOf
        <5>2. (CHOOSE j \in DOMAIN lh : lh[j] = b) = i
          BY <3>2, <5>1 DEF NoDuplicates
        <5>3. logdata[i] = cache[b]
          BY <3>1, <3>2, <5>1 DEF inLog
        <5> QED
          BY <3>3, <4>1, <5>2, <5>3
      <4>2. CASE b \notin blocksOf(lh)
        BY <3>1, <3>3, <4>2, RecoveredNotCommitted
      <4> QED
        BY <4>1, <4>2
    <3> QED
      BY <3>2, <3>3, <3>4, Zenon
  <2> QED
    BY <1>1, <2>1, <2>2
<1> QED
  BY <1>1, <1>3, <1>4, <1>5, <1>6, <1>7 DEF Atomic!Commit

\* The other steps of a commit.
LEMMA CommitMoves ==
  ASSUME LogInv, LogInv', SyncInv, SyncNext, NEW p \in Procs,
         \/ commit(p) /\ lh # <<>>
         \/ write_log(p) \/ install_trans(p) \/ clear(p) \/ finish(p)
  PROVE  SyncInv' /\ UNCHANGED Atomic!diskVars
<1>1. /\ system = "up" /\ pc[p] \in {"commit", "write_log", "install", "clear", "finish"}
      /\ UNCHANGED <<outstanding, system>>
  BY DEF commit, write_log, install_trans, clear, finish, At, counters
<1>2. PICK l \in {"write_log", "write_head", "install", "clear", "finish", "user"} :
        /\ Goto(p, l)
        /\ l \in PastHead => pc[p] \in PastHead
        /\ pc[p] \in {"commit", "write_head"} => l = "write_log"
  BY <1>1 DEF commit, write_log, install_trans, clear, finish, advance, At, PastHead
<1>3. l \in PCs /\ pc'[p] = l /\ ~Recovering /\ ~Recovering' /\ inOp' = inOp
  BY <1>1, <1>2 DEF PCs, Goto, LogInv, TypeOK, Recovering, inOp
<1>4. ended' = ended /\ syncing' = syncing
  BY <1>1, <1>2, <1>3, RecordedSteps, UnrecordedMove
<1>5. recovered' = recovered /\ cache' = cache
  <2>1. CASE commit(p)
    BY <2>1, SameDisk DEF commit, disk, memory
  <2>2. CASE write_log(p)
    <3>1. header = <<>> /\ header' = <<>> /\ home' = home /\ cache' = cache
      BY <2>2 DEF write_log, At, LogInv, StageInv, NotCommitted, memory
    <3>2. recovered = home
      BY <3>1, RecoveredEmpty DEF LogInv, TypeOK
    <3>3. recovered' = [b \in Blocks |-> home[b]]
      BY <3>1 DEF recovered, blocksOf
    <3> QED
      BY <3>1, <3>2, <3>3 DEF LogInv, TypeOK
  <2>3. CASE install_trans(p)
    <3>1. /\ header = lh /\ tail \in DOMAIN lh /\ inLog(Len(lh), cache)
          /\ home' = [home EXCEPT ![lh[tail]] = logdata[tail]]
          /\ cache' = [cache EXCEPT ![lh[tail]] = logdata[tail]]
          /\ UNCHANGED <<logdata, header>>
      BY <2>3 DEF install_trans, install, At, LogInv, StageInv
    <3>2. /\ lh[tail] \in Blocks /\ lh[tail] \in blocksOf(header) /\ tail \in 1 .. Len(lh)
          /\ home \in [Blocks -> Values] /\ cache \in [Blocks -> Values]
      BY <3>1 DEF LogInv, TypeOK, blocksOf
    <3>3. cache' = cache
      BY <3>1, <3>2 DEF inLog
    <3>4. \A b \in Blocks \ blocksOf(header) : home'[b] = home[b]
      BY <3>1, <3>2
    <3>5. recovered' = recovered
      BY <3>1, <3>4 DEF recovered, blocksOf
    <3> QED
      BY <3>3, <3>5
  <2>4. CASE clear(p)
    <3>1. /\ header = lh /\ inLog(Len(lh), home)
          /\ header' = <<>> /\ UNCHANGED <<home, cache>>
      BY <2>4 DEF clear, At, LogInv, StageInv
    <3>2. recovered = home
      BY <3>1, RecoveredInstalled
    <3>3. recovered' = [b \in Blocks |-> home[b]]
      BY <3>1 DEF recovered, blocksOf
    <3> QED
      BY <3>1, <3>2, <3>3 DEF LogInv, TypeOK
  <2>5. CASE finish(p)
    BY <2>5, SameDisk DEF finish, disk, memory
  <2> QED
    BY <2>1, <2>2, <2>3, <2>4, <2>5
<1>6. SyncInv'
  <2>1. CASE finish(p)
    <3>1. ~ended /\ \A q \in Procs : syncing[q] # "owed"
      BY <2>1 DEF finish, At, SyncInv
    <3>2. pc'[p] = "user" /\ pc[p] = "finish" /\ \A q \in Procs \ {p} : pc'[q] = pc[q]
      BY <2>1, Zenon DEF finish, At, Goto, LogInv, TypeOK
    <3> QED
      BY <1>1, <1>4, <3>1, <3>2 DEF SyncInv, Recovering
  <2>2. CASE ~finish(p)
    <3>1. UNCHANGED <<behind, committing>> /\ l # "user" /\ outstanding' >= outstanding
      <4>1. UNCHANGED <<behind, committing>>
        BY <2>2 DEF commit, write_log, install_trans, clear, counters, waits
      <4>2. pc'[p] # "user"
        BY <2>2 DEF commit, write_log, install_trans, clear, advance, Goto, LogInv, TypeOK
      <4> QED
        BY <1>1, <1>3, <4>1, <4>2 DEF LogInv, TypeOK
    <3>2. l \in InSync <=> pc[p] \in InSync
      BY <1>1 DEF InSync
    <3> QED
      BY <1>1, <1>2, <1>3, <1>4, <3>1, <3>2, SyncInvMove, Zenon
  <2> QED
    BY <2>1, <2>2
<1> QED
  BY <1>3, <1>4, <1>5, <1>6, Hidden

LEMMA RecycleHidden ==
  ASSUME LogInv, SyncInv, SyncNext, NEW b \in Blocks, recycle(b)
  PROVE  SyncInv' /\ UNCHANGED Atomic!diskVars
<1>1. /\ UNCHANGED <<home, logdata, header, outstanding, committing, behind, pc, system>>
      /\ system = "up" /\ cache' = cache
  BY RecycleStep, Zenon DEF recycle, disk, counters, waits
<1>2. ~Recovering /\ ~Recovering' /\ inOp' = inOp /\ recovered' = recovered
  BY <1>1, SameDisk DEF Recovering, inOp
<1>3. ended' = ended /\ syncing' = syncing
  BY <1>1, <1>2, UnrecordedStill
<1>4. SyncInv'
  BY <1>1, <1>2, <1>3 DEF SyncInv
<1> QED
  BY <1>1, <1>2, <1>3, <1>4, Hidden

LEMMA CrashIsCrash ==
  ASSUME LogInv, SyncInv, SyncNext, crash
  PROVE  SyncInv' /\ Atomic!Crash
<1>1. Recovering' /\ system' # "up" /\ inOp' = {} /\ recovered' = recovered
  BY SameDisk DEF crash, disk, Recovering, inOp
<1>2. ended' = FALSE /\ syncing' = [p \in Procs |-> "no"]
  BY <1>1 DEF SyncNext, newEnded, newSyncing
<1>3. SyncInv'
  BY <1>1, <1>2, Zenon DEF SyncInv
<1> QED
  BY <1>1, <1>2, <1>3 DEF Atomic!Crash

LEMMA RecoveryHidden ==
  ASSUME LogInv, SyncInv, SyncNext, recover_from_log
  PROVE  SyncInv' /\ UNCHANGED Atomic!diskVars
<1>1. /\ Recovering /\ ~ended /\ \A p \in Procs : syncing[p] = "no" /\ pc[p] = "user"
      /\ ~committing /\ ended \in BOOLEAN /\ syncing \in [Procs -> {"no", "owed", "free"}]
      /\ UNCHANGED <<outstanding, committing, behind, pc>>
  BY DEF recover_from_log, read_head, recover_install, recover_clear, Recovering, SyncInv, LogInv,
         CommitInv, counters, waits
<1>2. inOp' = inOp
  BY <1>1 DEF inOp
<1>3. ended' = ended /\ syncing' = syncing
  <2>1. CASE Recovering'
    <3>1. ended' = FALSE /\ syncing' = [p \in Procs |-> "no"]
      BY <2>1 DEF SyncNext, newEnded, newSyncing
    <3> QED
      BY <1>1, <3>1, Zenon
  <2>2. CASE ~Recovering'
    BY <1>1, <2>2, UnrecordedStill
  <2> QED
    BY <2>1, <2>2
<1>4. SyncInv'
  BY <1>1, <1>3 DEF SyncInv
<1>5. CASE read_head
  <2>1. UNCHANGED <<home, logdata, header>> /\ Recovering'
    BY <1>5 DEF read_head, disk, Recovering
  <2> QED
    BY <1>1, <1>2, <1>3, <1>4, <2>1, SameDisk, Hidden
<1>6. CASE recover_install
  <2>1. /\ header = lh /\ tail \in DOMAIN lh
        /\ home' = [home EXCEPT ![lh[tail]] = logdata[tail]]
        /\ UNCHANGED <<logdata, header>> /\ Recovering'
    BY <1>6 DEF recover_install, install, LogInv, RecoverInv, Recovering
  <2>2. \A b \in Blocks \ blocksOf(header) : home'[b] = home[b]
    BY <2>1 DEF LogInv, TypeOK, blocksOf
  <2>3. recovered' = recovered
    BY <2>1, <2>2 DEF recovered, blocksOf
  <2> QED
    BY <1>1, <1>2, <1>3, <1>4, <2>1, <2>3, Hidden
<1>7. CASE recover_clear
  <2>1. /\ header = lh /\ inLog(Len(lh), home) /\ header' = <<>> /\ pinned = {}
        /\ UNCHANGED <<home, cache>> /\ ~Recovering'
    BY <1>7 DEF recover_clear, LogInv, RecoverInv, Recovering
  <2>2. recovered = home
    BY <2>1, RecoveredInstalled
  <2>3. recovered' = [b \in Blocks |-> home[b]] /\ home \in [Blocks -> Values] /\ cache \in [Blocks -> Values]
    BY <2>1 DEF recovered, blocksOf, LogInv, TypeOK
  <2>4. recovered' = home /\ cache' = home
    BY <2>1, <2>3 DEF LogInv
  <2> QED
    BY <1>1, <1>2, <1>3, <1>4, <2>1, <2>2, <2>4 DEF Atomic!diskVars
<1> QED
  BY <1>5, <1>6, <1>7 DEF recover_from_log

(***************************************************************************)
(* The refinement.                                                         *)
(***************************************************************************)
LEMMA SyncStep ==
  ASSUME LogInv, LogInv', SyncInv, [SyncNext]_syncVars
  PROVE  SyncInv' /\ [Atomic!DiskNext]_(Atomic!diskVars)
<1>1. CASE UNCHANGED syncVars
  <2>1. UNCHANGED <<home, logdata, header, cache, outstanding, committing, behind, pc, system, ended, syncing>>
    BY <1>1 DEF syncVars, vars, disk, memory, counters, waits
  <2>2. Recovering' = Recovering /\ inOp' = inOp /\ recovered' = recovered
    BY <2>1, SameDisk DEF Recovering, inOp
  <2> QED
    BY <2>1, <2>2 DEF SyncInv, Recovering, Atomic!diskVars
<1>2. CASE SyncNext
  <2> USE <1>2
  <2>1. Next
    BY DEF SyncNext
  <2>2. CASE crash
    BY <2>2, CrashIsCrash DEF Atomic!DiskNext
  <2>3. CASE recover_from_log \/ \E b \in Blocks : recycle(b)
    BY <2>3, RecoveryHidden, RecycleHidden
  <2>4. ASSUME NEW p \in Procs,
               begin_op(p) \/ begin_wait(p) \/ sleep(p) \/ kkill(p) \/ sync_again(p)
        PROVE  SyncInv' /\ UNCHANGED Atomic!diskVars
    BY <2>4, QuietMoves
  <2>5. ASSUME NEW p \in Procs,
               begin_admit(p) \/ end_op(p) \/ sys_sync(p) \/ sync_return(p)
        PROVE  SyncInv' /\ Atomic!DiskNext
    BY <2>5, AdmitIsBegin, EndIsEnd, SyncIsSync DEF Atomic!DiskNext
  <2>6. ASSUME NEW p \in Procs, NEW b \in Blocks, NEW v \in Values, log_write(p, b, v)
        PROVE  SyncInv' /\ [Atomic!DiskNext]_(Atomic!diskVars)
    BY <2>6, WriteIsWrite DEF Atomic!DiskNext
  <2>7. ASSUME NEW p \in Procs,
               commit(p) \/ write_log(p) \/ write_head(p) \/ install_trans(p) \/ clear(p) \/ finish(p)
        PROVE  SyncInv' /\ [Atomic!DiskNext]_(Atomic!diskVars)
    <3>1. CASE commits(p)
      BY <2>1, <3>1, CommitsIsCommit DEF Atomic!DiskNext
    <3>2. CASE ~commits(p)
      BY <2>1, <2>7, <3>2, CommitMoves DEF commits
    <3> QED
      BY <3>1, <3>2
  <2> QED
    BY <2>1, <2>2, <2>3, <2>4, <2>5, <2>6, <2>7 DEF Next, continues
<1> QED
  BY <1>1, <1>2

LEMMA SyncInitial == SyncInit => SyncInv /\ Atomic!DiskInit
<1> SUFFICES ASSUME SyncInit PROVE SyncInv /\ Atomic!DiskInit
  OBVIOUS
<1>1. /\ home \in [Blocks -> Values] /\ header = <<>> /\ cache = home /\ system = "up"
      /\ \A p \in Procs : pc[p] = "user"
      /\ ended = FALSE /\ syncing = [p \in Procs |-> "no"]
  BY DEF SyncInit, Init
<1>2. ~Recovering /\ inOp = {} /\ recovered = home
  BY <1>1, RecoveredEmpty DEF Recovering, inOp
<1>3. ended \in BOOLEAN
  BY <1>1, Zenon
<1>4. SyncInv
  BY <1>1, <1>2, <1>3 DEF SyncInv
<1> QED
  BY <1>1, <1>2, <1>4 DEF Atomic!DiskInit

==============================================================================
