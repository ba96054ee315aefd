------------------------------ MODULE LogProofs ------------------------------
(***************************************************************************)
(* The inductive invariant of the log, LogInv: it holds initially and each *)
(* step preserves it.                                                      *)
(***************************************************************************)
EXTENDS Log, TLAPS

LEMMA NonEmpty ==
  ASSUME NEW s \in Seq(Blocks), s # <<>>
  PROVE  1 \in DOMAIN s /\ DOMAIN s = 1 .. Len(s)
OBVIOUS

LEMMA EmptyLog ==
  /\ <<>> \in Seq(Blocks) /\ Len(<<>>) <= LOGBLOCKS
  /\ DOMAIN <<>> = {}
BY LogAssumption

\* Program points outside operations and commits.
QuietPCs == PCs \ (CommitPCs \cup {"op"})

\* What a stage of a commit asks for does not depend on anything else.
LEMMA StageSame ==
  ASSUME NEW q \in Procs, StageInv(q),
         UNCHANGED <<home, logdata, header, cache, pinned, lh, tail, pc>>
  PROVE  StageInv(q)'
<1>1. NotCommitted => NotCommitted'
  BY DEF NotCommitted, blocksOf
<1>2. /\ inLog(tail - 1, cache) => inLog(tail - 1, cache)'
      /\ inLog(tail - 1, home) => inLog(tail - 1, home)'
      /\ inLog(Len(lh), cache) => inLog(Len(lh), cache)'
      /\ inLog(Len(lh), home) => inLog(Len(lh), home)'
  BY DEF inLog
<1>3. {lh[i] : i \in tail .. Len(lh)}' = {lh[i] : i \in tail .. Len(lh)}
  OBVIOUS
<1> QED
  BY <1>1, <1>2, <1>3 DEF StageInv

\* Steps that only move a process around outside operations and commits, and
\* on and off &log, preserve the invariant.
LEMMA QuietStep ==
  ASSUME LogInv, NEW p \in Procs, system = "up",
         NEW l \in QuietPCs, pc[p] \in QuietPCs,
         UNCHANGED <<disk, memory, counters, tail, wrote, system>>,
         Goto(p, l), behind' \subseteq Procs, chan' \subseteq Procs
  PROVE  LogInv'
<1> USE DEF disk, memory, counters
<1>1. TypeOK'
  BY DEF TypeOK, Goto, QuietPCs, LogInv
<1>2. CommitInv'
  BY DEF CommitInv, Goto, QuietPCs, CommitPCs, TypeOK, Recovering, LogInv
<1>3. \A q \in Procs : StageInv(q)'
  BY DEF StageInv, Goto, QuietPCs, CommitPCs, TypeOK, NotCommitted, inLog, blocksOf, LogInv
<1>4. RecoverInv'
  BY DEF RecoverInv, Recovering, inLog, LogInv
<1>5. NoDuplicates(lh)' /\ NoDuplicates(header)'
  BY DEF NoDuplicates, LogInv
<1>6. (system = "up" /\ ~committing => NotCommitted /\ tail = 1)'
  BY DEF NotCommitted, blocksOf, LogInv
<1>7. inOp' = inOp
  BY DEF inOp, Goto, QuietPCs, TypeOK, LogInv
<1> QED
  BY <1>1, <1>2, <1>3, <1>4, <1>5, <1>6, <1>7 DEF LogInv

\* What a process entering or leaving does to the number of operations inside:
\* facts about finite sets, proved in LogTheorems.
OpCount ==
    /\ Cardinality({}) = 0
    /\ Cardinality(inOp) \in Nat
    /\ \A p \in Procs \ inOp : Cardinality(inOp \cup {p}) = Cardinality(inOp) + 1
    /\ \A p \in inOp :
        /\ Cardinality(inOp \ {p}) = Cardinality(inOp) - 1
        /\ Cardinality(inOp) > 0
        /\ Cardinality(inOp) = 1 <=> inOp = {p}

LEMMA InitLogInv == OpCount /\ Init => LogInv
<1> SUFFICES ASSUME OpCount, Init PROVE LogInv
  OBVIOUS
<1> USE DEF Init
<1>1. /\ <<>> \in Seq(Blocks) /\ Len(<<>>) <= LOGBLOCKS
      /\ DOMAIN <<>> = {}
  BY EmptyLog, Zenon
<1>2. pc \in [Procs -> PCs] /\ wrote \in [Procs -> SUBSET Blocks]
  BY DEF PCs
<1>3. TypeOK
  <2>1. \A s \in {lh, header} : s \in Seq(Blocks) /\ Len(s) <= LOGBLOCKS
    BY <1>1, Zenon
  <2>2. /\ home \in [Blocks -> Values] /\ cache \in [Blocks -> Values]
        /\ logdata \in [Slots -> Values]
    OBVIOUS
  <2>3. outstanding \in Nat /\ tail \in Nat \ {0}
    OBVIOUS
  <2>4. /\ committing \in BOOLEAN
        /\ pinned \subseteq Blocks /\ behind \subseteq Procs /\ chan \subseteq Procs
        /\ system \in {"up", "read_head", "install", "clear", "panic"}
    BY Zenon
  <2> QED
    BY <1>2, <2>1, <2>2, <2>3, <2>4 DEF TypeOK
<1>4. CommitInv /\ RecoverInv
  BY DEF CommitInv, RecoverInv, Recovering, CommitPCs
<1>5. NotCommitted
  BY <1>1 DEF NotCommitted, blocksOf
<1>6. \A p \in Procs : StageInv(p)
  BY <1>5 DEF StageInv
<1>7. NoDuplicates(lh) /\ NoDuplicates(header)
  BY <1>1 DEF NoDuplicates
<1>8. inOp = {}
  BY DEF inOp
<1> QED
  BY <1>3, <1>4, <1>5, <1>6, <1>7, <1>8 DEF LogInv, OpCount

LEMMA AdmitStep ==
  ASSUME LogInv, OpCount, NEW p \in Procs, begin_admit(p)
  PROVE  LogInv'
<1> USE DEF begin_admit, mustWait, At, disk, memory, waits
<1>1. TypeOK'
  BY DEF TypeOK, Goto, PCs, LogInv
<1>2. CommitInv'
  BY DEF CommitInv, Goto, PCs, CommitPCs, TypeOK, Recovering, LogInv
<1>3. \A q \in Procs : StageInv(q)'
  BY DEF StageInv, Goto, TypeOK, NotCommitted, inLog, blocksOf, LogInv
<1>4. RecoverInv'
  BY DEF RecoverInv, Recovering, inLog, LogInv
<1>5. NoDuplicates(lh)' /\ NoDuplicates(header)'
  BY DEF NoDuplicates, LogInv
<1>6. (system = "up" /\ ~committing => NotCommitted /\ tail = 1)'
  BY DEF NotCommitted, blocksOf, LogInv
<1>7. inOp' = inOp \cup {p} /\ p \notin inOp
  BY DEF inOp, Goto, TypeOK, LogInv
<1>8. outstanding' = Cardinality(inOp')
  BY <1>7 DEF OpCount, LogInv
<1> QED
  BY <1>1, <1>2, <1>3, <1>4, <1>5, <1>6, <1>8 DEF LogInv

\* A panic stops the machine with everything as it was.
LEMMA PanicStep ==
  ASSUME LogInv, panic, system = "up"
  PROVE  LogInv'
<1> USE DEF panic, disk, memory, counters, waits
<1>1. TypeOK'
  BY DEF TypeOK, LogInv
<1>2. CommitInv' /\ RecoverInv'
  BY DEF CommitInv, RecoverInv, Recovering, LogInv
<1>3. NoDuplicates(lh)' /\ NoDuplicates(header)' /\ inOp' = inOp
  BY DEF NoDuplicates, inOp, LogInv
<1> QED
  BY <1>1, <1>2, <1>3 DEF LogInv

\* Appending a block that is not there.
LEMMA AppendBlock ==
  ASSUME NEW s \in Seq(Blocks), NEW b \in Blocks
  PROVE  /\ Append(s, b) \in Seq(Blocks) /\ Len(Append(s, b)) = Len(s) + 1
         /\ blocksOf(Append(s, b)) = blocksOf(s) \cup {b}
         /\ b \notin blocksOf(s) /\ NoDuplicates(s) => NoDuplicates(Append(s, b))
<1>1. /\ Append(s, b) \in Seq(Blocks) /\ Len(Append(s, b)) = Len(s) + 1
      /\ DOMAIN s = 1 .. Len(s) /\ DOMAIN Append(s, b) = 1 .. Len(s) + 1
      /\ \A i \in 1 .. Len(s) : Append(s, b)[i] = s[i]
      /\ Append(s, b)[Len(s) + 1] = b
      /\ Len(s) \in Nat
  OBVIOUS
<1>2. blocksOf(Append(s, b)) = blocksOf(s) \cup {b}
  <2>1. \A x : x \in blocksOf(Append(s, b)) => x \in blocksOf(s) \cup {b}
    BY <1>1 DEF blocksOf
  <2>2. \A x \in blocksOf(s) : x \in blocksOf(Append(s, b))
    BY <1>1 DEF blocksOf
  <2>3. b \in blocksOf(Append(s, b))
    BY <1>1 DEF blocksOf
  <2> QED
    BY <2>1, <2>2, <2>3
<1>3. ASSUME b \notin blocksOf(s), NoDuplicates(s)
      PROVE  NoDuplicates(Append(s, b))
  BY <1>1, <1>3 DEF NoDuplicates, blocksOf
<1> QED
  BY <1>1, <1>2, <1>3

LEMMA LogWriteStep ==
  ASSUME LogInv, NEW p \in Procs, NEW b \in Blocks, NEW v \in Values,
         log_write(p, b, v)
  PROVE  LogInv'
<1>1. CASE Len(lh) >= LOGBLOCKS \/ outstanding < 1
  BY <1>1, PanicStep DEF log_write, At
<1>2. CASE ~(Len(lh) >= LOGBLOCKS \/ outstanding < 1)
  <2>1. /\ system = "up" /\ pc[p] = "op"
        /\ cache' = [cache EXCEPT ![b] = v] /\ lh' = logged(b)
        /\ pinned' = pinned \cup {b} /\ wrote' = [wrote EXCEPT ![p] = @ \cup {b}]
        /\ UNCHANGED <<home, logdata, header, outstanding, committing, tail, behind, chan, pc, system>>
    BY <1>2 DEF log_write, At, disk, counters, waits
  <2>2. ~committing /\ \A q \in Procs : pc[q] \notin CommitPCs
    BY <2>1 DEF CommitInv, LogInv
  <2>3. /\ lh' \in Seq(Blocks) /\ Len(lh') <= LOGBLOCKS
        /\ blocksOf(lh') = blocksOf(lh) \cup {b} /\ NoDuplicates(lh')
    <3>1. lh \in Seq(Blocks) /\ Len(lh) <= LOGBLOCKS /\ LOGBLOCKS \in Nat
      BY LogAssumption DEF TypeOK, LogInv
    <3>2. CASE b \in blocksOf(lh)
      <4>1. lh' = lh /\ NoDuplicates(lh) /\ blocksOf(lh) = blocksOf(lh) \cup {b}
        BY <2>1, <3>2 DEF logged, LogInv
      <4> QED
        BY <3>1, <4>1
    <3>3. CASE b \notin blocksOf(lh)
      <4>1. Len(lh) < LOGBLOCKS
        BY <3>1, <1>2
      <4>2. lh' = Append(lh, b) /\ NoDuplicates(lh)
        BY <2>1, <3>3 DEF logged, LogInv
      <4>3. /\ Append(lh, b) \in Seq(Blocks) /\ Len(Append(lh, b)) = Len(lh) + 1
            /\ blocksOf(Append(lh, b)) = blocksOf(lh) \cup {b} /\ NoDuplicates(Append(lh, b))
        BY <3>1, <3>3, <4>2, AppendBlock
      <4> QED
        BY <3>1, <4>1, <4>2, <4>3
    <3> QED
      BY <3>2, <3>3
  <2>4. TypeOK'
    BY <2>1, <2>3 DEF TypeOK, LogInv
  <2>5. CommitInv' /\ RecoverInv'
    BY <2>1 DEF CommitInv, RecoverInv, Recovering, LogInv
  <2>6. NotCommitted' /\ tail' = 1
    <3>1. NotCommitted /\ tail = 1
      BY <2>1, <2>2 DEF LogInv
    <3>2. pinned' = blocksOf(lh')
      BY <2>1, <2>3, <3>1 DEF NotCommitted
    <3> QED
      BY <2>1, <3>1, <3>2 DEF NotCommitted, blocksOf
  <2>7. \A q \in Procs : StageInv(q)'
    BY <2>1, <2>2 DEF StageInv, CommitPCs, LogInv
  <2>8. NoDuplicates(lh)' /\ NoDuplicates(header)'
    BY <2>1, <2>3 DEF NoDuplicates, LogInv
  <2>9. inOp' = inOp /\ \A c \in Blocks \ pinned' : cache'[c] = home'[c]
    BY <2>1 DEF TypeOK, inOp, LogInv
  <2> QED
    BY <2>1, <2>4, <2>5, <2>6, <2>7, <2>8, <2>9 DEF LogInv
<1> QED
  BY <1>1, <1>2 DEF LogInv

(***************************************************************************)
(* The steps of a commit.                                                  *)
(***************************************************************************)

\* A process that commits is alone: no other is in an operation or commits.
LEMMA CommitterAlone ==
  ASSUME LogInv, system = "up", NEW p \in Procs, pc[p] \in CommitPCs
  PROVE  committing /\ \A q \in Procs : pc[q] # "op" /\ (pc[q] \in CommitPCs => q = p)
BY DEF LogInv, CommitInv

\* A step of the process that commits to another stage: what the new stage
\* asks for is the invariant.
LEMMA CommitStep ==
  ASSUME LogInv, NEW p \in Procs, system = "up", pc[p] \in CommitPCs,
         NEW l \in CommitPCs, Goto(p, l),
         UNCHANGED <<counters, waits, wrote, system>>,
         TypeOK', NoDuplicates(lh)', NoDuplicates(header)', StageInv(p)',
         \A b \in Blocks \ pinned' : cache'[b] = home'[b]
  PROVE  LogInv'
<1>1. committing /\ \A q \in Procs : pc[q] # "op" /\ (pc[q] \in CommitPCs => q = p)
  BY CommitterAlone
<1>2. /\ pc \in [Procs -> PCs] /\ pc'[p] = l /\ system' = "up" /\ committing'
      /\ \A q \in Procs \ {p} : pc'[q] = pc[q]
  BY <1>1 DEF LogInv, TypeOK, Goto, counters
<1>3. CommitInv' /\ RecoverInv'
  BY <1>1, <1>2 DEF CommitInv, RecoverInv, Recovering, CommitPCs
<1>4. \A q \in Procs : StageInv(q)'
  BY <1>1, <1>2 DEF StageInv, CommitPCs
<1>5. inOp' = inOp
  BY <1>2 DEF inOp, CommitPCs
<1> QED
  BY <1>2, <1>3, <1>4, <1>5 DEF LogInv, counters

LEMMA EndOpStep ==
  ASSUME LogInv, OpCount, NEW p \in Procs, end_op(p)
  PROVE  LogInv'
<1>1. CASE committing
  BY <1>1, PanicStep DEF end_op, At
<1>2. CASE ~committing
  <2>1. /\ system = "up" /\ pc[p] = "op" /\ ~committing
        /\ outstanding' = outstanding - 1
        /\ committing' = (outstanding = 1)
        /\ chan' = IF outstanding = 1 THEN chan ELSE {}
        /\ Goto(p, IF outstanding = 1 THEN "commit" ELSE "user")
        /\ wrote' = [wrote EXCEPT ![p] = {}]
        /\ UNCHANGED <<home, logdata, header, cache, pinned, lh, tail, behind, system>>
    BY <1>2 DEF end_op, At, disk, memory
  <2>2. pc \in [Procs -> PCs] /\ p \in inOp
    BY <2>1 DEF TypeOK, inOp, LogInv
  <2>3. /\ pc'[p] = IF outstanding = 1 THEN "commit" ELSE "user"
        /\ \A q \in Procs \ {p} : pc'[q] = pc[q]
        /\ inOp' = inOp \ {p}
    BY <2>1, <2>2 DEF Goto, inOp
  <2>4. /\ outstanding \in Nat /\ outstanding > 0
        /\ outstanding' = Cardinality(inOp')
        /\ outstanding = 1 => \A q \in Procs \ {p} : pc[q] # "op"
    <3>1. outstanding = 1 => inOp = {p}
      BY <2>2, Zenon DEF OpCount, LogInv
    <3> QED
      BY <2>1, <2>2, <2>3, <3>1 DEF inOp, OpCount, LogInv
  <2>5. NotCommitted' /\ tail' = 1
    BY <2>1 DEF NotCommitted, blocksOf, LogInv
  <2>6. NoDuplicates(lh)' /\ NoDuplicates(header)'
    BY <2>1 DEF NoDuplicates, LogInv
  <2>7. \A q \in Procs : pc[q] \notin CommitPCs
    BY <2>1 DEF CommitInv, LogInv
  <2>8. RecoverInv' /\ \A b \in Blocks \ pinned' : cache'[b] = home'[b]
    BY <2>1 DEF RecoverInv, Recovering, LogInv
  <2>9. \A q \in Procs : StageInv(q)'
    BY <2>3, <2>5, <2>7 DEF StageInv, CommitPCs, LogInv
  <2>10. CommitInv'
    <3>1. system' = "up" /\ \A q \in Procs : pc'[q] \in CommitPCs => q = p /\ outstanding = 1
      BY <2>1, <2>3, <2>7 DEF CommitPCs
    <3>2. outstanding = 1 => committing' /\ \A q \in Procs : pc'[q] # "op"
      BY <2>1, <2>3, <2>4, Zenon
    <3>3. committing' => pc'[p] \in CommitPCs
      BY <2>1, <2>3, Zenon DEF CommitPCs
    <3> QED
      BY <3>1, <3>2, <3>3 DEF CommitInv, Recovering, LogInv
  <2>11. TypeOK'
    <3>1. pc' \in [Procs -> PCs] /\ wrote' \in [Procs -> SUBSET Blocks]
      BY <2>1 DEF TypeOK, Goto, PCs, LogInv
    <3>2. committing' \in BOOLEAN
      BY <2>1
    <3>3. outstanding' \in Nat
      BY <2>1, <2>4
    <3> QED
      BY <2>1, <3>1, <3>2, <3>3 DEF TypeOK, LogInv
  <2> QED
    BY <2>4, <2>5, <2>6, <2>8, <2>9, <2>10, <2>11 DEF LogInv
<1> QED
  BY <1>1, <1>2 DEF LogInv

LEMMA WriteLogStep ==
  ASSUME LogInv, NEW p \in Procs, write_log(p)
  PROVE  LogInv'
<1>1. /\ system = "up" /\ pc[p] = "write_log" /\ NotCommitted
      /\ tail \in DOMAIN lh /\ inLog(tail - 1, cache)
      /\ logdata' = [logdata EXCEPT ![tail] = cache[lh[tail]]]
      /\ UNCHANGED <<home, header, cache, pinned, lh, outstanding, committing, behind, chan, wrote, system>>
  BY DEF write_log, At, StageInv, memory, counters, waits, LogInv
<1>2. /\ lh \in Seq(Blocks) /\ Len(lh) \in Nat /\ DOMAIN lh = 1 .. Len(lh)
      /\ Len(lh) <= LOGBLOCKS /\ LOGBLOCKS \in Nat /\ tail \in 1 .. Len(lh)
      /\ tail \in Slots /\ logdata \in [Slots -> Values] /\ lh[tail] \in Blocks
      /\ cache \in [Blocks -> Values]
  BY <1>1, LogAssumption DEF TypeOK, Slots, LogInv
<1>3. \A i \in 1 .. tail : logdata'[i] = cache'[lh'[i]]
  BY <1>1, <1>2 DEF inLog, Slots
<1>4. NotCommitted' /\ UNCHANGED lh
  BY <1>1 DEF NotCommitted, blocksOf
<1>5. logdata' \in [Slots -> Values]
  BY <1>1, <1>2
<1>6. NoDuplicates(lh)' /\ NoDuplicates(header)' /\ \A b \in Blocks \ pinned' : cache'[b] = home'[b]
  BY <1>1 DEF NoDuplicates, LogInv
<1>7. pc[p] \in CommitPCs /\ UNCHANGED <<counters, waits, wrote, system>>
  BY <1>1 DEF CommitPCs, counters, waits
<1>8. CASE tail = Len(lh)
  <2>1. tail' = 1 /\ Goto(p, "write_head")
    BY <1>8 DEF write_log, advance
  <2>2. TypeOK'
    BY <1>1, <1>5, <2>1 DEF TypeOK, Goto, PCs, LogInv
  <2>3. lh # <<>>
    BY <1>2
  <2>4. inLog(Len(lh), cache)'
    BY <1>3, <1>8, <1>1, <2>1 DEF inLog
  <2>5. StageInv(p)'
    BY <1>4, <2>1, <2>3, <2>4 DEF StageInv, Goto, TypeOK, LogInv
  <2> QED
    BY <1>1, <1>6, <1>7, <2>1, <2>2, <2>5, CommitStep DEF CommitPCs, LogInv
<1>9. CASE tail # Len(lh)
  <2>1. tail' = tail + 1 /\ Goto(p, "write_log")
    BY <1>9 DEF write_log, advance
  <2>2. TypeOK'
    BY <1>1, <1>5, <2>1 DEF TypeOK, Goto, PCs, LogInv
  <2>3. tail' \in DOMAIN lh' /\ tail' - 1 = tail
    BY <1>1, <1>2, <1>9, <2>1
  <2>4. inLog(tail - 1, cache)'
    BY <1>3, <1>1, <2>3 DEF inLog
  <2>5. StageInv(p)'
    BY <1>4, <2>1, <2>3, <2>4 DEF StageInv, Goto, TypeOK, LogInv
  <2> QED
    BY <1>1, <1>6, <1>7, <2>1, <2>2, <2>5, CommitStep DEF CommitPCs, LogInv
<1> QED
  BY <1>8, <1>9 DEF LogInv

LEMMA CommitBegins ==
  ASSUME LogInv, NEW p \in Procs, commit(p)
  PROVE  LogInv'
<1>1. /\ system = "up" /\ pc[p] = "commit" /\ NotCommitted /\ tail = 1
      /\ Goto(p, IF lh = <<>> THEN "finish" ELSE "write_log")
      /\ UNCHANGED <<home, logdata, header, cache, pinned, lh, outstanding, committing,
                     tail, behind, chan, wrote, system>>
  BY DEF commit, At, StageInv, disk, memory, counters, waits, LogInv
<1>2. lh # <<>> => tail \in DOMAIN lh /\ inLog(tail - 1, cache)
  BY <1>1, NonEmpty DEF TypeOK, inLog, LogInv
<1>3. StageInv(p)'
  BY <1>1, <1>2 DEF StageInv, NotCommitted, blocksOf, inLog, Goto, TypeOK, LogInv
<1>4. TypeOK'
  BY <1>1 DEF TypeOK, Goto, PCs, LogInv
<1>5. NoDuplicates(lh)' /\ NoDuplicates(header)' /\ \A b \in Blocks \ pinned' : cache'[b] = home'[b]
  BY <1>1, Zenon DEF NoDuplicates, LogInv
<1>6. pc[p] \in CommitPCs /\ UNCHANGED <<counters, waits, wrote, system>>
  BY <1>1 DEF CommitPCs, counters, waits
<1> QED
  BY <1>1, <1>3, <1>4, <1>5, <1>6, CommitStep DEF CommitPCs

LEMMA WriteHeadStep ==
  ASSUME LogInv, NEW p \in Procs, write_head(p)
  PROVE  LogInv'
<1>1. /\ system = "up" /\ pc[p] = "write_head" /\ NotCommitted /\ tail = 1
      /\ lh # <<>> /\ inLog(Len(lh), cache)
      /\ header' = lh /\ Goto(p, "install")
      /\ UNCHANGED <<home, logdata, cache, pinned, lh, outstanding, committing,
                     tail, behind, chan, wrote, system>>
  BY DEF write_head, At, StageInv, memory, counters, waits, LogInv
<1>2. tail \in DOMAIN lh /\ DOMAIN lh = 1 .. Len(lh)
  BY <1>1, NonEmpty DEF TypeOK, LogInv
<1>3. StageInv(p)'
  <2>1. pc'[p] = "install"
    BY <1>1 DEF Goto, TypeOK, LogInv
  <2>2. inLog(tail - 1, home)' /\ inLog(Len(lh), cache)'
    <3>1. 1 .. tail' - 1 = {}
      BY <1>1
    <3>2. inLog(tail - 1, home)'
      BY <3>1 DEF inLog
    <3>3. inLog(Len(lh), cache)'
      BY <1>1, Zenon DEF inLog
    <3> QED
      BY <3>2, <3>3
  <2>3. pinned' = {lh'[i] : i \in tail' .. Len(lh')}
    <3>1. pinned = {lh[i] : i \in 1 .. Len(lh)}
      BY <1>1, <1>2, Zenon DEF NotCommitted, blocksOf
    <3> QED
      BY <1>1, <3>1, Zenon
  <2> QED
    BY <1>1, <1>2, <2>1, <2>2, <2>3 DEF StageInv, LogInv
<1>4. TypeOK'
  BY <1>1 DEF TypeOK, Goto, PCs, LogInv
<1>5. NoDuplicates(lh)' /\ NoDuplicates(header)' /\ \A b \in Blocks \ pinned' : cache'[b] = home'[b]
  BY <1>1 DEF NoDuplicates, LogInv
<1>6. pc[p] \in CommitPCs /\ UNCHANGED <<counters, waits, wrote, system>>
  BY <1>1 DEF CommitPCs, counters, waits
<1> QED
  BY <1>1, <1>3, <1>4, <1>5, <1>6, CommitStep, Zenon DEF CommitPCs

\* An iteration of install_trans(): one more block is at home, whichever
\* blocks the log holds, since it holds none twice.
LEMMA InstallOne ==
  ASSUME LogInv, header = lh, tail \in DOMAIN lh, inLog(tail - 1, home), install,
         UNCHANGED <<logdata, lh>>
  PROVE  /\ \A i \in 1 .. tail : logdata'[i] = home'[lh'[i]]
         /\ home' \in [Blocks -> Values] /\ cache' \in [Blocks -> Values]
         /\ \A b \in Blocks \ {lh[tail]} : home'[b] = home[b] /\ cache'[b] = cache[b]
         /\ home'[lh[tail]] = logdata[tail] /\ cache'[lh[tail]] = logdata[tail]
         /\ lh[tail] \in Blocks /\ tail \in 1 .. Len(lh) /\ DOMAIN lh = 1 .. Len(lh) /\ Len(lh) \in Nat
<1>1. /\ lh \in Seq(Blocks) /\ Len(lh) \in Nat /\ DOMAIN lh = 1 .. Len(lh)
      /\ tail \in 1 .. Len(lh) /\ lh[tail] \in Blocks
      /\ tail \in Slots /\ logdata[tail] \in Values
  BY LogAssumption DEF TypeOK, Slots, LogInv
<1>2. /\ home' = [home EXCEPT ![lh[tail]] = logdata[tail]]
      /\ cache' = [cache EXCEPT ![lh[tail]] = logdata[tail]]
      /\ home \in [Blocks -> Values] /\ cache \in [Blocks -> Values]
  BY DEF install, TypeOK, LogInv
<1>3. ASSUME NEW i \in 1 .. tail
      PROVE  logdata'[i] = home'[lh'[i]]
  <2>0. i \in DOMAIN lh /\ lh[i] \in Blocks
    BY <1>1
  <2>1. i \in DOMAIN lh /\ lh[i] \in Blocks /\ (i # tail => lh[i] # lh[tail])
    BY <2>0 DEF NoDuplicates, LogInv
  <2>2. i # tail => logdata[i] = home[lh[i]]
    BY <1>1 DEF inLog
  <2> QED
    BY <1>1, <1>2, <2>1, <2>2 DEF LogInv
<1> QED
  BY <1>1, <1>2, <1>3 DEF LogInv

LEMMA InstallStep ==
  ASSUME LogInv, NEW p \in Procs, install_trans(p)
  PROVE  LogInv'
<1>1. /\ system = "up" /\ pc[p] = "install" /\ header = lh /\ tail \in DOMAIN lh
      /\ inLog(Len(lh), cache) /\ inLog(tail - 1, home)
      /\ pinned = {lh[i] : i \in tail .. Len(lh)}
      /\ install /\ pinned' = pinned \ {lh[tail]}
      /\ UNCHANGED <<logdata, header, lh, outstanding, committing, behind, chan, wrote, system>>
  BY DEF LogInv, install_trans, At, StageInv, counters, waits
<1>2. /\ \A i \in 1 .. tail : logdata'[i] = home'[lh'[i]]
      /\ home' \in [Blocks -> Values] /\ cache' \in [Blocks -> Values]
      /\ \A b \in Blocks \ {lh[tail]} : home'[b] = home[b] /\ cache'[b] = cache[b]
      /\ home'[lh[tail]] = logdata[tail] /\ cache'[lh[tail]] = logdata[tail]
      /\ lh[tail] \in Blocks /\ tail \in 1 .. Len(lh) /\ DOMAIN lh = 1 .. Len(lh) /\ Len(lh) \in Nat
  BY <1>1, InstallOne
<1>3. /\ \A b \in Blocks \ pinned' : cache'[b] = home'[b]
      /\ NoDuplicates(lh)' /\ NoDuplicates(header)'
  <2>1. \A b \in Blocks \ pinned : cache[b] = home[b]
    BY DEF LogInv
  <2>2. \A b \in Blocks \ pinned' : cache'[b] = home'[b]
    BY <1>1, <1>2, <2>1
  <2>3. NoDuplicates(lh)' /\ NoDuplicates(header)'
    BY <1>1 DEF LogInv, NoDuplicates
  <2> QED
    BY <2>2, <2>3
<1>4. \A i \in 1 .. Len(lh) : logdata'[i] = cache'[lh'[i]]
  <2>1. ASSUME NEW i \in 1 .. Len(lh)
        PROVE  logdata'[i] = cache'[lh'[i]]
    <3>1. logdata[i] = cache[lh[i]] /\ (lh[i] = lh[tail] => i = tail)
      BY <1>1, <1>2 DEF LogInv, inLog, NoDuplicates
    <3>2. lh[i] \in Blocks
      <4>1. lh \in Seq(Blocks)
        BY DEF LogInv, TypeOK
      <4> QED
        BY <4>1
    <3> QED
      BY <1>1, <1>2, <3>1, <3>2
  <2> QED
    BY <2>1
<1>5. pinned' = {lh[i] : i \in tail + 1 .. Len(lh)}
  <2>0. tail \in 1 .. Len(lh) /\ DOMAIN lh = 1 .. Len(lh) /\ Len(lh) \in Nat /\ NoDuplicates(lh)
    BY <1>2 DEF LogInv
  <2>1. \A i \in 1 .. Len(lh) : lh[i] = lh[tail] => i = tail
    BY <2>0 DEF NoDuplicates
  <2>2. \A i \in tail .. Len(lh) : i # tail => i \in tail + 1 .. Len(lh)
    BY <2>0
  <2>3. \A i \in tail + 1 .. Len(lh) : i \in tail .. Len(lh) /\ i # tail /\ i \in 1 .. Len(lh)
    BY <2>0
  <2>4. \A x : x \in pinned' <=> \E i \in tail .. Len(lh) : x = lh[i] /\ x # lh[tail]
    BY <1>1
  <2>5. \A x : x \in pinned' <=> \E i \in tail + 1 .. Len(lh) : x = lh[i]
    BY <2>1, <2>2, <2>3, <2>4
  <2> QED
    BY <2>5
<1>6. pc[p] \in CommitPCs /\ UNCHANGED <<counters, waits, wrote, system>>
  BY <1>1 DEF CommitPCs, counters, waits
<1>7. pinned' \subseteq Blocks /\ pc \in [Procs -> PCs] /\ tail \in Nat \ {0} /\ TypeOK
  BY <1>1 DEF LogInv, TypeOK
<1>8. CASE tail = Len(lh)
  <2>1. tail' = 1 /\ Goto(p, "clear")
    BY <1>8 DEF install_trans, advance
  <2>2. TypeOK'
    <3>1. tail' \in Nat \ {0} /\ pc' \in [Procs -> PCs]
      BY <1>7, <2>1 DEF Goto, PCs
    <3>2. home' \in [Blocks -> Values] /\ cache' \in [Blocks -> Values]
      BY <1>2
    <3> QED
      BY <1>1, <1>7, <3>1, <3>2 DEF TypeOK
  <2>3. pinned' = {}
    <3>1. tail + 1 .. Len(lh) = {}
      BY <1>7, <1>8
    <3> QED
      BY <1>5, <3>1
  <2>4. inLog(Len(lh), home)'
    BY <1>1, <1>2, <1>8, <2>1 DEF inLog
  <2>5. StageInv(p)'
    BY <1>1, <1>7, <2>1, <2>3, <2>4 DEF StageInv, Goto
  <2> QED
    BY <1>1, <1>3, <1>6, <2>1, <2>2, <2>5, CommitStep DEF CommitPCs
<1>9. CASE tail # Len(lh)
  <2>1. tail' = tail + 1 /\ Goto(p, "install")
    BY <1>9 DEF install_trans, advance
  <2>2. TypeOK'
    <3>1. tail' \in Nat \ {0} /\ pc' \in [Procs -> PCs]
      BY <1>7, <2>1 DEF Goto, PCs
    <3>2. home' \in [Blocks -> Values] /\ cache' \in [Blocks -> Values]
      BY <1>2
    <3> QED
      BY <1>1, <1>7, <3>1, <3>2 DEF TypeOK
  <2>3. tail' \in DOMAIN lh' /\ tail' - 1 = tail
    <3>1. tail + 1 \in 1 .. Len(lh) /\ (tail + 1) - 1 = tail
      BY <1>2, <1>9
    <3>2. DOMAIN lh' = 1 .. Len(lh)
      BY <1>1, <1>2
    <3> QED
      BY <2>1, <3>1, <3>2
  <2>4. inLog(tail - 1, home)' /\ inLog(Len(lh), cache)'
    BY <1>1, <1>2, <1>4, <2>3 DEF inLog
  <2>5. pinned' = {lh'[i] : i \in tail' .. Len(lh')}
    BY <1>1, <1>5, <2>1
  <2>6. StageInv(p)'
    BY <1>1, <1>7, <2>1, <2>3, <2>4, <2>5 DEF StageInv, Goto
  <2> QED
    BY <1>1, <1>3, <1>6, <2>1, <2>2, <2>6, CommitStep DEF CommitPCs
<1> QED
  BY <1>8, <1>9

LEMMA ClearStep ==
  ASSUME LogInv, NEW p \in Procs, clear(p)
  PROVE  LogInv'
<1>1. /\ system = "up" /\ pc[p] = "clear" /\ tail = 1 /\ pinned = {}
      /\ lh' = <<>> /\ header' = <<>> /\ Goto(p, "finish")
      /\ UNCHANGED <<home, logdata, cache, pinned, outstanding, committing,
                     tail, behind, chan, wrote, system>>
  BY DEF clear, At, StageInv, counters, waits, LogInv
<1>2. /\ <<>> \in Seq(Blocks) /\ Len(<<>>) <= LOGBLOCKS
      /\ DOMAIN <<>> = {}
  BY EmptyLog, Zenon
<1>3. NotCommitted' /\ NoDuplicates(lh)' /\ NoDuplicates(header)'
  BY <1>1, <1>2, Zenon DEF NotCommitted, blocksOf, NoDuplicates
<1>4. StageInv(p)'
  BY <1>1, <1>3 DEF StageInv, Goto, TypeOK, LogInv
<1>5. TypeOK'
  BY <1>1, <1>2 DEF TypeOK, Goto, PCs, LogInv
<1>6. pc[p] \in CommitPCs /\ UNCHANGED <<counters, waits, wrote, system>>
  BY <1>1 DEF CommitPCs, counters, waits
<1> QED
  <2>1. \A b \in Blocks \ pinned' : cache'[b] = home'[b]
    BY <1>1 DEF LogInv
  <2> QED
    BY <1>1, <1>3, <1>4, <1>5, <1>6, <2>1, CommitStep DEF CommitPCs

LEMMA FinishStep ==
  ASSUME LogInv, NEW p \in Procs, finish(p)
  PROVE  LogInv'
<1>1. /\ system = "up" /\ pc[p] = "finish" /\ NotCommitted /\ tail = 1
      /\ committing' = FALSE /\ behind' = {} /\ chan' = {} /\ Goto(p, "user")
      /\ UNCHANGED <<home, logdata, header, cache, pinned, lh, outstanding, tail, wrote, system>>
  BY DEF finish, At, StageInv, disk, memory, LogInv
<1>2. \A q \in Procs : pc[q] # "op" /\ (pc[q] \in CommitPCs => q = p)
  BY <1>1, CommitterAlone DEF CommitPCs
<1>3. pc'[p] = "user" /\ \A q \in Procs \ {p} : pc'[q] = pc[q]
  BY <1>1 DEF Goto, TypeOK, LogInv
<1>4. TypeOK'
  <2>1. committing' \in BOOLEAN /\ behind' \subseteq Procs /\ chan' \subseteq Procs
    BY <1>1, Zenon
  <2>2. pc' \in [Procs -> PCs]
    BY <1>1 DEF TypeOK, Goto, PCs, LogInv
  <2>3. UNCHANGED <<home, logdata, header, cache, pinned, lh, outstanding, tail, wrote, system>>
    BY <1>1
  <2> QED
    BY <2>1, <2>2, <2>3 DEF TypeOK, LogInv
<1>5. NotCommitted' /\ NoDuplicates(lh)' /\ NoDuplicates(header)'
  BY <1>1 DEF NotCommitted, blocksOf, NoDuplicates, LogInv
<1>6. CommitInv' /\ RecoverInv'
  BY <1>1, <1>2, <1>3 DEF CommitInv, RecoverInv, Recovering, CommitPCs, LogInv
<1>7. \A q \in Procs : StageInv(q)'
  BY <1>2, <1>3, Zenon DEF StageInv, CommitPCs
<1>8. inOp' = inOp
  BY <1>1, <1>3 DEF inOp
<1> QED
  BY <1>1, <1>4, <1>5, <1>6, <1>7, <1>8 DEF LogInv

(***************************************************************************)
(* The cache, crashes and recovery.                                        *)
(***************************************************************************)

\* A buffer that is recycled is not pinned, so it was like the disk's block.
LEMMA RecycleStep ==
  ASSUME LogInv, NEW b \in Blocks, recycle(b)
  PROVE  LogInv' /\ cache' = cache
<1>1. /\ UNCHANGED <<home, logdata, header, pinned, lh, outstanding, committing, tail, behind,
                     chan, wrote, pc, system>>
      /\ cache' = [cache EXCEPT ![b] = home[b]] /\ b \notin pinned
  BY DEF recycle, disk, counters, waits
<1>2. cache' = cache
  BY <1>1 DEF LogInv, TypeOK
<1>3. TypeOK'
  BY <1>1, <1>2 DEF LogInv, TypeOK
<1>4. CommitInv' /\ RecoverInv' /\ NoDuplicates(lh)' /\ NoDuplicates(header)' /\ inOp' = inOp
  <2>1. CommitInv' /\ NoDuplicates(lh)' /\ NoDuplicates(header)' /\ inOp' = inOp
    BY <1>1 DEF LogInv, CommitInv, Recovering, NoDuplicates, inOp
  <2>2. RecoverInv'
    BY <1>1 DEF LogInv, RecoverInv, Recovering, inLog
  <2> QED
    BY <2>1, <2>2
<1>5. NotCommitted => NotCommitted'
  BY <1>1 DEF NotCommitted, blocksOf
<1>6. ASSUME NEW q \in Procs, StageInv(q)
      PROVE  StageInv(q)'
  BY <1>1, <1>2, <1>6, StageSame
<1> QED
  BY <1>1, <1>2, <1>3, <1>4, <1>5, <1>6 DEF LogInv

LEMMA CrashStep ==
  ASSUME LogInv, OpCount, crash
  PROVE  LogInv'
<1> USE DEF crash, disk
<1>1. /\ <<>> \in Seq(Blocks) /\ Len(<<>>) <= LOGBLOCKS
      /\ DOMAIN <<>> = {}
  BY EmptyLog, Zenon
<1>2. pc' \in [Procs -> PCs] /\ wrote' \in [Procs -> SUBSET Blocks]
  BY DEF PCs
<1>3. committing' \in BOOLEAN
  BY Zenon
<1>4. TypeOK'
  BY <1>1, <1>2, <1>3 DEF LogInv, TypeOK
<1>5. CommitInv' /\ RecoverInv' /\ inOp' = {}
  BY DEF CommitInv, RecoverInv, Recovering, inOp
<1>6. NoDuplicates(lh)' /\ NoDuplicates(header)'
  BY <1>1 DEF NoDuplicates, LogInv
<1> QED
  <2>1. outstanding' = Cardinality(inOp')
    BY <1>5, Zenon DEF OpCount
  <2>2. system' # "up" /\ \A b \in Blocks \ pinned' : cache'[b] = home'[b]
    OBVIOUS
  <2> QED
    BY <1>4, <1>5, <1>6, <2>1, <2>2, Zenon DEF LogInv

LEMMA RecoverStep ==
  ASSUME LogInv, recover_from_log
  PROVE  LogInv'
<1>1. CASE read_head
  <2>1. /\ system = "read_head" /\ lh' = header
        /\ system' = IF header = <<>> THEN "clear" ELSE "install"
        /\ UNCHANGED <<home, logdata, header, cache, pinned, outstanding, committing, tail,
                       behind, chan, wrote, pc>>
    BY <1>1 DEF read_head, disk, counters, waits
  <2>2. TypeOK'
    BY <2>1 DEF LogInv, TypeOK
  <2>3. CommitInv' /\ inOp' = inOp /\ NoDuplicates(lh)' /\ NoDuplicates(header)'
    BY <2>1 DEF LogInv, CommitInv, Recovering, inOp, NoDuplicates
  <2>4. header # <<>> => 1 \in DOMAIN header
    BY NonEmpty DEF LogInv, TypeOK
  <2>5. RecoverInv'
    BY <2>1, <2>4 DEF LogInv, RecoverInv, Recovering, inLog
  <2> QED
    BY <2>1, <2>2, <2>3, <2>5 DEF LogInv
<1>2. CASE recover_install
  <2>1. /\ system = "install" /\ install /\ header = lh /\ tail \in DOMAIN lh
        /\ inLog(tail - 1, home) /\ pinned = {}
        /\ IF tail = Len(lh)
           THEN tail' = 1 /\ system' = "clear"
           ELSE tail' = tail + 1 /\ UNCHANGED system
        /\ UNCHANGED <<logdata, header, pinned, lh, outstanding, committing, behind, chan, wrote, pc>>
    BY <1>2 DEF recover_install, LogInv, RecoverInv, Recovering, counters, waits
  <2>2. /\ \A i \in 1 .. tail : logdata'[i] = home'[lh'[i]]
        /\ home' \in [Blocks -> Values] /\ cache' \in [Blocks -> Values]
        /\ \A b \in Blocks \ {lh[tail]} : home'[b] = home[b] /\ cache'[b] = cache[b]
        /\ home'[lh[tail]] = logdata[tail] /\ cache'[lh[tail]] = logdata[tail]
        /\ lh[tail] \in Blocks /\ tail \in 1 .. Len(lh) /\ DOMAIN lh = 1 .. Len(lh) /\ Len(lh) \in Nat
    BY <2>1, InstallOne
  <2>3. TypeOK'
    <3>1. tail \in Nat \ {0} /\ TypeOK
      BY DEF LogInv, TypeOK
    <3>2. tail' \in Nat \ {0} /\ system' \in {"install", "clear"}
      BY <2>1, <3>1
    <3>3. home' \in [Blocks -> Values] /\ cache' \in [Blocks -> Values]
      BY <2>2
    <3> QED
      BY <2>1, <3>1, <3>2, <3>3 DEF TypeOK
  <2>4. CommitInv' /\ inOp' = inOp /\ NoDuplicates(lh)' /\ NoDuplicates(header)'
    BY <2>1 DEF LogInv, CommitInv, Recovering, inOp, NoDuplicates
  <2>5. RecoverInv'
    <3>1. CASE tail = Len(lh)
      BY <2>1, <2>2, <3>1 DEF RecoverInv, inLog
    <3>2. CASE tail # Len(lh)
      <4>1. tail' = tail + 1 /\ system' = "install" /\ tail' \in DOMAIN lh' /\ tail' - 1 = tail
        BY <2>1, <2>2, <3>2
      <4>2. inLog(tail - 1, home)'
        BY <2>1, <2>2, <4>1 DEF inLog
      <4> QED
        BY <2>1, <4>1, <4>2 DEF RecoverInv
    <3> QED
      BY <3>1, <3>2
  <2>6. \A b \in Blocks \ pinned' : cache'[b] = home'[b]
    BY <2>1, <2>2 DEF LogInv
  <2> QED
    BY <2>1, <2>3, <2>4, <2>5, <2>6 DEF LogInv
<1>3. CASE recover_clear
  <2>1. /\ system = "clear" /\ lh' = <<>> /\ header' = <<>> /\ system' = "up"
        /\ tail = 1 /\ pinned = {} /\ ~committing /\ \A p \in Procs : pc[p] = "user"
        /\ UNCHANGED <<home, logdata, cache, pinned, outstanding, committing, tail,
                       behind, chan, wrote, pc>>
    BY <1>3 DEF recover_clear, counters, waits, LogInv, RecoverInv, CommitInv, Recovering
  <2>2. /\ <<>> \in Seq(Blocks) /\ Len(<<>>) <= LOGBLOCKS
        /\ DOMAIN <<>> = {}
    BY EmptyLog, Zenon
  <2>3. TypeOK'
    BY <2>1, <2>2 DEF LogInv, TypeOK
  <2>4. NotCommitted' /\ NoDuplicates(lh)' /\ NoDuplicates(header)'
    BY <2>1, <2>2 DEF NotCommitted, blocksOf, NoDuplicates
  <2>5. CommitInv' /\ RecoverInv' /\ inOp' = inOp /\ \A p \in Procs : StageInv(p)'
    BY <2>1 DEF CommitInv, RecoverInv, Recovering, inOp, StageInv, CommitPCs
  <2>6. \A b \in Blocks \ pinned' : cache'[b] = home'[b]
    BY <2>1 DEF LogInv
  <2>7. outstanding' = Cardinality(inOp')
    BY <2>1, <2>5 DEF LogInv
  <2> QED
    BY <2>1, <2>3, <2>4, <2>5, <2>6, <2>7, Zenon DEF LogInv
<1> QED
  BY <1>1, <1>2, <1>3 DEF recover_from_log

LEMMA NextLogInv == OpCount /\ LogInv /\ [Next]_vars => LogInv'
<1> SUFFICES ASSUME OpCount, LogInv, [Next]_vars PROVE LogInv'
  OBVIOUS
<1>1. CASE UNCHANGED vars
  <2>1. UNCHANGED <<home, logdata, header, cache, pinned, lh, outstanding, committing, tail,
                    behind, chan, wrote, pc, system>>
    BY <1>1 DEF vars, disk, memory, counters, waits
  <2>2. TypeOK' /\ NoDuplicates(lh)' /\ NoDuplicates(header)' /\ inOp' = inOp
    BY <2>1 DEF LogInv, TypeOK, NoDuplicates, inOp
  <2>3. CommitInv'
    BY <2>1 DEF LogInv, CommitInv, Recovering
  <2>6. RecoverInv'
    BY <2>1, Zenon DEF LogInv, RecoverInv, Recovering, inLog
  <2>4. NotCommitted => NotCommitted'
    BY <2>1 DEF NotCommitted, blocksOf
  <2>5. ASSUME NEW q \in Procs, StageInv(q)
        PROVE  StageInv(q)'
    BY <2>1, <2>5, StageSame
  <2> QED
    BY <2>1, <2>2, <2>3, <2>4, <2>5, <2>6 DEF LogInv
<1>2. CASE crash \/ recover_from_log \/ \E b \in Blocks : recycle(b)
  BY <1>2, CrashStep, RecoverStep, RecycleStep
<1>3. ASSUME NEW p \in Procs,
             begin_op(p) \/ sys_sync(p) \/ kkill(p) \/ begin_wait(p) \/ sleep(p)
               \/ sync_again(p) \/ sync_return(p)
      PROVE  LogInv'
  <2>1. behind \subseteq Procs /\ chan \subseteq Procs
    BY DEF LogInv, TypeOK
  <2>2. /\ system = "up" /\ behind' \subseteq Procs /\ chan' \subseteq Procs
        /\ UNCHANGED <<disk, memory, counters, tail, wrote, system>>
        /\ pc[p] \in QuietPCs
    BY <1>3, <2>1 DEF begin_op, sys_sync, kkill, begin_wait, sleep, sync_again, sync_return,
                      At, QuietPCs, PCs, CommitPCs, waits
  <2>3. \E l \in QuietPCs : Goto(p, l)
    BY <1>3 DEF begin_op, sys_sync, kkill, begin_wait, sleep, sync_again, sync_return,
                QuietPCs, PCs, CommitPCs
  <2> QED
    BY <2>2, <2>3, QuietStep
<1>4. ASSUME NEW p \in Procs,
             \/ begin_admit(p) \/ end_op(p)
             \/ \E b \in Blocks, v \in Values : log_write(p, b, v)
      PROVE  LogInv'
  BY <1>4, AdmitStep, EndOpStep, LogWriteStep
<1>5. ASSUME NEW p \in Procs,
             commit(p) \/ write_log(p) \/ write_head(p) \/ install_trans(p) \/ clear(p) \/ finish(p)
      PROVE  LogInv'
  BY <1>5, CommitBegins, WriteLogStep, WriteHeadStep, InstallStep, ClearStep, FinishStep
<1> QED
  BY <1>1, <1>2, <1>3, <1>4, <1>5 DEF Next, continues

==============================================================================
