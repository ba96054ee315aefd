--------------------------- MODULE SchedulerRound ---------------------------
(***************************************************************************)
(* What a scheduling decision means when several CPUs interleave.  Between *)
(* a CPU's two scans other CPUs wake, dispatch, age and renice processes,  *)
(* so best_priority may be stale when the second scan uses it.  A history  *)
(* variable records, for each CPU's current round, the worst priority that *)
(* each process has had while it stayed RUNNABLE for the whole round.      *)
(***************************************************************************)
EXTENDS Scheduler

VARIABLE worst

roundVars == <<vars, worst>>

\* No promise is owed to a process with this entry: it exceeds every priority.
NoPromise == [q \in Procs |-> NoPriority]

worse(m, n) == IF m > n THEN m ELSE n

RoundInit == Init /\ worst = [c \in CPUs |-> NoPromise]

\* The record of CPU c after a step.
newWorst(c) ==
    CASE pc[c] = "top" /\ pc'[c] = "scan" ->
            [q \in Procs |-> IF state[q] = "RUNNABLE" THEN priority[q] ELSE NoPriority]
      [] pc'[c] \in {"scan", "select"} /\ pc[c] # "top" ->
            [q \in Procs |-> IF state'[q] = "RUNNABLE"
                             THEN worse(worst[c][q], priority'[q])
                             ELSE NoPriority]
      [] OTHER -> NoPromise

RoundNext == Next /\ worst' = [c \in CPUs |-> newWorst(c)]

RoundSpec == RoundInit /\ [][RoundNext]_roundVars

\* With the fairness of FairSpec.
RoundFairSpec ==
    /\ RoundSpec
    /\ \A c \in CPUs : WF_vars(scheduler(c)) /\ WF_vars(yield(c))

\* A CPU never switches to a process while another one was RUNNABLE, with a
\* better priority, during all of this round: stale as best_priority may be,
\* scheduler() overlooks only what changed while it was scanning.
NoneBetterAllRound ==
    [][\A c \in CPUs : Dispatches(c) =>
        \A q \in Procs : priority[cproc'[c]] <= worst[c][q]]_roundVars

\* What makes it so: every process the first scan has passed that was
\* RUNNABLE all round has been taken into account in best_priority.
ScannedInv ==
    \A c \in CPUs, q \in Procs :
        pc[c] = "select" \/ (pc[c] = "scan" /\ q < cursor[c]) =>
            best_priority[c] <= worst[c][q]

\* A CPU goes idle only if no process was RUNNABLE during all of the round.
IdleOnlyIfNoneAllRound ==
    [][\A c \in CPUs : pc[c] # "wfi" /\ pc'[c] = "wfi" =>
        \A q \in Procs : worst[c][q] = NoPriority]_roundVars

==============================================================================
