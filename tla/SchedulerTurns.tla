--------------------------- MODULE SchedulerTurns ---------------------------
(***************************************************************************)
(* Turns among processes of one priority.  A history variable records, for *)
(* every waiting process, which others have been dispatched at its own     *)
(* priority since it began to wait there.                                  *)
(***************************************************************************)
EXTENDS Scheduler

VARIABLE passed

turnVars == <<vars, passed>>

TurnInit == Init /\ passed = [q \in Procs |-> {}]

\* The processes dispatched by a step, and their common priority with q.
dispatchedBeside(q) ==
    {cproc'[c] : c \in {d \in CPUs : Dispatches(d) /\ priority[cproc'[d]] = priority[q]}}

TurnNext ==
    /\ Next
    /\ passed' = [q \in Procs |->
            IF state[q] = "RUNNABLE" /\ state'[q] = "RUNNABLE" /\ priority'[q] = priority[q]
            THEN passed[q] \cup dispatchedBeside(q)
            ELSE {}]

TurnSpec == TurnInit /\ [][TurnNext]_turnVars

\* "Start at next_index so equal-priority processes are scheduled in
\* round-robin order" (scheduler()): a CPU does not give a process a second
\* turn while another one of the same priority has been waiting since before
\* the first.
RoundRobinOrder ==
    [][\A c \in CPUs : Dispatches(c) =>
        \A q \in Procs :
            state[q] = "RUNNABLE" /\ priority[q] = priority[cproc'[c]] =>
                cproc'[c] \notin passed[q]]_turnVars

==============================================================================
