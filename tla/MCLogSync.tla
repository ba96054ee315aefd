----------------------------- MODULE MCLogSync ------------------------------
(***************************************************************************)
(* The log for TLC: calls that write two blocks, which overlap, and calls  *)
(* that write another block each; together they could fill the log.        *)
(***************************************************************************)
EXTENDS LogSync

CONSTANTS v1, v2, b1, b2, b3, b4

MCCalls == {{b1, b2} \X {v1, v2}, {<<b3, v1>>}, {<<b4, v1>>}}

SyncFairSpec ==
    /\ SyncSpec
    /\ WF_vars(recover_from_log)
    /\ \A p \in Procs : WF_vars(continues(p))

==============================================================================
