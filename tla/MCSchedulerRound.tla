-------------------------- MODULE MCSchedulerRound --------------------------
EXTENDS SchedulerRound
==============================================================================
