-------------------------- MODULE MCSchedulerTurns --------------------------
EXTENDS SchedulerTurns
==============================================================================
