----------------------------- MODULE MCScheduler -----------------------------
EXTENDS Scheduler
==============================================================================
