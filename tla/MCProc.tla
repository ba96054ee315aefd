-------------------------------- MODULE MCProc --------------------------------
EXTENDS Proc
==============================================================================
