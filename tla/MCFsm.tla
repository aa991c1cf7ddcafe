------------------------------- MODULE MCFsm -------------------------------
EXTENDS Fsm
=============================================================================
