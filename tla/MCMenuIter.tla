----------------------------- MODULE MCMenuIter ----------------------------
EXTENDS MenuIter
Counts == 1 .. 255
Int8 == -128 .. 127
=============================================================================
