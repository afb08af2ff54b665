--------------------------- MODULE MCExecScheduler ---------------------------
EXTENDS ExecScheduler, TLC

TaskSymmetry == Permutations(Tasks)
=============================================================================
