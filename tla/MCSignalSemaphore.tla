------------------------ MODULE MCSignalSemaphore ------------------------
(* Instances of SignalSemaphore for TLC.                                  *)
EXTENDS SignalSemaphore, TLC

Symmetry == Permutations(Tasks) \cup Permutations(Msgs)
=============================================================================
