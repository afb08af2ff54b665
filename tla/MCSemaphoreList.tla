-------------------------- MODULE MCSemaphoreList --------------------------
(* SemaphoreList for TLC.                                                  *)
EXTENDS SemaphoreList, TLC

CONSTANTS s1, s2

ListOfTwo == <<s1, s2>>

Symmetry == Permutations(Tasks)
=============================================================================
