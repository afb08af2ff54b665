------------------------ MODULE MCConditionVariable ------------------------
(* ConditionVariable for TLC.                                              *)
EXTENDS ConditionVariable, TLC

Symmetry == Permutations(Tasks)
=============================================================================
