----------------------- MODULE MCSemaphoreRefinement -----------------------
(* SemaphoreRefinement for TLC.                                            *)
EXTENDS SemaphoreRefinement, TLC
=============================================================================
