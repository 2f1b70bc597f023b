-------------------------- MODULE TransferQueueMC --------------------------
(* The scheduler on four tasks: symmetry for the safety runs.              *)
EXTENDS TransferRefinement, TransferQueueInv

TaskSymmetry == Permutations(Task)
=============================================================================
