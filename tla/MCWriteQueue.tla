----------------------------- MODULE MCWriteQueue -----------------------------
(***************************************************************************)
(* Instances of WriteQueueSupervisor for TLC.                              *)
(***************************************************************************)
EXTENDS WriteQueueSupervisor, TLC

Symmetry == Permutations(Keys) \cup Permutations(Vals)
=============================================================================
