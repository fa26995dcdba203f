------------------------------ MODULE MCEpLock ------------------------------
(* Small instances of EpLock for TLC. *)
EXTENDS EpLock, TLC

ThreadSymmetry == Permutations(UL) \cup Permutations(Kernel)
=============================================================================
