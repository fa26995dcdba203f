------------------------------ MODULE MCWqLock ------------------------------
(* Small instances of WqLock for TLC. *)
EXTENDS WqLock, TLC

ThreadSymmetry == Permutations(Threads) \cup Permutations(Works)
=============================================================================
