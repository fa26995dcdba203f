---------------------------- MODULE MCSockSleepOs ----------------------------
(* The instance of SockSleep in which the OS and the stack count the same     *)
(* sleep sequence number.                                                     *)
EXTENDS SockSleep, TLC

OsSymmetry == Permutations(Senders) \cup Permutations(KStack)
=============================================================================
