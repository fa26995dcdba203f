--------------------------- MODULE MCDeferredSockets ---------------------------
(* Instances of DeferredSockets for TLC. *)
EXTENDS DeferredSockets, TLC

SockSymmetry == Permutations(Socks) \cup Permutations(Senders)
================================================================================
