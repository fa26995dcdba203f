---------------------------- MODULE MCStackLocks ----------------------------
(* Small instances of StackLocks for TLC. *)
EXTENDS StackLocks, TLC

AgentSymmetry == Permutations(Softirq) \cup Permutations(Proc)
                 \cup Permutations(Timer) \cup Permutations(Endpoints)
=============================================================================
