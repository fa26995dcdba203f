------------------------------- MODULE EpLock -------------------------------
(***************************************************************************)
(* ci_eplock_t: the lock of an Onload stack, shared between user-level      *)
(* processes and the kernel.  One 64-bit word holds LOCKED, FL_NEED_WAKE    *)
(* ("somebody sleeps, wake them when you unlock") and flags by which        *)
(* threads that found the lock held leave work to its holder.  The holder   *)
(* does that work before it may let go.                                     *)
(*                                                                         *)
(* The word is the set of its flags.  Each kind of work the unlock paths    *)
(* treat differently is represented by one flag:                            *)
(*   NEED_POLL, PRIME_IF_IDLE   handled at user level and in the kernel     *)
(*   NEED_WAKE                  handled only in the kernel, lock held       *)
(*   NEED_PRIME                 handled in the kernel after the lock is     *)
(*                              dropped, or at user level while it is held  *)
(* The list of deferred sockets kept in the same word is in                 *)
(* DeferredSockets, the unlock path of softirq context and the kernel's     *)
(* trusted lock in StackLocks; threads that wait for packets are left out.  *)
(*                                                                         *)
(* A read of the word and the compare-and-swap that validates it are one    *)
(* step.  A failed swap repeats the loop it is in.                          *)
(***************************************************************************)
EXTENDS Naturals

CONSTANTS UL,               \* threads that run at user level
          Kernel,           \* threads that run in the kernel
          KernelPrimeOnly,  \* CI_NETIF_FLAG_EVQ_KERNEL_PRIME_ONLY is set
          Budget            \* bound: calls made and signals met by a thread

ASSUME EpLockAssumption == /\ UL \cap Kernel = {}
                           /\ KernelPrimeOnly \in BOOLEAN
                           /\ Budget \in Nat

VARIABLES word,    \* ni->state->lock.lock
          pc,      \* where each thread is; "idle" is outside the lock's code
          hand,    \* lock_val: the word as the thread's unlock loop read it
          after,   \* what the thread does once it has dropped the lock:
                   \* after_unlock_flags, and FL_NEED_WAKE for the sleepers
          owed,    \* history: work asked for and not yet done
          budget

vars == <<word, pc, hand, after, owed, budget>>

Threads == UL \cup Kernel

UNLOCK_FLAGS   == {"NEED_POLL", "PRIME_IF_IDLE", "NEED_WAKE", "NEED_PRIME"}
UL_COMMON_MASK == {"NEED_POLL", "PRIME_IF_IDLE"}
CALLBACK_FLAGS == UNLOCK_FLAGS
Flags          == {"LOCKED", "FL_NEED_WAKE"} \cup CALLBACK_FLAGS

\* all_handled_flags of ci_netif_unlock_slow (user level) and of
\* efab_tcp_helper_netif_lock_callback (kernel).
UlHandled == UL_COMMON_MASK \cup (IF KernelPrimeOnly THEN {} ELSE {"NEED_PRIME"})
KHandled  == UNLOCK_FLAGS

\* Program points at which a thread holds the lock.
Holding == {"crit", "k_unlock", "k_clear", "k_work", "k_flags", "k_try",
            "ul_clear", "ul_work", "ul_flags", "ul_try"}
\* Asleep, or about to be: on the wait queue with the task state set.
Asleep  == {"sleep", "see_sleep"}
PCs == Holding \cup Asleep \cup
       {"idle", "spin", "prep", "see", "after",
        "to_loop", "to_late", "to_sleep", "to_try", "to_last"}

Goto(t, p) == pc' = [pc EXCEPT ![t] = p]
Spend(t)   == budget[t] > 0 /\ budget' = [budget EXCEPT ![t] = @ - 1]

(***************************************************************************)
(* eplock_ctor                                                             *)
(***************************************************************************)
Init == /\ word = {}
        /\ pc = [t \in Threads |-> "idle"]
        /\ hand = [t \in Threads |-> {}]
        /\ after = [t \in Threads |-> {}]
        /\ owed = {}
        /\ budget = [t \in Threads |-> Budget]

(***************************************************************************)
(* Taking the lock: ef_eplock_trylock, the swap 0 -> LOCKED of              *)
(* ef_eplock_lock, and __ef_eplock_lock_slow when that swap fails.          *)
(***************************************************************************)
\* Mutant: the test of LOCKED is left out of ef_eplock_trylock.
TrylockBlind(t, from) == /\ pc[t] = from
                         /\ word' = word \cup {"LOCKED"}
                         /\ Goto(t, "crit")

Trylock(t, from) == /\ pc[t] = from
                    /\ "LOCKED" \notin word
                    /\ word' = word \cup {"LOCKED"}
                    /\ Goto(t, "crit")

Lock(t) == /\ Trylock(t, "idle")
           /\ Spend(t)
           /\ UNCHANGED <<hand, after, owed>>

LockSlow(t) == /\ pc[t] = "idle"
               /\ Spend(t)
               /\ word # {}
               /\ Goto(t, IF t \in UL THEN "spin" ELSE "prep")
               /\ UNCHANGED <<word, hand, after, owed>>

\* The user-level busy wait ends in the lock, or in the ioctl when
\* buzz_cycles run out.
Spin(t) == /\ \/ Trylock(t, "spin")
              \/ pc[t] = "spin" /\ Goto(t, "prep") /\ UNCHANGED word
           /\ UNCHANGED <<hand, after, owed, budget>>

(***************************************************************************)
(* oo_eplock_lock: the task state is set before the word is looked at, so   *)
(* a wakeup that comes after the request is made is not lost.               *)
(***************************************************************************)
LockOrRequestWake(t) ==
    /\ \/ Trylock(t, "prep")
       \/ /\ pc[t] = "prep"
          /\ "LOCKED" \in word
          /\ word' = word \cup {"FL_NEED_WAKE"}
          /\ Goto(t, "sleep")
    /\ UNCHANGED <<hand, after, owed, budget>>

\* -ERESTARTSYS, -ETIMEDOUT or -ECANCELED (maybe_wedged) in the kernel: the
\* caller goes on without the lock.  At user level a signal restarts the wait.
Interrupted(t) ==
    /\ pc[t] = "sleep"
    /\ \/ t \in Kernel /\ Goto(t, "idle") /\ UNCHANGED budget
       \/ t \in UL /\ Goto(t, "prep") /\ Spend(t)
    /\ UNCHANGED <<word, hand, after, owed>>

(***************************************************************************)
(* efab_eplock_lock_wait: waits until the lock is seen free, without        *)
(* taking it (a blocked socket call that wants the lock on its way out).    *)
(***************************************************************************)
LockWait(t) == /\ pc[t] = "idle"
               /\ Spend(t)
               /\ Goto(t, "see")
               /\ UNCHANGED <<word, hand, after, owed>>

IsUnlockedOrRequestWake(t) ==
    /\ pc[t] = "see"
    /\ \/ /\ "LOCKED" \in word
          /\ word' = word \cup {"FL_NEED_WAKE"}
          /\ Goto(t, "see_sleep")
       \/ /\ "LOCKED" \notin word
          /\ Goto(t, "idle")
          /\ UNCHANGED word
    /\ UNCHANGED <<hand, after, owed, budget>>

LockWaitInterrupted(t) == /\ pc[t] = "see_sleep"
                          /\ Goto(t, "idle")
                          /\ UNCHANGED <<word, hand, after, owed, budget>>

(***************************************************************************)
(* efab_eplock_lock_timeout: here the request is made before                *)
(* schedule_timeout_interruptible sets the task state (to_late), so a       *)
(* wakeup in between is lost and only the timeout ends the sleep.           *)
(***************************************************************************)
LockTimeout(t) == /\ t \in Kernel
                  /\ pc[t] = "idle"
                  /\ Spend(t)
                  /\ "LOCKED" \in word
                  /\ Goto(t, "to_loop")
                  /\ UNCHANGED <<word, hand, after, owed>>

TimeoutRequest(t) ==
    /\ pc[t] = "to_loop"
    /\ \/ /\ "LOCKED" \in word
          /\ word' = word \cup {"FL_NEED_WAKE"}
          /\ Goto(t, "to_late")
       \/ /\ "LOCKED" \notin word
          /\ Goto(t, "to_try")
          /\ UNCHANGED word
    /\ UNCHANGED <<hand, after, owed, budget>>

TimeoutSleep(t) == /\ pc[t] = "to_late"
                   /\ Goto(t, "to_sleep")
                   /\ UNCHANGED <<word, hand, after, owed, budget>>

TimeoutExpires(t) == /\ pc[t] = "to_sleep"
                     /\ Goto(t, "to_last")
                     /\ UNCHANGED <<word, hand, after, owed, budget>>

\* The trylock after each sleep; it fails for good once the time is used up.
TimeoutTry(t) == /\ \/ Trylock(t, "to_try")
                    \/ Trylock(t, "to_last")
                    \/ /\ "LOCKED" \in word
                       /\ \/ pc[t] = "to_try" /\ Goto(t, "to_loop")
                          \/ pc[t] = "to_last" /\ Goto(t, "idle")
                       /\ UNCHANGED word
                 /\ UNCHANGED <<hand, after, owed, budget>>

(***************************************************************************)
(* Leaving work to the holder: ef_eplock_set_flags_if_locked, and the       *)
(* setting half of ef_eplock_lock_or_set_flags (its other half takes the    *)
(* free lock, as Lock does).                                                *)
(***************************************************************************)
SetFlagsIfLocked(t, fs) == /\ pc[t] = "idle"
                           /\ Spend(t)
                           /\ "LOCKED" \in word
                           /\ word' = word \cup fs
                           /\ owed' = owed \cup fs
                           /\ UNCHANGED <<pc, hand, after>>

Requests == {{"NEED_POLL"}, {"NEED_POLL", "PRIME_IF_IDLE"}, {"NEED_PRIME"}}

\* ef_eplock_holder_set_flag, by a holder with a socket to wake.
HolderSetFlag(t) == /\ pc[t] = "crit"
                    /\ "NEED_WAKE" \notin word
                    /\ word' = word \cup {"NEED_WAKE"}
                    /\ owed' = owed \cup {"NEED_WAKE"}
                    /\ UNCHANGED <<pc, hand, after, budget>>

(***************************************************************************)
(* ci_netif_unlock                                                         *)
(***************************************************************************)
\* Mutant: the fast path clears the LOCKED bit whatever else is in the word.
UnlockOnlyBit(t) == /\ pc[t] = "crit"
                    /\ word' = word \ {"LOCKED"}
                    /\ Goto(t, "idle")
                    /\ UNCHANGED <<hand, after, owed, budget>>

Unlock(t) == /\ pc[t] = "crit"
             /\ \/ word = {"LOCKED"} /\ word' = {} /\ Goto(t, "idle")
                \/ /\ word # {"LOCKED"}
                   /\ Goto(t, IF t \in UL THEN "ul_clear" ELSE "k_unlock")
                   /\ UNCHANGED word
             /\ UNCHANGED <<hand, after, owed, budget>>

(***************************************************************************)
(* ci_netif_unlock_slow_common: clear the flags, then do the work.  The     *)
(* value returned is the word before the clearing, with the flags the work  *)
(* set.  A poll may find sockets to wake; the kernel wakes them at once     *)
(* (poll_did_wake), user level sets NEED_WAKE.                              *)
(***************************************************************************)
ClearFlags(t, handled, from, to) == /\ pc[t] = from
                                    /\ hand' = [hand EXCEPT ![t] = word]
                                    /\ word' = word \ handled
                                    /\ Goto(t, to)
                                    /\ UNCHANGED <<after, owed, budget>>

UnlockSlowCommon(t, handled, from, to) ==
    /\ pc[t] = from
    /\ \E woke \in IF "NEED_POLL" \in hand[t] THEN BOOLEAN ELSE {FALSE} :
         LET ul    == t \in UL /\ from = "ul_work"
             prime == {"NEED_POLL", "PRIME_IF_IDLE"} \subseteq hand[t] /\ (ul \/ ~woke)
             set   == (IF prime THEN {"NEED_PRIME"} ELSE {}) \cup
                      (IF woke /\ ul THEN {"NEED_WAKE"} ELSE {})
         IN /\ word' = word \cup set
            /\ hand' = [hand EXCEPT ![t] = @ \cup (set \ {"NEED_WAKE"})]
            /\ owed' = (owed \ ((hand[t] \cap UL_COMMON_MASK) \ word)) \cup set
    /\ Goto(t, to)
    /\ UNCHANGED <<after, budget>>

(***************************************************************************)
(* ci_netif_unlock_slow at user level: do what can be done without a system *)
(* call; let go only if no sleeper and no work is left.                     *)
(***************************************************************************)
UlClear(t) == ClearFlags(t, UlHandled, "ul_clear", "ul_work")
UlWork(t)  == UnlockSlowCommon(t, UlHandled, "ul_work", "ul_flags")

\* Mutant: flags only the kernel handles do not send user level there.
UlFlagsStay(t) ==
    /\ pc[t] = "ul_flags"
    /\ owed' = owed \ ((hand[t] \cap UlHandled \cap {"NEED_PRIME"}) \ word)
    /\ Goto(t, "ul_try")
    /\ hand' = [hand EXCEPT ![t] = {}]
    /\ UNCHANGED <<word, after, budget>>

\* ef_eventq_prime, then k_flags: into the kernel if anything is left for it.
UlFlags(t) ==
    /\ pc[t] = "ul_flags"
    /\ LET primed  == hand[t] \cap UlHandled \cap {"NEED_PRIME"}
           k_flags == hand[t] \cap ((UNLOCK_FLAGS \ UlHandled) \cup {"FL_NEED_WAKE"})
       IN /\ owed' = owed \ (primed \ word)
          /\ Goto(t, IF k_flags # {} THEN "k_unlock" ELSE "ul_try")
    /\ hand' = [hand EXCEPT ![t] = {}]
    /\ UNCHANGED <<word, after, budget>>

\* Mutant: ef_eplock_try_unlock is given a mask without FL_NEED_WAKE.
UlTryNoWake(t) ==
    /\ pc[t] = "ul_try"
    /\ IF word \cap UNLOCK_FLAGS = {}
       THEN word' = word \ {"LOCKED", "FL_NEED_WAKE"} /\ Goto(t, "idle")
       ELSE Goto(t, "ul_clear") /\ UNCHANGED word
    /\ UNCHANGED <<hand, after, owed, budget>>

UlTry(t) ==
    /\ pc[t] = "ul_try"
    /\ IF word \cap (UNLOCK_FLAGS \cup {"FL_NEED_WAKE"}) = {}
       THEN word' = word \ {"LOCKED", "FL_NEED_WAKE"} /\ Goto(t, "idle")
       ELSE Goto(t, "ul_clear") /\ UNCHANGED word
    /\ UNCHANGED <<hand, after, owed, budget>>

(***************************************************************************)
(* efab_eplock_unlock_and_wake, and efab_tcp_helper_netif_lock_callback as  *)
(* it runs in process context.                                              *)
(***************************************************************************)
KUnlock(t) ==
    /\ pc[t] = "k_unlock"
    /\ IF word \cap CALLBACK_FLAGS = {}
       THEN /\ word' = {}
            /\ after' = [after EXCEPT ![t] = word \cap {"FL_NEED_WAKE"}]
            /\ Goto(t, "after")
       ELSE Goto(t, "k_clear") /\ UNCHANGED <<word, after>>
    /\ UNCHANGED <<hand, owed, budget>>

KClear(t) == ClearFlags(t, KHandled, "k_clear", "k_work")
KWork(t)  == UnlockSlowCommon(t, KHandled, "k_work", "k_flags")

\* Mutant: after_unlock_flags is assigned, not or-ed, on every turn.
KFlagsForget(t) ==
    /\ pc[t] = "k_flags"
    /\ after' = [after EXCEPT ![t] = hand[t] \cap {"NEED_PRIME"}]
    /\ owed' = owed \ ((hand[t] \cap {"NEED_WAKE"}) \ word)
    /\ hand' = [hand EXCEPT ![t] = {}]
    /\ Goto(t, "k_try")
    /\ UNCHANGED <<word, budget>>

\* flags_set: NEED_WAKE runs wakeup_post_poll_list, NEED_PRIME is kept for
\* after_unlock_flags.
KFlags(t) ==
    /\ pc[t] = "k_flags"
    /\ after' = [after EXCEPT ![t] = @ \cup (hand[t] \cap {"NEED_PRIME"})]
    /\ owed' = owed \ ((hand[t] \cap {"NEED_WAKE"}) \ word)
    /\ hand' = [hand EXCEPT ![t] = {}]
    /\ Goto(t, "k_try")
    /\ UNCHANGED <<word, budget>>

\* ef_eplock_try_unlock; the value it read tells unlock_and_wake whom to wake.
KTry(t) ==
    /\ pc[t] = "k_try"
    /\ IF word \cap UNLOCK_FLAGS = {}
       THEN /\ word' = word \ {"LOCKED", "FL_NEED_WAKE"}
            /\ after' = [after EXCEPT ![t] = @ \cup (word \cap {"FL_NEED_WAKE"})]
            /\ Goto(t, "after")
       ELSE Goto(t, "k_clear") /\ UNCHANGED <<word, after>>
    /\ UNCHANGED <<hand, owed, budget>>

\* tcp_helper_unlock_prime
AfterPrime(t) == /\ pc[t] = "after"
                 /\ "NEED_PRIME" \in after[t]
                 /\ after' = [after EXCEPT ![t] = @ \ {"NEED_PRIME"}]
                 /\ owed' = owed \ ({"NEED_PRIME"} \ word)
                 /\ UNCHANGED <<word, pc, hand, budget>>

\* efab_eplock_wake: wake_up_interruptible wakes every task on the queue,
\* each of which then looks at the word again.
Woken == [s \in Threads |->
            CASE pc[s] = "sleep"     -> "prep"
              [] pc[s] = "see_sleep" -> "see"
              [] pc[s] = "to_sleep"  -> "to_try"
              [] OTHER               -> pc[s]]

AfterWake(t) == /\ pc[t] = "after"
                /\ "NEED_PRIME" \notin after[t]
                /\ pc' = [(IF "FL_NEED_WAKE" \in after[t] THEN Woken ELSE pc)
                             EXCEPT ![t] = "idle"]
                /\ after' = [after EXCEPT ![t] = {}]
                /\ UNCHANGED <<word, hand, owed, budget>>

(***************************************************************************)
(* The whole system.                                                       *)
(***************************************************************************)
Call(t) == \/ Lock(t) \/ LockSlow(t) \/ LockWait(t) \/ LockTimeout(t)
           \/ \E fs \in Requests : SetFlagsIfLocked(t, fs)
           \/ HolderSetFlag(t)

Interrupt(t) == Interrupted(t) \/ LockWaitInterrupted(t)

\* What a thread does inside the lock's code; Unlock is here because critical
\* sections end.
Step(t) == \/ Spin(t) \/ LockOrRequestWake(t) \/ IsUnlockedOrRequestWake(t)
           \/ TimeoutRequest(t) \/ TimeoutSleep(t) \/ TimeoutExpires(t)
           \/ TimeoutTry(t) \/ Unlock(t)
           \/ UlClear(t) \/ UlWork(t) \/ UlFlags(t) \/ UlTry(t)
           \/ KUnlock(t) \/ KClear(t) \/ KWork(t) \/ KFlags(t) \/ KTry(t)
           \/ AfterPrime(t) \/ AfterWake(t)

\* Every thread may be outside for good.
Quiet == /\ \A t \in Threads : pc[t] = "idle"
         /\ UNCHANGED vars

Next == (\E t \in Threads : Call(t) \/ Interrupt(t) \/ Step(t)) \/ Quiet

Spec == Init /\ [][Next]_vars

\* The scheduler runs every runnable thread, critical sections end and timers
\* expire.  Nothing is assumed of callers, of signals or of who wins a race.
FairSpec == Spec /\ \A t \in Threads : WF_vars(Step(t))

(***************************************************************************)
(* Properties                                                              *)
(***************************************************************************)
TypeOK == /\ word \subseteq Flags
          /\ pc \in [Threads -> PCs]
          /\ hand \in [Threads -> SUBSET Flags]
          /\ after \in [Threads -> SUBSET {"NEED_PRIME", "FL_NEED_WAKE"}]
          /\ owed \subseteq CALLBACK_FLAGS
          /\ budget \in [Threads -> Nat]

\* At most one thread, in user space or in the kernel, is in a critical
\* section or in an unlock path, and the LOCKED bit says whether one is.
MutualExclusion ==
    /\ \A s, t \in Threads : pc[s] \in Holding /\ pc[t] \in Holding => s = t
    /\ "LOCKED" \in word <=> \E t \in Threads : pc[t] \in Holding

\* A thread asleep in oo_eplock_lock or efab_eplock_lock_wait has its wakeup
\* ahead of it: FL_NEED_WAKE is in a word that is still locked, or a thread
\* that cleared the flag has yet to wake the queue.
NoLostWakeup ==
    \A t \in Threads : pc[t] \in Asleep =>
       \/ {"LOCKED", "FL_NEED_WAKE"} \subseteq word
       \/ \E u \in Threads : pc[u] = "after" /\ "FL_NEED_WAKE" \in after[u]

\* What a thread holding flags cleared from the word still has to do.
InHand(t) == CASE pc[t] \in {"k_work", "ul_work"}   -> hand[t]
               [] pc[t] = "k_flags"  -> hand[t] \cap {"NEED_WAKE", "NEED_PRIME"}
               [] pc[t] = "ul_flags" -> hand[t] \cap UlHandled \cap {"NEED_PRIME"}
               [] OTHER              -> {}

\* Work left to the holder is never forgotten: until it is done it is in the
\* word, in the hands of the thread unlocking, or kept for after the unlock.
NoRequestForgotten ==
    \A f \in owed : \/ f \in word
                    \/ \E t \in Threads : f \in InHand(t) \cup after[t]

\* The lock is never let go with work to be done under it or with sleepers
\* flagged in the word: nobody would look at them until the next unlock.
FreeMeansNothingLeft == "LOCKED" \notin word => word = {}

\* Work left to the holder is done, whoever the holder is and however many
\* more requests come in meanwhile.
RequestsAreServed ==
    \A f \in CALLBACK_FLAGS : f \in owed ~> f \notin owed

\* Every lock, wait or unlock call returns.
EveryCallReturns == \A t \in Threads : pc[t] # "idle" ~> pc[t] = "idle"
=============================================================================
