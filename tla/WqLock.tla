------------------------------- MODULE WqLock -------------------------------
(***************************************************************************)
(* oo_wqlock: the lock of a user-level epoll set.  One word holds a LOCKED  *)
(* bit, a NEED_WAKE bit and the head of a list of work queued by threads    *)
(* that found the lock held; whoever holds the lock runs that work before   *)
(* letting go.  A pthread mutex and condition variable carry the sleepers.  *)
(*                                                                         *)
(* Steps are the atomic accesses to shared memory.  A read of the word      *)
(* followed by a compare-and-swap on the value read is one step, since the  *)
(* swap re-validates everything the decision used; the one decision taken   *)
(* on a bare read (to sleep in pthread_cond_wait) is a step of its own.     *)
(* The list is a sequence, most recent work first: its next pointers are    *)
(* private to the queueing thread before the swap that publishes them and   *)
(* to the draining thread after the swap that takes them.                   *)
(***************************************************************************)
EXTENDS Naturals, Sequences, SequencesExt

CONSTANTS Threads,  \* threads using the lock
          Works,    \* the oo_wqlock_work structures that may be malloc'd
          Budget    \* bound: calls made and spurious wakeups met by a thread

ASSUME BudgetAssumption == Budget \in Nat

VARIABLES bits,    \* wql->lock & OO_WQLOCK_LOCK_BITS
          work,    \* wql->lock & OO_WQLOCK_WORK_BITS: the list it points to
          mutex,   \* threads holding wql->mutex (at most one)
          pc,      \* where each thread is; "idle" is outside the lock's code
          arg,     \* work passed to oo_wqlock_lock_or_queue (a set of 0 or 1)
          todo,    \* work_rev of the thread's oo_wqlock_work_do
          fresh,   \* work structures not yet queued
          order,   \* history: work in the order of its queueing swaps
          ran,     \* history: work in the order it was run
          budget   \* bound on each thread's calls and spurious wakeups

vars == <<bits, work, mutex, pc, arg, todo, fresh, order, ran, budget>>

\* The word is v; the compare-and-swap stores v.
Word(b, q)  == bits = b /\ work = q
Store(b, q) == bits' = b /\ work' = q
Free        == Word({}, <<>>)

\* Program points at which a thread holds the lock.
Holding  == {"locked", "crit", "drain_crit", "drain_unlock", "unlock"}
Draining == {"drain_crit", "drain_unlock"}
\* Program points at which a thread holds the mutex.
InMutex  == {"slow", "sleep", "locked", "wake_unlock"}
PCs == Holding \cup InMutex \cup
       {"idle", "queue", "slow_mutex", "wait", "wake_mutex", "broadcast"}

Goto(t, p) == pc' = [pc EXCEPT ![t] = p]

(***************************************************************************)
(* oo_wqlock_init                                                          *)
(***************************************************************************)
Init == /\ Free
        /\ mutex = {}
        /\ pc = [t \in Threads |-> "idle"]
        /\ arg = [t \in Threads |-> {}]
        /\ todo = [t \in Threads |-> <<>>]
        /\ fresh = Works
        /\ order = <<>>
        /\ ran = <<>>
        /\ budget = [t \in Threads |-> Budget]

Spend(t) == budget[t] > 0 /\ budget' = [budget EXCEPT ![t] = @ - 1]

(***************************************************************************)
(* oo_wqlock_try_lock and the fast path of oo_wqlock_lock.                 *)
(***************************************************************************)
TryLock(t) == /\ pc[t] = "idle"
              /\ Spend(t)
              /\ Free
              /\ Store({"LOCKED"}, <<>>)
              /\ Goto(t, "crit")
              /\ UNCHANGED <<mutex, arg, todo, fresh, order, ran>>

\* oo_wqlock_lock falls through to oo_wqlock_lock_slow when the word it read,
\* or the word the swap met, was not zero.
LockSlow(t) == /\ pc[t] = "idle"
               /\ Spend(t)
               /\ ~Free
               /\ Goto(t, "slow_mutex")
               /\ UNCHANGED <<bits, work, mutex, arg, todo, fresh, order, ran>>

(***************************************************************************)
(* oo_wqlock_lock_or_queue: a caller that failed to take the lock mallocs a *)
(* work item, then queues it on the holder or, when the lock has been let   *)
(* go meanwhile, takes the lock itself.                                    *)
(***************************************************************************)
DeferCall(t, w) == /\ pc[t] = "idle"
                   /\ Spend(t)
                   /\ w \in fresh
                   /\ fresh' = fresh \ {w}
                   /\ arg' = [arg EXCEPT ![t] = {w}]
                   /\ Goto(t, "queue")
                   /\ UNCHANGED <<bits, work, mutex, todo, order, ran>>

TryQueue(t) == /\ pc[t] = "queue"
               /\ "LOCKED" \in bits
               /\ \E w \in arg[t] :
                    /\ Store(bits, <<w>> \o work)
                    /\ order' = Append(order, w)
               /\ arg' = [arg EXCEPT ![t] = {}]
               /\ Goto(t, "idle")
               /\ UNCHANGED <<mutex, todo, fresh, ran, budget>>

\* The caller then applies the operation itself and frees the work item.
QueueGotLock(t) == /\ pc[t] = "queue"
                   /\ Free
                   /\ Store({"LOCKED"}, <<>>)
                   /\ fresh' = fresh \cup arg[t]
                   /\ arg' = [arg EXCEPT ![t] = {}]
                   /\ Goto(t, "crit")
                   /\ UNCHANGED <<mutex, todo, order, ran, budget>>

(***************************************************************************)
(* oo_wqlock_lock_slow                                                     *)
(***************************************************************************)
SlowMutex(t) == /\ pc[t] = "slow_mutex"
                /\ mutex = {}
                /\ mutex' = mutex \cup {t}
                /\ Goto(t, "slow")
                /\ UNCHANGED <<bits, work, arg, todo, fresh, order, ran, budget>>

SlowTake(t) == /\ pc[t] = "slow"
               /\ Free
               /\ Store({"LOCKED"}, <<>>)
               /\ Goto(t, "locked")
               /\ UNCHANGED <<mutex, arg, todo, fresh, order, ran, budget>>

SlowNeedWake(t) == /\ pc[t] = "slow"
                   /\ ~Free
                   /\ "NEED_WAKE" \notin bits
                   /\ Store(bits \cup {"NEED_WAKE"}, work)
                   /\ UNCHANGED <<mutex, pc, arg, todo, fresh, order, ran, budget>>

\* NEED_WAKE was set in the word read: the thread commits to sleeping, and
\* the word may change before it is asleep.
SlowDecideSleep(t) == /\ pc[t] = "slow"
                      /\ "NEED_WAKE" \in bits
                      /\ Goto(t, "sleep")
                      /\ UNCHANGED <<bits, work, mutex, arg, todo, fresh, order, ran, budget>>

\* pthread_cond_wait gives up the mutex and sleeps atomically.
CondWait(t) == /\ pc[t] = "sleep"
               /\ mutex' = mutex \ {t}
               /\ Goto(t, "wait")
               /\ UNCHANGED <<bits, work, arg, todo, fresh, order, ran, budget>>

\* pthread_cond_wait may return unsignalled; the mutex is retaken either way.
SpuriousWakeup(t) == /\ pc[t] = "wait"
                     /\ Spend(t)
                     /\ Goto(t, "slow_mutex")
                     /\ UNCHANGED <<bits, work, mutex, arg, todo, fresh, order, ran>>

SlowReturn(t) == /\ pc[t] = "locked"
                 /\ mutex' = mutex \ {t}
                 /\ Goto(t, "crit")
                 /\ UNCHANGED <<bits, work, arg, todo, fresh, order, ran, budget>>

(***************************************************************************)
(* oo_wqlock_try_drain_work, from the holder's spin loop or from unlock,    *)
(* and oo_wqlock_work_do, which reverses the list and runs it item by item. *)
(***************************************************************************)
\* Mutants: the swap stores 0 or LOCKED in place of v & LOCK_BITS; the list is
\* run as found.
DrainTo(t, p, b, list) == /\ work # <<>>
                             /\ todo' = [todo EXCEPT ![t] = list]
                             /\ Store(b, <<>>)
                             /\ Goto(t, p)
                             /\ UNCHANGED <<mutex, arg, fresh, order, ran, budget>>
DrainFrees(t, p)      == DrainTo(t, p, {}, Reverse(work))
DrainClearsWake(t, p) == DrainTo(t, p, {"LOCKED"}, Reverse(work))
DrainUnreversed(t, p) == DrainTo(t, p, bits, work)

Drain(t, p) == /\ work # <<>>
               /\ todo' = [todo EXCEPT ![t] = Reverse(work)]
               /\ Store(bits, <<>>)
               /\ Goto(t, p)
               /\ UNCHANGED <<mutex, arg, fresh, order, ran, budget>>

DrainInCrit(t) == pc[t] = "crit" /\ Drain(t, "drain_crit")

WorkDo(t) == /\ pc[t] \in Draining
             /\ todo[t] # <<>>
             /\ ran' = Append(ran, Head(todo[t]))
             /\ todo' = [todo EXCEPT ![t] = Tail(@)]
             /\ UNCHANGED <<bits, work, mutex, pc, arg, fresh, order, budget>>

WorkDone(t) == /\ pc[t] \in Draining
               /\ todo[t] = <<>>
               /\ Goto(t, IF pc[t] = "drain_crit" THEN "crit" ELSE "unlock")
               /\ UNCHANGED <<bits, work, mutex, arg, todo, fresh, order, ran, budget>>

(***************************************************************************)
(* oo_wqlock_unlock and oo_wqlock_unlock_slow                              *)
(***************************************************************************)
UnlockFast(t) == /\ pc[t] = "crit"
                 /\ Word({"LOCKED"}, <<>>)
                 /\ Store({}, <<>>)
                 /\ Goto(t, "idle")
                 /\ UNCHANGED <<mutex, arg, todo, fresh, order, ran, budget>>

UnlockSlow(t) == /\ pc[t] = "crit"
                 /\ ~Word({"LOCKED"}, <<>>)
                 /\ Goto(t, "unlock")
                 /\ UNCHANGED <<bits, work, mutex, arg, todo, fresh, order, ran, budget>>

UnlockDrain(t) == pc[t] = "unlock" /\ Drain(t, "drain_unlock")

\* Mutants: queued work is ignored by the releasing swap; the broadcast does
\* not pass through the mutex.
UnlockIgnoresWork(t) == /\ pc[t] = "unlock"
                        /\ Store({}, <<>>)
                        /\ Goto(t, IF "NEED_WAKE" \in bits THEN "wake_mutex" ELSE "idle")
                        /\ UNCHANGED <<mutex, arg, todo, fresh, order, ran, budget>>
UnlockNoInterlock(t) == /\ pc[t] = "unlock"
                        /\ work = <<>>
                        /\ Store({}, <<>>)
                        /\ Goto(t, IF "NEED_WAKE" \in bits THEN "broadcast" ELSE "idle")
                        /\ UNCHANGED <<mutex, arg, todo, fresh, order, ran, budget>>

UnlockRelease(t) == /\ pc[t] = "unlock"
                    /\ work = <<>>
                    /\ Store({}, <<>>)
                    /\ Goto(t, IF "NEED_WAKE" \in bits THEN "wake_mutex" ELSE "idle")
                    /\ UNCHANGED <<mutex, arg, todo, fresh, order, ran, budget>>

WakeMutex(t) == /\ pc[t] = "wake_mutex"
                /\ mutex = {}
                /\ mutex' = mutex \cup {t}
                /\ Goto(t, "wake_unlock")
                /\ UNCHANGED <<bits, work, arg, todo, fresh, order, ran, budget>>

WakeUnlock(t) == /\ pc[t] = "wake_unlock"
                 /\ mutex' = mutex \ {t}
                 /\ Goto(t, "broadcast")
                 /\ UNCHANGED <<bits, work, arg, todo, fresh, order, ran, budget>>

Broadcast(t) == /\ pc[t] = "broadcast"
                /\ pc' = [u \in Threads |-> CASE u = t -> "idle"
                                              [] pc[u] = "wait" -> "slow_mutex"
                                              [] OTHER -> pc[u]]
                /\ UNCHANGED <<bits, work, mutex, arg, todo, fresh, order, ran, budget>>

-----------------------------------------------------------------------------
\* Steps of code that is running inside the lock's functions, or of a holder
\* that comes to unlock.
Progress(t) == \/ TryQueue(t) \/ QueueGotLock(t)
               \/ SlowMutex(t) \/ SlowTake(t) \/ SlowNeedWake(t)
               \/ SlowDecideSleep(t) \/ CondWait(t) \/ SlowReturn(t)
               \/ WorkDo(t) \/ WorkDone(t)
               \/ UnlockFast(t) \/ UnlockSlow(t) \/ UnlockDrain(t) \/ UnlockRelease(t)
               \/ WakeMutex(t) \/ WakeUnlock(t) \/ Broadcast(t)

\* Steps that need not happen: new calls, the spin loop's drain, spurious
\* wakeups.
Choice(t) == \/ TryLock(t) \/ LockSlow(t) \/ (\E w \in Works : DeferCall(t, w))
             \/ DrainInCrit(t) \/ SpuriousWakeup(t)

\* No thread is using the lock; more calls need not come.
Quiet == (\A t \in Threads : pc[t] = "idle") /\ UNCHANGED vars

Next == (\E t \in Threads : Progress(t) \/ Choice(t)) \/ Quiet

Spec == Init /\ [][Next]_vars

\* A thread that is inside the lock's code keeps running, and a holder
\* eventually unlocks.  Nothing is assumed of callers or of spurious wakeups.
FairSpec == Spec /\ \A t \in Threads : WF_vars(Progress(t))

-----------------------------------------------------------------------------
TypeOK == /\ bits \in SUBSET {"LOCKED", "NEED_WAKE"}
          /\ work \in Seq(Works)
          /\ mutex \in {{}} \cup {{t} : t \in Threads}
          /\ pc \in [Threads -> PCs]
          /\ arg \in [Threads -> SUBSET Works]
          /\ todo \in [Threads -> Seq(Works)]
          /\ fresh \in SUBSET Works
          /\ order \in Seq(Works)
          /\ ran \in Seq(Works)
          /\ budget \in [Threads -> Nat]

\* One thread at a time is between taking the lock and the swap that lets it
\* go, and the LOCKED bit is set exactly then: neither a drain's swap nor the
\* setting of NEED_WAKE can free or duplicate the lock.
MutualExclusion ==
    /\ \A t, u \in Threads : pc[t] \in Holding /\ pc[u] \in Holding => t = u
    /\ "LOCKED" \in bits <=> \E t \in Threads : pc[t] \in Holding

\* A thread asleep in pthread_cond_wait, or committed to it, is not forgotten
\* (bug 66816): either the lock is held with NEED_WAKE set, so the holder's
\* unlock will take the slow path, or an unlocker has yet to broadcast -- and
\* for a thread not yet asleep, has yet to take the mutex that thread holds.
NoLostWakeup ==
    \A t \in Threads :
        /\ pc[t] = "wait" => \/ "NEED_WAKE" \in bits
                             \/ \E u \in Threads :
                                  pc[u] \in {"wake_mutex", "wake_unlock", "broadcast"}
        /\ pc[t] = "sleep" => \/ "NEED_WAKE" \in bits
                              \/ \E u \in Threads : pc[u] = "wake_mutex"

\* Queued work is run exactly once and in the order it was queued: what has
\* run, then what the draining thread still has in hand, then the reversed
\* list in the lock word, is the queueing order.
WorkRunsInOrder ==
    \/ \E t \in Threads : /\ pc[t] \in Draining
                          /\ order = ran \o todo[t] \o Reverse(work)
    \/ /\ \A t \in Threads : pc[t] \notin Draining
       /\ order = ran \o Reverse(work)

\* Whoever finds the word zero and takes the lock sees the effect of every
\* operation queued before: a free word means all queued work has run, so an
\* epoll_ctl applied directly never overtakes one that was handed over.
FreeMeansAllRan == Free => ran = order

\* Handed-over work is eventually run by somebody, without its caller.
QueuedWorkIsRun == \A w \in Works : w \in Range(order) ~> w \in Range(ran)

\* Every call into the lock returns: nobody sleeps for ever, and the unlocker,
\* the sleepers and the work queued on the lock never wait for each other.
EveryCallReturns == \A t \in Threads : pc[t] # "idle" ~> pc[t] = "idle"
=============================================================================
