----------------------------- MODULE StackLocks -----------------------------
(***************************************************************************)
(* The two locks of a stack in the kernel.  The shared lock (EpLock) can be *)
(* taken by user level; the trusted lock, trs->trusted_lock, only by the    *)
(* kernel.  The kernel takes the trusted lock first, then tries the shared  *)
(* one.  Whoever does not get both leaves flags in one of the words, and    *)
(* the holders move them to and fro, do the work, or, in softirq            *)
(* ("driverlink", DL) context, hand the locks they hold to a workqueue.     *)
(* When the last application reference goes, AWAITING_FREE makes the holder *)
(* of the trusted lock responsible for freeing the stack.                   *)
(*                                                                         *)
(* Flags of a word are a set.  NEED_POLL, PRIME_IF_IDLE, NEED_PRIME,        *)
(* NEED_WAKE and CLOSE_ENDPOINT stand for the kinds of work the unlock      *)
(* paths tell apart; FL_NEED_WAKE and the user-level unlock are in EpLock.  *)
(*                                                                         *)
(* One step is one access to a lock word with the private work before it.   *)
(***************************************************************************)
EXTENDS Naturals, FiniteSets

CONSTANTS Softirq,    \* agents in driverlink context (in_dl_context = 1)
          Proc,       \* threads of the applications that use the stack
          Timer,      \* kernel threads: periodic timer and reset work
          WQ, DTOR,   \* the stack's workqueue; the global one (work_item_dtor)
          Endpoints,
          IntDriven,  \* NI_OPTS(ni).int_driven
          Budget      \* bound: calls made by an agent

ASSUME StackLocksAssumption ==
    /\ Softirq \cap Proc = {} /\ Softirq \cap Timer = {} /\ Proc \cap Timer = {}
    /\ WQ # DTOR /\ {WQ, DTOR} \cap (Softirq \cup Proc \cup Timer) = {}
    /\ IntDriven \in BOOLEAN /\ Budget \in Nat

VARIABLES trusted,   \* trs->trusted_lock
          shared,    \* ni->state->lock.lock
          aflags,    \* trs->trs_aflags: locks handed to the workqueue
          work,      \* work items that are queued
          inDL,      \* CI_NETIF_FLAG_IN_DL_CONTEXT in ni->flags
          tobe,      \* trs->ep_tobe_closed
          closed,    \* history: endpoints that went through the list
          phase,     \* "app", "freeing" once AWAITING_FREE is set, "freed"
          dead,      \* an application died with the shared lock held
          wedged,    \* CI_NETIF_FLAG_WEDGED
          ag,        \* what each agent is doing
          owed,      \* history: work asked for and not done
          budget

vars == <<trusted, shared, aflags, work, inDL, tobe, closed, phase, dead,
          wedged, ag, owed, budget>>

Agents == Softirq \cup Proc \cup Timer \cup {WQ, DTOR}
DL(a)  == a \in Softirq

UNLOCK_FLAGS   == {"NEED_POLL", "PRIME_IF_IDLE", "NEED_PRIME", "NEED_WAKE",
                   "CLOSE_ENDPOINT"}
UL_COMMON_MASK == {"NEED_POLL", "PRIME_IF_IDLE"}
TrustedFlags   == (UNLOCK_FLAGS \ {"NEED_WAKE"}) \cup {"OS_READY"}
\* CI_EPLOCK_NETIF_DL_CONTEXT_DEFER_MASK, where wakeups are avoided too.
DeferMask(a)   == IF DL(a) THEN {"NEED_WAKE", "CLOSE_ENDPOINT", "NEED_POLL"} ELSE {}
DEFERRED_TRUSTED == {"POLL_AND_PRIME", "UNLOCK_TRUSTED"}

\* pc: the program point.  job: the entry point the agent came in by.
\* ret: who called oo_trusted_lock_drop.  hand: lock_val, or flags on their
\* way from one word to the other.  after: after_unlock_flags.
Idle == [pc |-> "idle", job |-> "none", ret |-> "none", hand |-> {}, after |-> {}]
At(a, p)   == ag[a].pc = p
Goto(a, p) == ag' = [ag EXCEPT ![a].pc = p]
Back(a)    == ag' = [ag EXCEPT ![a] = Idle]
Spend(a)   == budget[a] > 0 /\ budget' = [budget EXCEPT ![a] = @ - 1]
SetDL(a)   == inDL' = (inDL \/ DL(a))
ClearDL(a) == inDL' = (inDL /\ ~DL(a))
Enter(a, j, p) == ag' = [ag EXCEPT ![a] = [Idle EXCEPT !.pc = p, !.job = j]]

Init == /\ trusted = {} /\ shared = {} /\ aflags = {} /\ work = {}
        /\ inDL = FALSE /\ tobe = {} /\ closed = {}
        /\ phase = "app" /\ dead = FALSE /\ wedged = FALSE
        /\ ag = [a \in Agents |-> Idle]
        /\ owed = {}
        /\ budget = [a \in Agents |-> Budget]

gone == <<closed, phase, dead, wedged>>

(***************************************************************************)
(* The entry points.                                                       *)
(***************************************************************************)
\* oo_handle_wakeup_or_timeout: the interrupt polls ("wake"), or leaves polling
\* and priming to others ("defer").  oo_handle_wakeup_int_driven: it polls or
\* leaves both to others ("int"), or finds no event and primes ("prime").
Interrupts == IF IntDriven THEN {"int", "prime"} ELSE {"wake", "defer"}

\* Nothing to do if the workqueue is about to poll and prime.
HandleWakeup(a, j) ==
    /\ a \in Softirq /\ j \in Interrupts /\ At(a, "idle") /\ Spend(a)
    /\ IF "POLL_AND_PRIME" \in aflags THEN UNCHANGED ag
       ELSE Enter(a, j, IF j = "prime" THEN "set_shared" ELSE "try")
    /\ UNCHANGED <<trusted, shared, aflags, work, inDL, tobe, gone, owed>>

\* efab_os_wakeup_event: a socket with epoll3 ready lists became ready.
OsWakeupEvent(a) == /\ a \in Softirq /\ At(a, "idle") /\ Spend(a)
                    /\ Enter(a, "os", "try")
                    /\ UNCHANGED <<trusted, shared, aflags, work, inDL, tobe, gone, owed>>

\* efab_tcp_helper_close_endpoint: queue the endpoint, then lock or set flags.
CloseEndpoint(a) ==
    /\ a \in Proc /\ phase = "app" /\ At(a, "idle") /\ Spend(a)
    /\ \E e \in Endpoints \ (tobe \cup closed) : tobe' = tobe \cup {e}
    /\ Enter(a, "close", "try")
    /\ UNCHANGED <<trusted, shared, aflags, work, inDL, gone, owed>>

\* Attaching to a receive queue of an interrupt-driven stack asks for both a
\* poll and a prime.
AllocRxq(a) == /\ a \in Proc /\ IntDriven /\ phase = "app" /\ At(a, "idle") /\ Spend(a)
               /\ Enter(a, "rxq", "try")
               /\ UNCHANGED <<trusted, shared, aflags, work, inDL, tobe, gone, owed>>

\* An application takes the shared lock only; it unlocks in the kernel, or
\* dies holding it.
LockShared(a, j) == /\ At(a, "idle") /\ Spend(a)
                    /\ "LOCKED" \notin shared
                    /\ shared' = shared \cup {"LOCKED"}
                    /\ Enter(a, j, "uw")
                    /\ UNCHANGED <<trusted, aflags, work, inDL, tobe, gone, owed>>
UlLock(a)    == a \in Proc /\ phase = "app" /\ LockShared(a, "ul")
\* tcp_helper_reset_stack_work
ResetWork(a) == a \in Timer /\ LockShared(a, "reset")

Crash(a) == /\ At(a, "uw") /\ ag[a].job = "ul"
            /\ dead' = TRUE
            /\ Back(a)
            /\ UNCHANGED <<trusted, shared, aflags, work, inDL, tobe, closed, phase,
                           wedged, owed, budget>>

\* linux_tcp_timer_do
PeriodicTimer(a) == /\ a \in Timer /\ At(a, "idle") /\ Spend(a)
                    /\ Enter(a, "poll", "try")
                    /\ UNCHANGED <<trusted, shared, aflags, work, inDL, tobe, gone, owed>>

\* The holder of the shared lock has sockets to wake when it unlocks.
HolderNeedWake(a) == /\ At(a, "uw") /\ ag[a].job = "ul"
                     /\ "NEED_WAKE" \notin shared
                     /\ shared' = shared \cup {"NEED_WAKE"}
                     /\ owed' = owed \cup {"NEED_WAKE"}
                     /\ UNCHANGED <<trusted, aflags, work, inDL, tobe, gone, ag, budget>>

(***************************************************************************)
(* efab_tcp_helper_netif_try_lock and _lock_or_set_flags                   *)
(***************************************************************************)
UntrustedFlags(j) == CASE j = "defer" -> {"NEED_POLL", "PRIME_IF_IDLE"}
                       [] j \in {"rxq", "int"} -> {"NEED_POLL", "NEED_PRIME"}
                       [] j = "prime" -> {"NEED_PRIME"}
                       [] j = "close" -> {"CLOSE_ENDPOINT"}
                       [] j = "os"    -> {"NEED_WAKE"}
TrustedFlagsOf(j) == IF j = "os" THEN {"OS_READY"} ELSE UntrustedFlags(j)
\* Endpoints to be closed are accounted for by the list itself.
Owe(fs) == owed' = owed \cup (fs \ {"CLOSE_ENDPOINT"})
Request(a) == Owe(TrustedFlagsOf(ag[a].job))

\* Where an agent goes when the try_lock fails.
Failed(a) == IF ag[a].job \in {"defer", "close", "os", "rxq", "int"}
             THEN ag' = [ag EXCEPT ![a].pc = "set_shared", ![a].ret = "none"]
             ELSE Back(a)

TryLock(a) == /\ At(a, "try")
              /\ \/ trusted = {} /\ trusted' = {"LOCKED"} /\ Goto(a, "try_shared")
                 \/ trusted # {} /\ Failed(a) /\ UNCHANGED trusted
              /\ UNCHANGED <<shared, aflags, work, inDL, tobe, gone, owed, budget>>

TryShared(a) ==
    /\ At(a, "try_shared")
    /\ \/ /\ "LOCKED" \notin shared
          /\ shared' = shared \cup {"LOCKED"}
          /\ SetDL(a)
          /\ Goto(a, "both")
       \/ /\ "LOCKED" \in shared
          /\ ag' = [ag EXCEPT ![a].pc = "drop", ![a].ret = "try"]
          /\ UNCHANGED <<shared, inDL>>
    /\ UNCHANGED <<trusted, aflags, work, tobe, gone, owed, budget>>

SetShared(a) ==
    /\ At(a, "set_shared")
    /\ \/ /\ "LOCKED" \in shared
          /\ shared' = shared \cup UntrustedFlags(ag[a].job)
          /\ Request(a)
          /\ Back(a)
       \/ "LOCKED" \notin shared /\ Goto(a, "set_trusted") /\ UNCHANGED <<shared, owed>>
    /\ UNCHANGED <<trusted, aflags, work, inDL, tobe, gone, budget>>

\* Flags are ignored when AWAITING_FREE.  With both locks free the loop starts
\* again; a request to prime is then carried out on the spot, and if there are
\* events after all it becomes a request to poll.
SetTrusted(a) ==
    /\ At(a, "set_trusted")
    /\ \/ /\ "LOCKED" \in trusted
          /\ IF "AWAITING_FREE" \in trusted THEN UNCHANGED <<trusted, owed>>
             ELSE /\ trusted' = trusted \cup TrustedFlagsOf(ag[a].job)
                  /\ Request(a)
          /\ Back(a)
       \/ /\ "LOCKED" \notin trusted
          /\ IF ag[a].job = "prime" THEN Back(a) \/ Enter(a, "int", "set_shared")
             ELSE Goto(a, "try")
          /\ UNCHANGED <<trusted, owed>>
    /\ UNCHANGED <<shared, aflags, work, inDL, tobe, gone, budget>>

(***************************************************************************)
(* With both locks held.                                                   *)
(***************************************************************************)
\* Mutant: IN_DL_CONTEXT stays set for the workqueue.
DeferDl2WorkInDl(flag) == /\ aflags' = aflags \cup {flag}
                      /\ UNCHANGED inDL

\* tcp_helper_defer_dl2work: from here on the locks belong to the workqueue.
DeferDl2Work(flag) == /\ aflags' = aflags \cup {flag}
                      /\ inDL' = FALSE

\* efab_tcp_helper_netif_unlock: the trusted lock is dropped first.
NetifUnlock(a) == /\ ClearDL(a)
                  /\ ag' = [ag EXCEPT ![a].pc = "drop", ![a].ret = "unlock"]

\* tcp_helper_wakeup: poll, and defer what is left when the budget runs out.
\* The poll may leave sockets to wake.
WakeupPoll(a) ==
    /\ At(a, "both") /\ ag[a].job \in {"wake", "int"}
    /\ \/ /\ DeferDl2Work("POLL_AND_PRIME")
          /\ work' = work \cup {"non_atomic"}
          /\ Back(a)
          /\ UNCHANGED <<shared, owed>>
       \/ /\ NetifUnlock(a)
          /\ \E fs \in {{}, {"NEED_WAKE"}} : shared' = shared \cup fs /\ Owe(fs)
          /\ UNCHANGED <<aflags, work>>
    /\ UNCHANGED <<trusted, tobe, gone, budget>>

\* defer_poll_and_prime and efab_os_wakeup_epoll3_locked give the locks away.
GiveLocks(a) ==
    /\ At(a, "both") /\ ag[a].job \in {"defer", "os"}
    /\ DeferDl2Work(IF ag[a].job = "os" THEN "UNLOCK_TRUSTED" ELSE "POLL_AND_PRIME")
    /\ work' = work \cup {"non_atomic"}
    /\ Back(a)
    /\ UNCHANGED <<trusted, shared, tobe, gone, owed, budget>>

\* ef_eplock_holder_set_flag given two bits: it stops when either is set.
RxqFlags(a) ==
    /\ At(a, "both") /\ ag[a].job = "rxq"
    /\ LET fs == IF shared \cap UntrustedFlags("rxq") # {} THEN {} ELSE UntrustedFlags("rxq")
       IN shared' = shared \cup fs /\ Owe(fs)
    /\ NetifUnlock(a)
    /\ UNCHANGED <<trusted, aflags, work, tobe, gone, budget>>

CloseNow(a) == /\ At(a, "both") /\ ag[a].job = "close"
               /\ Goto(a, "closing")
               /\ UNCHANGED <<trusted, shared, aflags, work, inDL, tobe, gone, owed, budget>>

PollNow(a) == /\ At(a, "both") /\ ag[a].job \in {"poll", "wq"}
              /\ NetifUnlock(a)
              /\ UNCHANGED <<trusted, shared, aflags, work, tobe, gone, owed, budget>>

\* tcp_helper_close_pending_endpoints: pops until the list is empty, then
\* returns to its caller.
ClosePending(a) ==
    /\ At(a, "closing")
    /\ \/ \E e \in tobe : /\ tobe' = tobe \ {e}
                          /\ closed' = closed \cup {e}
                          /\ UNCHANGED <<ag, inDL>>
       \/ /\ tobe = {}
          /\ CASE ag[a].ret \in {"unlock", "callback"} -> Goto(a, "drop") /\ UNCHANGED inDL
               [] ag[a].ret = "try" \/ ag[a].job = "free" -> Goto(a, "uw") /\ UNCHANGED inDL
               [] OTHER -> NetifUnlock(a)
          /\ UNCHANGED <<tobe, closed>>
    /\ UNCHANGED <<trusted, shared, aflags, work, phase, dead, wedged, owed, budget>>

(***************************************************************************)
(* oo_trusted_lock_drop.  HasShared: the caller keeps the shared lock.      *)
(***************************************************************************)
HasShared(a) == ag[a].ret # "try"

\* Returning 0: the trusted lock is free, or 1: it was given away.
Dropped(a)  == CASE ag[a].ret = "try" -> Failed(a)
                 [] ag[a].ret = "unlock" ->
                      ag' = [ag EXCEPT ![a].pc = "uw", ![a].ret = "none"]
                 [] ag[a].ret = "callback" ->
                      ag' = [ag EXCEPT ![a].pc = "cb_try", ![a].ret = "none"]
Deferred(a) == IF ag[a].ret = "try" THEN Failed(a) ELSE Back(a)

\* Mutant: the shared lock is forgotten when the stack is freed.
DropAwaitingFreeOnly(a) ==
    /\ At(a, "drop") /\ "AWAITING_FREE" \in trusted
    /\ work' = work \cup {"dtor"} /\ UNCHANGED <<aflags, inDL>>
    /\ Deferred(a)
    /\ UNCHANGED <<trusted, shared, tobe, gone, owed, budget>>

\* Mutant: the destructor is not scheduled.
DropAwaitingFreeNobody(a) ==
    /\ At(a, "drop") /\ "AWAITING_FREE" \in trusted
    /\ IF HasShared(a) THEN /\ DeferDl2Work("UNLOCK_UNTRUSTED")
                            /\ work' = work \cup {"non_atomic"}
       ELSE UNCHANGED <<work, aflags, inDL>>
    /\ Deferred(a)
    /\ UNCHANGED <<trusted, shared, tobe, gone, owed, budget>>

DropAwaitingFree(a) ==
    /\ At(a, "drop") /\ "AWAITING_FREE" \in trusted
    /\ IF HasShared(a) THEN /\ DeferDl2Work("UNLOCK_UNTRUSTED")
                            /\ work' = work \cup {"non_atomic", "dtor"}
       ELSE work' = work \cup {"dtor"} /\ UNCHANGED <<aflags, inDL>>
    /\ Deferred(a)
    /\ UNCHANGED <<trusted, shared, tobe, gone, owed, budget>>

DropFree(a) == /\ At(a, "drop") /\ trusted = {"LOCKED"}
               /\ trusted' = {}
               /\ Dropped(a)
               /\ UNCHANGED <<shared, aflags, work, inDL, tobe, gone, owed, budget>>

\* One flag at a time: CLOSE_ENDPOINT, then OS_READY, then all the others.
DropFlags(a) ==
    /\ At(a, "drop") /\ "AWAITING_FREE" \notin trusted /\ trusted # {"LOCKED"}
    /\ IF "CLOSE_ENDPOINT" \in trusted
       THEN trusted' = trusted \ {"CLOSE_ENDPOINT"} /\ Goto(a, "drop_close")
       ELSE IF "OS_READY" \in trusted
       THEN trusted' = trusted \ {"OS_READY"} /\ Goto(a, "drop_ready")
       ELSE /\ trusted' = {"LOCKED"}
            /\ ag' = [ag EXCEPT ![a].pc = "drop_pass", ![a].hand = trusted \ {"LOCKED"}]
    /\ UNCHANGED <<shared, aflags, work, inDL, tobe, gone, owed, budget>>

\* CLOSE_ENDPOINT is for whoever has both locks: take the shared one, or leave
\* the flag to its holder.
DropCloseLock(a) ==
    /\ At(a, "drop_close") /\ ~HasShared(a)
    /\ IF "LOCKED" \in shared
       THEN shared' = shared \cup {"CLOSE_ENDPOINT"} /\ Goto(a, "drop")
       ELSE shared' = shared \cup {"LOCKED"} /\ Goto(a, "drop_clear")
    /\ UNCHANGED <<trusted, aflags, work, inDL, tobe, gone, owed, budget>>

\* Mutant: the flag is not put back before the locks are given away.
DropCloseNowForgets(a) ==
    /\ At(a, "drop_clear") \/ (At(a, "drop_close") /\ HasShared(a))
    /\ shared' = shared \ {"CLOSE_ENDPOINT"}
    /\ IF DL(a)
       THEN /\ UNCHANGED trusted
            /\ DeferDl2Work("UNLOCK_TRUSTED")
            /\ work' = work \cup {"non_atomic"}
            /\ Deferred(a)
       ELSE Goto(a, "closing") /\ UNCHANGED <<trusted, aflags, work, inDL>>
    /\ UNCHANGED <<tobe, gone, owed, budget>>

\* With both locks: close now, or in DL context put the flag back and give
\* both locks away.
DropCloseNow(a) ==
    /\ At(a, "drop_clear") \/ (At(a, "drop_close") /\ HasShared(a))
    /\ shared' = shared \ {"CLOSE_ENDPOINT"}
    /\ IF DL(a)
       THEN /\ trusted' = IF "AWAITING_FREE" \in trusted THEN trusted
                          ELSE trusted \cup {"CLOSE_ENDPOINT"}
            /\ DeferDl2Work("UNLOCK_TRUSTED")
            /\ work' = work \cup {"non_atomic"}
            /\ Deferred(a)
       ELSE Goto(a, "closing") /\ UNCHANGED <<trusted, aflags, work, inDL>>
    /\ UNCHANGED <<tobe, gone, owed, budget>>

DropReady(a) ==
    /\ At(a, "drop_ready")
    /\ IF HasShared(a) \/ "LOCKED" \notin shared
       THEN /\ shared' = shared \cup {"LOCKED"}
            /\ owed' = owed \ {"OS_READY"}
            /\ Goto(a, IF HasShared(a) THEN "drop" ELSE "uw")
       ELSE shared' = shared \cup {"NEED_WAKE"} /\ Goto(a, "drop") /\ UNCHANGED owed
    /\ UNCHANGED <<trusted, aflags, work, inDL, tobe, gone, budget>>

\* Mutant: a plain trylock, which sets no flags when it fails.
DropPassTry(a) ==
    /\ At(a, "drop_pass")
    /\ shared' = IF HasShared(a) \/ "LOCKED" \notin shared
                 THEN shared \cup ag[a].hand \cup {"LOCKED"} ELSE shared
    /\ ag' = [ag EXCEPT ![a].hand = {},
                        ![a].pc = IF HasShared(a) \/ "LOCKED" \in shared THEN "drop" ELSE "uw"]
    /\ UNCHANGED <<trusted, aflags, work, inDL, tobe, gone, owed, budget>>

\* ef_eplock_holder_set_flags or ef_eplock_trylock_and_set_flags.
DropPass(a) ==
    /\ At(a, "drop_pass")
    /\ shared' = shared \cup ag[a].hand \cup {"LOCKED"}
    /\ ag' = [ag EXCEPT ![a].hand = {},
                        ![a].pc = IF HasShared(a) \/ "LOCKED" \in shared THEN "drop" ELSE "uw"]
    /\ UNCHANGED <<trusted, aflags, work, inDL, tobe, gone, owed, budget>>

(***************************************************************************)
(* efab_eplock_unlock_and_wake and efab_tcp_helper_netif_lock_callback.     *)
(***************************************************************************)
\* Back to the caller: drop, efab_tcp_helper_rm_free_locked, or the end.
Unlocked(a) == CASE ag[a].ret = "try" ->
                      ag' = [ag EXCEPT ![a].pc = "drop", ![a].hand = {}, ![a].after = {}]
                 [] ag[a].ret # "try" /\ ag[a].job = "free" ->
                      ag' = [ag EXCEPT ![a].pc = "fl_end", ![a].hand = {}, ![a].after = {}]
                 [] ag[a].ret # "try" /\ ag[a].job # "free" -> Back(a)

UnlockAndWake(a) ==
    /\ At(a, "uw")
    /\ IF shared \cap UNLOCK_FLAGS = {}
       THEN shared' = {} /\ Unlocked(a) /\ UNCHANGED inDL
       ELSE Goto(a, "cb_clear") /\ SetDL(a) /\ UNCHANGED shared
    /\ UNCHANGED <<trusted, aflags, work, tobe, gone, owed, budget>>

\* ci_netif_unlock_slow_common leaves the flags in DeferMask alone.
CbClear(a) == /\ At(a, "cb_clear")
              /\ shared' = shared \ (UNLOCK_FLAGS \ DeferMask(a))
              /\ ag' = [ag EXCEPT ![a].pc = "cb_work", ![a].hand = shared]
              /\ UNCHANGED <<trusted, aflags, work, inDL, tobe, gone, owed, budget>>

CbWork(a) ==
    /\ At(a, "cb_work")
    /\ LET test == ag[a].hand \ DeferMask(a)
           polled == "NEED_POLL" \in test
       IN \E woke \in IF polled THEN BOOLEAN ELSE {FALSE} :
            LET set == IF polled /\ "PRIME_IF_IDLE" \in test /\ ~woke
                       THEN {"NEED_PRIME"} ELSE {}
            IN /\ shared' = shared \cup set
               /\ owed' = (owed \ IF polled THEN test \cap UL_COMMON_MASK ELSE {}) \cup set
               /\ ag' = [ag EXCEPT ![a].pc = "cb_close", ![a].hand = @ \cup set]
    /\ UNCHANGED <<trusted, aflags, work, inDL, tobe, gone, budget>>

FlagsSet(a) == (ag[a].hand \cap UNLOCK_FLAGS) \ (UL_COMMON_MASK \cup {"CLOSE_ENDPOINT"})

\* CLOSE_ENDPOINT comes first: it moves to the trusted lock.
CbClose(a) ==
    /\ At(a, "cb_close")
    /\ IF "CLOSE_ENDPOINT" \in ag[a].hand
       THEN /\ shared' = shared \ {"CLOSE_ENDPOINT"}
            /\ ag' = [ag EXCEPT ![a].pc = "cb_trusted",
                                ![a].after = @ \cup (ag[a].hand \cap {"NEED_PRIME"})]
       ELSE /\ ag' = [ag EXCEPT ![a].pc = "cb_defer",
                                ![a].after = @ \cup (ag[a].hand \cap {"NEED_PRIME"})]
            /\ UNCHANGED shared
    /\ UNCHANGED <<trusted, aflags, work, inDL, tobe, gone, owed, budget>>

\* oo_trusted_lock_lock_and_set_flags: if that takes the trusted lock, drop it
\* again and so do the work; else the work is its holder's.
CbTrusted(a) ==
    /\ At(a, "cb_trusted")
    /\ IF trusted = {}
       THEN /\ trusted' = {"LOCKED", "CLOSE_ENDPOINT"}
            /\ shared' = shared \cup FlagsSet(a)
            /\ ClearDL(a)
            /\ ag' = [ag EXCEPT ![a].pc = "drop", ![a].ret = "callback", ![a].hand = {}]
       ELSE /\ trusted' = IF "AWAITING_FREE" \in trusted THEN trusted
                          ELSE trusted \cup {"CLOSE_ENDPOINT"}
            /\ Goto(a, "cb_defer")
            /\ UNCHANGED <<shared, inDL>>
    /\ UNCHANGED <<aflags, work, tobe, gone, owed, budget>>

\* What may not be done in DL context goes, with the shared lock, to the
\* workqueue; the rest is done here.
CbDefer(a) ==
    /\ At(a, "cb_defer")
    /\ IF ag[a].hand \cap DeferMask(a) # {}
       THEN /\ shared' = shared \cup FlagsSet(a)
            /\ DeferDl2Work("UNLOCK_UNTRUSTED")
            /\ work' = work \cup {"non_atomic"}
            /\ Unlocked(a)
            /\ UNCHANGED owed
       ELSE /\ owed' = IF "NEED_WAKE" \in ag[a].hand THEN owed \ {"NEED_WAKE", "OS_READY"}
                       ELSE owed
            /\ ClearDL(a)
            /\ ag' = [ag EXCEPT ![a].pc = "cb_try", ![a].hand = {}]
            /\ UNCHANGED <<shared, aflags, work>>
    /\ UNCHANGED <<trusted, tobe, gone, budget>>

\* Mutant: the lock is dropped whatever flags came in.
CbTryUnlockBlind(a) ==
    /\ At(a, "cb_try")
    /\ shared' = shared \ {"LOCKED"}
    /\ owed' = owed \ ag[a].after
    /\ Unlocked(a)
    /\ UNCHANGED inDL
    /\ UNCHANGED <<trusted, aflags, work, tobe, gone, budget>>

CbTryUnlock(a) ==
    /\ At(a, "cb_try")
    /\ IF shared \cap UNLOCK_FLAGS # {}
       THEN Goto(a, "cb_clear") /\ SetDL(a) /\ UNCHANGED <<shared, owed>>
       ELSE /\ shared' = {}
            /\ owed' = owed \ ag[a].after
            /\ Unlocked(a)
            /\ UNCHANGED inDL
    /\ UNCHANGED <<trusted, aflags, work, tobe, gone, budget>>

(***************************************************************************)
(* tcp_helper_do_non_atomic: take over the locks that were given away.      *)
(***************************************************************************)
DoNonAtomic == /\ At(WQ, "idle") /\ "non_atomic" \in work
               /\ work' = work \ {"non_atomic"}
               /\ Enter(WQ, "wq", "wq_shared")
               /\ UNCHANGED <<trusted, shared, aflags, inDL, tobe, gone, owed, budget>>

\* ret = "untrusted": need_unlock_shared.
WqShared == /\ At(WQ, "wq_shared")
            /\ aflags' = aflags \ {"UNLOCK_UNTRUSTED"}
            /\ ag' = [ag EXCEPT ![WQ].pc = "wq_both",
                                ![WQ].ret = IF "UNLOCK_UNTRUSTED" \in aflags
                                            THEN "untrusted" ELSE "none"]
            /\ UNCHANGED <<trusted, shared, work, inDL, tobe, gone, owed, budget>>

WqBoth == /\ At(WQ, "wq_both")
          /\ aflags' = aflags \ DEFERRED_TRUSTED
          /\ CASE aflags \cap DEFERRED_TRUSTED # {} ->
                    ag' = [ag EXCEPT ![WQ].pc = "both", ![WQ].ret = "none"]
               [] aflags \cap DEFERRED_TRUSTED = {} /\ ag[WQ].ret = "untrusted" ->
                    ag' = [ag EXCEPT ![WQ].pc = "uw", ![WQ].ret = "none"]
               [] aflags \cap DEFERRED_TRUSTED = {} /\ ag[WQ].ret # "untrusted" -> Back(WQ)
          /\ UNCHANGED <<trusted, shared, work, inDL, tobe, gone, owed, budget>>

(***************************************************************************)
(* tcp_helper_rm_free, when no application has the stack open any more.     *)
(***************************************************************************)
\* Flags in the word are dropped.  A holder finds AWAITING_FREE when it drops
\* the lock; otherwise the caller has the lock now and frees the stack, in the
\* workqueue if it is not the thread of an application that may block.
RmFree(a) ==
    /\ a \in Proc /\ phase = "app"
    /\ \A p \in Proc : At(p, "idle")
    /\ phase' = "freeing"
    /\ trusted' = {"LOCKED", "AWAITING_FREE"}
    /\ CASE "LOCKED" \in trusted -> UNCHANGED <<ag, work>>
         [] "LOCKED" \notin trusted ->
              \/ Enter(a, "free", "fl_flush") /\ ~inDL /\ UNCHANGED work
              \/ work' = work \cup {"dtor"} /\ UNCHANGED ag
    /\ UNCHANGED <<shared, aflags, inDL, tobe, closed, dead, wedged, owed, budget>>

WorkItemDtor == /\ At(DTOR, "idle") /\ "dtor" \in work
                /\ work' = work \ {"dtor"}
                /\ Enter(DTOR, "free", "fl_flush")
                /\ UNCHANGED <<trusted, shared, aflags, inDL, tobe, gone, owed, budget>>

(***************************************************************************)
(* efab_tcp_helper_rm_free_locked                                          *)
(***************************************************************************)
FlFlush(a) == /\ At(a, "fl_flush")
              /\ "non_atomic" \notin work /\ At(WQ, "idle")
              /\ Goto(a, "fl_try")
              /\ UNCHANGED <<trusted, shared, aflags, work, inDL, tobe, gone, owed, budget>>

FlTry(a) == /\ At(a, "fl_try")
            /\ IF "LOCKED" \notin shared
               THEN shared' = shared \cup {"LOCKED"} /\ Goto(a, "closing")
               ELSE Goto(a, "fl_reset") /\ UNCHANGED shared
            /\ UNCHANGED <<trusted, aflags, work, inDL, tobe, gone, owed, budget>>

\* efab_tcp_helper_flush_reset_wq
FlReset(a) == /\ At(a, "fl_reset")
              /\ \A r \in Timer : ag[r].job # "reset"
              /\ Goto(a, "fl_again")
              /\ UNCHANGED <<trusted, shared, aflags, work, inDL, tobe, gone, owed, budget>>

\* The second trylock decides whether the stack is wedged.
FlAgain(a) ==
    /\ At(a, "fl_again")
    /\ IF "LOCKED" \notin shared
       THEN shared' = shared \cup {"LOCKED"} /\ Goto(a, "closing") /\ UNCHANGED wedged
       ELSE wedged' = TRUE /\ Goto(a, "fl_end") /\ UNCHANGED shared
    /\ UNCHANGED <<trusted, aflags, work, inDL, tobe, closed, phase, dead, owed, budget>>

FlEnd(a) == /\ At(a, "fl_end")
            /\ trusted' = {}
            /\ phase' = "freed"
            /\ Back(a)
            /\ UNCHANGED <<shared, aflags, work, inDL, tobe, closed, dead, wedged, owed, budget>>

(***************************************************************************)
(* The system.                                                             *)
(***************************************************************************)
Drop(a) == \/ DropAwaitingFree(a) \/ DropFree(a) \/ DropFlags(a) \/ DropCloseLock(a)
           \/ DropCloseNow(a) \/ DropReady(a) \/ DropPass(a)
Unlock(a) == \/ UnlockAndWake(a) \/ CbClear(a) \/ CbWork(a) \/ CbClose(a)
             \/ CbTrusted(a) \/ CbDefer(a) \/ CbTryUnlock(a)
Hold(a) == \/ WakeupPoll(a) \/ GiveLocks(a) \/ RxqFlags(a) \/ CloseNow(a)
           \/ PollNow(a) \/ ClosePending(a)
Take(a) == TryLock(a) \/ TryShared(a) \/ SetShared(a) \/ SetTrusted(a)
Free(a) == FlFlush(a) \/ FlTry(a) \/ FlReset(a) \/ FlAgain(a) \/ FlEnd(a)

Step(a) == \/ Take(a) \/ Hold(a) \/ Drop(a) \/ Unlock(a) \/ Free(a)
           \/ a = WQ /\ (DoNonAtomic \/ WqShared \/ WqBoth)
           \/ a = DTOR /\ WorkItemDtor

Call(a) == \/ \E j \in Interrupts : HandleWakeup(a, j)
           \/ OsWakeupEvent(a) \/ CloseEndpoint(a) \/ AllocRxq(a)
           \/ UlLock(a) \/ ResetWork(a) \/ PeriodicTimer(a)
           \/ Crash(a) \/ HolderNeedWake(a) \/ RmFree(a)

\* Nothing left to do.
Quiescent == work = {} /\ \A a \in Agents : At(a, "idle")
Quiet == Quiescent /\ UNCHANGED vars

Next == (\E a \in Agents : Step(a) \/ Call(a)) \/ Quiet
Spec == Init /\ [][Next]_vars
\* Every agent goes on; two of them may do so in lock step for ever.
FairSpec == Spec /\ \A a \in Agents : WF_vars(Step(a))
\* An agent that finds the trusted lock ready to be dropped again and again
\* drops it in the end.
NoLockStepSpec == FairSpec /\ \A a \in Agents : SF_vars(DropFree(a))

(***************************************************************************)
(* Properties.                                                             *)
(***************************************************************************)
Jobs == {"none", "wake", "int", "defer", "prime", "os", "close", "rxq", "ul", "reset",
         "poll", "wq", "free"}
Dropping  == {"drop", "drop_close", "drop_ready", "drop_pass"}
Unlocking == {"uw", "cb_clear", "cb_work", "cb_close", "cb_trusted", "cb_defer", "cb_try"}
Freeing   == {"fl_flush", "fl_try", "fl_reset", "fl_again", "fl_end"}
PCs == Dropping \cup Unlocking \cup Freeing \cup
       {"idle", "try", "try_shared", "both", "set_shared", "set_trusted", "closing",
        "drop_clear", "wq_shared", "wq_both"}

\* The words hold flags of their kind, and the agents are where code can be.
TypeOK == /\ trusted \subseteq TrustedFlags \cup {"LOCKED", "AWAITING_FREE"}
          /\ shared \subseteq UNLOCK_FLAGS \cup {"LOCKED"}
          /\ aflags \subseteq DEFERRED_TRUSTED \cup {"UNLOCK_UNTRUSTED"}
          /\ work \subseteq {"non_atomic", "dtor"}
          /\ inDL \in BOOLEAN /\ dead \in BOOLEAN /\ wedged \in BOOLEAN
          /\ tobe \subseteq Endpoints /\ closed \subseteq Endpoints
          /\ phase \in {"app", "freeing", "freed"}
          /\ ag \in [Agents -> [pc : PCs, job : Jobs,
                                ret : {"none", "try", "unlock", "callback", "untrusted"},
                                hand : SUBSET (UNLOCK_FLAGS \cup {"LOCKED"}),
                                after : SUBSET {"NEED_PRIME"}]]
          /\ owed \subseteq UNLOCK_FLAGS \cup {"OS_READY"}
          /\ budget \in [Agents -> 0 .. Budget]

HoldsShared(a)  == \/ ag[a].pc \in {"both", "closing", "drop_clear"} \cup Unlocking
                   \/ ag[a].pc \in Dropping /\ HasShared(a)
                   \/ ag[a].pc = "wq_both" /\ ag[a].ret = "untrusted"
HoldsTrusted(a) == \/ ag[a].pc \in {"try_shared", "both", "closing", "drop_clear"}
                                   \cup Dropping \cup Freeing
                   \/ ag[a].pc \in Unlocking /\ (ag[a].ret = "try" \/ ag[a].job = "free")

\* Who owns each lock: an agent, the workqueue through trs_aflags or the
\* destructor's work item, or a process that died.
SharedOwners  == {a \in Agents : HoldsShared(a)}
                 \cup (IF "UNLOCK_UNTRUSTED" \in aflags THEN {"untrusted"} ELSE {})
                 \cup (IF aflags \cap DEFERRED_TRUSTED # {} THEN {"deferred"} ELSE {})
                 \cup (IF dead THEN {"dead"} ELSE {})
TrustedOwners == {a \in Agents : HoldsTrusted(a)}
                 \cup (IF aflags \cap DEFERRED_TRUSTED # {} THEN {"deferred"} ELSE {})
                 \cup (IF "dtor" \in work THEN {"dtor"} ELSE {})

\* Handing a lock to a workqueue never duplicates nor loses it: at any time
\* each lock has exactly one owner if it is locked, and none if it is not.
OneOwnerEach == /\ Cardinality(SharedOwners) = IF "LOCKED" \in shared THEN 1 ELSE 0
                /\ Cardinality(TrustedOwners) = IF "LOCKED" \in trusted THEN 1 ELSE 0

\* CI_NETIF_FLAG_IN_DL_CONTEXT is set only while an agent in softirq context
\* polls or unlocks with the shared lock, never when a workqueue or a process
\* has it; endpoints are closed and the unlock path is entered without it.
InDlMeansSoftirq ==
    /\ inDL => \E a \in Softirq :
                 ag[a].pc \in {"both"} \cup (Unlocking \ {"uw", "cb_try"})
    /\ \A a \in Softirq : ~At(a, "closing")

\* Someone is bound to look at the list of endpoints to be closed: the flag is
\* in a word, or with an agent that is moving it, closing, or yet to set it.
PendingEndpointsInCharge ==
    tobe # {} /\ ~wedged =>
        \/ "CLOSE_ENDPOINT" \in trusted \cup shared
        \/ phase = "freeing"
        \/ \E a \in Agents :
             \/ ag[a].pc \in {"closing", "drop_close", "drop_clear", "cb_trusted"}
             \/ ag[a].pc \in {"cb_work", "cb_close"} /\ "CLOSE_ENDPOINT" \in ag[a].hand
             \/ ag[a].job = "close" /\ ag[a].pc \in {"try", "try_shared", "both",
                                                     "set_shared", "set_trusted"}
             \/ ag[a].job = "close" /\ ag[a].ret = "try"

\* Flags on their way: in a word, or in the hand of an agent.
InFlight(f) == \/ f \in trusted \cup shared
               \/ \E a \in Agents : f \in ag[a].hand \/ f \in ag[a].after

\* A poll or a wakeup asked for while the application has the stack open is
\* never dropped while flags move between the locks.
NoRequestForgotten ==
    phase = "app" =>
        /\ "NEED_POLL" \in owed => InFlight("NEED_POLL")
        /\ "NEED_WAKE" \in owed => InFlight("NEED_WAKE")
        /\ "OS_READY" \in owed => \/ InFlight("NEED_WAKE") \/ InFlight("OS_READY")
                                  \/ \E a \in Agents : At(a, "drop_ready")

\* Once all is quiet no lock is held, no lock is left with a workqueue and no
\* endpoint waits, unless a process died with the shared lock.
QuietMeansDone == Quiescent /\ ~dead => /\ trusted = {} /\ shared = {} /\ aflags = {}
                                        /\ tobe = {} \/ wedged

\* A stack nobody uses any more is freed, whoever has the trusted lock then
\* and even if a process died with the shared one.
FreeCompletes == phase = "freeing" ~> phase = "freed"

\* Endpoints left to a lock holder are closed in the end.
PendingEndpointsGetClosed == tobe # {} ~> tobe = {} \/ dead \/ wedged

\* A request to prime stays until the stack is primed.
NeedPrimeKept == phase = "app" /\ "NEED_PRIME" \in owed => InFlight("NEED_PRIME")

=============================================================================
