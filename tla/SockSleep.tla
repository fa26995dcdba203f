----------------------------- MODULE SockSleep ------------------------------
(***************************************************************************)
(* Blocking on a socket.  A thread that finds its socket not ready sleeps   *)
(* on the socket's wait queue; the stack, which runs under the stack lock   *)
(* in user-level or kernel context, and the OS socket behind it, which runs *)
(* under no lock, wake it.  The two sides meet in words that are not        *)
(* protected by a lock: the counters sleep_seq, read before the socket is   *)
(* found not ready, and wake_request, set before they are read again.       *)
(* The wait queue is also that of the per-socket lock.                      *)
(*                                                                         *)
(* There is one socket.  The stack lock is abstracted to its owner and its  *)
(* NEED_WAKE flag (EpLock shows how it is taken); a softirq that must not   *)
(* wake anybody gives it to the workqueue WQ, as in StackLocks.             *)
(***************************************************************************)
EXTENDS Naturals

CONSTANTS Receivers,   \* threads in recv(): hold the socket lock, wait for RX
          Senders,     \* threads in send(): hold no lock, wait for TX
          Connectors,  \* threads that hold the stack lock and wait for either
          UlStack,     \* user-level threads that poll the stack
          KStack,      \* kernel threads that poll the stack
          DlStack,     \* softirqs that poll the stack
          OsEvents,    \* callbacks of the OS socket
          WQ,          \* the workqueue of the stack
          SigOwn,      \* the socket has a fasync queue and an owner (SIGIO)
          Budget       \* bound: calls and events of each agent

VARIABLES wl,      \* w->lock.wl_val
          seq,     \* w->sleep_seq
          sbf,     \* w->sb_flags: kinds of readiness to wake for
          req,     \* w->wake_request
          listed,  \* the socket is on ni->state->post_poll_list
          own,     \* who has the stack lock
          nw,      \* CI_EPLOCK_NETIF_NEED_WAKE in the stack lock
          ready,   \* kinds for which the socket is ready
          woken,   \* threads on the wait queue that have been woken
          ag,      \* what each agent is doing
          budget

vars == <<wl, seq, sbf, req, listed, own, nw, ready, woken, ag, budget>>

Kinds  == {"RX", "TX"}
App    == Receivers \cup Senders \cup Connectors
Stack  == UlStack \cup KStack \cup DlStack
Agents == App \cup Stack \cup OsEvents \cup {WQ}

ASSUME SockSleepAssumption ==
    /\ SigOwn \in BOOLEAN /\ Budget \in Nat
    /\ "none" \notin Agents /\ WQ \notin App \cup Stack \cup OsEvents
    /\ App \cap Stack = {} /\ (App \cup Stack) \cap OsEvents = {}
    /\ Receivers \cap (Senders \cup Connectors) = {} /\ Senders \cap Connectors = {}
    /\ UlStack \cap (KStack \cup DlStack) = {} /\ KStack \cap DlStack = {}

\* Agents that leave waking to whoever drops the stack lock in the kernel:
\* user level, and softirqs (oo_avoid_wakeup_from_dl).
Defers(a) == a \in UlStack \cup Connectors \cup DlStack

\* pc: the program point.  ret: where a called function returns to.  why: the
\* kind waited for, or reported.  todo: kinds yet to be counted.  val: a counter
\* as it was read.  snap: sleep_seq before the socket was looked at.
Zero == [k \in Kinds |-> 0]
Idle == [pc |-> "idle", ret |-> "idle", why |-> "RX", todo |-> {}, val |-> 0, snap |-> Zero]
At(a, p)   == ag[a].pc = p
Goto(a, p) == ag' = [ag EXCEPT ![a].pc = p]
Call(a, p, r) == ag' = [ag EXCEPT ![a].pc = p, ![a].ret = r]
Return(a)  == Goto(a, ag[a].ret)
Spend(a)   == budget[a] > 0 /\ budget' = [budget EXCEPT ![a] = @ - 1]

Init == /\ wl = {} /\ seq = Zero /\ sbf = {} /\ req = {} /\ listed = FALSE
        /\ own = "none" /\ nw = FALSE /\ ready = {} /\ woken = {}
        /\ ag = [a \in Agents |-> Idle]
        /\ budget = [a \in Agents |-> Budget]

sock  == <<wl, seq, sbf, req, listed, ready>>
stack == <<own, nw>>

(***************************************************************************)
(* The wait queue ep->waitq.                                                *)
(***************************************************************************)
OnQueue(a) == ag[a].pc \in {"sl_req", "sl_seq", "sleep", "lk_req", "lk_sleep"}
\* ci_waiter_pre: the task state is set before the queue is joined.
WaiterPre(a) == woken' = woken \ {a}
WakeupAll == woken' = woken \cup {a \in App : OnQueue(a)}

(***************************************************************************)
(* The per-socket lock: ci_sock_lock, ci_sock_lock_slow, ci_sock_unlock.    *)
(***************************************************************************)
SockLock(a) == /\ At(a, "lock")
               /\ IF "LOCKED" \in wl THEN Goto(a, "lk_pre") /\ UNCHANGED wl
                  ELSE wl' = wl \cup {"LOCKED"} /\ Goto(a, "look")
               /\ UNCHANGED <<seq, sbf, req, listed, ready, stack, woken, budget>>

SockLockPre(a) == /\ At(a, "lk_pre")
                  /\ WaiterPre(a)
                  /\ Goto(a, "lk_req")
                  /\ UNCHANGED <<sock, stack, budget>>

\* efab_tcp_helper_sock_is_unlocked_or_request_wake
SockRequestWake(a) == /\ At(a, "lk_req")
                      /\ IF wl = {} THEN Goto(a, "lock") /\ UNCHANGED wl
                         ELSE wl' = wl \cup {"NEED_WAKE"} /\ Goto(a, "lk_sleep")
                      /\ UNCHANGED <<seq, sbf, req, listed, ready, stack, woken, budget>>

\* sock_lock__on_wakeup: still on the queue, look again.
SockLockWoken(a) == /\ At(a, "lk_sleep") /\ a \in woken
                    /\ WaiterPre(a)
                    /\ Goto(a, "lk_req")
                    /\ UNCHANGED <<sock, stack, budget>>

\* User level waits again; in the kernel the call fails.
SockLockSignal(a) == /\ At(a, "lk_sleep")
                     /\ Goto(a, "lk_pre") \/ Goto(a, "idle")
                     /\ UNCHANGED <<sock, stack, woken, budget>>

\* Mutant: the slow path clears the lock bit only.
SockUnlockKeepsNeedWake(a) ==
    /\ At(a, "ul")
    /\ wl' = wl \ {"LOCKED"}
    /\ IF "NEED_WAKE" \in wl THEN Goto(a, "ul_wake") ELSE Return(a)
    /\ UNCHANGED <<seq, sbf, req, listed, ready, stack, woken, budget>>
\* Mutant: the fast path stores 0 whatever the word holds.
SockUnlockSilent(a) == /\ At(a, "ul")
                       /\ wl' = {}
                       /\ Return(a)
                       /\ UNCHANGED <<seq, sbf, req, listed, ready, stack, woken, budget>>
\* The fast path and ci_sock_unlock_slow without sleepers are one step; with
\* NEED_WAKE the word is cleared first (efab_tcp_helper_sock_unlock_slow).
SockUnlock(a) == /\ At(a, "ul")
                 /\ wl' = {}
                 /\ IF "NEED_WAKE" \in wl THEN Goto(a, "ul_wake") ELSE Return(a)
                 /\ UNCHANGED <<seq, sbf, req, listed, ready, stack, woken, budget>>

SockUnlockWake(a) == /\ At(a, "ul_wake")
                     /\ WakeupAll
                     /\ Return(a)
                     /\ UNCHANGED <<sock, stack, budget>>

(***************************************************************************)
(* A thread that waits for its socket.                                      *)
(***************************************************************************)
Start(a) == /\ a \in App /\ At(a, "idle") /\ Spend(a)
            /\ \E k \in Kinds :
                 /\ a \in Receivers => k = "RX"
                 /\ a \in Senders => k = "TX"
                 /\ ag' = [ag EXCEPT ![a] = [Idle EXCEPT !.why = k, !.pc =
                              CASE a \in Receivers -> "lock"
                                [] a \in Senders -> "look"
                                [] a \in Connectors -> "nlock"]]
            /\ UNCHANGED <<sock, stack, woken>>

\* ci_netif_lock; in CITP_WAITABLE_SLEEP_WHILE the stack is polled after it.
NetifLock(a) == /\ ag[a].pc \in {"nlock", "nlock_out"} /\ own = "none"
                /\ own' = a
                /\ IF At(a, "nlock") THEN Goto(a, "poll") ELSE Call(a, "unlock", "idle")
                /\ UNCHANGED <<sock, nw, woken, budget>>

ReadSeq(a) == /\ At(a, "look")
              /\ ag' = [ag EXCEPT ![a].snap = seq, ![a].pc = "check"]
              /\ UNCHANGED <<sock, stack, woken, budget>>

\* If the socket is ready the call takes what it came for and drops its lock;
\* if not, ci_sock_sleep drops it.
Unlocker(a, r) == CASE a \in Receivers -> "ul"
                    [] a \in Senders -> r
                    [] a \in Connectors -> "unlock"
Check(a) == /\ At(a, "check")
            /\ IF ag[a].why \in ready
               THEN ag' = [ag EXCEPT ![a].pc = Unlocker(a, "idle"), ![a].ret = "idle",
                                     ![a].snap = Zero]
               ELSE Call(a, Unlocker(a, "sl_pre"), "sl_pre")
            /\ ready' = ready \ {ag[a].why}
            /\ UNCHANGED <<wl, seq, sbf, req, listed, stack, woken, budget>>

(***************************************************************************)
(* efab_tcp_helper_sock_sleep, once the locks have been dropped.            *)
(***************************************************************************)
SleepPre(a) == /\ At(a, "sl_pre")
               /\ WaiterPre(a)
               /\ Goto(a, "sl_req")
               /\ UNCHANGED <<sock, stack, budget>>

\* A signal that came in while inside the library (-EBUSY) is run before the
\* call is made again, or ends it.
Failed(a) == ag' = [ag EXCEPT ![a].snap = Zero,
                              ![a].pc = IF a \in Connectors THEN "nlock_out" ELSE "idle"]
SleepBusy(a) == /\ At(a, "sl_pre")
                /\ Failed(a)
                /\ UNCHANGED <<sock, stack, woken, budget>>

SetWakeRequest(a) == /\ At(a, "sl_req")
                     /\ req' = req \cup {ag[a].why}
                     /\ Goto(a, "sl_seq")
                     /\ UNCHANGED <<wl, seq, sbf, listed, ready, stack, woken, budget>>

\* Back to the call's loop: CI_SLEEP_SOCK_RQ and the lock that follows it wait
\* for the same lock.
Again(a) == ag' = [ag EXCEPT ![a].snap = Zero, ![a].pc = CASE a \in Receivers -> "lock"
                                                          [] a \in Senders -> "look"
                                                          [] a \in Connectors -> "nlock"]
\* Mutant: sleep without comparing the counters.
CheckSeqBlind(a) == /\ At(a, "sl_seq")
                    /\ Goto(a, "sleep")
                    /\ UNCHANGED <<sock, stack, woken, budget>>
CheckSeq(a) == /\ At(a, "sl_seq")
               /\ IF seq = ag[a].snap THEN Goto(a, "sleep") ELSE Again(a)
               /\ UNCHANGED <<sock, stack, woken, budget>>

Awake(a) == /\ At(a, "sleep") /\ a \in woken
            /\ Again(a)
            /\ UNCHANGED <<sock, stack, woken, budget>>

\* Timeout or signal.
SleepFails(a) == /\ At(a, "sleep")
                 /\ Failed(a)
                 /\ UNCHANGED <<sock, stack, woken, budget>>

(***************************************************************************)
(* The stack: polls, and reports readiness outside a poll.                  *)
(***************************************************************************)
StackLock(a) == /\ a \in Stack /\ At(a, "idle") /\ own = "none"
                /\ own' = a
                /\ \/ Goto(a, "poll")
                   \/ \E k \in Kinds : ag' = [ag EXCEPT ![a].pc = "wake", ![a].why = k]
                /\ UNCHANGED <<sock, nw, woken, budget>>

\* A packet makes the socket ready: citp_waitable_wake, put_on_post_poll.
Deliver(a, k) == /\ At(a, "poll") /\ Spend(a)
                 /\ ready' = ready \cup {k}
                 /\ sbf' = sbf \cup {k}
                 /\ listed' = TRUE
                 /\ UNCHANGED <<wl, seq, req, stack, woken, ag>>

\* After a poll its caller goes on, or drops the stack lock.
EndPoll(a) == IF a \in Connectors THEN Goto(a, "look") ELSE Call(a, "unlock", "idle")

\* process_post_poll_list
PostPoll(a) == /\ At(a, "poll")
               /\ IF listed
                  THEN ag' = [ag EXCEPT ![a].pc = "inc", ![a].todo = sbf] ELSE EndPoll(a)
               /\ UNCHANGED <<sock, stack, woken, budget>>

\* citp_waitable_wake_not_in_poll
WakeNotInPoll(a) == /\ At(a, "wake") /\ Spend(a)
                    /\ ready' = ready \cup {ag[a].why}
                    /\ ag' = [ag EXCEPT ![a].pc = "inc", ![a].todo = {ag[a].why},
                                        ![a].ret = "np"]
                    /\ UNCHANGED <<wl, seq, sbf, req, listed, stack, woken>>
NothingToWake(a) == /\ At(a, "wake")
                    /\ Call(a, "unlock", "idle")
                    /\ UNCHANGED <<sock, stack, woken, budget>>

\* ++sleep_seq.rw.rx and ++sleep_seq.rw.tx are not atomic: the OS socket's
\* callback counts without the stack lock.
IncRead(a) == /\ At(a, "inc") /\ ag[a].todo # {}
              /\ \E k \in ag[a].todo : /\ "RX" \in ag[a].todo => k = "RX"
                                       /\ ag' = [ag EXCEPT ![a].pc = "inc_write",
                                                           ![a].val = seq[k]]
              /\ UNCHANGED <<sock, stack, woken, budget>>

IncWrite(a) == /\ At(a, "inc_write")
               /\ LET k == IF "RX" \in ag[a].todo THEN "RX" ELSE "TX"
                  IN /\ seq' = [seq EXCEPT ![k] = ag[a].val + 1]
                     /\ ag' = [ag EXCEPT ![a].pc = "inc", ![a].val = 0, ![a].todo = @ \ {k}]
               /\ UNCHANGED <<wl, sbf, req, listed, ready, stack, woken, budget>>

\* In a poll: nobody asked, or wake now, or leave the socket on the list.
CheckRequest(a) ==
    /\ At(a, "inc") /\ ag[a].todo = {} /\ a \notin OsEvents /\ ag[a].ret # "np"
    /\ IF sbf \cap req = {}
       THEN sbf' = {} /\ listed' = FALSE /\ EndPoll(a) /\ UNCHANGED nw
       ELSE IF Defers(a)
       THEN nw' = TRUE /\ EndPoll(a) /\ UNCHANGED <<sbf, listed>>
       ELSE Goto(a, "ew") /\ UNCHANGED <<sbf, listed, nw>>
    /\ UNCHANGED <<wl, seq, req, ready, own, woken, budget>>

\* Not in a poll.
CheckRequestNp(a) ==
    /\ At(a, "inc") /\ ag[a].todo = {} /\ a \notin OsEvents /\ ag[a].ret = "np"
    /\ IF ag[a].why \notin req
       THEN Goto(a, "wake") /\ UNCHANGED <<sbf, listed, nw>>
       ELSE /\ sbf' = sbf \cup {ag[a].why}
            /\ IF a \in UlStack THEN listed' = TRUE /\ nw' = TRUE /\ Goto(a, "wake")
               ELSE Goto(a, "ew") /\ UNCHANGED <<listed, nw>>
    /\ UNCHANGED <<wl, seq, req, ready, own, woken, budget>>

\* tcp_helper_endpoint_wakeup: the request is cleared, then everybody is woken.
EndpointWakeup(a) == /\ At(a, "ew")
                     /\ req' = {}
                     /\ Goto(a, "ew_wake")
                     /\ UNCHANGED <<wl, seq, sbf, listed, ready, stack, woken, budget>>
EndpointWakeAll(a) == /\ At(a, "ew_wake")
                      /\ WakeupAll
                      /\ sbf' = {}
                      /\ listed' = (listed /\ ag[a].ret = "np")
                      /\ req' = IF SigOwn THEN req \cup {"RX"} ELSE req
                      /\ IF ag[a].ret = "np" THEN Goto(a, "wake") ELSE EndPoll(a)
                      /\ UNCHANGED <<wl, seq, ready, stack, budget>>

\* Mutant: NEED_WAKE is cleared and its work forgotten.
NetifUnlockForgets(a) == /\ At(a, "unlock")
                         /\ own' = "none" /\ nw' = FALSE /\ Return(a)
                         /\ UNCHANGED <<sock, woken, budget>>

\* Dropping the stack lock.  With NEED_WAKE the kernel runs
\* wakeup_post_poll_list first, or a softirq gives the lock to the workqueue.
NetifUnlock(a) ==
    /\ At(a, "unlock")
    /\ \/ ~nw /\ own' = "none" /\ Return(a) /\ UNCHANGED nw
       \/ nw /\ a \in DlStack /\ own' = WQ /\ Return(a) /\ UNCHANGED nw
       \/ nw /\ a \notin DlStack /\ nw' = FALSE /\ Goto(a, "wppl") /\ UNCHANGED own
    /\ UNCHANGED <<sock, woken, budget>>

WakeupPostPollList(a) ==
    /\ At(a, "wppl")
    /\ IF listed THEN req' = {} /\ Goto(a, "wppl_wake") ELSE Goto(a, "unlock") /\ UNCHANGED req
    /\ UNCHANGED <<wl, seq, sbf, listed, ready, stack, woken, budget>>
\* Mutant: sb_flags are not cleared.
WakeupPostPollAllKeepsFlags(a) == /\ At(a, "wppl_wake")
                                  /\ WakeupAll
                                  /\ listed' = FALSE
                                  /\ req' = IF SigOwn THEN req \cup {"RX"} ELSE req
                                  /\ Goto(a, "unlock")
                                  /\ UNCHANGED <<wl, seq, sbf, ready, stack, budget>>
WakeupPostPollAll(a) == /\ At(a, "wppl_wake")
                        /\ WakeupAll
                        /\ sbf' = {}
                        /\ listed' = FALSE
                        /\ req' = IF SigOwn THEN req \cup {"RX"} ELSE req
                        /\ Goto(a, "unlock")
                        /\ UNCHANGED <<wl, seq, ready, stack, budget>>

\* tcp_helper_do_non_atomic with UNLOCK_UNTRUSTED.
DoNonAtomic == /\ own = WQ /\ At(WQ, "idle")
               /\ Call(WQ, "unlock", "idle")
               /\ UNCHANGED <<sock, stack, woken, budget>>

(***************************************************************************)
(* efab_os_wakeup_event: the status is set, counted, and everybody woken.   *)
(* What happened to the OS socket may or may not be what a caller waits for. *)
(***************************************************************************)
OsEvent(a) == /\ a \in OsEvents /\ At(a, "idle") /\ Spend(a)
              /\ \E ks \in {{"RX"}, {"TX"}, Kinds} : \E rs \in {{}, ks} :
                   /\ ready' = ready \cup rs
                   /\ ag' = [ag EXCEPT ![a].pc = "inc", ![a].todo = ks]
              /\ UNCHANGED <<wl, seq, sbf, req, listed, stack, woken>>
OsWake(a) == /\ a \in OsEvents /\ At(a, "inc") /\ ag[a].todo = {}
             /\ WakeupAll
             /\ Goto(a, "idle")
             /\ UNCHANGED <<sock, stack, budget>>

(***************************************************************************)
(* The system.                                                             *)
(***************************************************************************)
LockStep(a) == \/ SockLock(a) \/ SockLockPre(a) \/ SockRequestWake(a) \/ SockLockWoken(a)
               \/ SockUnlock(a) \/ SockUnlockWake(a) \/ NetifLock(a)
SleepStep(a) == \/ ReadSeq(a) \/ Check(a) \/ SleepPre(a) \/ SetWakeRequest(a)
                \/ CheckSeq(a) \/ Awake(a)
StackStep(a) == \/ PostPoll(a) \/ NothingToWake(a) \/ IncRead(a) \/ IncWrite(a)
                \/ CheckRequest(a) \/ CheckRequestNp(a) \/ EndpointWakeup(a)
                \/ EndpointWakeAll(a) \/ NetifUnlock(a) \/ WakeupPostPollList(a)
                \/ WakeupPostPollAll(a) \/ OsWake(a)
Step(a) == LockStep(a) \/ SleepStep(a) \/ StackStep(a) \/ (a = WQ /\ DoNonAtomic)

Event(a) == \/ Start(a) \/ StackLock(a) \/ (\E k \in Kinds : Deliver(a, k))
            \/ WakeNotInPoll(a) \/ OsEvent(a)
            \/ SockLockSignal(a) \/ SleepBusy(a) \/ SleepFails(a)

\* Nothing more happens: threads may sleep for ever for a socket nobody makes
\* ready.
Quiet == /\ \A a \in Agents : At(a, "idle") \/ (At(a, "sleep") /\ a \notin woken)
         /\ UNCHANGED vars

Next == (\E a \in Agents : Step(a) \/ Event(a)) \/ Quiet
Spec == Init /\ [][Next]_vars
\* Threads, softirqs and callbacks that are inside this code go on.  No event,
\* call, signal or timeout has to happen.
FairSpec == Spec /\ \A a \in Agents : WF_vars(Step(a))

(***************************************************************************)
(* Properties.                                                             *)
(***************************************************************************)
PCs == {"idle", "lock", "lk_pre", "lk_req", "lk_sleep", "ul", "ul_wake", "nlock",
        "nlock_out", "look", "check", "sl_pre", "sl_req", "sl_seq", "sleep", "poll",
        "wake", "inc", "inc_write", "ew", "ew_wake", "unlock", "wppl", "wppl_wake"}

\* The state has its shape.
TypeOK == /\ wl \subseteq {"LOCKED", "NEED_WAKE"}
          /\ seq \in [Kinds -> Nat]
          /\ sbf \subseteq Kinds /\ req \subseteq Kinds /\ ready \subseteq Kinds
          /\ listed \in BOOLEAN /\ nw \in BOOLEAN
          /\ own \in Agents \cup {"none"} /\ woken \subseteq App
          /\ ag \in [Agents -> [pc : PCs, ret : PCs \cup {"np"}, why : Kinds,
                                todo : SUBSET Kinds, val : Nat, snap : [Kinds -> Nat]]]
          /\ budget \in [Agents -> 0 .. Budget]

\* Program points at which a thread has the socket lock, and the stack lock.
HasSock(a)  == a \in Receivers /\ ag[a].pc \in {"look", "check", "ul"}
HasStack(a) == \/ ag[a].pc \in {"poll", "wake", "ew", "ew_wake", "unlock", "wppl", "wppl_wake"}
               \/ a \in Connectors /\ ag[a].pc \in {"look", "check"}
               \/ a \notin OsEvents /\ ag[a].pc \in {"inc", "inc_write"}

\* The socket lock has one holder, and NEED_WAKE is set only while it has: that
\* is what lets a waiter that finds NEED_WAKE go to sleep without looking at
\* LOCKED.
SockLockExclusive ==
    /\ \A a, b \in Agents : HasSock(a) /\ HasSock(b) => a = b
    /\ (\E a \in Agents : HasSock(a)) <=> "LOCKED" \in wl
    /\ "NEED_WAKE" \in wl => "LOCKED" \in wl

\* A thread asleep for the socket lock will be woken when it is dropped, though
\* socket wakeups take it off the queue at any time.
SockLockNoLostWakeup ==
    \A a \in Agents : At(a, "lk_sleep") /\ a \notin woken =>
        "NEED_WAKE" \in wl \/ \E b \in Agents : At(b, "ul_wake")

\* A wakeup for kind k is on its way: the stack or the OS has yet to count the
\* event or to look at wake_request, the socket is on the post-poll list with
\* the stack lock bound to wake it, or somebody is about to wake the queue.
OnItsWay(k) ==
    \/ \E a \in Agents :
         \/ ag[a].pc \in {"inc", "inc_write"} /\ (k \in ag[a].todo \/ a \in OsEvents)
         \/ At(a, "poll") /\ listed /\ k \in sbf
         \/ At(a, "inc") /\ (k \in sbf \/ (ag[a].ret = "np" /\ ag[a].why = k))
         \/ At(a, "inc_write") /\ k \in sbf
         \/ ag[a].pc \in {"ew", "ew_wake", "wppl_wake"}
         \/ At(a, "wppl") /\ listed
    \/ nw /\ listed

\* A thread never sleeps through readiness: if its socket is ready while it
\* sleeps, a wakeup is on its way.
NoLostWakeup == \A a \in Agents : At(a, "sleep") /\ a \notin woken /\ ag[a].why \in ready
                                   => OnItsWay(ag[a].why)

\* When the stack lock is free no socket is left on the post-poll list waiting
\* to be woken, and no flag is left for a later wakeup.
PostPollDrained == own = "none" => ~listed /\ ~nw /\ sbf = {}

\* A thread that sleeps on a socket that is ready wakes up.
ReadySleepersWake ==
    \A a \in App : At(a, "sleep") /\ ag[a].why \in ready
                      ~> ~At(a, "sleep") \/ ag[a].why \notin ready

\* No call gets stuck on the socket lock: it ends, or sleeps for a socket. (A
\* connector wants the stack lock too; EpLock has the calls that wait for it.)
CallsEndOrSleep == \A a \in Receivers \cup Senders :
                     ~At(a, "idle") ~> At(a, "idle") \/ At(a, "sleep")
=============================================================================
