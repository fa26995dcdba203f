------------------------------- MODULE PktPool -------------------------------
(***************************************************************************)
(* Packet buffers of a stack, and waiting for them.                         *)
(*                                                                         *)
(* Senders fill a datagram (ci_udp_sendmsg_fill), each packet of it from       *)
(* ci_netif_pkt_alloc_block: from the non-blocking pool, else under the       *)
(* stack lock from the free pool or again the non-blocking one, else they    *)
(* sleep in ci_netif_pkt_wait.  A connector (ci_tcp_connect) waits with the   *)
(* lock wanted on return.  A kernel sender that cannot get the lock frees     *)
(* without it and leaves the accounting to the next holder.  The periodic     *)
(* timer polls: packets sent come back, receive rings are refilled.          *)
(*                                                                         *)
(* The lock word has LOCKED and the flags that this code uses; how threads    *)
(* wait for the lock is in EpLock, and here a blocking lock is one step.       *)
(***************************************************************************)
EXTENDS NonbPool, Integers

CONSTANTS
    UlSenders, KSenders, Connectors, Timers,
    Signalled,      \* agents that a signal may reach while they wait
    TxMax,          \* packets that the TX path may have
    TwoPkts,        \* senders whose datagrams take two packets, not one
    Budget          \* calls per agent

ASSUME AgentsArePartitioned ==
    /\ Agents = UNION {UlSenders, KSenders, Connectors, Timers}
    /\ Connectors \cap Timers = {}
    /\ TxMax \in Nat

VARIABLES
    word,           \* ni->state->lock.lock
    free,           \* the free pool (n_free packets)
    rx,             \* packets of the RX path (n_rx_pkts)
    sent,           \* packets of the TX path, under the lock
    asyncq,         \* packets left for the next holder to send (tx_async_q)
    nonb,           \* packets with CI_PKT_FLAG_NONB_POOL
    nAsync,         \* n_async_pkts
    atomicAsync,    \* atomic_n_async_pkts
    queue, woken,   \* pkt_waitq, and the tasks on it that are runnable
    ag,             \* the agents
    budget

stackVars == <<free, rx, sent, asyncq, nonb>>
counters == <<nAsync, atomicAsync>>
waitVars == <<queue, woken>>
vars == <<poolVars, word, stackVars, counters, waitVars, ag, budget>>

Senders == UlSenders \cup KSenders
Kernel == KSenders \cup Timers

\* locked is stack_locked, was is was_locked; hand, after and retried are
\* locals of the unlock; todo is what is still to be freed.
Idle == [pc |-> "idle", ret |-> "idle", locked |-> FALSE, was |-> FALSE,
         hand |-> {}, after |-> FALSE, retried |-> FALSE, todo |-> <<>>]

\* Earlier sends have left packets of the non-blocking pool there, and others in
\* the TX rings.
Init == /\ PoolInit
        /\ word = {} /\ rx = {} /\ asyncq = {}
        /\ sent \in {{}, Pkts \ InPool} /\ free = Pkts \ (InPool \cup sent)
        /\ nonb = InPool \cup sent
        /\ nAsync = Len(chain) /\ atomicAsync = 0
        /\ queue = {} /\ woken = {}
        /\ ag = [a \in Agents |-> Idle]
        /\ budget = [a \in Agents |-> IF a \in Timers THEN 0 ELSE Budget]

At(a, pc) == ag[a].pc = pc
Goto(a, pc) == ag' = [ag EXCEPT ![a] = IF pc = "idle" THEN Idle ELSE [@ EXCEPT !.pc = pc]]
Call(a, pc, ret) == ag' = [ag EXCEPT ![a].pc = pc, ![a].ret = ret]

(***************************************************************************)
(* ci_netif_pkt_tx_may_alloc, ci_netif_pkt_tx_can_alloc_now                *)
(***************************************************************************)
MayAlloc == Cardinality(Pkts) - Cardinality(rx) - Cardinality(free) < TxMax
CanAlloc == (MayAlloc /\ free # {}) \/ head # NULL

(***************************************************************************)
(* ci_udp_sendmsg_fill and ci_netif_pkt_alloc_block                        *)
(***************************************************************************)
\* The call of alloc_block for the next packet.
AllocBlock(a, locked) ==
    ag' = [ag EXCEPT ![a].pc = IF locked THEN "alloc" ELSE "nonb",
                     ![a].locked = locked, ![a].was = locked]

StartSend(a) ==
    /\ a \in Senders /\ At(a, "idle") /\ budget[a] > 0
    /\ budget' = [budget EXCEPT ![a] = @ - 1]
    /\ \/ AllocBlock(a, FALSE) /\ UNCHANGED word
       \/ "LOCKED" \notin word /\ word' = word \cup {"LOCKED"} /\ AllocBlock(a, TRUE)
    /\ UNCHANGED <<poolVars, stackVars, counters, waitVars>>

Wanted(a) == IF a \in TwoPkts THEN 2 ELSE 1

\* A packet has come: it is filled, which may fault, and one more is wanted
\* until there are enough.
Filled(a) ==
    IF a \in Connectors THEN Goto(a, "send")
    ELSE \/ Goto(a, "failed")
         \/ IF Cardinality(held'[a]) < Wanted(a) THEN AllocBlock(a, ag[a].locked)
            ELSE Goto(a, "filled")

\* The call fails.
Fail(a) == IF held[a] # {} THEN Goto(a, "failed")
           ELSE IF ag[a].locked THEN Call(a, "unlock", "idle") ELSE Goto(a, "idle")

Nonb(a) ==
    /\ At(a, "nonb")
    /\ \/ (AllocRead(a) \/ AllocNext(a) \/ AllocAgain(a)) /\ UNCHANGED ag
       \/ AllocCas(a) /\ Filled(a)
       \/ AllocEmpty(a) /\ Call(a, "lock", "alloc")
    /\ UNCHANGED <<word, stackVars, counters, waitVars, budget>>

Lock(a) == /\ At(a, "lock") /\ "LOCKED" \notin word
           /\ word' = word \cup {"LOCKED"}
           /\ ag' = [ag EXCEPT ![a].pc = ag[a].ret, ![a].locked = TRUE]
           /\ UNCHANGED <<poolVars, stackVars, counters, waitVars, budget>>

\* In the kernel ci_netif_lock may be interrupted.
LockInterrupted(a) ==
    /\ At(a, "lock") /\ a \in KSenders \cap Signalled
    /\ IF ag[a].ret = "drop" THEN Goto(a, "drop") ELSE Fail(a)
    /\ UNCHANGED <<poolVars, word, stackVars, counters, waitVars, budget>>

\* A packet of the free pool: for a sender it counts as async, and goes to the
\* non-blocking pool in the end if the sender had no lock to begin with.
TakeFree(a) ==
    /\ MayAlloc
    /\ \E p \in free :
         /\ Take(a, {p}) /\ free' = free \ {p}
         /\ nonb' = IF a \in Senders /\ ~ag[a].was THEN nonb \cup {p} ELSE nonb \ {p}
    /\ nAsync' = IF a \in Senders THEN nAsync + 1 ELSE nAsync
    /\ Filled(a)
    /\ UNCHANGED <<rx, sent, asyncq, atomicAsync>>

\* ci_netif_pkt_tx_tcp_alloc: the current packet set may be empty while there
\* are free packets in others.
Alloc(a) == /\ At(a, "alloc")
            /\ \/ TakeFree(a)
               \/ Goto(a, "slow") /\ UNCHANGED <<poolVars, stackVars, counters>>
            /\ UNCHANGED <<word, waitVars, budget>>

\* ci_netif_pkt_alloc_slow: the non-blocking pool first ...
AllocSlowNonb(a) ==
    /\ At(a, "slow")
    /\ \/ /\ AllocRead(a) \/ AllocNext(a) \/ AllocAgain(a)
          /\ UNCHANGED <<ag, nonb, nAsync>>
       \/ /\ AllocCas(a) /\ Filled(a)
          /\ IF a \in Senders /\ ~ag[a].was THEN UNCHANGED nonb
             ELSE nonb' = nonb \ {op[a].id}
          /\ nAsync' = IF a \in Senders THEN nAsync ELSE nAsync - 1
    /\ UNCHANGED <<word, free, rx, sent, asyncq, atomicAsync, waitVars, budget>>

Starved(a) == At(a, "slow") /\ op[a].pc = "idle" /\ head = NULL

\* ... then the best set, after reaping RX packets if need be ...
AllocSlow(a) == /\ Starved(a) \/ At(a, "best")
                /\ TakeFree(a)
                /\ UNCHANGED <<word, waitVars, budget>>

Reap(a) == \E ps \in SUBSET rx : rx' = rx \ ps /\ free' = free \cup ps

AllocReap(a) == /\ Starved(a) /\ MayAlloc /\ free = {} /\ Reap(a) /\ free' # {}
                /\ Goto(a, "best")
                /\ UNCHANGED <<poolVars, word, sent, asyncq, nonb, counters, waitVars, budget>>

\* ... else wait for one, or fail with ENOBUFS.
AllocFails(a) == /\ Starved(a) /\ ~(MayAlloc /\ free # {})
                 /\ Goto(a, "poll") \/ Fail(a)
                 /\ UNCHANGED <<poolVars, word, stackVars, counters, waitVars, budget>>

(***************************************************************************)
(* Polling under the lock: packets that were sent are freed, those of the   *)
(* non-blocking pool as one list at the end (ci_netif_poll_free_pkts), RX   *)
(* packets come back, rings are refilled, from the non-blocking pool if       *)
(* there is nothing else.                                                    *)
(***************************************************************************)
Polled(a) == ag' = [ag EXCEPT ![a].pc = IF a \in Timers THEN "unlock" ELSE "polled",
                              ![a].ret = "idle", ![a].todo = <<>>]

SeqOf(ps) == CHOOSE list \in [1..Cardinality(ps) -> ps] : Elements(list) = ps

Poll(a) ==
    /\ At(a, "poll")
    /\ \E ps \in SUBSET sent :
         /\ sent' = sent \ ps /\ free' = free \cup (ps \ nonb)
         /\ Take(a, ps \cap nonb)
         /\ ag' = [ag EXCEPT ![a].pc = IF ps \cap nonb = {} THEN "refill" ELSE "poll_free",
                             ![a].todo = SeqOf(ps \cap nonb)]
    /\ UNCHANGED <<word, rx, asyncq, nonb, counters, waitVars, budget>>

PollFree(a) ==
    /\ At(a, "poll_free")
    /\ \/ /\ op[a].pc = "idle" /\ FreeList(a, ag[a].todo)
          /\ UNCHANGED <<ag, nAsync>>
       \/ (FreeRead(a) \/ FreeAgain(a)) /\ UNCHANGED <<ag, nAsync>>
       \/ /\ FreeCas(a)
          /\ nAsync' = nAsync + Len(ag[a].todo)
          /\ ag' = [ag EXCEPT ![a].pc = "refill", ![a].todo = <<>>]
    /\ UNCHANGED <<word, stackVars, atomicAsync, waitVars, budget>>

Refill(a) ==
    /\ At(a, "refill")
    /\ \/ Polled(a) /\ UNCHANGED <<free, rx>>
       \/ \E p \in free : free' = free \ {p} /\ rx' = rx \cup {p} /\ Polled(a)
       \/ Reap(a) /\ rx' # rx /\ Polled(a)
       \/ free = {} /\ Goto(a, "steal") /\ UNCHANGED <<free, rx>>
    /\ UNCHANGED <<poolVars, word, sent, asyncq, nonb, counters, waitVars, budget>>

Steal(a) ==
    /\ At(a, "steal")
    /\ \/ (AllocRead(a) \/ AllocNext(a) \/ AllocAgain(a)) /\ UNCHANGED <<ag, nonb, nAsync>>
       \/ /\ AllocCas(a)
          /\ ag' = [ag EXCEPT ![a].pc = "stolen", ![a].todo = <<op[a].id>>]
          /\ nonb' = nonb \ {op[a].id} /\ nAsync' = nAsync - 1
       \/ AllocEmpty(a) /\ Polled(a) /\ UNCHANGED <<nonb, nAsync>>
    /\ UNCHANGED <<word, free, rx, sent, asyncq, atomicAsync, waitVars, budget>>

\* ci_netif_pkt_release_1ref; more are stolen until there are enough.
Stolen(a) == /\ At(a, "stolen")
             /\ Give(a, Elements(ag[a].todo))
             /\ free' = free \cup Elements(ag[a].todo)
             /\ \/ Polled(a)
                \/ ag' = [ag EXCEPT ![a].pc = "steal", ![a].todo = <<>>]
             /\ UNCHANGED <<word, rx, sent, asyncq, nonb, counters, waitVars, budget>>

(***************************************************************************)
(* ci_netif_pkt_wait.  A connector wants the lock on return (RQ).           *)
(***************************************************************************)
Return0(a) == IF a \in Connectors THEN Goto(a, "again") ELSE Goto(a, "nonb")

PktWaitPolled(a) ==
    /\ At(a, "polled")
    /\ IF CanAlloc
       THEN IF a \in Connectors THEN Goto(a, "again") ELSE Call(a, "unlock", "nonb")
       ELSE Call(a, "unlock", "kw") \/ Call(a, "unlock", "spin")
    /\ UNCHANGED <<poolVars, word, stackVars, counters, waitVars, budget>>

\* ci_netif_pkt_wait_spin, until its time is up.
PktWaitSpin(a) ==
    /\ At(a, "spin")
    /\ \/ /\ "LOCKED" \notin word /\ word' = word \cup {"LOCKED"}
          /\ ag' = [ag EXCEPT ![a].pc = "poll", ![a].locked = TRUE]
       \/ /\ CanAlloc /\ UNCHANGED word
          /\ IF a \in Connectors THEN Call(a, "lock", "again") ELSE Goto(a, "nonb")
       \/ ~CanAlloc /\ Goto(a, "kw") /\ UNCHANGED word
    /\ UNCHANGED <<poolVars, stackVars, counters, waitVars, budget>>

\* efab_tcp_helper_pkt_wait: on the queue and about to sleep, look once more ...
KwSetState(a) == /\ At(a, "kw")
                 /\ queue' = queue \cup {a} /\ woken' = woken \ {a}
                 /\ Goto(a, "kw_check")
                 /\ UNCHANGED <<poolVars, word, stackVars, counters, budget>>

KwCheck(a) ==
    /\ At(a, "kw_check")
    /\ \/ /\ CanAlloc /\ queue' = queue \ {a}
          /\ IF a \in Connectors THEN Call(a, "lock", "rq") ELSE Goto(a, "nonb")
       \/ ~CanAlloc /\ Goto(a, "kw_flag") /\ UNCHANGED queue
    /\ UNCHANGED <<poolVars, word, stackVars, counters, woken, budget>>

\* ... leave word that somebody is waiting, and sleep.
KwFlag(a) == /\ At(a, "kw_flag")
             /\ word' = word \cup {"IS_PKT_WAITER"}
             /\ Goto(a, "kw_sleep")
             /\ UNCHANGED <<poolVars, stackVars, counters, waitVars, budget>>

KwWoken(a) == /\ At(a, "kw_sleep") /\ a \in woken
              /\ Goto(a, "kw")
              /\ UNCHANGED <<poolVars, word, stackVars, counters, waitVars, budget>>

\* A signal: the kernel gives up, user level treats it as a wakeup.
KwSignal(a) == /\ At(a, "kw_sleep") /\ a \in Signalled
               /\ queue' = queue \ {a}
               /\ IF a \in KSenders THEN Fail(a) ELSE Goto(a, "eintr")
               /\ UNCHANGED <<poolVars, word, stackVars, counters, woken, budget>>

\* continue: the condition of the loop is next.
KwEintr(a) == /\ At(a, "eintr")
              /\ IF CanAlloc THEN Return0(a) ELSE Goto(a, "kw")
              /\ UNCHANGED <<poolVars, word, stackVars, counters, waitVars, budget>>

PktWaitLocked(a) ==
    /\ At(a, "rq")
    /\ IF CanAlloc THEN Return0(a) ELSE Call(a, "unlock", "kw")
    /\ UNCHANGED <<poolVars, word, stackVars, counters, waitVars, budget>>

(***************************************************************************)
(* A datagram that is filled is sent if the lock can be had, else left for   *)
(* its holder (ci_udp_sendmsg_async_q_enqueue; DeferredSockets has how).      *)
(***************************************************************************)
SendFilled(a) ==
    /\ At(a, "filled")
    /\ \/ ag[a].locked /\ Goto(a, "send") /\ UNCHANGED <<poolVars, word, asyncq>>
       \/ /\ ~ag[a].locked /\ "LOCKED" \notin word /\ word' = word \cup {"LOCKED"}
          /\ ag' = [ag EXCEPT ![a].pc = "send", ![a].locked = TRUE]
          /\ UNCHANGED <<poolVars, asyncq>>
       \/ /\ ~ag[a].locked /\ "LOCKED" \in word /\ word' = word \cup {"SOCKET_LIST"}
          /\ asyncq' = asyncq \cup held[a] /\ Give(a, held[a])
          /\ Goto(a, "idle")
    /\ UNCHANGED <<free, rx, sent, nonb, counters, waitVars, budget>>

\* prep_send_pkt, or the SYN of a connector, which was never counted.
Send(a) == /\ At(a, "send")
           /\ nAsync' = IF a \in Senders THEN nAsync - Cardinality(held[a]) ELSE nAsync
           /\ sent' = sent \cup held[a] /\ Give(a, held[a])
           /\ Call(a, "unlock", "idle")
           /\ UNCHANGED <<word, free, rx, asyncq, nonb, atomicAsync, waitVars, budget>>

(***************************************************************************)
(* fill_failed: take the lock if it can be had, and free the fragments.      *)
(***************************************************************************)
FillFailed(a) == /\ At(a, "failed")
                 /\ IF ag[a].locked THEN Goto(a, "drop") ELSE Call(a, "lock", "drop")
                 /\ UNCHANGED <<poolVars, word, stackVars, counters, waitVars, budget>>

\* CI_NETIF_STATE_MOD: without the lock it is the atomic counter.
Count(a, n) == IF ag[a].locked THEN nAsync' = nAsync + n /\ UNCHANGED atomicAsync
               ELSE atomicAsync' = atomicAsync + n /\ UNCHANGED nAsync

Drop(a) ==
    /\ At(a, "drop")
    /\ Count(a, -Cardinality(held[a]))
    /\ ag' = [ag EXCEPT ![a].pc = IF ag[a].locked THEN "free" ELSE "flag",
                        ![a].ret = "free", ![a].todo = SeqOf(held[a])]
    /\ UNCHANGED <<poolVars, word, stackVars, waitVars, budget>>

\* ci_netif_pkt_free, for each fragment.
FreeTryLock(a) ==
    /\ At(a, "free") /\ ag[a].todo # <<>> /\ ~ag[a].locked /\ Head(ag[a].todo) \notin nonb
    /\ IF "LOCKED" \notin word
       THEN word' = word \cup {"LOCKED"} /\ ag' = [ag EXCEPT ![a].locked = TRUE] /\ UNCHANGED nonb
       ELSE nonb' = nonb \cup {Head(ag[a].todo)} /\ UNCHANGED <<word, ag>>
    /\ UNCHANGED <<poolVars, free, rx, sent, asyncq, counters, waitVars, budget>>

\* Mutant: the packet is given up and put nowhere.
FreePutLeaks(a) ==
    /\ At(a, "free") /\ ag[a].todo # <<>> /\ ag[a].locked
    /\ Head(ag[a].todo) \notin nonb
    /\ Give(a, {Head(ag[a].todo)})
    /\ ag' = [ag EXCEPT ![a].todo = Tail(@)]
    /\ UNCHANGED <<word, stackVars, counters, waitVars, budget>>

FreePut(a) ==
    /\ At(a, "free") /\ ag[a].todo # <<>> /\ ag[a].locked
    /\ Head(ag[a].todo) \notin nonb
    /\ Give(a, {Head(ag[a].todo)}) /\ free' = free \cup {Head(ag[a].todo)}
    /\ ag' = [ag EXCEPT ![a].todo = Tail(@)]
    /\ UNCHANGED <<word, rx, sent, asyncq, nonb, counters, waitVars, budget>>

\* Mutant: after the free the fragment is still the one to be freed.
FreeNonbStays(a) ==
    /\ At(a, "free") /\ ag[a].todo # <<>> /\ Head(ag[a].todo) \in nonb
    /\ \/ FreeList(a, <<Head(ag[a].todo)>>) /\ UNCHANGED <<ag, counters>>
       \/ (FreeRead(a) \/ FreeAgain(a)) /\ UNCHANGED <<ag, counters>>
       \/ /\ FreeCas(a) /\ Count(a, 1)
          /\ ag' = [ag EXCEPT ![a].pc = IF ag[a].locked THEN "free" ELSE "flag",
                              ![a].ret = "free"]
    /\ UNCHANGED <<word, stackVars, waitVars, budget>>

FreeNonb(a) ==
    /\ At(a, "free") /\ ag[a].todo # <<>> /\ Head(ag[a].todo) \in nonb
    /\ \/ FreeList(a, <<Head(ag[a].todo)>>) /\ UNCHANGED <<ag, counters>>
       \/ (FreeRead(a) \/ FreeAgain(a)) /\ UNCHANGED <<ag, counters>>
       \/ /\ FreeCas(a) /\ Count(a, 1)
          /\ ag' = [ag EXCEPT ![a].pc = IF ag[a].locked THEN "free" ELSE "flag",
                              ![a].ret = "free", ![a].todo = Tail(@)]
    /\ UNCHANGED <<word, stackVars, waitVars, budget>>

Freed(a) == /\ At(a, "free") /\ ag[a].todo = <<>>
            /\ IF ag[a].locked THEN Call(a, "unlock", "idle") ELSE Goto(a, "idle")
            /\ UNCHANGED <<poolVars, word, stackVars, counters, waitVars, budget>>

\* Mutant: nothing is done if nobody has the lock.
SetMergeFlagIfHeld(a) ==
    /\ At(a, "flag")
    /\ word' = IF "LOCKED" \in word THEN word \cup {"MERGE"} ELSE word
    /\ Goto(a, ag[a].ret)
    /\ UNCHANGED <<poolVars, stackVars, counters, waitVars, budget>>

\* ci_netif_set_merge_atomic_flag: a flag for the holder, or become it.
SetMergeFlag(a) ==
    /\ At(a, "flag")
    /\ \/ /\ "LOCKED" \in word /\ word' = word \cup {"MERGE"}
          /\ Goto(a, ag[a].ret)
       \/ /\ "LOCKED" \notin word /\ word' = word \cup {"LOCKED"}
          /\ Goto(a, "flag_holder")
    /\ UNCHANGED <<poolVars, stackVars, counters, waitVars, budget>>

MergeFlagHolder(a) == /\ At(a, "flag_holder")
                      /\ word' = word \cup {"MERGE"}
                      /\ Goto(a, "unlock")
                      /\ UNCHANGED <<poolVars, stackVars, counters, waitVars, budget>>

(***************************************************************************)
(* ci_tcp_connect, and the periodic timer (linux_tcp_timer_do)              *)
(***************************************************************************)
StartConnect(a) ==
    /\ a \in Connectors /\ At(a, "idle") /\ budget[a] > 0 /\ "LOCKED" \notin word
    /\ word' = word \cup {"LOCKED"}
    /\ budget' = [budget EXCEPT ![a] = @ - 1]
    /\ ag' = [ag EXCEPT ![a].pc = "alloc", ![a].locked = TRUE, ![a].was = TRUE]
    /\ UNCHANGED <<poolVars, stackVars, counters, waitVars>>

\* CI_CONNECT_UL_START_AGAIN
ConnectAgain(a) == /\ At(a, "again") /\ Goto(a, "alloc")
                   /\ UNCHANGED <<poolVars, word, stackVars, counters, waitVars, budget>>

StartTimer(a) ==
    /\ a \in Timers /\ At(a, "idle") /\ "LOCKED" \notin word
    /\ word' = word \cup {"LOCKED"}
    /\ ag' = [ag EXCEPT ![a].pc = "poll", ![a].locked = TRUE]
    /\ UNCHANGED <<poolVars, stackVars, counters, waitVars, budget>>

(***************************************************************************)
(* ci_netif_unlock.  IS_PKT_WAITER may stay in the word of a free lock.      *)
(***************************************************************************)
UNLOCK_FLAGS == {"SOCKET_LIST", "MERGE", "PKT_WAKE"}

Unlocked(a) ==
    ag' = [ag EXCEPT ![a] = IF ag[a].ret = "idle" THEN Idle
                            ELSE [Idle EXCEPT !.pc = ag[a].ret, !.ret = ag[a].ret,
                                              !.was = ag[a].was, !.todo = ag[a].todo]]

UnlockFast(a) == /\ At(a, "unlock") /\ word = {"LOCKED"}
                 /\ word' = {} /\ Unlocked(a)
                 /\ UNCHANGED <<poolVars, stackVars, counters, waitVars, budget>>

UnlockSlow(a) == /\ At(a, "unlock") /\ word # {"LOCKED"}
                 /\ Goto(a, IF a \in Kernel THEN "kclear" ELSE "clear")
                 /\ UNCHANGED <<poolVars, word, stackVars, counters, waitVars, budget>>

(***************************************************************************)
(* ci_netif_unlock_slow_common: deferred sockets, then flags are cleared     *)
(* before they are handled.  PKT_WAKE is the kernel's: user level only         *)
(* notes it (k_flags), the kernel keeps it for after the unlock.              *)
(***************************************************************************)
CommonClear(a) ==
    /\ ag[a].pc \in {"clear", "kclear"}
    /\ sent' = sent \cup asyncq /\ asyncq' = {}
    /\ nAsync' = nAsync - Cardinality(asyncq)
    /\ word' = word \ ({"SOCKET_LIST", "MERGE", "IS_PKT_WAITER"}
                        \cup (IF At(a, "kclear") THEN {"PKT_WAKE"} ELSE {}))
    /\ ag' = [ag EXCEPT ![a].pc = IF At(a, "clear") THEN "check" ELSE "kcheck",
                        ![a].hand = word \cap {"MERGE", "IS_PKT_WAITER"},
                        ![a].after = @ \/ "PKT_WAKE" \in word]
    /\ UNCHANGED <<poolVars, free, rx, nonb, atomicAsync, waitVars, budget>>

\* Mutant: a waiter for whom there is nothing yet is forgotten.
CommonCheckForgets(a) ==
    /\ ag[a].pc \in {"check", "kcheck"}
    /\ ag' = [ag EXCEPT ![a].pc = IF At(a, "check") THEN "merge" ELSE "kmerge",
                        ![a].hand = IF "IS_PKT_WAITER" \notin @ THEN @
                                    ELSE IF CanAlloc THEN (@ \ {"IS_PKT_WAITER"}) \cup {"PKT_WAKE"}
                                    ELSE @ \ {"IS_PKT_WAITER"}]
    /\ UNCHANGED <<poolVars, word, stackVars, counters, waitVars, budget>>

\* A waiter is woken if there is something to be had, else kept in the word.
CommonCheck(a) ==
    /\ ag[a].pc \in {"check", "kcheck"}
    /\ ag' = [ag EXCEPT ![a].pc = IF At(a, "check") THEN "merge" ELSE "kmerge",
                        ![a].hand = IF "IS_PKT_WAITER" \in @ /\ CanAlloc
                                    THEN (@ \ {"IS_PKT_WAITER"}) \cup {"PKT_WAKE"}
                                    ELSE @]
    /\ UNCHANGED <<poolVars, word, stackVars, counters, waitVars, budget>>

\* ci_netif_merge_atomic_counters, and set_flags go back to the word.
CommonMerge(a) ==
    /\ ag[a].pc \in {"merge", "kmerge"}
    /\ IF "MERGE" \in ag[a].hand
       THEN nAsync' = nAsync + atomicAsync /\ atomicAsync' = 0
       ELSE UNCHANGED counters
    /\ word' = word \cup (ag[a].hand \ {"MERGE"})
    /\ ag' = [ag EXCEPT ![a].pc = IF At(a, "merge") THEN "try" ELSE "kretry",
                        ![a].after = @ \/ "PKT_WAKE" \in ag[a].hand,
                        ![a].hand = {}]
    /\ UNCHANGED <<poolVars, stackVars, waitVars, budget>>

\* User level dives into the kernel if a waiter is to be woken; the kernel finds
\* the flag in the word again.
UlTryUnlock(a) ==
    /\ At(a, "try")
    /\ \/ /\ ag[a].after
          /\ ag' = [ag EXCEPT ![a].pc = "kclear", ![a].after = FALSE]
          /\ UNCHANGED word
       \/ /\ ~ag[a].after /\ word \cap UNLOCK_FLAGS = {}
          /\ word' = word \ {"LOCKED"} /\ Unlocked(a)
       \/ /\ ~ag[a].after /\ word \cap UNLOCK_FLAGS # {}
          /\ Goto(a, "clear") /\ UNCHANGED word
    /\ UNCHANGED <<poolVars, stackVars, counters, waitVars, budget>>

\* The waiter who came in the mean time is looked at once more.
KRetry(a) ==
    /\ At(a, "kretry")
    /\ IF ~ag[a].retried /\ "IS_PKT_WAITER" \in word /\ CanAlloc
       THEN ag' = [ag EXCEPT ![a].pc = "kclear", ![a].retried = TRUE]
       ELSE Goto(a, "ktry")
    /\ UNCHANGED <<poolVars, word, stackVars, counters, waitVars, budget>>

KTryUnlock(a) ==
    /\ At(a, "ktry")
    /\ \/ /\ word \cap UNLOCK_FLAGS = {} /\ word' = word \ {"LOCKED"}
          /\ IF ag[a].after THEN Goto(a, "kwake") ELSE Unlocked(a)
       \/ word \cap UNLOCK_FLAGS # {} /\ Goto(a, "kclear") /\ UNCHANGED word
    /\ UNCHANGED <<poolVars, stackVars, counters, waitVars, budget>>

\* ci_waitq_wakeup(&thr->pkt_waitq), after the unlock.
KWake(a) == /\ At(a, "kwake")
            /\ woken' = woken \cup queue
            /\ Unlocked(a)
            /\ UNCHANGED <<poolVars, word, stackVars, counters, queue, budget>>

Step(a) == \/ Nonb(a) \/ Lock(a) \/ LockInterrupted(a) \/ Alloc(a) \/ AllocSlowNonb(a)
           \/ AllocSlow(a) \/ AllocReap(a) \/ AllocFails(a)
           \/ Poll(a) \/ PollFree(a) \/ Refill(a) \/ Steal(a) \/ Stolen(a)
           \/ PktWaitPolled(a) \/ PktWaitSpin(a) \/ KwSetState(a) \/ KwCheck(a)
           \/ KwFlag(a) \/ KwWoken(a) \/ KwEintr(a) \/ PktWaitLocked(a)
           \/ SendFilled(a) \/ Send(a) \/ FillFailed(a) \/ Drop(a) \/ FreeTryLock(a)
           \/ FreePut(a) \/ FreeNonb(a) \/ Freed(a) \/ SetMergeFlag(a) \/ MergeFlagHolder(a)
           \/ ConnectAgain(a) \/ StartTimer(a)
           \/ UnlockFast(a) \/ UnlockSlow(a) \/ CommonClear(a) \/ CommonCheck(a)
           \/ CommonMerge(a) \/ UlTryUnlock(a) \/ KRetry(a) \/ KTryUnlock(a) \/ KWake(a)

\* What nothing obliges an agent to do.
Event(a) == StartSend(a) \/ StartConnect(a) \/ KwSignal(a)

Next == \E a \in Agents : Step(a) \/ Event(a)

Spec == Init /\ [][Next]_vars

\* Threads go on, and the periodic timer keeps firing.
FairSpec == Spec /\ \A a \in Agents : WF_vars(Step(a))

(***************************************************************************)
(* Properties                                                              *)
(***************************************************************************)
\* No packet is lost by an error path or in two places at once: it is in the
\* pool, in a hand, free, or in a queue that the lock protects.
NoPacketLost ==
    LET places == {InPool, InHand, free, rx, sent, asyncq} IN
      /\ UNION places = Pkts
      /\ Cardinality(InPool) + Cardinality(InHand) + Cardinality(free) + Cardinality(rx)
           + Cardinality(sent) + Cardinality(asyncq) = Cardinality(Pkts)

\* Packets in a thread's hand that n_async_pkts counts: not those on their way
\* back to a pool, nor a connector's.
Counted(a) == IF a \in Senders THEN held[a] \ Elements(ag[a].todo) ELSE {}

\* n_async_pkts, with what is still to be merged, is the number of packets "in
\* use by or available to threads not holding the netif lock"; and accounting
\* done without the lock is merged before the lock is free again, unless the one
\* who did it is still about to say so (ci_netif_set_merge_atomic_flag).
AsyncCounted ==
    /\ nAsync + atomicAsync = Cardinality(InPool) + Cardinality(asyncq)
                              + Cardinality(UNION {Counted(a) : a \in Agents})
    /\ "LOCKED" \notin word /\ (\A a \in Agents : ~At(a, "flag")) => atomicAsync = 0

Asleep(a) == At(a, "kw_sleep") /\ a \notin woken

\* A thread asleep for a packet wakes up if there is one for it, though the one
\* who freed it may have unlocked before the waiter set its flag.
PktWaitersWake == \A a \in Agents : Asleep(a) /\ CanAlloc ~> ~Asleep(a) \/ ~CanAlloc

\* ip.h: "On success, if CI_SLEEP_NETIF_RQ is set, the netif is locked on
\* return."
WaitReturnsLocked == \A a \in Agents : At(a, "again") => ag[a].locked
=============================================================================
