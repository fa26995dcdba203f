--------------------------- MODULE DeferredSockets ---------------------------
(***************************************************************************)
(* Work left for the holder of the stack lock, per socket.                  *)
(*                                                                         *)
(* A TCP call that finds the lock held leaves its data on the socket's      *)
(* lock-free prequeue, or its request in s_aflags, and links the socket     *)
(* into the list whose head is a field of the lock word.  The holder walks  *)
(* the list before it lets go (ci_netif_purge_deferred_socket_list).  The   *)
(* link field is reused for the time-wait and free lists once the socket is *)
(* an orphan.                                                               *)
(*                                                                         *)
(* The lock word is its owner and that head.  Waiting for the lock is one   *)
(* step, taken when it is free: EpLock has the mechanism.  A chunk of data  *)
(* is <<thread, number>>.  sendq is everything ever enqueued on the stream, *)
(* sent or not, and FIN.  SHUT_RD, which sets nothing but rx_errno, is left *)
(* out.                                                                     *)
(***************************************************************************)
EXTENDS Naturals, FiniteSets, SequencesExt

CONSTANTS Socks,      \* connected TCP sockets of the stack
          Senders,    \* threads that call send()
          Blockers,   \* senders that may find the send queue full
          Askers,     \* threads that call shutdown(SHUT_WR), or receive and then
                      \* update the window
          Holders,    \* threads that lock the stack: a reset may come in, and the
                      \* last descriptor of a socket may go
          Kernel,     \* threads that run in the kernel: signals end their waits
          Limit,      \* NI_OPTS(ni).defer_work_limit
          Budget,     \* bound: chunks a sender sends; other threads make one call
          NULL

Threads == Senders \cup Askers \cup Holders
FIN == <<NULL, 0>>
Requests == {"NEED_ACK", "NEED_SHUT_WR"}

ASSUME DeferredSocketsAssumption ==
    /\ NULL \notin Socks \cup Threads
    /\ Blockers \subseteq Senders /\ Kernel \subseteq Threads
    /\ Limit \in Nat /\ Budget \in Nat \ {0}

VARIABLES lk,      \* who holds the stack lock, or NULL
          head,    \* CI_EPLOCK_NETIF_SOCKET_LIST of the lock word
          link,    \* next_id of each socket
          dfr,     \* sockets with CI_SB_AFLAG_DEFERRED
          cnt,     \* defer_work_count, counted up to Limit
          aflags,  \* s_aflags: NEED_ACK and NEED_SHUT_WR
          preq,    \* send_prequeue, last chunk first
          closed,  \* sockets whose send_prequeue is OO_PP_ID_INVALID
          sendq,   \* the stream
          txerr,   \* sockets with tx_errno set
          reset,   \* sockets dropped by ci_tcp_drop
          orphan,  \* sockets with CI_SB_AFLAG_ORPHAN
          th,      \* the threads
          acc,     \* history: chunks counted in total_sent
          thrown,  \* history: chunks thrown away by a send() that met tx_errno
          made     \* history: chunks and calls so far

word == <<lk, head>>
sock == <<aflags, preq, closed, sendq, txerr, reset, orphan>>
list == <<link, dfr, cnt>>
hist == <<acc, thrown, made>>
vars == <<word, sock, list, th, hist>>

\* A thread: where it is, its socket, what it asks for, the socket it works on
\* and the next one of the list it took, the aflags and the count it read, and
\* where the shared paths lead: purge (done), work (wret).
Idle == [pc |-> "idle", s |-> NULL, ask |-> {}, cur |-> NULL, rest |-> NULL, snap |-> {},
         reg |-> 0, done |-> "idle", wret |-> "idle"]

Init == /\ lk = NULL /\ head = NULL
        /\ link = [s \in Socks |-> NULL]
        /\ dfr = {} /\ cnt = 0
        /\ aflags = [s \in Socks |-> {}]
        /\ preq = [s \in Socks |-> <<>>] /\ closed = {}
        /\ sendq = [s \in Socks |-> <<>>]
        /\ txerr = {} /\ reset = {} /\ orphan = {}
        /\ th = [t \in Threads |-> Idle]
        /\ acc = [s \in Socks |-> {}] /\ thrown = [s \in Socks |-> {}]
        /\ made = [t \in Threads |-> 0]

At(t, p) == th[t].pc = p
Goto(t, p) == th' = [th EXCEPT ![t].pc = p]
Finish(t) == th' = [th EXCEPT ![t] = Idle]
Spend(t) == /\ made[t] < IF t \in Senders THEN Budget ELSE 1
            /\ made' = [made EXCEPT ![t] = @ + 1]
Chunk(t) == <<t, made[t]>>
Lock(t) == lk = NULL /\ lk' = t
\* Drop the stack lock, after the deferred work; then go on at p.
Unlock(t, p) == th' = [th EXCEPT ![t].pc = "purge", ![t].done = p]
\* Do the deferred work of one socket, then go on at p.
Work(t, p) == th' = [th EXCEPT ![t].pc = "wflags", ![t].cur = th[t].s, ![t].wret = p]
\* A call whose work was deferred, and where it goes on if it has the lock.
Deferred(t) == th' = [th EXCEPT ![t] = IF t \in Senders THEN [@ EXCEPT !.pc = "credit", !.reg = 0]
                                       ELSE Idle]
DeferredLocked(t) == CASE t \in Senders -> "credit"
                       [] th[t].ask = {"NEED_ACK"} -> "ack"
                       [] th[t].ask = {"NEED_SHUT_WR"} -> "purge"

(***************************************************************************)
(* The calls.                                                               *)
(***************************************************************************)
\* A call needs a descriptor: the socket is not an orphan, nor being closed.
InUse(s) == s \notin orphan /\ \A h \in Holders : th[h].s # s
Send(t) == /\ t \in Senders /\ At(t, "idle") /\ Spend(t)
           /\ \E s \in Socks, p \in {"try"} \cup (IF t \in Blockers THEN {"full"} ELSE {}) :
                 InUse(s) /\ th' = [th EXCEPT ![t].pc = p, ![t].s = s]
           /\ UNCHANGED <<word, sock, list, acc, thrown>>
Request(t) == /\ t \in Askers /\ At(t, "idle") /\ Spend(t)
              /\ \E s \in Socks, r \in Requests :
                    InUse(s) /\ th' = [th EXCEPT ![t].pc = "try", ![t].s = s, ![t].ask = {r}]
              /\ UNCHANGED <<word, sock, list, acc, thrown>>

\* ci_tcp_sendmsg, filled_some_pkts: enqueue under the lock or prequeue.
\* ci_tcp_shutdown, ci_tcp_recvmsg_send_wnd_update: do it or ask for it.
TryLock(t) == /\ At(t, "try")
              /\ IF lk = NULL
                 THEN /\ lk' = t
                      /\ CASE t \in Senders -> Goto(t, "enq")
                           [] th[t].ask = {"NEED_ACK"} -> Unlock(t, "idle")
                           [] th[t].ask = {"NEED_SHUT_WR"} ->
                                th' = [th EXCEPT ![t].pc = "shut", ![t].cur = th[t].s,
                                                 ![t].wret = "purge"]
                 ELSE Goto(t, IF t \in Senders THEN "preq" ELSE "ask") /\ UNCHANGED lk
              /\ UNCHANGED <<head, sock, list, hist>>

\* s_aflags is set, then the work deferred; shutdown of a closed socket fails.
Ask(t) == /\ At(t, "ask")
          /\ IF th[t].ask = {"NEED_SHUT_WR"} /\ th[t].s \in reset
             THEN Finish(t) /\ UNCHANGED aflags
             ELSE /\ aflags' = [aflags EXCEPT ![th[t].s] = @ \cup th[t].ask]
                  /\ Goto(t, "defer")
          /\ UNCHANGED <<word, preq, closed, sendq, txerr, reset, orphan, list, hist>>

\* ci_tcp_recvmsg_send_wnd_update got the lock: it sends the update itself.
UpdateWindow(t) == /\ At(t, "ack")
                   /\ aflags' = [aflags EXCEPT ![th[t].s] = @ \ {"NEED_ACK"}]
                   /\ Unlock(t, "idle")
                   /\ UNCHANGED <<word, preq, closed, sendq, txerr, reset, orphan, list, hist>>

\* ci_tcp_sendmsg_handle_tx_errno: the prequeue is thrown away.
TxErrno(t, locked) == /\ preq' = [preq EXCEPT ![th[t].s] = <<>>]
                      /\ thrown' = [thrown EXCEPT ![th[t].s] = @ \cup ToSet(preq[th[t].s])]
                      /\ IF locked THEN Unlock(t, "idle") ELSE Finish(t)
                      /\ UNCHANGED <<sendq, acc>>

\* ci_tcp_sendmsg_enqueue
Enqueue(t) == /\ At(t, "enq")
              /\ IF th[t].s \in txerr THEN TxErrno(t, TRUE)
                 ELSE /\ sendq' = [sendq EXCEPT ![th[t].s] = Append(@, Chunk(t))]
                      /\ acc' = [acc EXCEPT ![th[t].s] = @ \cup {Chunk(t)}]
                      /\ Goto(t, "credit") /\ UNCHANGED <<preq, thrown>>
              /\ UNCHANGED <<word, aflags, closed, txerr, reset, orphan, list, made>>

\* ci_tcp_tx_prequeue
Prequeue(t) == /\ At(t, "preq")
               /\ IF th[t].s \in closed THEN TxErrno(t, FALSE)
                  ELSE /\ preq' = [preq EXCEPT ![th[t].s] = <<Chunk(t)>> \o @]
                       /\ acc' = [acc EXCEPT ![th[t].s] = @ \cup {Chunk(t)}]
                       /\ Goto(t, "defer") /\ UNCHANGED <<sendq, thrown>>
               /\ UNCHANGED <<word, aflags, closed, txerr, reset, orphan, list, made>>

\* total_sent and total_unsent are updated.  The call ends, or sends more with
\* the lock it may now hold.
Credit(t) == /\ At(t, "credit")
             /\ \/ /\ UNCHANGED made
                   /\ IF lk = t THEN Unlock(t, "idle") ELSE Finish(t)
                \/ Spend(t) /\ Goto(t, IF lk = t THEN "enq" ELSE "try")
             /\ UNCHANGED <<word, sock, list, acc, thrown>>

\* ci_tcp_sendmsg_block, without the lock: an error, or room for more.
BlockCheck(t) == /\ At(t, "full")
                 /\ IF th[t].s \in txerr THEN TxErrno(t, FALSE)
                    ELSE Goto(t, "try") /\ UNCHANGED <<preq, sendq, acc, thrown>>
                 /\ UNCHANGED <<word, aflags, closed, txerr, reset, orphan, list, made>>

(***************************************************************************)
(* ci_netif_lock_or_defer_work.                                             *)
(***************************************************************************)
DeferLimit(t) == /\ At(t, "defer")
                 /\ Goto(t, IF cnt >= Limit THEN "limited" ELSE "bit")
                 /\ UNCHANGED <<word, sock, list, hist>>

\* Mutant: the thread that set the bit is trusted.
TestAndSetTrusts(t) == /\ At(t, "bit")
                       /\ IF th[t].s \in dfr THEN Deferred(t) ELSE Goto(t, "cas")
                       /\ dfr' = dfr \cup {th[t].s}
                       /\ UNCHANGED <<word, sock, link, cnt, hist>>
TestAndSet(t) == /\ At(t, "bit")
                 /\ Goto(t, IF th[t].s \in dfr THEN "contended" ELSE "cas")
                 /\ dfr' = dfr \cup {th[t].s}
                 /\ UNCHANGED <<word, sock, link, cnt, hist>>

\* Past the limit, or another thread is deferring this socket: lock, and do the
\* work here.  DEFERRED is left to the thread that set it.
LockAndWork(t) == /\ th[t].pc \in {"limited", "contended"}
                  /\ Lock(t) /\ Work(t, DeferredLocked(t))
                  /\ UNCHANGED <<head, sock, list, hist>>

\* A signal: exceed the limit, or trust the other thread.
Interrupted(t) == /\ th[t].pc \in {"limited", "contended"} /\ t \in Kernel
                  /\ Goto(t, IF At(t, "limited") THEN "bit" ELSE "count")
                  /\ UNCHANGED <<word, sock, list, hist>>

\* The lock is free after all, or the socket goes to the front of the list.
LockOrLink(t) == /\ At(t, "cas")
                 /\ IF lk = NULL
                    THEN lk' = t /\ Goto(t, "unmark") /\ UNCHANGED <<head, link>>
                    ELSE /\ link' = [link EXCEPT ![th[t].s] = head]
                         /\ head' = th[t].s
                         /\ Goto(t, "count") /\ UNCHANGED lk
                 /\ UNCHANGED <<sock, dfr, cnt, hist>>
Unmark(t) == /\ At(t, "unmark")
             /\ dfr' = dfr \ {th[t].s} /\ Work(t, DeferredLocked(t))
             /\ UNCHANGED <<word, sock, link, cnt, hist>>

\* ++defer_work_count is not atomic.
CountRead(t) == /\ At(t, "count")
                /\ th' = [th EXCEPT ![t].pc = "count_write", ![t].reg = cnt]
                /\ UNCHANGED <<word, sock, list, hist>>
CountWrite(t) == /\ At(t, "count_write")
                 /\ cnt' = IF th[t].reg < Limit THEN th[t].reg + 1 ELSE Limit
                 /\ Deferred(t)
                 /\ UNCHANGED <<word, sock, link, dfr, hist>>

(***************************************************************************)
(* ci_tcp_perform_deferred_socket_work, under the stack lock.               *)
(***************************************************************************)
ReadFlags(t) == /\ At(t, "wflags")
                /\ th' = [th EXCEPT ![t].pc = "wdrain", ![t].snap = aflags[th[t].cur]]
                /\ UNCHANGED <<word, sock, list, hist>>

\* Mutant: the rest of the list is not walked.
NextWorkOnce(t) == th[t].wret
\* Where the work leads: the next socket of the list, or back.
NextWork(t) == CASE th[t].rest # NULL -> "wnext"
                 [] th[t].rest = NULL -> th[t].wret
Leave(t) == th' = [th EXCEPT ![t].pc = NextWork(t), ![t].snap = {}, ![t].cur = NULL,
                             ![t].wret = IF th[t].rest # NULL THEN @ ELSE "idle"]

\* ci_tcp_sendmsg_enqueue_prequeue: take all at once, enqueue oldest first.
Drained(s) == sendq[s] \o Reverse(preq[s])
Drain(t) == /\ At(t, "wdrain")
            /\ sendq' = [sendq EXCEPT ![th[t].cur] = Drained(th[t].cur)]
            /\ preq' = [preq EXCEPT ![th[t].cur] = <<>>]
            /\ IF th[t].snap = {} THEN Leave(t) ELSE Goto(t, "wclear")
            /\ UNCHANGED <<word, aflags, closed, txerr, reset, orphan, list, hist>>

\* The requests read are cleared, then served: a window update, a shutdown.
ClearFlags(t) == /\ At(t, "wclear")
                 /\ aflags' = [aflags EXCEPT ![th[t].cur] = @ \ th[t].snap]
                 /\ IF "NEED_SHUT_WR" \in th[t].snap THEN Goto(t, "shut") ELSE Leave(t)
                 /\ UNCHANGED <<word, preq, closed, sendq, txerr, reset, orphan, list, hist>>

\* __ci_tcp_shutdown: tx_errno first, then the prequeue is closed and FIN added.
Shutdown(t) == /\ At(t, "shut")
               /\ IF th[t].cur \in txerr
                  THEN Leave(t) /\ UNCHANGED txerr
                  ELSE Goto(t, "fin") /\ txerr' = txerr \cup {th[t].cur}
               /\ UNCHANGED <<word, aflags, preq, closed, sendq, reset, orphan, list, hist>>
\* Mutants: the prequeue is left open; what is on it is forgotten.
AddFinOpen(t) == /\ At(t, "fin")
                 /\ sendq' = [sendq EXCEPT ![th[t].cur] = Append(Drained(th[t].cur), FIN)]
                 /\ preq' = [preq EXCEPT ![th[t].cur] = <<>>]
                 /\ Leave(t)
                 /\ UNCHANGED <<word, aflags, closed, txerr, reset, orphan, list, hist>>
AddFinForgets(t) == /\ At(t, "fin")
                    /\ sendq' = [sendq EXCEPT ![th[t].cur] = Append(@, FIN)]
                    /\ preq' = [preq EXCEPT ![th[t].cur] = <<>>]
                    /\ closed' = closed \cup {th[t].cur}
                    /\ Leave(t)
                    /\ UNCHANGED <<word, aflags, txerr, reset, orphan, list, hist>>
AddFin(t) == /\ At(t, "fin")
             /\ sendq' = [sendq EXCEPT ![th[t].cur] = Append(Drained(th[t].cur), FIN)]
             /\ preq' = [preq EXCEPT ![th[t].cur] = <<>>]
             /\ closed' = closed \cup {th[t].cur}
             /\ Leave(t)
             /\ UNCHANGED <<word, aflags, txerr, reset, orphan, list, hist>>

(***************************************************************************)
(* ci_netif_purge_deferred_socket_list, in the unlock path and in close.    *)
(***************************************************************************)
TakeList(t) == /\ At(t, "purge") /\ head # NULL
               /\ th' = [th EXCEPT ![t].pc = "wnext", ![t].rest = head, ![t].wret = "zero"]
               /\ head' = NULL
               /\ UNCHANGED <<lk, sock, list, hist>>

\* ci_netif_perform_deferred_socket_work: the link is read before the bit goes.
NextSocket(t) == /\ At(t, "wnext")
                 /\ th' = [th EXCEPT ![t].pc = "wflags", ![t].cur = th[t].rest,
                                     ![t].rest = link[th[t].rest]]
                 /\ dfr' = dfr \ {th[t].rest}
                 /\ UNCHANGED <<word, sock, link, cnt, hist>>
ZeroCount(t) == /\ At(t, "zero")
                /\ cnt' = 0 /\ Goto(t, "purge")
                /\ UNCHANGED <<word, sock, link, dfr, hist>>

\* Mutant: the word is overwritten.
ReleaseBlind(t) == /\ At(t, "purge") /\ th[t].done = "idle"
                   /\ lk' = NULL /\ head' = NULL /\ Finish(t)
                   /\ UNCHANGED <<sock, list, hist>>
\* The word is swapped for "unlocked" only while its list is empty.
Release(t) == /\ At(t, "purge") /\ head = NULL /\ th[t].done = "idle"
              /\ lk' = NULL /\ Finish(t)
              /\ UNCHANGED <<head, sock, list, hist>>

(***************************************************************************)
(* Other holders of the lock, for one of these events or for none.          *)
(***************************************************************************)
Hold(t) == /\ t \in Holders /\ At(t, "idle") /\ Spend(t)
           /\ Lock(t) /\ Goto(t, "poll")
           /\ UNCHANGED <<head, sock, list, acc, thrown>>
HoldDone(t) == /\ At(t, "poll")
               /\ Unlock(t, "idle")
               /\ UNCHANGED <<word, sock, list, hist>>

\* ci_tcp_drop: tx_errno first, then the queues are dropped.
ResetIn(t) == /\ At(t, "poll")
              /\ \E s \in Socks \ reset : /\ th' = [th EXCEPT ![t].pc = "drop", ![t].cur = s]
                                          /\ txerr' = txerr \cup {s}
              /\ UNCHANGED <<word, aflags, preq, closed, sendq, reset, orphan, list, hist>>
DropQueues(t) == /\ At(t, "drop")
                 /\ LET s == th[t].cur
                    IN /\ preq' = [preq EXCEPT ![s] = <<>>]
                       /\ sendq' = [sendq EXCEPT ![s] = <<>>]
                       /\ closed' = closed \cup {s} /\ reset' = reset \cup {s}
                 /\ th' = [th EXCEPT ![t].pc = "purge", ![t].cur = NULL]
                 /\ UNCHANGED <<word, aflags, txerr, orphan, list, hist>>

\* citp_waitable_all_fds_gone, by the thread that closed the last descriptor or
\* by the lock holder it left this to: no call on s is running.
AllFdsGone(t) == /\ At(t, "poll")
                 /\ \E s \in Socks \ orphan :
                       /\ \A u \in Threads : th[u].s # s
                       /\ th' = [th EXCEPT ![t].pc = "purge", ![t].done = "orphan", ![t].s = s]
                 /\ UNCHANGED <<word, sock, list, hist>>
\* Mutant: the list is not purged first.
OrphanUnpurged(t) == /\ At(t, "purge") /\ th[t].done = "orphan"
                     /\ orphan' = orphan \cup {th[t].s}
                     /\ \E s \in Socks \cup {NULL} : link' = [link EXCEPT ![th[t].s] = s]
                     /\ th' = [th EXCEPT ![t].done = "idle", ![t].s = NULL]
                     /\ UNCHANGED <<word, aflags, preq, closed, sendq, txerr, reset, dfr, cnt, hist>>
\* Once the list is purged ORPHAN is set, and the link reused for other lists.
Orphan(t) == /\ At(t, "purge") /\ head = NULL /\ th[t].done = "orphan"
             /\ orphan' = orphan \cup {th[t].s}
             /\ \E s \in Socks \cup {NULL} : link' = [link EXCEPT ![th[t].s] = s]
             /\ th' = [th EXCEPT ![t].done = "idle", ![t].s = NULL]
             /\ UNCHANGED <<word, aflags, preq, closed, sendq, txerr, reset, dfr, cnt, hist>>

Calls(t) == \/ TryLock(t) \/ Ask(t) \/ UpdateWindow(t) \/ Enqueue(t) \/ Prequeue(t)
            \/ Credit(t) \/ BlockCheck(t)
Defers(t) == \/ DeferLimit(t) \/ TestAndSet(t) \/ LockAndWork(t) \/ Interrupted(t)
             \/ LockOrLink(t) \/ Unmark(t) \/ CountRead(t) \/ CountWrite(t)
Works(t) == \/ ReadFlags(t) \/ Drain(t) \/ ClearFlags(t) \/ Shutdown(t) \/ AddFin(t)
Purges(t) == \/ TakeList(t) \/ NextSocket(t) \/ ZeroCount(t) \/ Release(t)
Holds(t) == \/ HoldDone(t) \/ ResetIn(t) \/ DropQueues(t) \/ AllFdsGone(t) \/ Orphan(t)

\* What a thread inside a call does next.
Step(t) == Calls(t) \/ Defers(t) \/ Works(t) \/ Purges(t) \/ Holds(t)
Begin(t) == Send(t) \/ Request(t) \/ Hold(t)

\* Every call has ended: no step is left when the bound is used up.
Quiet == /\ \A t \in Threads : At(t, "idle")
         /\ UNCHANGED vars

Next == (\E t \in Threads : Begin(t) \/ Step(t)) \/ Quiet
Spec == Init /\ [][Next]_vars

PCs == {"idle", "try", "full", "ask", "ack", "enq", "preq", "credit", "defer", "limited", "bit",
        "contended", "cas", "unmark", "count", "count_write", "wflags", "wdrain", "wclear",
        "shut", "fin", "purge", "wnext", "zero", "poll", "drop"}
Chunks == Senders \X (1..Budget)

\* The variables have their types.
TypeOK == /\ lk \in Threads \cup {NULL} /\ head \in Socks \cup {NULL}
          /\ link \in [Socks -> Socks \cup {NULL}]
          /\ dfr \subseteq Socks /\ cnt \in 0..Limit
          /\ aflags \in [Socks -> SUBSET Requests]
          /\ preq \in [Socks -> Seq(Chunks)]
          /\ sendq \in [Socks -> Seq(Chunks \cup {FIN})]
          /\ closed \subseteq Socks /\ txerr \subseteq Socks
          /\ reset \subseteq Socks /\ orphan \subseteq Socks
          /\ th \in [Threads -> [pc : PCs, s : Socks \cup {NULL}, ask : SUBSET Requests,
                                 cur : Socks \cup {NULL},
                                 rest : Socks \cup {NULL}, snap : SUBSET Requests,
                                 reg : 0..Limit, done : {"idle", "orphan"},
                                 wret : {"idle", "credit", "ack", "purge", "zero"}]]
          /\ acc \in [Socks -> SUBSET Chunks] /\ thrown \in [Socks -> SUBSET Chunks]
          /\ made \in [Threads -> 0..Budget]

(***************************************************************************)
(* Properties.                                                              *)
(***************************************************************************)
\* The list as the links make it: from the lock word, and from the walk of the
\* thread that took a list out of it.
Roots == {head} \cup {th[t].rest : t \in Threads}
OnList == LET from[n \in 0..Cardinality(Socks)] ==
                IF n = 0 THEN Roots \ {NULL}
                ELSE from[n - 1] \cup ({link[s] : s \in from[n - 1]} \ {NULL})
          IN from[Cardinality(Socks)]
\* DEFERRED and not about to be linked by the thread that set it.
Linked == dfr \ {th[t].s : t \in {u \in Threads : th[u].pc \in {"cas", "unmark"}}}
Predecessors(s) == {<<"word", x>> : x \in {head} \cap {s}}
                   \cup {<<"walk", t>> : t \in {u \in Threads : th[u].rest = s}}
                   \cup {<<"link", r>> : r \in {q \in OnList : link[q] = s}}

\* The deferred list holds the sockets marked DEFERRED, each once, and no orphan,
\* whose link field belongs to other lists (waitable.c:292).
DeferredListSound == /\ OnList = Linked
                     /\ \A s \in OnList : Cardinality(Predecessors(s)) = 1
                     /\ OnList \cap orphan = {}

\* The data of one thread is on the stream in the order it was sent, whether it
\* went through the prequeue or not (netif.c:907), and there is one FIN.
ProgramOrder == \A s \in Socks : \A j \in 1..Len(sendq[s]) : \A i \in 1..(j - 1) :
                   sendq[s][i][1] = sendq[s][j][1] => sendq[s][i][2] < sendq[s][j][2]

Deferring == {"defer", "limited", "bit", "contended", "cas"}

\* While nobody holds the lock, data waits on a prequeue only on behalf of a
\* thread still in the call that put it there: once send() has returned, whoever
\* locks the stack next enqueues behind it.
DrainedWhenFree == lk = NULL =>
                      \A s \in Socks : \A c \in ToSet(preq[s]) :
                         th[c[1]].s = s /\ th[c[1]].pc \in Deferring

\* Nothing follows the FIN of a socket that was shut down, not even data whose
\* sender raced with the shutdown.
FinIsLast == \A s \in Socks : FIN \in ToSet(sendq[s]) =>
                /\ Last(sendq[s]) = FIN /\ preq[s] = <<>> /\ s \in txerr

\* Data that send() counted as sent is on the stream, ahead of the FIN, or waits
\* for the lock holder, unless the connection was reset or a sender that met the
\* error threw it away.
AcceptedIsKept == \A s \in Socks \ reset :
                     acc[s] \subseteq ToSet(sendq[s]) \cup ToSet(preq[s]) \cup thrown[s]

\* What a sender that met tx_errno throws away was not counted as sent
\* (tcp_send.c:1321), unless a reset lost it anyway.
ThrownNotCounted == \A s \in Socks \ reset : thrown[s] \cap acc[s] = {}

\* While nobody holds the lock, whatever a socket was asked for, its place on the
\* list and its mark are the business of a thread still deferring work for it:
\* no request is left behind by an unlock, nor by a thread that trusts another.
NothingLeftBehind ==
    lk = NULL => /\ head = NULL
                 /\ \A s \in Socks : aflags[s] # {} \/ s \in dfr =>
                       \E t \in Threads : th[t].s = s /\ th[t].pc \in Deferring
=============================================================================
