--------------------------- MODULE SockSleepLocks ---------------------------
(***************************************************************************)
(* The socket lock and the post-poll list, for any number of agents.        *)
(***************************************************************************)
EXTENDS SockSleepTypes

(***************************************************************************)
(* The socket lock.                                                        *)
(***************************************************************************)
\* Exclusion makes an unlocked word empty, which the wakeup needs.
SockInv == SockLockExclusive /\ SockLockNoLostWakeup

\* What a step that is not one of the lock's leaves alone.
SockLockAside(a) ==
    /\ wl' = wl
    /\ HasSock(a)' <=> HasSock(a)
    /\ At(a, "lk_sleep")' => At(a, "lk_sleep")
    /\ At(a, "ul_wake") => At(a, "ul_wake")'
    /\ woken \subseteq woken' \/ (~At(a, "lk_sleep")' /\ woken \ {a} \subseteq woken')

\* Such a step keeps the socket lock's invariant.
LEMMA SockAside ==
    ASSUME NEW a \in Agents, Others(a), SockLockAside(a), SockInv PROVE SockInv'
<1> USE DEF Others, SockLockAside, SockInv
<1>1. \A b \in Agents : HasSock(b)' <=> HasSock(b)  BY DEF HasSock
<1>2. SockLockExclusive'  BY <1>1 DEF SockLockExclusive
<1>3. \A b \in Agents : At(b, "ul_wake") => At(b, "ul_wake")'  BY DEF At
<1>4. \A b \in Agents : At(b, "lk_sleep")' /\ b \notin woken' =>
                        At(b, "lk_sleep") /\ b \notin woken
  BY DEF At
<1>5. SockLockNoLostWakeup'  BY <1>3, <1>4 DEF SockLockNoLostWakeup
<1> QED  BY <1>2, <1>5

\* ci_sock_lock, ci_sock_lock_slow and ci_sock_unlock keep it.
LEMMA SockLockSteps ==
    ASSUME TypeInv, SockInv, NEW a \in Agents, Others(a), LockStep(a) PROVE SockInv'
<1> USE DEF TypeInv, TypeOK, Roles, At, Goto, Call, Return, WaiterPre, WakeupAll, sock, stack
<1>1. CASE SockLock(a)
  <2>1. CASE "LOCKED" \in wl
    <3>1. SockLockAside(a)  BY <1>1, <2>1 DEF SockLock, SockLockAside, HasSock
    <3> QED  BY <3>1, SockAside
  <2>2. CASE "LOCKED" \notin wl
    <3>1. \A b \in Agents : ~HasSock(b)  BY <2>2 DEF SockInv, SockLockExclusive
    <3>2. HasSock(a)' /\ wl' = {"LOCKED"}
      BY <1>1, <2>2 DEF SockLock, HasSock, SockInv, SockLockExclusive
    <3>3. \A b \in Agents \ {a} : ~HasSock(b)'  BY <3>1 DEF Others, HasSock
    <3>4. SockLockExclusive'  BY <3>2, <3>3 DEF SockLockExclusive
    <3>5. SockLockNoLostWakeup'
      <4>1. "NEED_WAKE" \notin wl  BY <2>2 DEF SockInv, SockLockExclusive
      <4>2. \A b \in Agents : At(b, "lk_sleep")' /\ b \notin woken' =>
                              At(b, "lk_sleep") /\ b \notin woken
        BY <1>1, <2>2 DEF SockLock, Others
      <4>3. \A b \in Agents : At(b, "ul_wake") => At(b, "ul_wake")'
        BY <1>1 DEF SockLock, Others
      <4> QED  BY <4>1, <4>2, <4>3 DEF SockInv, SockLockNoLostWakeup
    <3> QED  BY <3>4, <3>5 DEF SockInv
  <2> QED  BY <2>1, <2>2
<1>2. CASE SockLockPre(a)
  <2>1. SockLockAside(a)  BY <1>2 DEF SockLockPre, SockLockAside, HasSock
  <2> QED  BY <2>1, SockAside
<1>3. CASE SockRequestWake(a)
  <2>1. CASE wl = {}
    <3>1. SockLockAside(a)  BY <1>3, <2>1 DEF SockRequestWake, SockLockAside, HasSock
    <3> QED  BY <3>1, SockAside
  <2>2. CASE wl # {}
    <3>1. "LOCKED" \in wl /\ "LOCKED" \in wl' /\ "NEED_WAKE" \in wl'
      BY <1>3, <2>2 DEF SockRequestWake, SockInv, SockLockExclusive
    <3>2. \A b \in Agents : HasSock(b)' <=> HasSock(b)
      BY <1>3, <2>2 DEF SockRequestWake, HasSock, Others
    <3> QED  BY <3>1, <3>2 DEF SockInv, SockLockExclusive, SockLockNoLostWakeup
  <2> QED  BY <2>1, <2>2
<1>4. CASE SockLockWoken(a)
  <2>1. SockLockAside(a)  BY <1>4 DEF SockLockWoken, SockLockAside, HasSock
  <2> QED  BY <2>1, SockAside
<1>5. CASE SockUnlock(a)
  <2>1. HasSock(a) /\ ~HasSock(a)' /\ wl' = {}  BY <1>5 DEF SockUnlock, HasSock
  <2>2. \A b \in Agents : ~HasSock(b)'
    BY <2>1 DEF Others, HasSock, SockInv, SockLockExclusive
  <2>3. SockLockExclusive'  BY <2>1, <2>2 DEF SockLockExclusive
  <2>4. SockLockNoLostWakeup'
    <3>1. "NEED_WAKE" \in wl => At(a, "ul_wake")'  BY <1>5 DEF SockUnlock
    <3>2. \A b \in Agents : At(b, "lk_sleep")' /\ b \notin woken' =>
                            At(b, "lk_sleep") /\ b \notin woken
      BY <1>5 DEF SockUnlock, Others
    <3>3. \A b \in Agents : At(b, "ul_wake") => At(b, "ul_wake")'
      BY <1>5 DEF SockUnlock, Others
    <3> QED  BY <3>1, <3>2, <3>3 DEF SockInv, SockLockNoLostWakeup
  <2> QED  BY <2>3, <2>4 DEF SockInv
<1>6. CASE SockUnlockWake(a)
  <2>1. \A b \in Agents : HasSock(b)' <=> HasSock(b)
    BY <1>6 DEF SockUnlockWake, Others, HasSock
  <2>2. SockLockExclusive'  BY <1>6, <2>1 DEF SockUnlockWake, SockInv, SockLockExclusive
  <2>3. \A b \in Agents : At(b, "lk_sleep")' => b \in woken'
    BY <1>6 DEF SockUnlockWake, Others, OnQueue, App
  <2> QED  BY <2>2, <2>3 DEF SockInv, SockLockNoLostWakeup
<1>7. CASE NetifLock(a)
  <2>1. SockLockAside(a)
    BY <1>7, SockSleepAssumption DEF NetifLock, SockLockAside, HasSock
  <2> QED  BY <2>1, SockAside
<1> QED  BY <1>1, <1>2, <1>3, <1>4, <1>5, <1>6, <1>7 DEF LockStep

\* The steps of a waiting thread leave the socket lock alone.
LEMMA SleepAside ==
    ASSUME TypeInv, NEW a \in Agents, SleepStep(a) PROVE SockLockAside(a)
<1> USE SockSleepAssumption DEF TypeInv, TypeOK, Roles, Np, At, Goto, Call, Return, WaiterPre,
        WakeupAll, sock, stack, SockLockAside, HasSock, App, Stack
<1>1. CASE ReadSeq(a)  BY <1>1 DEF ReadSeq
<1>2. CASE Check(a)  BY <1>2 DEF Check, Unlocker, App
<1>3. CASE SleepPre(a)  BY <1>3 DEF SleepPre
<1>4. CASE SetWakeRequest(a)  BY <1>4 DEF SetWakeRequest
<1>5. CASE CheckSeq(a)  BY <1>5 DEF CheckSeq, Again, App
<1>6. CASE Awake(a)  BY <1>6 DEF Awake, Again, App
<1> QED  BY <1>1, <1>2, <1>3, <1>4, <1>5, <1>6 DEF SleepStep

\* So do the stack's; their wakeups take lock waiters off the queue.
LEMMA StackAside ==
    ASSUME TypeInv, NEW a \in Agents, StackStep(a) PROVE SockLockAside(a)
<1> USE SockSleepAssumption DEF TypeInv, TypeOK, Roles, Np, At, Goto, Call, Return, WaiterPre,
        WakeupAll, sock, stack, SockLockAside, HasSock, App, Stack
<1>1. CASE PostPoll(a)  BY <1>1 DEF PostPoll, EndPoll
<1>2. CASE NothingToWake(a)  BY <1>2 DEF NothingToWake
<1>3. CASE IncRead(a)  BY <1>3 DEF IncRead
<1>4. CASE IncWrite(a)  BY <1>4 DEF IncWrite
<1>5. CASE CheckRequest(a)  BY <1>5 DEF CheckRequest, EndPoll
<1>6. CASE CheckRequestNp(a)  BY <1>6 DEF CheckRequestNp
<1>7. CASE EndpointWakeup(a)  BY <1>7 DEF EndpointWakeup
<1>8. CASE EndpointWakeAll(a)  BY <1>8 DEF EndpointWakeAll, EndPoll
<1>9. CASE NetifUnlock(a)  BY <1>9 DEF NetifUnlock
<1>10. CASE WakeupPostPollList(a)  BY <1>10 DEF WakeupPostPollList
<1>11. CASE WakeupPostPollAll(a)  BY <1>11 DEF WakeupPostPollAll
<1>12. CASE OsWake(a)  BY <1>12 DEF OsWake
<1> QED  BY <1>1, <1>2, <1>3, <1>4, <1>5, <1>6, <1>7, <1>8, <1>9, <1>10, <1>11, <1>12 DEF StackStep

\* So do calls and events.
LEMMA EventAside ==
    ASSUME TypeInv, NEW a \in Agents, Event(a) PROVE SockLockAside(a)
<1> USE SockSleepAssumption DEF TypeInv, TypeOK, Roles, Np, At, Goto, Call, Return, WaiterPre,
        WakeupAll, sock, stack, SockLockAside, HasSock, App, Stack
<1>1. CASE Start(a)  BY <1>1 DEF Start, Spend, Idle, App
<1>2. CASE StackLock(a)  BY <1>2 DEF StackLock
<1>3. CASE \E k \in Kinds : Deliver(a, k)  BY <1>3 DEF Deliver, Spend
<1>4. CASE WakeNotInPoll(a)  BY <1>4 DEF WakeNotInPoll, Spend
<1>5. CASE OsEvent(a)  BY <1>5 DEF OsEvent, Spend
<1>6. CASE SockLockSignal(a)  BY <1>6 DEF SockLockSignal
<1>7. CASE SleepBusy(a)  BY <1>7 DEF SleepBusy, Failed
<1>8. CASE SleepFails(a)  BY <1>8 DEF SleepFails, Failed
<1> QED  BY <1>1, <1>2, <1>3, <1>4, <1>5, <1>6, <1>7, <1>8 DEF Event

\* Every step keeps the socket lock's invariant.
LEMMA SockStep ==
    ASSUME TypeInv, SockInv, [Next]_vars PROVE SockInv'
<1>1. ASSUME NEW a \in Agents, LockStep(a) PROVE SockInv'
  BY <1>1, LockOthers, SockLockSteps DEF TypeInv
<1>2. ASSUME NEW a \in Agents, SleepStep(a) \/ StackStep(a) \/ Event(a) PROVE SockInv'
  <2>1. Others(a)  BY <1>2, SleepOthers, StackOthers, EventOthers DEF TypeInv
  <2>2. SockLockAside(a)  BY <1>2, SleepAside, StackAside, EventAside
  <2> QED  BY <2>1, <2>2, SockAside
<1>3. CASE DoNonAtomic
  <2>1. WQ \in Agents /\ Others(WQ)
    BY <1>3 DEF DoNonAtomic, Call, TypeInv, TypeOK, Others, Agents
  <2>2. SockLockAside(WQ)
    BY <1>3, <2>1 DEF DoNonAtomic, Call, At, TypeInv, TypeOK, SockLockAside, HasSock, sock
  <2> QED  BY <2>1, <2>2, SockAside
<1>4. CASE Quiet \/ UNCHANGED vars
  BY <1>4 DEF Quiet, vars, SockInv, SockLockExclusive, SockLockNoLostWakeup, HasSock, At
<1> QED  BY <1>1, <1>2, <1>3, <1>4 DEF Next, Step

\* It holds throughout.
LEMMA SockInvariant == Spec => []SockInv
<1>1. Init => SockInv
  BY DEF Init, Idle, SockInv, SockLockExclusive, SockLockNoLostWakeup, HasSock, At
<1>2. TypeInv /\ SockInv /\ [Next]_vars => SockInv'
  BY SockStep
<1> QED  BY <1>1, <1>2, TypeInvariant, PTL DEF Spec

\* ci_sock_lock excludes, and NEED_WAKE is set in the word only while it is
\* locked.
THEOREM SockLockExcludes == Spec => []SockLockExclusive
<1>1. SockInv => SockLockExclusive  BY DEF SockInv
<1> QED  BY <1>1, SockInvariant, PTL

\* ci_sock_unlock_slow: a thread asleep for the socket lock is woken when it is
\* dropped.
THEOREM SockLockWakes == Spec => []SockLockNoLostWakeup
<1>1. SockInv => SockLockNoLostWakeup  BY DEF SockInv
<1> QED  BY <1>1, SockInvariant, PTL

(***************************************************************************)
(* The stack lock has one owner.                                           *)
(***************************************************************************)
Owner == /\ \A a \in Agents : HasStack(a) => own = a
         /\ own # "none" => HasStack(own) \/ (own = WQ /\ At(WQ, "idle"))

\* What a step that neither takes nor drops the stack lock leaves alone.
StackLockAside(a) == /\ own' = own
                     /\ HasStack(a)' <=> HasStack(a)
                     /\ a = WQ => ~At(WQ, "idle")

\* Such a step keeps the owner.
LEMMA OwnerAside ==
    ASSUME NEW a \in Agents, Others(a), StackLockAside(a), TypeOK, Owner PROVE Owner'
<1> USE DEF Others, StackLockAside, Owner, TypeOK
<1>1. \A b \in Agents : HasStack(b)' <=> HasStack(b)  BY DEF HasStack
<1>2. own' = WQ /\ At(WQ, "idle") => At(WQ, "idle")'  BY DEF At, Agents
<1> QED  BY <1>1, <1>2

\* The lock is taken by a.
LEMMA OwnerTakes ==
    ASSUME NEW a \in Agents, Others(a), Owner, own = "none", own' = a, HasStack(a)'
    PROVE  Owner'
<1>1. \A b \in Agents : ~HasStack(b)  BY SockSleepAssumption DEF Owner
<1>2. \A b \in Agents \ {a} : ~HasStack(b)'  BY <1>1 DEF Others, HasStack
<1> QED  BY <1>2 DEF Owner

\* The stack lock is dropped, kept to wake sockets, or given to the workqueue.
LEMMA NetifUnlockOwner ==
    ASSUME TypeInv, NEW a \in Agents, Others(a), Owner, NetifUnlock(a) PROVE Owner'
<1> USE DEF TypeInv, TypeOK, Roles, At, Goto, Return
<1>1. own = a /\ HasStack(a)  BY DEF NetifUnlock, Owner, HasStack
<1>2. \A b \in Agents \ {a} : ~HasStack(b)'  BY <1>1 DEF Owner, Others, HasStack
<1>3. CASE own' = "none"
  <2>1. ~HasStack(a)'
    <3>1. ag'[a].pc = ag[a].ret /\ At(a, "unlock")
      BY <1>1, <1>3, SockSleepAssumption DEF NetifUnlock
    <3> QED  BY <3>1 DEF HasStack
  <2> QED  BY <1>2, <1>3, <2>1 DEF Owner
<1>4. CASE nw /\ a \in DlStack /\ own' = WQ
  <2>1. ~HasStack(a)'
    <3>1. ag'[a].pc = ag[a].ret /\ At(a, "unlock")  BY <1>4 DEF NetifUnlock
    <3> QED  BY <3>1 DEF HasStack
  <2>2. WQ \in Agents /\ WQ # a  BY <1>4, SockSleepAssumption DEF Agents, Stack
  <2>3. ~HasStack(WQ)  BY <1>1, <2>2 DEF Owner
  <2>4. At(WQ, "idle")
    BY <2>2, <2>3, SockSleepAssumption DEF HasStack, PCs, App, Stack
  <2>5. At(WQ, "idle")'  BY <2>2, <2>4 DEF Others
  <2> QED  BY <1>2, <1>4, <2>1, <2>5 DEF Owner
<1>5. CASE own' = own /\ Goto(a, "wppl")
  <2>1. HasStack(a)'  BY <1>5 DEF HasStack
  <2> QED  BY <1>1, <1>2, <1>5, <2>1 DEF Owner
<1> QED  BY <1>3, <1>4, <1>5 DEF NetifUnlock

\* The socket lock's steps leave the stack lock alone.
LEMMA LockKeepsOwner ==
    ASSUME TypeInv, NEW a \in Agents, LockStep(a), ~NetifLock(a) PROVE StackLockAside(a)
<1> USE SockSleepAssumption DEF TypeInv, TypeOK, Roles, Np, At, Goto, Call, Return, sock, stack,
        StackLockAside, HasStack, App, Stack
<1>1. CASE SockLock(a)  BY <1>1 DEF SockLock
<1>2. CASE SockLockPre(a)  BY <1>2 DEF SockLockPre
<1>3. CASE SockRequestWake(a)  BY <1>3 DEF SockRequestWake
<1>4. CASE SockLockWoken(a)  BY <1>4 DEF SockLockWoken
<1>5. CASE SockUnlock(a)  BY <1>5 DEF SockUnlock
<1>6. CASE SockUnlockWake(a)  BY <1>6 DEF SockUnlockWake
<1> QED  BY <1>1, <1>2, <1>3, <1>4, <1>5, <1>6 DEF LockStep

\* So do those of a waiting thread.
LEMMA SleepKeepsOwner ==
    ASSUME TypeInv, NEW a \in Agents, SleepStep(a) PROVE StackLockAside(a)
<1> USE SockSleepAssumption DEF TypeInv, TypeOK, Roles, Np, At, Goto, Call, Return, sock, stack,
        StackLockAside, HasStack, App, Stack
<1>1. CASE ReadSeq(a)  BY <1>1 DEF ReadSeq
<1>2. CASE Check(a)  BY <1>2 DEF Check, Unlocker, App
<1>3. CASE SleepPre(a)  BY <1>3 DEF SleepPre
<1>4. CASE SetWakeRequest(a)  BY <1>4 DEF SetWakeRequest
<1>5. CASE CheckSeq(a)  BY <1>5 DEF CheckSeq, Again, App
<1>6. CASE Awake(a)  BY <1>6 DEF Awake, Again, App
<1> QED  BY <1>1, <1>2, <1>3, <1>4, <1>5, <1>6 DEF SleepStep

\* The stack's steps keep the stack lock until it is dropped.
LEMMA StackKeepsOwner ==
    ASSUME TypeInv, NEW a \in Agents, StackStep(a), ~NetifUnlock(a) PROVE StackLockAside(a)
<1> USE SockSleepAssumption DEF TypeInv, TypeOK, Roles, Np, At, Goto, Call, Return, sock, stack,
        StackLockAside, HasStack, App, Stack
<1>1. CASE PostPoll(a)  BY <1>1 DEF PostPoll, EndPoll
<1>2. CASE NothingToWake(a)  BY <1>2 DEF NothingToWake
<1>3. CASE IncRead(a)  BY <1>3 DEF IncRead
<1>4. CASE IncWrite(a)  BY <1>4 DEF IncWrite
<1>5. CASE CheckRequest(a)  BY <1>5 DEF CheckRequest, EndPoll
<1>6. CASE CheckRequestNp(a)  BY <1>6 DEF CheckRequestNp
<1>7. CASE EndpointWakeup(a)  BY <1>7 DEF EndpointWakeup
<1>8. CASE EndpointWakeAll(a)  BY <1>8 DEF EndpointWakeAll, EndPoll
<1>9. CASE WakeupPostPollList(a)  BY <1>9 DEF WakeupPostPollList
<1>10. CASE WakeupPostPollAll(a)  BY <1>10 DEF WakeupPostPollAll
<1>11. CASE OsWake(a)  BY <1>11 DEF OsWake
<1> QED  BY <1>1, <1>2, <1>3, <1>4, <1>5, <1>6, <1>7, <1>8, <1>9, <1>10, <1>11 DEF StackStep

\* Calls and events leave it alone.
LEMMA EventKeepsOwner ==
    ASSUME TypeInv, NEW a \in Agents, Event(a), ~StackLock(a) PROVE StackLockAside(a)
<1> USE SockSleepAssumption DEF TypeInv, TypeOK, Roles, Np, At, Goto, Call, Return, sock, stack,
        StackLockAside, HasStack, App, Stack
<1>1. CASE Start(a)  BY <1>1 DEF Start, Spend, Idle, App
<1>2. CASE \E k \in Kinds : Deliver(a, k)  BY <1>2 DEF Deliver, Spend
<1>3. CASE WakeNotInPoll(a)  BY <1>3 DEF WakeNotInPoll, Spend
<1>4. CASE OsEvent(a)  BY <1>4 DEF OsEvent, Spend
<1>5. CASE SockLockSignal(a)  BY <1>5 DEF SockLockSignal
<1>6. CASE SleepBusy(a)  BY <1>6 DEF SleepBusy, Failed
<1>7. CASE SleepFails(a)  BY <1>7 DEF SleepFails, Failed
<1> QED  BY <1>1, <1>2, <1>3, <1>4, <1>5, <1>6, <1>7 DEF Event

\* Every step keeps one owner.
LEMMA OwnerStep ==
    ASSUME TypeInv, Owner, [Next]_vars PROVE Owner'
<1>1. ASSUME NEW a \in Agents, LockStep(a) \/ SleepStep(a) \/ StackStep(a) \/ Event(a) PROVE Owner'
  <2>1. Others(a)  BY <1>1, LockOthers, SleepOthers, StackOthers, EventOthers DEF TypeInv
  <2>2. CASE NetifLock(a)
    <3>1. own = "none" /\ own' = a  BY <2>2 DEF NetifLock
    <3>2. HasStack(a)'  BY <2>2 DEF NetifLock, HasStack, Goto, Call, TypeInv, TypeOK
    <3> QED  BY <2>1, <3>1, <3>2, OwnerTakes
  <2>3. CASE StackLock(a)
    <3>1. own = "none" /\ own' = a  BY <2>3 DEF StackLock
    <3>2. HasStack(a)'  BY <2>3 DEF StackLock, HasStack, Goto, TypeInv, TypeOK
    <3> QED  BY <2>1, <3>1, <3>2, OwnerTakes
  <2>4. CASE NetifUnlock(a)  BY <2>1, <2>4, NetifUnlockOwner
  <2>5. CASE ~NetifLock(a) /\ ~StackLock(a) /\ ~NetifUnlock(a)
    <3>1. StackLockAside(a)
      BY <1>1, <2>5, LockKeepsOwner, SleepKeepsOwner, StackKeepsOwner, EventKeepsOwner
    <3> QED  BY <2>1, <3>1, OwnerAside DEF TypeInv
  <2> QED  BY <2>2, <2>3, <2>4, <2>5
<1>2. CASE DoNonAtomic
  <2>1. WQ \in Agents /\ Others(WQ)
    BY <1>2 DEF DoNonAtomic, Call, TypeInv, TypeOK, Others, Agents
  <2>2. own = WQ /\ own' = WQ  BY <1>2 DEF DoNonAtomic, stack
  <2>3. HasStack(WQ)'  BY <1>2, <2>1 DEF DoNonAtomic, Call, HasStack, TypeInv, TypeOK
  <2>4. \A b \in Agents \ {WQ} : ~HasStack(b)  BY <2>2 DEF Owner
  <2>5. \A b \in Agents \ {WQ} : ~HasStack(b)'  BY <2>1, <2>4 DEF Others, HasStack
  <2> QED  BY <2>2, <2>3, <2>5 DEF Owner
<1>3. CASE Quiet \/ UNCHANGED vars  BY <1>3 DEF Quiet, vars, Owner, HasStack, At
<1> QED  BY <1>1, <1>2, <1>3 DEF Next, Step

(***************************************************************************)
(* The post-poll list.                                                     *)
(***************************************************************************)
\* Without NEED_WAKE the socket is off the list and has no flags.
Clean == ~nw => ~listed /\ sbf = {}
\* What the owner a of the stack lock has left on the list at each program point.
Stages(a) ==
    /\ At(a, "poll") => ~nw /\ (listed \/ sbf = {})
    /\ ag[a].pc \in {"inc", "inc_write"} /\ a \notin OsEvents =>
          IF Np(a) THEN Clean ELSE ~nw /\ listed
    /\ ag[a].pc \in {"ew", "ew_wake"} => IF Np(a) THEN nw \/ ~listed ELSE ~nw
    /\ At(a, "wppl") => ~nw /\ (listed \/ sbf = {})
    /\ At(a, "wppl_wake") => ~nw
    /\ ag[a].pc \in {"unlock", "wake"} => Clean
    /\ a \in Connectors /\ ag[a].pc \in {"look", "check"} => Clean
\* The list is empty when the lock is free, and Clean when it changes hands.
PostPolls == /\ nw => listed
             /\ own = WQ /\ At(WQ, "idle") => Clean
             /\ PostPollDrained
             /\ \A a \in Agents : Stages(a)

\* The stages concern the owner of the stack lock only.
LEMMA StagesVacuous ==
    ASSUME NEW a, ~HasStack(a) PROVE Stages(a)
BY DEF Stages, HasStack, At

\* The owner of the stack lock takes a step and keeps it, or gets it.
LEMMA OwnerSteps ==
    ASSUME NEW a \in Agents, own' = a, HasStack(a)', Owner', Stages(a)', (nw => listed)'
    PROVE  PostPolls'
<1>1. \A b \in Agents \ {a} : ~HasStack(b)'  BY DEF Owner
<1>2. \A b \in Agents \ {a} : Stages(b)'
  BY <1>1 DEF Stages, HasStack, At
<1>3. ~(own' = WQ /\ At(WQ, "idle")')  BY SockSleepAssumption DEF HasStack, At, Agents
<1>4. PostPollDrained'  BY SockSleepAssumption DEF PostPollDrained
<1> QED  BY <1>2, <1>3, <1>4 DEF PostPolls

\* A step of somebody who has not got it.
LEMMA OtherSteps ==
    ASSUME NEW a \in Agents, Others(a), ~HasStack(a), ~HasStack(a)', PostPolls,
           UNCHANGED <<own, nw, listed, sbf>>, own = WQ /\ At(WQ, "idle")' => At(WQ, "idle")
    PROVE  PostPolls'
<1>1. Stages(a)'  BY DEF Stages, HasStack, At
<1>2. \A b \in Agents \ {a} : Stages(b)'
  BY DEF Others, PostPolls, Stages, At, Np, Clean
<1> QED  BY <1>1, <1>2 DEF PostPolls, Clean, PostPollDrained

\* A step that neither takes nor drops the stack lock touches the post-poll
\* list only if its agent has the lock, and leaves it as the next stage expects.
StageStep(a) == IF HasStack(a) THEN Stages(a)' /\ (nw => listed)' ELSE UNCHANGED <<nw, listed, sbf>>

\* The socket lock's steps do not touch the list.
LEMMA LockStages ==
    ASSUME TypeInv, NEW a \in Agents, Stages(a), nw => listed, LockStep(a), ~NetifLock(a)
    PROVE  StageStep(a)
<1> USE SockSleepAssumption DEF TypeInv, TypeOK, Roles, Np, At, Goto, Call, Return, sock, stack,
        StageStep, Stages, Clean, HasStack, App, Stack
<1>1. CASE SockLock(a)  BY <1>1 DEF SockLock
<1>2. CASE SockLockPre(a)  BY <1>2 DEF SockLockPre
<1>3. CASE SockRequestWake(a)  BY <1>3 DEF SockRequestWake
<1>4. CASE SockLockWoken(a)  BY <1>4 DEF SockLockWoken
<1>5. CASE SockUnlock(a)  BY <1>5 DEF SockUnlock
<1>6. CASE SockUnlockWake(a)  BY <1>6 DEF SockUnlockWake
<1> QED  BY <1>1, <1>2, <1>3, <1>4, <1>5, <1>6 DEF LockStep

\* A waiting thread's steps do not touch it.
LEMMA SleepStages ==
    ASSUME TypeInv, NEW a \in Agents, Stages(a), nw => listed, SleepStep(a)
    PROVE  StageStep(a)
<1> USE SockSleepAssumption DEF TypeInv, TypeOK, Roles, Np, At, Goto, Call, Return, sock, stack,
        StageStep, Stages, Clean, HasStack, App, Stack
<1>1. CASE ReadSeq(a)  BY <1>1 DEF ReadSeq
<1>2. CASE Check(a)  BY <1>2 DEF Check, Unlocker, App
<1>3. CASE SleepPre(a)  BY <1>3 DEF SleepPre
<1>4. CASE SetWakeRequest(a)  BY <1>4 DEF SetWakeRequest
<1>5. CASE CheckSeq(a)  BY <1>5 DEF CheckSeq, Again, App
<1>6. CASE Awake(a)  BY <1>6 DEF Awake, Again, App
<1> QED  BY <1>1, <1>2, <1>3, <1>4, <1>5, <1>6 DEF SleepStep

\* The stack's steps take it from stage to stage.
LEMMA StackStages ==
    ASSUME TypeInv, NEW a \in Agents, Stages(a), nw => listed, StackStep(a), ~NetifUnlock(a)
    PROVE  StageStep(a)
<1> USE SockSleepAssumption DEF TypeInv, TypeOK, Roles, Np, At, Goto, Call, Return, sock, stack,
        StageStep, Stages, Clean, HasStack, App, Stack
<1>1. CASE PostPoll(a)  BY <1>1 DEF PostPoll, EndPoll
<1>2. CASE NothingToWake(a)  BY <1>2 DEF NothingToWake
<1>3. CASE IncRead(a)  BY <1>3 DEF IncRead
<1>4. CASE IncWrite(a)  BY <1>4 DEF IncWrite
<1>5. CASE CheckRequest(a)
  <2>1. CASE sbf' = {} /\ listed' = FALSE /\ EndPoll(a) /\ UNCHANGED nw
    BY <1>5, <2>1 DEF CheckRequest, EndPoll
  <2>2. CASE nw' = TRUE /\ EndPoll(a) /\ UNCHANGED <<sbf, listed>>
    BY <1>5, <2>2 DEF CheckRequest, EndPoll
  <2>3. CASE Goto(a, "ew") /\ UNCHANGED <<sbf, listed, nw>>
    BY <1>5, <2>3 DEF CheckRequest
  <2> QED  BY <1>5, <2>1, <2>2, <2>3 DEF CheckRequest
<1>6. CASE CheckRequestNp(a)  BY <1>6 DEF CheckRequestNp
<1>7. CASE EndpointWakeup(a)  BY <1>7 DEF EndpointWakeup
<1>8. CASE EndpointWakeAll(a)  BY <1>8 DEF EndpointWakeAll, EndPoll
<1>9. CASE WakeupPostPollList(a)  BY <1>9 DEF WakeupPostPollList
<1>10. CASE WakeupPostPollAll(a)  BY <1>10 DEF WakeupPostPollAll
<1>11. CASE OsWake(a)  BY <1>11 DEF OsWake
<1> QED  BY <1>1, <1>2, <1>3, <1>4, <1>5, <1>6, <1>7, <1>8, <1>9, <1>10, <1>11 DEF StackStep

\* A packet puts the socket on the list during a poll; other events do not.
LEMMA EventStages ==
    ASSUME TypeInv, NEW a \in Agents, Stages(a), nw => listed, Event(a), ~StackLock(a)
    PROVE  StageStep(a)
<1> USE SockSleepAssumption DEF TypeInv, TypeOK, Roles, Np, At, Goto, Call, Return, sock, stack,
        StageStep, Stages, Clean, HasStack, App, Stack
<1>1. CASE Start(a)  BY <1>1 DEF Start, Spend, Idle, App
<1>2. CASE \E k \in Kinds : Deliver(a, k)  BY <1>2 DEF Deliver, Spend
<1>3. CASE WakeNotInPoll(a)  BY <1>3 DEF WakeNotInPoll, Spend
<1>4. CASE OsEvent(a)  BY <1>4 DEF OsEvent, Spend
<1>5. CASE SockLockSignal(a)  BY <1>5 DEF SockLockSignal
<1>6. CASE SleepBusy(a)  BY <1>6 DEF SleepBusy, Failed
<1>7. CASE SleepFails(a)  BY <1>7 DEF SleepFails, Failed
<1> QED  BY <1>1, <1>2, <1>3, <1>4, <1>5, <1>6, <1>7 DEF Event

\* Dropping the stack lock: NEED_WAKE says whether the list is empty.
LEMMA NetifUnlockPostPolls ==
    ASSUME TypeInv, Owner, Owner', PostPolls, NEW a \in Agents, Others(a), NetifUnlock(a)
    PROVE  PostPolls'
<1> USE DEF TypeInv, TypeOK, Roles, At, Goto, Return, sock
<1>1. own = a /\ HasStack(a)  BY DEF NetifUnlock, Owner, HasStack
<1>2. Clean /\ (nw => listed)  BY DEF NetifUnlock, PostPolls, Stages
<1>3. listed' = listed /\ sbf' = sbf  BY DEF NetifUnlock
<1>4. CASE ~nw /\ own' = "none" /\ UNCHANGED nw
  <2>1. \A b \in Agents : ~HasStack(b)'  BY <1>4, SockSleepAssumption DEF Owner
  <2>2. \A b \in Agents : Stages(b)'  BY <2>1 DEF Stages, HasStack
  <2>3. PostPollDrained'  BY <1>2, <1>3, <1>4 DEF Clean, PostPollDrained
  <2>4. own' # WQ  BY <1>4, SockSleepAssumption DEF Agents
  <2> QED  BY <1>2, <1>3, <1>4, <2>2, <2>3, <2>4 DEF PostPolls
<1>5. CASE nw /\ a \in DlStack /\ own' = WQ /\ UNCHANGED nw
  <2>1. WQ \in Agents /\ own' # "none"  BY <1>5, SockSleepAssumption DEF Agents
  <2>2. \A b \in Agents \ {WQ} : ~HasStack(b)'  BY <1>5 DEF Owner
  <2>3. WQ # a /\ ~HasStack(WQ)  BY <1>1, <1>5, SockSleepAssumption DEF Owner, Agents, Stack
  <2>4. ~HasStack(WQ)'  BY <2>1, <2>3 DEF Others, HasStack
  <2>5. \A b \in Agents : Stages(b)'  BY <2>2, <2>4 DEF Stages, HasStack
  <2> QED  BY <1>2, <1>3, <1>5, <2>1, <2>5 DEF PostPolls, PostPollDrained, Clean
<1>6. CASE nw /\ nw' = FALSE /\ Goto(a, "wppl") /\ UNCHANGED own
  <2>1. HasStack(a)' /\ Stages(a)'  BY <1>2, <1>3, <1>6 DEF HasStack, Stages
  <2> QED  BY <1>1, <1>6, <2>1, OwnerSteps
<1> QED  BY <1>4, <1>5, <1>6 DEF NetifUnlock

\* Every step keeps the list as the stages say.
LEMMA PostPollStep ==
    ASSUME TypeInv, Owner, PostPolls, [Next]_vars PROVE PostPolls'
<1>0. Owner'  BY OwnerStep
<1>1. ASSUME NEW a \in Agents, LockStep(a) \/ SleepStep(a) \/ StackStep(a) \/ Event(a)
      PROVE  PostPolls'
  <2>1. Others(a)  BY <1>1, LockOthers, SleepOthers, StackOthers, EventOthers DEF TypeInv
  <2>2. CASE NetifLock(a) \/ StackLock(a)
    <3>1. own = "none" /\ own' = a /\ UNCHANGED <<nw, listed, sbf>>
      BY <2>2 DEF NetifLock, StackLock, sock
    <3>2. HasStack(a)' /\ a \notin OsEvents /\ ag'[a].pc \in {"poll", "unlock", "wake"}
      BY <2>2, SockSleepAssumption
      DEF NetifLock, StackLock, HasStack, Goto, Call, TypeInv, TypeOK, Roles, App
    <3>3. ~nw' /\ ~listed' /\ sbf' = {}  BY <3>1 DEF PostPolls, PostPollDrained
    <3>4. Stages(a)'  BY <3>2, <3>3 DEF Stages, At, Clean
    <3> QED  BY <1>0, <3>1, <3>2, <3>3, <3>4, OwnerSteps
  <2>3. CASE NetifUnlock(a)  BY <1>0, <2>1, <2>3, NetifUnlockPostPolls
  <2>4. CASE ~NetifLock(a) /\ ~StackLock(a) /\ ~NetifUnlock(a)
    <3>1. StackLockAside(a)
      BY <1>1, <2>4, LockKeepsOwner, SleepKeepsOwner, StackKeepsOwner, EventKeepsOwner
    <3>2. StageStep(a)
      BY <1>1, <2>4, LockStages, SleepStages, StackStages, EventStages DEF PostPolls
    <3>3. CASE HasStack(a)
      <4>1. own' = a /\ HasStack(a)'  BY <3>1, <3>3 DEF StackLockAside, Owner
      <4> QED  BY <1>0, <3>2, <3>3, <4>1, OwnerSteps DEF StageStep
    <3>4. CASE ~HasStack(a)
      <4>1. own = WQ /\ At(WQ, "idle")' => At(WQ, "idle")
        BY <2>1, <3>1, <3>4, SockSleepAssumption DEF StackLockAside, Owner, Others, At, Agents
      <4> QED  BY <2>1, <3>1, <3>2, <3>4, <4>1, OtherSteps DEF StackLockAside, StageStep
    <3> QED  BY <3>3, <3>4
  <2> QED  BY <2>2, <2>3, <2>4
<1>2. CASE DoNonAtomic
  <2>1. WQ \in Agents  BY DEF Agents
  <2>2. own' = WQ /\ Clean /\ (nw => listed)  BY <1>2 DEF DoNonAtomic, stack, PostPolls
  <2>3. At(WQ, "unlock")'  BY <1>2, <2>1 DEF DoNonAtomic, Call, At, TypeInv, TypeOK
  <2>4. UNCHANGED <<nw, listed, sbf>>  BY <1>2 DEF DoNonAtomic, sock, stack
  <2>5. HasStack(WQ)' /\ Stages(WQ)'
    BY <2>2, <2>3, <2>4, SockSleepAssumption DEF HasStack, Stages, At, Clean, App
  <2> QED  BY <1>0, <2>1, <2>2, <2>4, <2>5, OwnerSteps
<1>3. CASE Quiet \/ UNCHANGED vars
  BY <1>3 DEF Quiet, vars, PostPolls, PostPollDrained, Stages, Clean, Np, At
<1> QED  BY <1>1, <1>2, <1>3 DEF Next, Step

\* Nobody has the stack lock initially and the list is empty.
LEMMA StackInit ==
    ASSUME Init PROVE Owner /\ PostPolls
<1>1. \A a \in Agents : ag[a].pc = "idle" /\ ~HasStack(a)  BY DEF Init, Idle, HasStack
<1>2. Owner  BY <1>1, SockSleepAssumption DEF Init, Owner
<1>3. \A a \in Agents : Stages(a)  BY <1>1, StagesVacuous
<1> QED  BY <1>2, <1>3 DEF Init, PostPolls, PostPollDrained, Clean

\* wakeup_post_poll_list and process_post_poll_list: when the stack lock is free
\* no socket is left on the list.
THEOREM PostPollListDrained == Spec => []PostPollDrained
<1>1. Init => Owner /\ PostPolls  BY StackInit
<1>2. TypeInv /\ Owner /\ PostPolls /\ [Next]_vars => (Owner /\ PostPolls)'
  BY OwnerStep, PostPollStep
<1>3. PostPolls => PostPollDrained  BY DEF PostPolls
<1> QED  BY <1>1, <1>2, <1>3, TypeInvariant, PTL DEF Spec
=============================================================================
