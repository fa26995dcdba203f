--------------------------- MODULE SockSleepTypes ---------------------------
(***************************************************************************)
(* Safety of blocking on a socket, for any number of threads, pollers and   *)
(* calls.                                                                  *)
(***************************************************************************)
EXTENDS SockSleep, TLAPS

(***************************************************************************)
(* Types, and which agent can be where.                                    *)
(***************************************************************************)
\* Agent a is in citp_waitable_wake_not_in_poll.
Np(a) == ag[a].ret = "np"
\* Which agents run which code, and where their calls return to.
Roles(a) ==
    /\ ag[a].pc \in {"lock", "lk_pre", "lk_req", "lk_sleep", "ul", "ul_wake"} => a \in Receivers
    /\ ag[a].pc \in {"nlock", "nlock_out"} => a \in Connectors
    /\ ag[a].pc \in {"look", "check", "sl_pre", "sl_req", "sl_seq", "sleep"} => a \in App
    /\ ag[a].pc = "poll" => a \in Stack \cup Connectors
    /\ ag[a].pc \in {"wake", "ew", "ew_wake"} => a \in Stack
    /\ ag[a].pc \in {"inc", "inc_write"} => a \in Stack \cup Connectors \cup OsEvents
    /\ ag[a].pc \in {"unlock", "wppl", "wppl_wake"} => a \in Stack \cup Connectors \cup {WQ}
    /\ Np(a) => a \in Stack /\ ag[a].pc \in {"wake", "inc", "inc_write", "ew", "ew_wake"}
    /\ ag[a].pc \in {"ul", "ul_wake", "unlock", "wppl", "wppl_wake"} =>
          ag[a].ret = "idle" \/ (ag[a].ret = "sl_pre" /\ a \in App)
TypeInv == TypeOK /\ \A a \in Agents : Roles(a)

\* The records of TypeOK.
Fields == [pc : PCs, ret : PCs \cup {"np"}, why : Kinds,
           todo : SUBSET Kinds, val : Nat, snap : [Kinds -> Nat]]

\* One agent's record is replaced by r.
LEMMA Update ==
    ASSUME TypeOK, NEW a \in Agents, NEW r \in Fields, ag' = [ag EXCEPT ![a] = r]
    PROVE  /\ ag' \in [Agents -> Fields] /\ ag'[a] = r
           /\ \A b \in Agents \ {a} : ag'[b] = ag[b]
BY DEF TypeOK, Fields

\* The records that counting an event leaves are well formed.
LEMMA CountFields ==
    ASSUME NEW r \in Fields, NEW p \in PCs, NEW v \in Nat, NEW ks \in SUBSET Kinds
    PROVE  /\ [r EXCEPT !.pc = p, !.todo = ks] \in Fields
           /\ [r EXCEPT !.pc = p, !.val = v, !.todo = ks] \in Fields
BY DEF Fields

\* Writing a counter back keeps the records well formed.
LEMMA IncWriteFields ==
    ASSUME TypeOK, NEW a \in Agents, IncWrite(a) PROVE ag' \in [Agents -> Fields]
<1> DEFINE k == IF "RX" \in ag[a].todo THEN "RX" ELSE "TX"
           r == [ag[a] EXCEPT !.pc = "inc", !.val = 0, !.todo = @ \ {k}]
<1>1. ag' = [ag EXCEPT ![a] = r]  BY DEF IncWrite
<1>2. ag[a] \in Fields /\ ag[a].todo \in SUBSET Kinds  BY DEF Fields, TypeOK
<1>3. [ag[a] EXCEPT !.pc = "inc", !.val = 0, !.todo = ag[a].todo \ {k}] \in Fields
  BY <1>2, CountFields DEF PCs
<1> HIDE DEF k
<1> QED  BY <1>1, <1>3, Update

\* So does a call that starts.
LEMMA StartFields ==
    ASSUME TypeOK, NEW a \in Agents, Start(a) PROVE ag' \in [Agents -> Fields]
<1>1. PICK k \in Kinds, p \in {"lock", "look", "nlock"} :
         ag' = [ag EXCEPT ![a] = [Idle EXCEPT !.why = k, !.pc = p]]
  BY DEF Start, App
<1> DEFINE r == [Idle EXCEPT !.why = k, !.pc = p]
<1>2. r \in Fields  BY DEF Idle, Zero, Fields, PCs
<1> HIDE DEF r
<1> QED  BY <1>1, <1>2, Update DEF r

\* So does a callback of the OS socket.
LEMMA OsEventFields ==
    ASSUME TypeOK, NEW a \in Agents, OsEvent(a) PROVE ag' \in [Agents -> Fields]
<1>1. PICK ks \in SUBSET Kinds : ag' = [ag EXCEPT ![a].pc = "inc", ![a].todo = ks]
  BY DEF OsEvent, Kinds
<1> DEFINE r == [ag[a] EXCEPT !.pc = "inc", !.todo = ks]
<1>2. ag' = [ag EXCEPT ![a] = r]  BY <1>1
<1>3. ag[a] \in Fields  BY DEF TypeOK, Fields
<1>4. r \in Fields  BY <1>3, CountFields DEF PCs
<1> HIDE DEF r
<1> QED  BY <1>2, <1>4, Update

\* A step need only be checked for the agent that takes it.
LEMMA RolesFrame ==
    ASSUME NEW a \in Agents, \A b \in Agents : Roles(b),
           \A b \in Agents \ {a} : ag'[b] = ag[b], Roles(a)'
    PROVE  \A b \in Agents : Roles(b)'
<1> TAKE b \in Agents
<1>1. CASE b = a  BY <1>1
<1>2. CASE b # a  BY <1>2 DEF Roles, Np
<1> QED  BY <1>1, <1>2

\* ci_sock_lock, ci_sock_unlock and taking the stack lock keep the types and roles.
LEMMA LockTypes ==
    ASSUME TypeInv, NEW a \in Agents, LockStep(a) PROVE TypeInv'
<1> USE SockSleepAssumption DEF TypeInv, TypeOK, Roles, Np, PCs, Kinds, Agents, App, Stack,
        sock, stack, At, Goto, Call, Return, WaiterPre, WakeupAll
<1>1. CASE SockLock(a)         BY <1>1 DEF SockLock
<1>2. CASE SockLockPre(a)      BY <1>2 DEF SockLockPre
<1>3. CASE SockRequestWake(a)  BY <1>3 DEF SockRequestWake
<1>4. CASE SockLockWoken(a)    BY <1>4 DEF SockLockWoken
<1>5. CASE SockUnlock(a)       BY <1>5 DEF SockUnlock
<1>6. CASE SockUnlockWake(a)   BY <1>6 DEF SockUnlockWake
<1>7. CASE NetifLock(a)        BY <1>7 DEF NetifLock
<1> QED  BY <1>1, <1>2, <1>3, <1>4, <1>5, <1>6, <1>7 DEF LockStep

\* So do the steps of a thread that waits for its socket.
LEMMA SleepTypes ==
    ASSUME TypeInv, NEW a \in Agents, SleepStep(a) PROVE TypeInv'
<1> USE SockSleepAssumption DEF TypeInv, TypeOK, Roles, Np, PCs, Kinds, Agents, App, Stack,
        sock, stack, At, Goto, Call, Return, WaiterPre, WakeupAll
<1>1. CASE ReadSeq(a)  BY <1>1 DEF ReadSeq
<1>2. CASE Check(a)  BY <1>2 DEF Check, Unlocker, Zero
<1>3. CASE SleepPre(a)  BY <1>3 DEF SleepPre
<1>4. CASE SetWakeRequest(a)  BY <1>4 DEF SetWakeRequest
<1>5. CASE CheckSeq(a)  BY <1>5 DEF CheckSeq, Again, Zero
<1>6. CASE Awake(a)  BY <1>6 DEF Awake, Again, Zero
<1> QED  BY <1>1, <1>2, <1>3, <1>4, <1>5, <1>6 DEF SleepStep

\* So do the steps of the stack: post-poll processing, wakeups and dropping the
\* stack lock.
LEMMA StackTypes ==
    ASSUME TypeInv, NEW a \in Agents, StackStep(a) PROVE TypeInv'
<1> USE SockSleepAssumption DEF TypeInv, TypeOK, Roles, Np, PCs, Kinds, Agents, App, Stack,
        sock, stack, At, Goto, Call, Return, WaiterPre, WakeupAll
<1>1. CASE PostPoll(a)  BY <1>1 DEF PostPoll, EndPoll
<1>2. CASE NothingToWake(a)  BY <1>2 DEF NothingToWake
<1>3. CASE IncRead(a)  BY <1>3 DEF IncRead
<1>4. CASE IncWrite(a)
  <2>1. ag' \in [Agents -> Fields] /\ \A b \in Agents : Roles(b)'
    <3>1. ag' \in [Agents -> Fields]  BY <1>4, IncWriteFields
    <3>2. \A b \in Agents \ {a} : ag'[b] = ag[b]  BY <1>4 DEF IncWrite, Fields, At
    <3>3. Roles(a)'  BY <1>4 DEF IncWrite, Fields, At
    <3> QED  BY <3>1, <3>2, <3>3, RolesFrame
  <2>2. (wl' \subseteq {"LOCKED", "NEED_WAKE"} /\ seq' \in [Kinds -> Nat] /\ sbf' \subseteq Kinds)
    BY <1>4 DEF IncWrite, At
  <2>3. req' \subseteq Kinds /\ ready' \subseteq Kinds
    BY <1>4 DEF IncWrite, At
  <2>4. listed' \in BOOLEAN /\ nw' \in BOOLEAN /\ own' \in Agents \cup {"none"}
    BY <1>4 DEF IncWrite, At
  <2>5. woken' \subseteq App /\ budget' \in [Agents -> 0 .. Budget]
    BY <1>4 DEF IncWrite, At
  <2> QED  BY <2>1, <2>2, <2>3, <2>4, <2>5 DEF Fields
<1>5. CASE CheckRequest(a)
  <2>1. ag' \in [Agents -> Fields] /\ \A b \in Agents : Roles(b)'
    <3>1. ag' \in [Agents -> Fields]  BY <1>5 DEF CheckRequest, Fields, EndPoll
    <3>2. \A b \in Agents \ {a} : ag'[b] = ag[b]  BY <1>5 DEF CheckRequest, Fields, EndPoll
    <3>3. Roles(a)'
      <4>1. CASE EndPoll(a)  BY <1>5, <4>1 DEF CheckRequest, EndPoll
      <4>2. CASE ~Defers(a) /\ Goto(a, "ew")  BY <1>5, <4>2 DEF CheckRequest, Defers
      <4> QED  BY <1>5, <4>1, <4>2 DEF CheckRequest
    <3> QED  BY <3>1, <3>2, <3>3, RolesFrame
  <2>2. (wl' \subseteq {"LOCKED", "NEED_WAKE"} /\ seq' \in [Kinds -> Nat] /\ sbf' \subseteq Kinds)
    BY <1>5 DEF CheckRequest, EndPoll
  <2>3. req' \subseteq Kinds /\ ready' \subseteq Kinds
    BY <1>5 DEF CheckRequest, EndPoll
  <2>4. listed' \in BOOLEAN /\ nw' \in BOOLEAN /\ own' \in Agents \cup {"none"}
    BY <1>5 DEF CheckRequest, EndPoll
  <2>5. woken' \subseteq App /\ budget' \in [Agents -> 0 .. Budget]
    BY <1>5 DEF CheckRequest, EndPoll
  <2> QED  BY <2>1, <2>2, <2>3, <2>4, <2>5 DEF Fields
<1>6. CASE CheckRequestNp(a)
  <2>1. ag' \in [Agents -> Fields] /\ \A b \in Agents : Roles(b)'
    <3>1. ag' \in [Agents -> Fields]  BY <1>6 DEF CheckRequestNp, Fields, At
    <3>2. \A b \in Agents \ {a} : ag'[b] = ag[b]  BY <1>6 DEF CheckRequestNp, Fields, At
    <3>3. Roles(a)'  BY <1>6 DEF CheckRequestNp, Fields, At
    <3> QED  BY <3>1, <3>2, <3>3, RolesFrame
  <2>2. (wl' \subseteq {"LOCKED", "NEED_WAKE"} /\ seq' \in [Kinds -> Nat] /\ sbf' \subseteq Kinds)
    BY <1>6 DEF CheckRequestNp, At
  <2>3. req' \subseteq Kinds /\ ready' \subseteq Kinds
    BY <1>6 DEF CheckRequestNp, At
  <2>4. listed' \in BOOLEAN /\ nw' \in BOOLEAN /\ own' \in Agents \cup {"none"}
    BY <1>6 DEF CheckRequestNp, At
  <2>5. woken' \subseteq App /\ budget' \in [Agents -> 0 .. Budget]
    BY <1>6 DEF CheckRequestNp, At
  <2> QED  BY <2>1, <2>2, <2>3, <2>4, <2>5 DEF Fields
<1>7. CASE EndpointWakeup(a)  BY <1>7 DEF EndpointWakeup
<1>8. CASE EndpointWakeAll(a)
  <2>1. ag' \in [Agents -> Fields] /\ \A b \in Agents : Roles(b)'
    <3>1. ag' \in [Agents -> Fields]  BY <1>8 DEF EndpointWakeAll, Fields, EndPoll
    <3>2. \A b \in Agents \ {a} : ag'[b] = ag[b]  BY <1>8 DEF EndpointWakeAll, Fields, EndPoll
    <3>3. Roles(a)'  BY <1>8 DEF EndpointWakeAll, Fields, EndPoll
    <3> QED  BY <3>1, <3>2, <3>3, RolesFrame
  <2>2. (wl' \subseteq {"LOCKED", "NEED_WAKE"} /\ seq' \in [Kinds -> Nat] /\ sbf' \subseteq Kinds)
    BY <1>8 DEF EndpointWakeAll, EndPoll
  <2>3. req' \subseteq Kinds /\ ready' \subseteq Kinds
    BY <1>8 DEF EndpointWakeAll, EndPoll
  <2>4. listed' \in BOOLEAN /\ nw' \in BOOLEAN /\ own' \in Agents \cup {"none"}
    BY <1>8 DEF EndpointWakeAll, EndPoll
  <2>5. woken' \subseteq App /\ budget' \in [Agents -> 0 .. Budget]
    BY <1>8 DEF EndpointWakeAll, EndPoll
  <2> QED  BY <2>1, <2>2, <2>3, <2>4, <2>5 DEF Fields
<1>9. CASE NetifUnlock(a)
  <2>1. ag' \in [Agents -> Fields] /\ \A b \in Agents : Roles(b)'
    <3>1. ag' \in [Agents -> Fields]  BY <1>9 DEF NetifUnlock, Fields
    <3>2. \A b \in Agents \ {a} : ag'[b] = ag[b]  BY <1>9 DEF NetifUnlock, Fields
    <3>3. Roles(a)'  BY <1>9 DEF NetifUnlock, Fields
    <3> QED  BY <3>1, <3>2, <3>3, RolesFrame
  <2>2. nw' \in BOOLEAN  BY <1>9 DEF NetifUnlock
  <2>3. own' \in Agents \cup {"none"}  BY <1>9 DEF NetifUnlock
  <2> QED  BY <1>9, <2>1, <2>2, <2>3 DEF Fields, NetifUnlock
<1>10. CASE WakeupPostPollList(a)  BY <1>10 DEF WakeupPostPollList
<1>11. CASE WakeupPostPollAll(a)
  <2>1. ag' \in [Agents -> Fields] /\ \A b \in Agents : Roles(b)'
    <3>1. ag' \in [Agents -> Fields]  BY <1>11 DEF WakeupPostPollAll, Fields, At
    <3>2. \A b \in Agents \ {a} : ag'[b] = ag[b]  BY <1>11 DEF WakeupPostPollAll, Fields, At
    <3>3. Roles(a)'  BY <1>11 DEF WakeupPostPollAll, Fields, At
    <3> QED  BY <3>1, <3>2, <3>3, RolesFrame
  <2>2. (wl' \subseteq {"LOCKED", "NEED_WAKE"} /\ seq' \in [Kinds -> Nat] /\ sbf' \subseteq Kinds)
    BY <1>11 DEF WakeupPostPollAll, At
  <2>3. req' \subseteq Kinds /\ ready' \subseteq Kinds
    BY <1>11 DEF WakeupPostPollAll, At
  <2>4. listed' \in BOOLEAN /\ nw' \in BOOLEAN /\ own' \in Agents \cup {"none"}
    BY <1>11 DEF WakeupPostPollAll, At
  <2>5. woken' \subseteq App /\ budget' \in [Agents -> 0 .. Budget]
    BY <1>11 DEF WakeupPostPollAll, At
  <2> QED  BY <2>1, <2>2, <2>3, <2>4, <2>5 DEF Fields
<1>12. CASE OsWake(a)  BY <1>12 DEF OsWake
<1> QED  BY <1>1, <1>2, <1>3, <1>4, <1>5, <1>6, <1>7, <1>8, <1>9, <1>10, <1>11, <1>12 DEF StackStep

\* So do calls, packets, OS events, signals and timeouts.
LEMMA EventTypes ==
    ASSUME TypeInv, NEW a \in Agents, Event(a) PROVE TypeInv'
<1> USE SockSleepAssumption DEF TypeInv, TypeOK, Roles, Np, PCs, Kinds, Agents, App, Stack,
        sock, stack, At, Goto, Call, Return, WaiterPre, WakeupAll
<1>1. CASE Start(a)
  <2>1. ag' \in [Agents -> Fields] /\ \A b \in Agents : Roles(b)'
    <3>1. ag' \in [Agents -> Fields]  BY <1>1, StartFields
    <3>2. \A b \in Agents \ {a} : ag'[b] = ag[b]  BY <1>1 DEF Start, Fields, Spend, Idle, Zero
    <3>3. Roles(a)'  BY <1>1 DEF Start, Fields, Spend, Idle, Zero
    <3> QED  BY <3>1, <3>2, <3>3, RolesFrame
  <2>2. (wl' \subseteq {"LOCKED", "NEED_WAKE"} /\ seq' \in [Kinds -> Nat] /\ sbf' \subseteq Kinds)
    BY <1>1 DEF Start, Spend, Idle, Zero
  <2>3. req' \subseteq Kinds /\ ready' \subseteq Kinds
    BY <1>1 DEF Start, Spend, Idle, Zero
  <2>4. listed' \in BOOLEAN /\ nw' \in BOOLEAN /\ own' \in Agents \cup {"none"}
    BY <1>1 DEF Start, Spend, Idle, Zero
  <2>5. woken' \subseteq App /\ budget' \in [Agents -> 0 .. Budget]
    BY <1>1 DEF Start, Spend, Idle, Zero
  <2> QED  BY <2>1, <2>2, <2>3, <2>4, <2>5 DEF Fields
<1>2. CASE StackLock(a)  BY <1>2 DEF StackLock
<1>3. CASE \E k \in Kinds : Deliver(a, k)  BY <1>3 DEF Deliver, Spend
<1>4. CASE WakeNotInPoll(a)
  <2>1. ag' \in [Agents -> Fields] /\ \A b \in Agents : Roles(b)'
    <3>1. ag' \in [Agents -> Fields]  BY <1>4 DEF WakeNotInPoll, Fields, Spend
    <3>2. \A b \in Agents \ {a} : ag'[b] = ag[b]  BY <1>4 DEF WakeNotInPoll, Fields, Spend
    <3>3. Roles(a)'  BY <1>4 DEF WakeNotInPoll, Fields, Spend
    <3> QED  BY <3>1, <3>2, <3>3, RolesFrame
  <2>2. (wl' \subseteq {"LOCKED", "NEED_WAKE"} /\ seq' \in [Kinds -> Nat] /\ sbf' \subseteq Kinds)
    BY <1>4 DEF WakeNotInPoll, Spend
  <2>3. req' \subseteq Kinds /\ ready' \subseteq Kinds
    BY <1>4 DEF WakeNotInPoll, Spend
  <2>4. listed' \in BOOLEAN /\ nw' \in BOOLEAN /\ own' \in Agents \cup {"none"}
    BY <1>4 DEF WakeNotInPoll, Spend
  <2>5. woken' \subseteq App /\ budget' \in [Agents -> 0 .. Budget]
    BY <1>4 DEF WakeNotInPoll, Spend
  <2> QED  BY <2>1, <2>2, <2>3, <2>4, <2>5 DEF Fields
<1>5. CASE OsEvent(a)
  <2>1. ag' \in [Agents -> Fields] /\ \A b \in Agents : Roles(b)'
    <3>1. ag' \in [Agents -> Fields]  BY <1>5, OsEventFields
    <3>2. \A b \in Agents \ {a} : ag'[b] = ag[b]  BY <1>5 DEF OsEvent, Fields, Spend
    <3>3. Roles(a)'  BY <1>5 DEF OsEvent, Fields, Spend
    <3> QED  BY <3>1, <3>2, <3>3, RolesFrame
  <2>2. (wl' \subseteq {"LOCKED", "NEED_WAKE"} /\ seq' \in [Kinds -> Nat] /\ sbf' \subseteq Kinds)
    BY <1>5 DEF OsEvent, Spend
  <2>3. req' \subseteq Kinds /\ ready' \subseteq Kinds
    BY <1>5 DEF OsEvent, Spend
  <2>4. listed' \in BOOLEAN /\ nw' \in BOOLEAN /\ own' \in Agents \cup {"none"}
    BY <1>5 DEF OsEvent, Spend
  <2>5. woken' \subseteq App /\ budget' \in [Agents -> 0 .. Budget]
    BY <1>5 DEF OsEvent, Spend
  <2> QED  BY <2>1, <2>2, <2>3, <2>4, <2>5 DEF Fields
<1>6. CASE SockLockSignal(a)  BY <1>6 DEF SockLockSignal
<1>7. CASE SleepBusy(a)  BY <1>7 DEF SleepBusy, Failed, Zero
<1>8. CASE SleepFails(a)  BY <1>8 DEF SleepFails, Failed, Zero
<1> QED  BY <1>1, <1>2, <1>3, <1>4, <1>5, <1>6, <1>7, <1>8 DEF Event

\* So does the workqueue that is given the stack lock.
LEMMA DoNonAtomicTypes ==
    ASSUME TypeInv, DoNonAtomic PROVE TypeInv'
<1>1. WQ \in Agents  BY DEF Agents
<1>2. TypeOK'
  <2> DEFINE r == [ag[WQ] EXCEPT !.pc = "unlock", !.ret = "idle"]
  <2>0. ag[WQ] \in Fields  BY <1>1 DEF TypeInv, TypeOK, Fields
  <2>1. r \in Fields  BY <2>0 DEF PCs, Fields
  <2>2. ag' = [ag EXCEPT ![WQ] = r]  BY DEF Call, DoNonAtomic
  <2> HIDE DEF r
  <2>3. ag' \in [Agents -> Fields]  BY <1>1, <2>1, <2>2, Update DEF TypeInv
  <2> QED  BY <2>3 DEF TypeInv, TypeOK, Fields, sock, stack, DoNonAtomic
<1>3. \A b \in Agents \ {WQ} : ag'[b] = ag[b]
  BY DEF TypeInv, TypeOK, Call, DoNonAtomic
<1>4. Roles(WQ)'
  BY <1>1 DEF TypeInv, TypeOK, Call, DoNonAtomic, Roles, Np
<1> QED  BY <1>1, <1>2, <1>3, <1>4, RolesFrame DEF TypeInv

\* Every step keeps the types and roles.
LEMMA TypeStep ==
    ASSUME TypeInv, [Next]_vars PROVE TypeInv'
<1>1. ASSUME NEW a \in Agents, Step(a) PROVE TypeInv'
  BY <1>1, LockTypes, SleepTypes, StackTypes, DoNonAtomicTypes DEF Step
<1>2. ASSUME NEW a \in Agents, Event(a) PROVE TypeInv'
  BY <1>2, EventTypes
<1>3. CASE Quiet \/ UNCHANGED vars
  BY <1>3 DEF Quiet, vars, TypeInv, TypeOK, Roles, Np
<1> QED  BY <1>1, <1>2, <1>3 DEF Next

\* They hold initially.
LEMMA TypeInit ==
    ASSUME Init PROVE TypeInv
<1>1. Idle \in Fields  BY DEF Idle, Zero, Fields, PCs, Kinds
<1>2. ag \in [Agents -> Fields]  BY <1>1 DEF Init
<1>3. TypeOK
  <2>1. budget \in [Agents -> 0 .. Budget]  BY SockSleepAssumption DEF Init
  <2>2. seq \in [Kinds -> Nat]  BY DEF Init, Zero
  <2> QED  BY <1>2, <2>1, <2>2 DEF Init, TypeOK, Fields
<1>4. \A a \in Agents : Roles(a)  BY DEF Init, Idle, Roles, Np
<1> QED  BY <1>3, <1>4 DEF TypeInv

\* They hold throughout.
LEMMA TypeInvariant == Spec => []TypeInv
BY TypeInit, TypeStep, PTL DEF Spec

\* Every word and counter of the socket, the stack lock and the threads' own
\* records keep their types through the code of this module.
THEOREM TypeCorrect == Spec => []TypeOK
<1>1. TypeInv => TypeOK  BY DEF TypeInv
<1> QED  BY <1>1, TypeInvariant, PTL

(***************************************************************************)
(* A step changes the record of the agent that takes it and no other.       *)
(***************************************************************************)
Others(a) == \A b \in Agents \ {a} : ag'[b] = ag[b]

\* The locks' steps.
LEMMA LockOthers ==
    ASSUME TypeOK, NEW a \in Agents, LockStep(a) PROVE Others(a)
<1> USE DEF TypeOK, Others, Goto, Call, Return
<1>1. CASE SockLock(a)  BY <1>1 DEF SockLock
<1>2. CASE SockLockPre(a)  BY <1>2 DEF SockLockPre
<1>3. CASE SockRequestWake(a)  BY <1>3 DEF SockRequestWake
<1>4. CASE SockLockWoken(a)  BY <1>4 DEF SockLockWoken
<1>5. CASE SockUnlock(a)  BY <1>5 DEF SockUnlock
<1>6. CASE SockUnlockWake(a)  BY <1>6 DEF SockUnlockWake
<1>7. CASE NetifLock(a)  BY <1>7 DEF NetifLock
<1> QED  BY <1>1, <1>2, <1>3, <1>4, <1>5, <1>6, <1>7 DEF LockStep

\* The waiting thread's steps.
LEMMA SleepOthers ==
    ASSUME TypeOK, NEW a \in Agents, SleepStep(a) PROVE Others(a)
<1> USE DEF TypeOK, Others, Goto, Call, Return
<1>1. CASE ReadSeq(a)  BY <1>1 DEF ReadSeq
<1>2. CASE Check(a)  BY <1>2 DEF Check, Unlocker
<1>3. CASE SleepPre(a)  BY <1>3 DEF SleepPre
<1>4. CASE SetWakeRequest(a)  BY <1>4 DEF SetWakeRequest
<1>5. CASE CheckSeq(a)  BY <1>5 DEF CheckSeq, Again
<1>6. CASE Awake(a)  BY <1>6 DEF Awake, Again
<1> QED  BY <1>1, <1>2, <1>3, <1>4, <1>5, <1>6 DEF SleepStep

\* The stack's steps.
LEMMA StackOthers ==
    ASSUME TypeOK, NEW a \in Agents, StackStep(a) PROVE Others(a)
<1> USE DEF TypeOK, Others, Goto, Call, Return
<1>1. CASE PostPoll(a)  BY <1>1 DEF PostPoll, EndPoll
<1>2. CASE NothingToWake(a)  BY <1>2 DEF NothingToWake
<1>3. CASE IncRead(a)  BY <1>3 DEF IncRead
<1>4. CASE IncWrite(a)  BY <1>4 DEF IncWrite
<1>5. CASE CheckRequest(a)  BY <1>5 DEF CheckRequest, EndPoll
<1>6. CASE CheckRequestNp(a)  BY <1>6 DEF CheckRequestNp
<1>7. CASE EndpointWakeup(a)  BY <1>7 DEF EndpointWakeup
<1>8. CASE EndpointWakeAll(a)  BY <1>8 DEF EndpointWakeAll, EndPoll
<1>9. CASE NetifUnlock(a)  BY <1>9 DEF NetifUnlock
<1>10. CASE WakeupPostPollList(a)  BY <1>10 DEF WakeupPostPollList
<1>11. CASE WakeupPostPollAll(a)  BY <1>11 DEF WakeupPostPollAll
<1>12. CASE OsWake(a)  BY <1>12 DEF OsWake
<1> QED  BY <1>1, <1>2, <1>3, <1>4, <1>5, <1>6, <1>7, <1>8, <1>9, <1>10, <1>11, <1>12 DEF StackStep

\* Calls and events.
LEMMA EventOthers ==
    ASSUME TypeOK, NEW a \in Agents, Event(a) PROVE Others(a)
<1> USE DEF TypeOK, Others, Goto, Call, Return
<1>1. CASE Start(a)  BY <1>1 DEF Start, Spend, Idle
<1>2. CASE StackLock(a)  BY <1>2 DEF StackLock
<1>3. CASE \E k \in Kinds : Deliver(a, k)  BY <1>3 DEF Deliver, Spend
<1>4. CASE WakeNotInPoll(a)  BY <1>4 DEF WakeNotInPoll, Spend
<1>5. CASE OsEvent(a)  BY <1>5 DEF OsEvent, Spend
<1>6. CASE SockLockSignal(a)  BY <1>6 DEF SockLockSignal
<1>7. CASE SleepBusy(a)  BY <1>7 DEF SleepBusy, Failed
<1>8. CASE SleepFails(a)  BY <1>8 DEF SleepFails, Failed
<1> QED  BY <1>1, <1>2, <1>3, <1>4, <1>5, <1>6, <1>7, <1>8 DEF Event
=============================================================================
