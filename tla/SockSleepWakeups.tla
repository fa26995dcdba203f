-------------------------- MODULE SockSleepWakeups --------------------------
(***************************************************************************)
(* A thread that sleeps on a socket is woken, for any number of agents.     *)
(***************************************************************************)
EXTENDS SockSleepLocks

(***************************************************************************)
(* Sleeping, for a socket without an OS socket behind it.  sleep_seq is     *)
(* then written under the stack lock only.                                 *)
(***************************************************************************)
\* An event of kind k that agent b, or anybody, has yet to count.
Unc(b, k) == \/ ag[b].pc \in {"inc", "inc_write"} /\ k \in ag[b].todo
             \/ At(b, "poll") /\ listed /\ k \in sbf
Uncounted(k) == \E b \in Agents : Unc(b, k)

\* Somebody has cleared wake_request and has yet to wake the queue.
Waking(b) == ag[b].pc \in {"ew_wake", "wppl_wake"}
SomeoneWaking == \E b \in Agents : Waking(b)

\* What agent b does for a wakeup of kind k.
Way(b, k) == \/ Unc(b, k)
             \/ ag[b].pc \in {"inc", "inc_write"} /\ k \in sbf
             \/ At(b, "inc") /\ Np(b) /\ ag[b].why = k
             \/ ag[b].pc \in {"ew", "ew_wake", "wppl_wake"}
             \/ At(b, "wppl") /\ listed

\* OnItsWay, one agent at a time.
LEMMA OnItsWayIs ==
    ASSUME OsEvents = {}, NEW k
    PROVE  OnItsWay(k) <=> (\E b \in Agents : Way(b, k)) \/ (nw /\ listed)
BY DEF OnItsWay, Way, Unc, Np, At

\* A counter that has been read is written before anybody else can, and what is
\* counted is in sb_flags, or is what the caller reports.
Counting(b) ==
    /\ At(b, "inc_write") => /\ ag[b].todo # {}
                             /\ ag[b].val = seq[IF "RX" \in ag[b].todo THEN "RX" ELSE "TX"]
    /\ ag[b].pc \in {"inc", "inc_write"} => ag[b].todo \subseteq IF Np(b) THEN {ag[b].why} ELSE sbf

\* A thread that has found its socket not ready and has not compared the
\* counters yet.
Past(b) == \/ ag[b].pc \in {"sl_pre", "sl_req", "sl_seq"}
           \/ ag[b].pc \in {"ul", "ul_wake", "unlock", "wppl", "wppl_wake"} /\ ag[b].ret = "sl_pre"

\* sleep_seq was sn earlier on; readiness of kind w since then shows in it.
Earlier(sn) == \A k \in Kinds : sn[k] <= seq[k]
Noticed(sn, w) == w \in ready => seq # sn \/ Uncounted(w)

\* A thread on its way to sleep would notice readiness; once it has asked to be
\* woken it is woken, or its request stands; asleep, its wakeup is on its way.
Sleeping(b) ==
    /\ Past(b) \/ At(b, "check") => Earlier(ag[b].snap)
    /\ Past(b) => Noticed(ag[b].snap, ag[b].why)
    /\ ag[b].pc \in {"sl_seq", "sleep"} /\ b \notin woken => ag[b].why \in req \/ SomeoneWaking
    /\ At(b, "sleep") /\ b \notin woken /\ ag[b].why \in ready => OnItsWay(ag[b].why)

\* Everybody on the queue is woken.
AllWoken == \A b \in App : OnQueue(b) => b \in woken'

\* What a step of a does to those who sleep.
Progress(a) ==
    /\ \A k \in Kinds : seq[k] <= seq'[k]
    /\ \A k \in ready' \ ready : Uncounted(k)'
    /\ \A k \in Kinds : Uncounted(k) => Uncounted(k)' \/ seq[k] # seq'[k]
    /\ woken \ {a} \subseteq woken'
    /\ \/ AllWoken
       \/ /\ \A k \in req : k \in req' \/ SomeoneWaking'
          /\ SomeoneWaking => SomeoneWaking'
          /\ \A k \in Kinds : OnItsWay(k) /\ (k \in req \/ SomeoneWaking) => OnItsWay(k)'

\* An event yet to be counted is a wakeup on its way.
LEMMA UncountedIsOnItsWay ==
    ASSUME OsEvents = {}, NEW k, Uncounted(k)' PROVE OnItsWay(k)'
BY DEF Uncounted, Unc, OnItsWay, At

\* Counters only grow, and an event that becomes counted changes them.
LEMMA SnapshotKept ==
    ASSUME TypeInv, TypeInv', NEW a, Progress(a), NEW sn \in [Kinds -> Nat], Earlier(sn)
    PROVE  Earlier(sn)' /\ \A w \in Kinds : Noticed(sn, w) => Noticed(sn, w)'
<1>1. seq \in [Kinds -> Nat] /\ seq' \in [Kinds -> Nat]  BY DEF TypeInv, TypeOK
<1>2. \A k \in Kinds : sn[k] <= seq[k] /\ seq[k] <= seq'[k]  BY DEF Progress, Earlier
<1>3. Earlier(sn)'  BY <1>1, <1>2 DEF Earlier
<1>4. ASSUME NEW w \in Kinds, Noticed(sn, w), w \in ready', ~Uncounted(w)' PROVE seq' # sn
  <2>1. w \in ready  BY <1>4 DEF Progress
  <2>2. CASE seq # sn
    <3>1. PICK k \in Kinds : seq[k] # sn[k]  BY <1>1, <2>2
    <3> QED  BY <1>1, <1>2, <3>1
  <2>3. CASE Uncounted(w)
    <3>1. seq[w] # seq'[w]  BY <1>4, <2>3 DEF Progress
    <3> QED  BY <1>1, <1>2, <3>1
  <2> QED  BY <1>4, <2>1, <2>2, <2>3 DEF Noticed
<1> QED  BY <1>3, <1>4 DEF Noticed

\* A step of somebody else does not make a thread miss its wakeup.
LEMMA SleepingFrame ==
    ASSUME TypeInv, TypeInv', OsEvents = {}, NEW a \in Agents, Others(a), Progress(a),
           NEW b \in Agents \ {a}, Sleeping(b)
    PROVE  Sleeping(b)'
<1> DEFINE k == ag[b].why
<1>1. ag'[b] = ag[b] /\ k \in Kinds  BY DEF Others, TypeInv, TypeOK
<1>2. b \in woken => b \in woken'  BY DEF Progress
<1>3. ag[b].pc \in {"sl_seq", "sleep"} => OnQueue(b) /\ b \in App
  BY DEF TypeInv, Roles, OnQueue
<1>4. seq \in [Kinds -> Nat] /\ seq' \in [Kinds -> Nat] /\ ag[b].snap \in [Kinds -> Nat]
  BY DEF TypeInv, TypeOK
<1>5. (Past(b) \/ At(b, "check"))' => Earlier(ag[b].snap)'
  BY <1>1, <1>4, SnapshotKept DEF Sleeping, Past, At, Earlier
<1>6. Past(b)' => Noticed(ag[b].snap, ag[b].why)'
  <2>1. PICK sn \in [Kinds -> Nat], w \in Kinds : sn = ag[b].snap /\ w = ag[b].why  BY <1>1, <1>4
  <2>2. Past(b) => Noticed(sn, w)'  BY <2>1, SnapshotKept DEF Sleeping
  <2>3. Noticed(sn, w)' => Noticed(ag[b].snap, ag[b].why)'
    BY <1>1, <2>1 DEF Noticed, Uncounted, Unc
  <2> QED  BY <1>1, <2>2, <2>3 DEF Past
<1>7. (ag[b].pc \in {"sl_seq", "sleep"} /\ b \notin woken)' => (ag[b].why \in req \/ SomeoneWaking)'
  BY <1>1, <1>2, <1>3 DEF Progress, AllWoken, Sleeping
<1>8. (At(b, "sleep") /\ b \notin woken /\ ag[b].why \in ready)' => OnItsWay(ag[b].why)'
  <2> SUFFICES ASSUME At(b, "sleep"), b \notin woken', k \in ready' PROVE OnItsWay(k)'
    BY <1>1 DEF At
  <2>1. b \notin woken /\ ~AllWoken  BY <1>2, <1>3 DEF AllWoken, At
  <2>2. k \in req \/ SomeoneWaking  BY <2>1 DEF Sleeping, At
  <2>3. CASE k \in ready
    <3>1. OnItsWay(k)  BY <2>1, <2>3 DEF Sleeping
    <3> QED  BY <1>1, <2>1, <2>2, <3>1 DEF Progress
  <2>4. CASE k \notin ready  BY <1>1, <2>4 DEF Progress, Uncounted, Unc, OnItsWay, At
  <2> QED  BY <2>3, <2>4
<1> QED  BY <1>5, <1>6, <1>7, <1>8 DEF Sleeping

\* A step away from the post-poll list.
Bystander(a) ==
    /\ ag[a].pc \notin {"poll", "inc", "inc_write", "ew", "ew_wake", "wppl", "wppl_wake"}
    /\ UNCHANGED <<seq, sbf, listed, nw>>
    /\ ready' \subseteq ready /\ req \subseteq req' /\ woken \ {a} \subseteq woken'

\* Such a step takes no wakeup off its way.
LEMMA BystanderProgress ==
    ASSUME TypeInv, OsEvents = {}, NEW a \in Agents, Others(a), Bystander(a)
    PROVE  Progress(a)
<1> USE DEF Bystander, Others
<1>1. ASSUME NEW b \in Agents, NEW k
      PROVE  /\ Unc(b, k) => Unc(b, k)'
             /\ Way(b, k) => Way(b, k)'
             /\ Waking(b) => Waking(b)'
  BY DEF Unc, Way, Waking, Np, At
<1>2. \A k : Uncounted(k) => Uncounted(k)'  BY <1>1 DEF Uncounted
<1>3. SomeoneWaking => SomeoneWaking'  BY <1>1 DEF SomeoneWaking
<1>4. ASSUME NEW k, OnItsWay(k) PROVE OnItsWay(k)'
  <2>1. (\E b \in Agents : Way(b, k)) \/ (nw /\ listed)  BY <1>4, OnItsWayIs
  <2>2. (\E b \in Agents : Way(b, k)') \/ (nw /\ listed)'  BY <1>1, <2>1
  <2>3. OnItsWay(k)' <=> (\E b \in Agents : Way(b, k)') \/ (nw /\ listed)'
    BY DEF OnItsWay, Way, Unc, Np, At
  <2> QED  BY <2>2, <2>3
<1>5. \A k \in Kinds : seq[k] <= seq'[k]  BY DEF TypeInv, TypeOK
<1> QED  BY <1>2, <1>3, <1>4, <1>5 DEF Progress

\* A step of the owner of the stack lock.
OwnProgress(a) ==
    /\ \A k \in Kinds : seq[k] <= seq'[k]
    /\ \A k \in ready' \ ready : Unc(a, k)'
    /\ \A k \in Kinds : Unc(a, k) => Unc(a, k)' \/ seq[k] # seq'[k]
    /\ woken \subseteq woken'
    /\ \/ AllWoken
       \/ /\ ~Waking(a)
          /\ req \subseteq req' \/ Waking(a)'
          /\ \A k \in req : Way(a, k) \/ (nw /\ listed) => Way(a, k)' \/ (nw /\ listed)'

\* Nobody else has a wakeup under way.
LEMMA OwnerProgress ==
    ASSUME TypeInv, OsEvents = {}, NEW a \in Agents, Owner, HasStack(a), OwnProgress(a)
    PROVE  Progress(a)
<1>1. \A b \in Agents \ {a} : ~HasStack(b)  BY DEF Owner
<1>2. ASSUME NEW b \in Agents \ {a}, NEW k PROVE ~Unc(b, k) /\ ~Way(b, k) /\ ~Waking(b)
  BY <1>1, <1>2 DEF HasStack, Unc, Way, Waking, At
<1>3. \A k \in Kinds : Uncounted(k) => Uncounted(k)' \/ seq[k] # seq'[k]
  BY <1>2 DEF Uncounted, OwnProgress
<1>4. \A k \in ready' \ ready : Uncounted(k)'  BY DEF Uncounted, OwnProgress
<1>5. CASE ~AllWoken
  <2>1. ~SomeoneWaking  BY <1>2, <1>5 DEF SomeoneWaking, OwnProgress
  <2>2. \A k \in req : k \in req' \/ SomeoneWaking'
    BY <1>5 DEF SomeoneWaking, OwnProgress
  <2>3. ASSUME NEW k \in req, OnItsWay(k) PROVE OnItsWay(k)'
    <3>1. Way(a, k) \/ (nw /\ listed)  BY <1>2, <2>3, OnItsWayIs
    <3>2. Way(a, k)' \/ (nw /\ listed)'  BY <1>5, <3>1 DEF OwnProgress
    <3>3. OnItsWay(k)' <=> (\E b \in Agents : Way(b, k)') \/ (nw /\ listed)'
      BY DEF OnItsWay, Way, Unc, Np, At
    <3> QED  BY <3>2, <3>3
  <2> QED  BY <1>3, <1>4, <2>1, <2>2, <2>3 DEF Progress, OwnProgress
<1>6. CASE AllWoken  BY <1>3, <1>4, <1>6 DEF Progress, OwnProgress
<1> QED  BY <1>5, <1>6

\* The actions that are.
BystanderStep(a) == \/ LockStep(a) \/ SleepStep(a) \/ NothingToWake(a) \/ Start(a) \/ StackLock(a)
                    \/ SockLockSignal(a) \/ SleepBusy(a) \/ SleepFails(a)

\* Locking, sleeping, signals and calls are away from the post-poll list.
LEMMA Bystanders ==
    ASSUME TypeInv, NEW a \in Agents, BystanderStep(a) PROVE Bystander(a)
<1> USE DEF TypeInv, TypeOK, At, WaiterPre, WakeupAll, sock, stack, Bystander
<1>1. CASE SockLock(a)  BY <1>1 DEF SockLock
<1>2. CASE SockLockPre(a)  BY <1>2 DEF SockLockPre
<1>3. CASE SockRequestWake(a)  BY <1>3 DEF SockRequestWake
<1>4. CASE SockLockWoken(a)  BY <1>4 DEF SockLockWoken
<1>5. CASE SockUnlock(a)  BY <1>5 DEF SockUnlock
<1>6. CASE SockUnlockWake(a)  BY <1>6 DEF SockUnlockWake
<1>7. CASE NetifLock(a)  BY <1>7 DEF NetifLock
<1>8. CASE ReadSeq(a)  BY <1>8 DEF ReadSeq
<1>9. CASE Check(a)  BY <1>9 DEF Check
<1>10. CASE SleepPre(a)  BY <1>10 DEF SleepPre
<1>11. CASE SetWakeRequest(a)  BY <1>11 DEF SetWakeRequest
<1>12. CASE CheckSeq(a)  BY <1>12 DEF CheckSeq
<1>13. CASE Awake(a)  BY <1>13 DEF Awake
<1>14. CASE NothingToWake(a)  BY <1>14 DEF NothingToWake
<1>15. CASE Start(a)  BY <1>15 DEF Start
<1>16. CASE StackLock(a)  BY <1>16 DEF StackLock
<1>17. CASE SockLockSignal(a)  BY <1>17 DEF SockLockSignal
<1>18. CASE SleepBusy(a)  BY <1>18 DEF SleepBusy
<1>19. CASE SleepFails(a)  BY <1>19 DEF SleepFails
<1> QED  BY <1>1, <1>2, <1>3, <1>4, <1>5, <1>6, <1>7, <1>8, <1>9, <1>10, <1>11, <1>12, <1>13,
        <1>14, <1>15, <1>16, <1>17, <1>18, <1>19 DEF BystanderStep, LockStep, SleepStep

\* Post-poll processing and wakeups: an event is counted, then wake_request is
\* looked at, then the queue is woken or the wakeup is left to NEED_WAKE.
LEMMA StackProgress ==
    ASSUME TypeInv, OsEvents = {}, NEW a \in Agents, Stages(a), Counting(a), nw => listed,
           StackStep(a) \/ Event(a), ~BystanderStep(a)
    PROVE  HasStack(a) /\ OwnProgress(a)
<1> USE DEF TypeInv, TypeOK, Roles, Np, At, Goto, Call, Return, sock, stack, Kinds,
        HasStack, OwnProgress, Unc, Way, Waking, Stages, Clean, Counting
<1>1. CASE PostPoll(a)  BY <1>1 DEF PostPoll, EndPoll
<1>2. CASE IncRead(a)  BY <1>2 DEF IncRead
<1>3. CASE IncWrite(a)  BY <1>3 DEF IncWrite
<1>4. CASE CheckRequest(a)
  <2>1. CASE sbf \cap req = {} /\ EndPoll(a) /\ UNCHANGED nw
    BY <1>4, <2>1 DEF CheckRequest, EndPoll
  <2>2. CASE nw' = TRUE /\ EndPoll(a) /\ UNCHANGED <<sbf, listed>>
    BY <1>4, <2>2 DEF CheckRequest, EndPoll
  <2>3. CASE Goto(a, "ew") /\ UNCHANGED <<sbf, listed, nw>>
    BY <1>4, <2>3 DEF CheckRequest
  <2> QED  BY <1>4, <2>1, <2>2, <2>3 DEF CheckRequest
<1>5. CASE CheckRequestNp(a)  BY <1>5 DEF CheckRequestNp
<1>6. CASE EndpointWakeup(a)  BY <1>6 DEF EndpointWakeup
<1>7. CASE EndpointWakeAll(a)
  <2>1. AllWoken /\ woken \subseteq woken'  BY <1>7 DEF EndpointWakeAll, WakeupAll, AllWoken
  <2> QED  BY <1>7, <2>1 DEF EndpointWakeAll
<1>8. CASE WakeupPostPollList(a)  BY <1>8 DEF WakeupPostPollList
<1>9. CASE WakeupPostPollAll(a)
  <2>1. AllWoken /\ woken \subseteq woken'  BY <1>9 DEF WakeupPostPollAll, WakeupAll, AllWoken
  <2> QED  BY <1>9, <2>1 DEF WakeupPostPollAll
<1>10. CASE \E k \in Kinds : Deliver(a, k)
  <2>1. PICK k \in Kinds : Deliver(a, k)  BY <1>10
  <2>2. /\ ag' = ag /\ listed' = TRUE /\ sbf' = sbf \cup {k} /\ ready' = ready \cup {k}
        /\ UNCHANGED <<seq, req, nw, woken>>
    BY <2>1 DEF Deliver
  <2> QED  BY <2>1, <2>2 DEF Deliver
<1>11. CASE WakeNotInPoll(a)  BY <1>11 DEF WakeNotInPoll, Spend
<1>12. CASE NetifUnlock(a)  BY <1>12 DEF NetifUnlock
<1> QED  BY <1>1, <1>2, <1>3, <1>4, <1>5, <1>6, <1>7, <1>8, <1>9, <1>10, <1>11, <1>12 DEF
        StackStep, Event, OsEvent, OsWake, BystanderStep

(***************************************************************************)
(* What is counted.                                                        *)
(***************************************************************************)
\* Nobody starts to count outside the stack.
LEMMA BystanderCounting ==
    ASSUME TypeInv, NEW a \in Agents, BystanderStep(a) PROVE Counting(a)'
<1> USE DEF TypeInv, TypeOK, Roles, At, Goto, Call, Return, Counting
<1>1. CASE SockLock(a)  BY <1>1 DEF SockLock
<1>2. CASE SockLockPre(a)  BY <1>2 DEF SockLockPre
<1>3. CASE SockRequestWake(a)  BY <1>3 DEF SockRequestWake
<1>4. CASE SockLockWoken(a)  BY <1>4 DEF SockLockWoken
<1>5. CASE SockUnlock(a)  BY <1>5 DEF SockUnlock
<1>6. CASE SockUnlockWake(a)  BY <1>6 DEF SockUnlockWake
<1>7. CASE NetifLock(a)  BY <1>7 DEF NetifLock
<1>8. CASE ReadSeq(a)  BY <1>8 DEF ReadSeq
<1>9. CASE Check(a)  BY <1>9 DEF Check, Unlocker, App
<1>10. CASE SleepPre(a)  BY <1>10 DEF SleepPre
<1>11. CASE SetWakeRequest(a)  BY <1>11 DEF SetWakeRequest
<1>12. CASE CheckSeq(a)  BY <1>12 DEF CheckSeq, Again, App
<1>13. CASE Awake(a)  BY <1>13 DEF Awake, Again, App
<1>14. CASE NothingToWake(a)  BY <1>14 DEF NothingToWake
<1>15. CASE Start(a)  BY <1>15 DEF Start, Idle, App
<1>16. CASE StackLock(a)  BY <1>16 DEF StackLock
<1>17. CASE SockLockSignal(a)  BY <1>17 DEF SockLockSignal
<1>18. CASE SleepBusy(a)  BY <1>18 DEF SleepBusy, Failed
<1>19. CASE SleepFails(a)  BY <1>19 DEF SleepFails, Failed
<1> QED  BY <1>1, <1>2, <1>3, <1>4, <1>5, <1>6, <1>7, <1>8, <1>9, <1>10, <1>11, <1>12, <1>13,
        <1>14, <1>15, <1>16, <1>17, <1>18, <1>19 DEF BystanderStep, LockStep, SleepStep

\* What is counted comes from sb_flags or from the caller's report.
LEMMA StackCounting ==
    ASSUME TypeInv, OsEvents = {}, NEW a \in Agents, Counting(a),
           StackStep(a) \/ Event(a), ~BystanderStep(a)
    PROVE  Counting(a)'
<1> USE DEF TypeInv, TypeOK, Roles, Np, At, Goto, Call, Return, sock, stack, Kinds, Counting
<1>1. CASE PostPoll(a)  BY <1>1 DEF PostPoll, EndPoll
<1>2. CASE IncRead(a)  BY <1>2 DEF IncRead
<1>3. CASE IncWrite(a)  BY <1>3 DEF IncWrite
<1>4. CASE CheckRequest(a)  BY <1>4 DEF CheckRequest, EndPoll
<1>5. CASE CheckRequestNp(a)  BY <1>5 DEF CheckRequestNp
<1>6. CASE EndpointWakeup(a)  BY <1>6 DEF EndpointWakeup
<1>7. CASE EndpointWakeAll(a)  BY <1>7 DEF EndpointWakeAll, EndPoll
<1>8. CASE WakeupPostPollList(a)  BY <1>8 DEF WakeupPostPollList
<1>9. CASE WakeupPostPollAll(a)  BY <1>9 DEF WakeupPostPollAll
<1>10. CASE \E k \in Kinds : Deliver(a, k)  BY <1>10 DEF Deliver, Spend
<1>11. CASE WakeNotInPoll(a)  BY <1>11 DEF WakeNotInPoll, Spend
<1>12. CASE NetifUnlock(a)  BY <1>12 DEF NetifUnlock
<1> QED  BY <1>1, <1>2, <1>3, <1>4, <1>5, <1>6, <1>7, <1>8, <1>9, <1>10, <1>11, <1>12 DEF
        StackStep, Event, OsEvent, OsWake, BystanderStep

(***************************************************************************)
(* The thread's own steps.                                                 *)
(***************************************************************************)
\* It is on its way to the queue, or has nothing to do with it.
LEMMA PastKept ==
    ASSUME TypeInv, TypeInv', NEW a \in Agents, Progress(a), Sleeping(a),
           ag'[a].pc \notin {"check", "sl_seq", "sleep"},
           Past(a)' => Past(a) /\ ag'[a].snap = ag[a].snap /\ ag'[a].why = ag[a].why
    PROVE  Sleeping(a)'
<1> SUFFICES ASSUME Past(a)' PROVE Earlier(ag[a].snap)' /\ Noticed(ag[a].snap, ag[a].why)'
  BY DEF Sleeping, At
<1>1. PICK sn \in [Kinds -> Nat], w \in Kinds : sn = ag[a].snap /\ w = ag[a].why
  BY DEF TypeInv, TypeOK
<1>2. Earlier(sn)' /\ Noticed(sn, w)'  BY <1>1, SnapshotKept DEF Sleeping
<1> QED  BY <1>1, <1>2 DEF Earlier, Noticed, Uncounted, Unc, At

\* The step is of that form.
PastStep(a) == /\ ag'[a].pc \notin {"check", "sl_seq", "sleep"}
               /\ Past(a)' => Past(a) /\ ag'[a].snap = ag[a].snap /\ ag'[a].why = ag[a].why

\* Unlocking and joining the queue keep the snapshot; a new call starts afresh.
LEMMA BystanderPast ==
    ASSUME TypeInv, NEW a \in Agents, BystanderStep(a),
           ~ReadSeq(a), ~Check(a), ~SetWakeRequest(a), ~CheckSeq(a)
    PROVE  PastStep(a)
<1> USE DEF TypeInv, TypeOK, Roles, At, Goto, Call, Return, PastStep, Past
<1>1. CASE SockLock(a)  BY <1>1 DEF SockLock
<1>2. CASE SockLockPre(a)  BY <1>2 DEF SockLockPre
<1>3. CASE SockRequestWake(a)  BY <1>3 DEF SockRequestWake
<1>4. CASE SockLockWoken(a)  BY <1>4 DEF SockLockWoken
<1>5. CASE SockUnlock(a)  BY <1>5 DEF SockUnlock
<1>6. CASE SockUnlockWake(a)  BY <1>6 DEF SockUnlockWake
<1>7. CASE NetifLock(a)  BY <1>7 DEF NetifLock
<1>8. CASE SleepPre(a)  BY <1>8 DEF SleepPre
<1>9. CASE Awake(a)  BY <1>9 DEF Awake, Again, App
<1>10. CASE NothingToWake(a)  BY <1>10 DEF NothingToWake
<1>11. CASE Start(a)  BY <1>11 DEF Start, Idle, App
<1>12. CASE StackLock(a)  BY <1>12 DEF StackLock
<1>13. CASE SockLockSignal(a)  BY <1>13 DEF SockLockSignal
<1>14. CASE SleepBusy(a)  BY <1>14 DEF SleepBusy, Failed
<1>15. CASE SleepFails(a)  BY <1>15 DEF SleepFails, Failed
<1> QED  BY <1>1, <1>2, <1>3, <1>4, <1>5, <1>6, <1>7, <1>8, <1>9, <1>10, <1>11, <1>12, <1>13,
        <1>14, <1>15 DEF BystanderStep, LockStep, SleepStep

\* Dropping the stack lock on the way to sleep keeps the snapshot.
LEMMA StackPast ==
    ASSUME TypeInv, OsEvents = {}, NEW a \in Agents, StackStep(a) \/ Event(a), ~BystanderStep(a)
    PROVE  PastStep(a)
<1> USE DEF TypeInv, TypeOK, Roles, Np, At, Goto, Call, Return, sock, stack, Kinds, PastStep, Past
<1>1. CASE PostPoll(a)  BY <1>1 DEF PostPoll, EndPoll
<1>2. CASE IncRead(a)  BY <1>2 DEF IncRead
<1>3. CASE IncWrite(a)  BY <1>3 DEF IncWrite
<1>4. CASE CheckRequest(a)  BY <1>4 DEF CheckRequest, EndPoll
<1>5. CASE CheckRequestNp(a)  BY <1>5 DEF CheckRequestNp
<1>6. CASE EndpointWakeup(a)  BY <1>6 DEF EndpointWakeup
<1>7. CASE EndpointWakeAll(a)  BY <1>7 DEF EndpointWakeAll, EndPoll
<1>8. CASE WakeupPostPollList(a)  BY <1>8 DEF WakeupPostPollList
<1>9. CASE WakeupPostPollAll(a)  BY <1>9 DEF WakeupPostPollAll
<1>10. CASE \E k \in Kinds : Deliver(a, k)  BY <1>10 DEF Deliver, Spend
<1>11. CASE WakeNotInPoll(a)  BY <1>11 DEF WakeNotInPoll, Spend
<1>12. CASE NetifUnlock(a)  BY <1>12 DEF NetifUnlock
<1> QED  BY <1>1, <1>2, <1>3, <1>4, <1>5, <1>6, <1>7, <1>8, <1>9, <1>10, <1>11, <1>12 DEF
        StackStep, Event, OsEvent, OsWake, BystanderStep

\* Reading the counters, looking at the socket, asking to be woken, comparing
\* the counters.
LEMMA SleepersOwnSteps ==
    ASSUME TypeInv, TypeInv', OsEvents = {}, NEW a \in Agents, Others(a), Progress(a), Sleeping(a),
           ReadSeq(a) \/ Check(a) \/ SetWakeRequest(a) \/ CheckSeq(a)
    PROVE  Sleeping(a)'
<1> USE DEF TypeInv, TypeOK
<1>1. CASE ReadSeq(a)
  <2>1. At(a, "check")' /\ ag'[a].snap = seq /\ seq' = seq  BY <1>1 DEF ReadSeq, At, sock
  <2>2. Earlier(ag[a].snap)'  BY <2>1 DEF Earlier
  <2> QED  BY <2>1, <2>2 DEF Sleeping, Past, At
<1>2. CASE Check(a)
  <2>1. ag'[a].pc \notin {"check", "sl_seq", "sleep"}
    BY <1>2 DEF Check, Call, Unlocker, At, Roles, App
  <2>2. CASE ag[a].why \in ready
    <3>1. ~Past(a)'  BY <1>2, <2>2 DEF Check, Unlocker, At, Roles, App, Past
    <3> QED  BY <2>1, <3>1 DEF Sleeping, At
  <2>3. CASE ag[a].why \notin ready
    <3>1. ag'[a].snap = ag[a].snap /\ ag'[a].why = ag[a].why /\ seq' = seq
      BY <1>2, <2>3 DEF Check, Call
    <3>2. Earlier(ag[a].snap)'  BY <1>2, <3>1 DEF Check, Sleeping, Earlier
    <3>3. Noticed(ag[a].snap, ag[a].why)'  BY <1>2, <2>3, <3>1 DEF Check, Noticed
    <3> QED  BY <2>1, <3>2, <3>3 DEF Sleeping, At
  <2> QED  BY <2>2, <2>3
<1>3. CASE SetWakeRequest(a)
  <2>1. /\ Past(a) /\ ag'[a].pc = "sl_seq"
        /\ ag'[a].snap = ag[a].snap /\ ag'[a].why = ag[a].why /\ ag'[a].why \in req'
    BY <1>3 DEF SetWakeRequest, Goto, At, Past
  <2>2. PICK sn \in [Kinds -> Nat], w \in Kinds : sn = ag[a].snap /\ w = ag[a].why  OBVIOUS
  <2>3. Earlier(sn)' /\ Noticed(sn, w)'  BY <2>1, <2>2, SnapshotKept DEF Sleeping
  <2>4. Earlier(ag[a].snap)' /\ Noticed(ag[a].snap, ag[a].why)'
    BY <2>1, <2>2, <2>3 DEF Earlier, Noticed, Uncounted, Unc, At
  <2> QED  BY <2>1, <2>4 DEF Sleeping, At
<1>4. CASE CheckSeq(a)
  <2>1. CASE seq = ag[a].snap
    <3>1. /\ Past(a) /\ At(a, "sl_seq") /\ ag'[a].pc = "sleep" /\ ag'[a].why = ag[a].why
          /\ UNCHANGED <<sock, stack, woken>>
      BY <1>4, <2>1 DEF CheckSeq, Goto, At, Past
    <3>2. a \notin woken => ag[a].why \in req \/ SomeoneWaking  BY <3>1 DEF Sleeping, At
    <3>3. SomeoneWaking => SomeoneWaking'
      BY <3>1 DEF SomeoneWaking, Waking, Others, At
    <3>4. ag[a].why \in ready => Uncounted(ag[a].why)  BY <2>1, <3>1 DEF Sleeping, Noticed
    <3>5. Uncounted(ag[a].why) => OnItsWay(ag[a].why)'
      BY <3>1 DEF Uncounted, Unc, OnItsWay, Others, At, sock, stack
    <3> QED  BY <3>1, <3>2, <3>3, <3>4, <3>5 DEF Sleeping, Past, At, sock
  <2>2. CASE seq # ag[a].snap
    <3>1. ag'[a].pc \in {"lock", "look", "nlock"}
      BY <1>4, <2>2 DEF CheckSeq, Again, At, Roles, App
    <3> QED  BY <3>1 DEF Sleeping, Past, At
  <2> QED  BY <2>1, <2>2
<1> QED  BY <1>1, <1>2, <1>3, <1>4

\* The invariant, with Owner and PostPolls.
WakeInv == (\A b \in Agents : Counting(b)) /\ (\A b \in Agents : Sleeping(b))

\* Every step keeps the invariant.
LEMMA WakeStep ==
    ASSUME TypeInv, Owner, PostPolls, OsEvents = {}, WakeInv, [Next]_vars PROVE WakeInv'
<1>0. TypeInv'  BY TypeStep
<1>1. ASSUME NEW a \in Agents, BystanderStep(a) PROVE WakeInv'
  <2>1. Others(a)
    BY <1>1, LockOthers, SleepOthers, StackOthers, EventOthers
    DEF BystanderStep, StackStep, Event, TypeInv
  <2>2. Bystander(a)  BY <1>1, Bystanders
  <2>3. Progress(a)  BY <2>1, <2>2, BystanderProgress
  <2>4. Counting(a)'  BY <1>1, BystanderCounting
  <2>5. \A b \in Agents \ {a} : Counting(b)'
    BY <2>1, <2>2 DEF WakeInv, Counting, Others, Bystander, Np, At
  <2>6. Sleeping(a)'
    <3>1. CASE ReadSeq(a) \/ Check(a) \/ SetWakeRequest(a) \/ CheckSeq(a)
      BY <1>0, <2>1, <2>3, <3>1, SleepersOwnSteps DEF WakeInv
    <3>2. CASE ~ReadSeq(a) /\ ~Check(a) /\ ~SetWakeRequest(a) /\ ~CheckSeq(a)
      BY <1>0, <1>1, <2>3, <3>2, BystanderPast, PastKept DEF WakeInv, PastStep
    <3> QED  BY <3>1, <3>2
  <2>7. \A b \in Agents \ {a} : Sleeping(b)'
    BY <1>0, <2>1, <2>3, SleepingFrame DEF WakeInv
  <2> QED  BY <2>4, <2>5, <2>6, <2>7 DEF WakeInv
<1>2. ASSUME NEW a \in Agents, StackStep(a) \/ Event(a), ~BystanderStep(a) PROVE WakeInv'
  <2>1. Others(a)  BY <1>2, StackOthers, EventOthers DEF TypeInv
  <2>2. Stages(a) /\ (nw => listed) /\ Counting(a) /\ Sleeping(a)  BY DEF PostPolls, WakeInv
  <2>3. HasStack(a) /\ OwnProgress(a)  BY <1>2, <2>2, StackProgress
  <2>4. Progress(a)  BY <2>3, OwnerProgress
  <2>5. Counting(a)'  BY <1>2, <2>2, StackCounting
  <2>6. \A b \in Agents \ {a} : Counting(b)'
    <3>1. \A b \in Agents \ {a} : ~HasStack(b)  BY <2>3 DEF Owner
    <3> QED  BY <2>1, <3>1 DEF Others, HasStack, Counting, At
  <2>7. Sleeping(a)'
    BY <1>0, <1>2, <2>2, <2>4, StackPast, PastKept DEF PastStep
  <2>8. \A b \in Agents \ {a} : Sleeping(b)'
    BY <1>0, <2>1, <2>4, SleepingFrame DEF WakeInv
  <2> QED  BY <2>5, <2>6, <2>7, <2>8 DEF WakeInv
<1>3. CASE DoNonAtomic
  <2>1. WQ \in Agents /\ Others(WQ)
    BY <1>3 DEF DoNonAtomic, Call, TypeInv, TypeOK, Others, Agents
  <2>2. Bystander(WQ)  BY <1>3 DEF DoNonAtomic, At, Bystander, sock, stack
  <2>3. Progress(WQ)  BY <2>1, <2>2, BystanderProgress
  <2>4. ag'[WQ].pc = "unlock" /\ ag'[WQ].ret = "idle"
    BY <1>3, <2>1 DEF DoNonAtomic, Call, TypeInv, TypeOK
  <2>5. Counting(WQ)' /\ Sleeping(WQ)'  BY <2>4 DEF Counting, Sleeping, Past, At
  <2>6. \A b \in Agents \ {WQ} : Counting(b)'
    BY <2>1, <2>2 DEF WakeInv, Counting, Others, Bystander, Np, At
  <2>7. \A b \in Agents \ {WQ} : Sleeping(b)'
    BY <1>0, <2>1, <2>3, SleepingFrame DEF WakeInv
  <2> QED  BY <2>5, <2>6, <2>7 DEF WakeInv
<1>4. CASE Quiet \/ UNCHANGED vars
  <2>1. UNCHANGED vars  BY <1>4 DEF Quiet
  <2>2. \A b \in Agents : Counting(b)'  BY <2>1 DEF vars, WakeInv, Counting, Np, At
  <2>3. \A k : /\ Uncounted(k)' <=> Uncounted(k)
               /\ OnItsWay(k)' <=> OnItsWay(k)
    BY <2>1 DEF vars, Uncounted, Unc, OnItsWay, At
  <2>4. SomeoneWaking' <=> SomeoneWaking  BY <2>1 DEF vars, SomeoneWaking, Waking
  <2>5. \A b \in Agents : Sleeping(b)'
    BY <2>1, <2>3, <2>4 DEF vars, WakeInv, Sleeping, Past, Earlier, Noticed, At
  <2> QED  BY <2>2, <2>5 DEF WakeInv
<1> QED  BY <1>1, <1>2, <1>3, <1>4 DEF Next, Step, BystanderStep

\* citp_waitable_wake, efab_tcp_helper_sock_sleep and wakeup_post_poll_list: a
\* thread never sleeps through readiness of a socket that has no OS socket
\* behind it, however many threads sleep and however many poll.
THEOREM StackWakesSleepers ==
    ASSUME OsEvents = {} PROVE Spec => []NoLostWakeup
<1>1. Init => TypeInv /\ Owner /\ PostPolls /\ WakeInv
  <2>1. Init => WakeInv  BY DEF Init, Idle, WakeInv, Counting, Sleeping, Past, At
  <2> QED  BY <2>1, TypeInit, StackInit
<1>2. TypeInv /\ Owner /\ PostPolls /\ WakeInv /\ [Next]_vars
      => (TypeInv /\ Owner /\ PostPolls /\ WakeInv)'
  BY TypeStep, OwnerStep, PostPollStep, WakeStep
<1>3. WakeInv => NoLostWakeup  BY DEF WakeInv, Sleeping, NoLostWakeup
<1> QED  BY <1>1, <1>2, <1>3, PTL DEF Spec
=============================================================================
