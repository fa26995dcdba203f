---------------------------- MODULE EpLockProofs ----------------------------
(***************************************************************************)
(* Safety of the stack lock for any number of user-level and kernel         *)
(* threads and any number of calls.                                        *)
(***************************************************************************)
EXTENDS EpLock, TLAPS

(***************************************************************************)
(* Types.                                                                  *)
(***************************************************************************)
\* ci_netif_unlock_slow_common adds flags to the word and to the value it
\* returns, and to what is owed, and takes away nothing but work it did.
LEMMA CommonEffect ==
    ASSUME NEW t, NEW handled, NEW from, NEW to,
           UnlockSlowCommon(t, handled, from, to)
    PROVE  /\ word \subseteq word' /\ word' \subseteq word \cup UNLOCK_FLAGS
           /\ owed' \subseteq owed \cup UNLOCK_FLAGS
           /\ \E set \in SUBSET UNLOCK_FLAGS :
                /\ hand' = [hand EXCEPT ![t] = @ \cup set]
                /\ set \subseteq word'
           /\ \A f \in owed' : \/ f \in word'
                               \/ f \in owed /\ f \notin hand[t] \cap UL_COMMON_MASK
<1> DEFINE ul == t \in UL /\ from = "ul_work"
           prime(woke) == {"NEED_POLL", "PRIME_IF_IDLE"} \subseteq hand[t] /\ (ul \/ ~woke)
           set(woke) == (IF prime(woke) THEN {"NEED_PRIME"} ELSE {}) \cup
                        (IF woke /\ ul THEN {"NEED_WAKE"} ELSE {})
<1>1. PICK woke \in BOOLEAN :
         /\ word' = word \cup set(woke)
         /\ hand' = [hand EXCEPT ![t] = @ \cup (set(woke) \ {"NEED_WAKE"})]
         /\ owed' = (owed \ ((hand[t] \cap UL_COMMON_MASK) \ word)) \cup set(woke)
  BY DEF UnlockSlowCommon
<1>2. set(woke) \subseteq UNLOCK_FLAGS
  BY DEF UNLOCK_FLAGS
<1> HIDE DEF set
<1> QED  BY <1>1, <1>2

\* The lock's code keeps every variable in its type.
LEMMA TypeStep == TypeOK /\ [Next]_vars => TypeOK'
<1> SUFFICES ASSUME TypeOK, [Next]_vars PROVE TypeOK'
  OBVIOUS
<1> USE EpLockAssumption DEF TypeOK, Flags, CALLBACK_FLAGS, UNLOCK_FLAGS, UL_COMMON_MASK,
        PCs, Holding, Asleep, Goto, Spend
<1>1. ASSUME NEW t \in Threads, Call(t) PROVE TypeOK'
  <2>1. CASE Lock(t)         BY <2>1 DEF Lock, Trylock
  <2>2. CASE LockSlow(t)     BY <2>2 DEF LockSlow
  <2>3. CASE LockWait(t)     BY <2>3 DEF LockWait
  <2>4. CASE LockTimeout(t)  BY <2>4 DEF LockTimeout
  <2>5. CASE \E fs \in Requests : SetFlagsIfLocked(t, fs)
    BY <2>5 DEF Requests, SetFlagsIfLocked
  <2>6. CASE HolderSetFlag(t) BY <2>6 DEF HolderSetFlag
  <2> QED  BY <1>1, <2>1, <2>2, <2>3, <2>4, <2>5, <2>6 DEF Call
<1>2. ASSUME NEW t \in Threads, Interrupt(t) PROVE TypeOK'
  <2>1. CASE Interrupted(t)
    <3>1. CASE t \in Kernel /\ Goto(t, "idle") /\ UNCHANGED budget
      BY <2>1, <3>1 DEF Interrupted
    <3>2. CASE t \in UL /\ Goto(t, "prep") /\ Spend(t)
      BY <2>1, <3>2 DEF Interrupted
    <3> QED  BY <2>1, <3>1, <3>2 DEF Interrupted
  <2>2. CASE LockWaitInterrupted(t)  BY <2>2 DEF LockWaitInterrupted
  <2> QED  BY <1>2, <2>1, <2>2 DEF Interrupt
<1>3. ASSUME NEW t \in Threads, Step(t) PROVE TypeOK'
  <2>1. CASE Spin(t)                     BY <2>1 DEF Spin, Trylock
  <2>2. CASE LockOrRequestWake(t)        BY <2>2 DEF LockOrRequestWake, Trylock
  <2>3. CASE IsUnlockedOrRequestWake(t)  BY <2>3 DEF IsUnlockedOrRequestWake
  <2>4. CASE TimeoutRequest(t)           BY <2>4 DEF TimeoutRequest
  <2>5. CASE TimeoutSleep(t)             BY <2>5 DEF TimeoutSleep
  <2>6. CASE TimeoutExpires(t)           BY <2>6 DEF TimeoutExpires
  <2>7. CASE TimeoutTry(t)               BY <2>7 DEF TimeoutTry, Trylock
  <2>8. CASE Unlock(t)                   BY <2>8 DEF Unlock
  <2>9. CASE UlClear(t)                  BY <2>9 DEF UlClear, ClearFlags
  <2>10. CASE UlWork(t)
    <3>1. PICK set \in SUBSET UNLOCK_FLAGS : hand' = [hand EXCEPT ![t] = @ \cup set]
      BY <2>10, CommonEffect DEF UlWork
    <3>2. word' \subseteq word \cup UNLOCK_FLAGS /\ owed' \subseteq owed \cup UNLOCK_FLAGS
      BY <2>10, CommonEffect DEF UlWork
    <3>3. UNCHANGED <<after, budget>> /\ pc' = [pc EXCEPT ![t] = "ul_flags"]
      BY <2>10 DEF UlWork, UnlockSlowCommon
    <3>4. hand' \in [Threads -> SUBSET Flags]
      BY <3>1
    <3> QED  BY <3>2, <3>3, <3>4
  <2>11. CASE UlFlags(t)                 BY <2>11 DEF UlFlags
  <2>12. CASE UlTry(t)                   BY <2>12 DEF UlTry
  <2>13. CASE KUnlock(t)
    <3>1. CASE word \cap CALLBACK_FLAGS = {}
      <4>1. /\ word' = {} /\ UNCHANGED <<hand, owed, budget>>
            /\ pc' = [pc EXCEPT ![t] = "after"]
            /\ after' = [after EXCEPT ![t] = word \cap {"FL_NEED_WAKE"}]
        BY <2>13, <3>1 DEF KUnlock
      <4> QED  BY <4>1
    <3>2. CASE word \cap CALLBACK_FLAGS # {}
      <4>1. /\ UNCHANGED <<word, after, hand, owed, budget>>
            /\ pc' = [pc EXCEPT ![t] = "k_clear"]
        BY <2>13, <3>2 DEF KUnlock
      <4> QED  BY <4>1
    <3> QED  BY <3>1, <3>2
  <2>14. CASE KClear(t)                  BY <2>14 DEF KClear, ClearFlags
  <2>15. CASE KWork(t)
    <3>1. PICK set \in SUBSET UNLOCK_FLAGS : hand' = [hand EXCEPT ![t] = @ \cup set]
      BY <2>15, CommonEffect DEF KWork
    <3>2. word' \subseteq word \cup UNLOCK_FLAGS /\ owed' \subseteq owed \cup UNLOCK_FLAGS
      BY <2>15, CommonEffect DEF KWork
    <3>3. UNCHANGED <<after, budget>> /\ pc' = [pc EXCEPT ![t] = "k_flags"]
      BY <2>15 DEF KWork, UnlockSlowCommon
    <3>4. hand' \in [Threads -> SUBSET Flags]
      BY <3>1
    <3> QED  BY <3>2, <3>3, <3>4
  <2>16. CASE KFlags(t)                  BY <2>16 DEF KFlags
  <2>17. CASE KTry(t)
    <3>1. CASE word \cap UNLOCK_FLAGS = {}
      <4>1. /\ word' \subseteq word /\ UNCHANGED <<hand, owed, budget>>
            /\ pc' = [pc EXCEPT ![t] = "after"]
            /\ after' = [after EXCEPT ![t] = @ \cup (word \cap {"FL_NEED_WAKE"})]
        BY <2>17, <3>1 DEF KTry
      <4> QED  BY <4>1
    <3>2. CASE word \cap UNLOCK_FLAGS # {}
      <4>1. /\ UNCHANGED <<word, after, hand, owed, budget>>
            /\ pc' = [pc EXCEPT ![t] = "k_clear"]
        BY <2>17, <3>2 DEF KTry
      <4> QED  BY <4>1
    <3> QED  BY <3>1, <3>2
  <2>18. CASE AfterPrime(t)              BY <2>18 DEF AfterPrime
  <2>19. CASE AfterWake(t)               BY <2>19 DEF AfterWake, Woken
  <2> QED  BY <1>3, <2>1, <2>2, <2>3, <2>4, <2>5, <2>6, <2>7, <2>8, <2>9, <2>10,
              <2>11, <2>12, <2>13, <2>14, <2>15, <2>16, <2>17, <2>18, <2>19 DEF Step
<1>4. CASE UNCHANGED vars  BY <1>4 DEF vars
<1> QED  BY <1>1, <1>2, <1>3, <1>4 DEF Next, Quiet

(***************************************************************************)
(* Who holds the lock.  Only a step that finds LOCKED clear sets it, and    *)
(* only the holder clears it, when nothing else is in the word.             *)
(***************************************************************************)
Exclusion == MutualExclusion /\ FreeMeansNothingLeft

\* A thread that does not hold the lock moves on, and at most asks the holder
\* to wake it.
LEMMA OutsideKeepsExclusion ==
    ASSUME pc \in [Threads -> PCs], Exclusion, NEW t \in Threads, NEW p,
           pc[t] \notin Holding, p \notin Holding, pc' = [pc EXCEPT ![t] = p],
           \/ word' = word
           \/ "LOCKED" \in word /\ word' = word \cup {"FL_NEED_WAKE"}
    PROVE  Exclusion'
<1>1. \A s \in Threads : pc'[s] \in Holding <=> pc[s] \in Holding
  OBVIOUS
<1>2. "LOCKED" \in word' <=> "LOCKED" \in word
  OBVIOUS
<1>3. MutualExclusion'
  BY <1>1, <1>2 DEF Exclusion, MutualExclusion
<1>4. FreeMeansNothingLeft'
  BY <1>2 DEF Exclusion, FreeMeansNothingLeft
<1> QED  BY <1>3, <1>4 DEF Exclusion

LEMMA ExclusionStep == TypeOK /\ Exclusion /\ [Next]_vars => Exclusion'
<1> SUFFICES ASSUME TypeOK, Exclusion, [Next]_vars PROVE Exclusion'
  OBVIOUS
<1>a. word \subseteq Flags /\ pc \in [Threads -> PCs]
  BY DEF TypeOK
<1> USE <1>a DEF Exclusion, MutualExclusion, FreeMeansNothingLeft, Holding, Goto, Flags,
        CALLBACK_FLAGS, UNLOCK_FLAGS, UlHandled, KHandled, UL_COMMON_MASK
<1> HIDE DEF TypeOK
<1>1. ASSUME NEW t \in Threads, Lock(t) PROVE Exclusion'
  BY <1>1 DEF Lock, Trylock
<1>2. ASSUME NEW t \in Threads, LockSlow(t) PROVE Exclusion'
  BY <1>2 DEF LockSlow
<1>3. ASSUME NEW t \in Threads, LockWait(t) PROVE Exclusion'
  BY <1>3 DEF LockWait
<1>4. ASSUME NEW t \in Threads, LockTimeout(t) PROVE Exclusion'
  BY <1>4 DEF LockTimeout
<1>5. ASSUME NEW t \in Threads, NEW fs \in Requests, SetFlagsIfLocked(t, fs) PROVE Exclusion'
  BY <1>5 DEF SetFlagsIfLocked
<1>6. ASSUME NEW t \in Threads, HolderSetFlag(t) PROVE Exclusion'
  BY <1>6 DEF HolderSetFlag
<1>7. ASSUME NEW t \in Threads, Interrupted(t) PROVE Exclusion'
  BY <1>7 DEF Interrupted
<1>8. ASSUME NEW t \in Threads, LockWaitInterrupted(t) PROVE Exclusion'
  BY <1>8 DEF LockWaitInterrupted
<1>9. ASSUME NEW t \in Threads, Spin(t) PROVE Exclusion'
  <2>1. CASE Trylock(t, "spin")  BY <2>1 DEF Trylock
  <2>2. CASE pc[t] = "spin" /\ Goto(t, "prep") /\ UNCHANGED word  BY <2>2
  <2> QED  BY <1>9, <2>1, <2>2 DEF Spin
<1>10. ASSUME NEW t \in Threads, LockOrRequestWake(t) PROVE Exclusion'
  <2>1. CASE Trylock(t, "prep")  BY <2>1 DEF Trylock
  <2>2. CASE /\ pc[t] = "prep" /\ "LOCKED" \in word
             /\ word' = word \cup {"FL_NEED_WAKE"} /\ Goto(t, "sleep")
    BY <2>2
  <2> QED  BY <1>10, <2>1, <2>2 DEF LockOrRequestWake
<1>11. ASSUME NEW t \in Threads, IsUnlockedOrRequestWake(t) PROVE Exclusion'
  <2> PICK p \in {"see_sleep", "idle"} : pc' = [pc EXCEPT ![t] = p]
    BY <1>11 DEF IsUnlockedOrRequestWake
  <2>1. \/ word' = word
        \/ "LOCKED" \in word /\ word' = word \cup {"FL_NEED_WAKE"}
    BY <1>11 DEF IsUnlockedOrRequestWake
  <2>2. pc[t] \notin Holding /\ p \notin Holding
    BY <1>11 DEF IsUnlockedOrRequestWake
  <2> HIDE DEF Exclusion
  <2> QED  BY <2>1, <2>2, OutsideKeepsExclusion
<1>12. ASSUME NEW t \in Threads, TimeoutRequest(t) PROVE Exclusion'
  <2> PICK p \in {"to_late", "to_try"} : pc' = [pc EXCEPT ![t] = p]
    BY <1>12 DEF TimeoutRequest
  <2>1. \/ word' = word
        \/ "LOCKED" \in word /\ word' = word \cup {"FL_NEED_WAKE"}
    BY <1>12 DEF TimeoutRequest
  <2>2. pc[t] \notin Holding /\ p \notin Holding
    BY <1>12 DEF TimeoutRequest
  <2> HIDE DEF Exclusion
  <2> QED  BY <2>1, <2>2, OutsideKeepsExclusion
<1>13. ASSUME NEW t \in Threads, TimeoutSleep(t) PROVE Exclusion'
  BY <1>13 DEF TimeoutSleep
<1>14. ASSUME NEW t \in Threads, TimeoutExpires(t) PROVE Exclusion'
  BY <1>14 DEF TimeoutExpires
<1>15. ASSUME NEW t \in Threads, TimeoutTry(t) PROVE Exclusion'
  BY <1>15 DEF TimeoutTry, Trylock
<1>16. ASSUME NEW t \in Threads, Unlock(t) PROVE Exclusion'
  BY <1>16 DEF Unlock
<1>17. ASSUME NEW t \in Threads, UlClear(t) PROVE Exclusion'
  BY <1>17 DEF UlClear, ClearFlags
<1>18. ASSUME NEW t \in Threads, UlWork(t) PROVE Exclusion'
  BY <1>18, CommonEffect DEF UlWork, UnlockSlowCommon
<1>19. ASSUME NEW t \in Threads, UlFlags(t) PROVE Exclusion'
  BY <1>19 DEF UlFlags
<1>20. ASSUME NEW t \in Threads, UlTry(t) PROVE Exclusion'
  BY <1>20 DEF UlTry
<1>21. ASSUME NEW t \in Threads, KUnlock(t) PROVE Exclusion'
  BY <1>21 DEF KUnlock
<1>22. ASSUME NEW t \in Threads, KClear(t) PROVE Exclusion'
  BY <1>22 DEF KClear, ClearFlags
<1>23. ASSUME NEW t \in Threads, KWork(t) PROVE Exclusion'
  BY <1>23, CommonEffect DEF KWork, UnlockSlowCommon
<1>24. ASSUME NEW t \in Threads, KFlags(t) PROVE Exclusion'
  BY <1>24 DEF KFlags
<1>25. ASSUME NEW t \in Threads, KTry(t) PROVE Exclusion'
  <2>1. CASE word \cap UNLOCK_FLAGS = {}
    <3>1. pc[t] = "k_try" /\ word' = {} /\ pc' = [pc EXCEPT ![t] = "after"]
      BY <1>25, <2>1 DEF KTry
    <3> QED  BY <3>1
  <2>2. CASE word \cap UNLOCK_FLAGS # {}
    <3>1. pc[t] = "k_try" /\ word' = word /\ pc' = [pc EXCEPT ![t] = "k_clear"]
      BY <1>25, <2>2 DEF KTry
    <3> QED  BY <3>1
  <2> QED  BY <2>1, <2>2
<1>26. ASSUME NEW t \in Threads, AfterPrime(t) PROVE Exclusion'
  BY <1>26 DEF AfterPrime
<1>27. ASSUME NEW t \in Threads, AfterWake(t) PROVE Exclusion'
  BY <1>27 DEF AfterWake, Woken
<1>28. CASE UNCHANGED vars  BY <1>28 DEF vars, InHand
<1> QED  BY <1>1, <1>2, <1>3, <1>4, <1>5, <1>6, <1>7, <1>8, <1>9, <1>10, <1>11, <1>12, <1>13, <1>14, <1>15, <1>16, <1>17, <1>18, <1>19, <1>20, <1>21, <1>22, <1>23, <1>24, <1>25, <1>26, <1>27, <1>28 DEF Next, Call, Interrupt, Step, Quiet

(***************************************************************************)
(* Whom to wake.  FL_NEED_WAKE leaves the word only into the hands of a     *)
(* thread that has yet to wake the queue.                                  *)
(***************************************************************************)
Wakeups == /\ NoLostWakeup
           /\ \A t \in Threads :
                /\ after[t] # {} =>
                     pc[t] \in {"after", "k_clear", "k_work", "k_flags", "k_try"}
                /\ "FL_NEED_WAKE" \in after[t] => pc[t] = "after"

LEMMA WakeupsStep == TypeOK /\ Exclusion /\ Wakeups /\ [Next]_vars => Wakeups'
<1> SUFFICES ASSUME TypeOK, Exclusion, Wakeups, [Next]_vars PROVE Wakeups'
  OBVIOUS
<1>a. /\ word \subseteq Flags /\ pc \in [Threads -> PCs]
      /\ after \in [Threads -> SUBSET {"NEED_PRIME", "FL_NEED_WAKE"}]
      /\ hand \in [Threads -> SUBSET Flags]
  BY DEF TypeOK
<1>b. /\ \A u \in Threads : pc[u] \in Holding => "LOCKED" \in word
      /\ "LOCKED" \notin word => word = {}
  BY DEF Exclusion, MutualExclusion, FreeMeansNothingLeft
<1> USE <1>a, <1>b DEF Wakeups, NoLostWakeup, Holding, Asleep, Goto,
        UlHandled, KHandled, UL_COMMON_MASK, UNLOCK_FLAGS
<1> HIDE DEF TypeOK, Exclusion
<1>1. ASSUME NEW t \in Threads, Lock(t) PROVE Wakeups'
  BY <1>1 DEF Lock, Trylock
<1>2. ASSUME NEW t \in Threads, LockSlow(t) PROVE Wakeups'
  BY <1>2 DEF LockSlow
<1>3. ASSUME NEW t \in Threads, LockWait(t) PROVE Wakeups'
  BY <1>3 DEF LockWait
<1>4. ASSUME NEW t \in Threads, LockTimeout(t) PROVE Wakeups'
  BY <1>4 DEF LockTimeout
<1>5. ASSUME NEW t \in Threads, NEW fs \in Requests, SetFlagsIfLocked(t, fs) PROVE Wakeups'
  BY <1>5 DEF SetFlagsIfLocked
<1>6. ASSUME NEW t \in Threads, HolderSetFlag(t) PROVE Wakeups'
  BY <1>6 DEF HolderSetFlag
<1>7. ASSUME NEW t \in Threads, Interrupted(t) PROVE Wakeups'
  BY <1>7 DEF Interrupted
<1>8. ASSUME NEW t \in Threads, LockWaitInterrupted(t) PROVE Wakeups'
  BY <1>8 DEF LockWaitInterrupted
<1>9. ASSUME NEW t \in Threads, Spin(t) PROVE Wakeups'
  BY <1>9 DEF Spin, Trylock
<1>10. ASSUME NEW t \in Threads, LockOrRequestWake(t) PROVE Wakeups'
  BY <1>10 DEF LockOrRequestWake, Trylock
<1>11. ASSUME NEW t \in Threads, IsUnlockedOrRequestWake(t) PROVE Wakeups'
  BY <1>11 DEF IsUnlockedOrRequestWake
<1>12. ASSUME NEW t \in Threads, TimeoutRequest(t) PROVE Wakeups'
  BY <1>12 DEF TimeoutRequest
<1>13. ASSUME NEW t \in Threads, TimeoutSleep(t) PROVE Wakeups'
  BY <1>13 DEF TimeoutSleep
<1>14. ASSUME NEW t \in Threads, TimeoutExpires(t) PROVE Wakeups'
  BY <1>14 DEF TimeoutExpires
<1>15. ASSUME NEW t \in Threads, TimeoutTry(t) PROVE Wakeups'
  BY <1>15 DEF TimeoutTry, Trylock
<1>16. ASSUME NEW t \in Threads, Unlock(t) PROVE Wakeups'
  BY <1>16 DEF Unlock
<1>17. ASSUME NEW t \in Threads, UlClear(t) PROVE Wakeups'
  BY <1>17 DEF UlClear, ClearFlags
<1>18. ASSUME NEW t \in Threads, UlWork(t) PROVE Wakeups'
  BY <1>18, CommonEffect DEF UlWork, UnlockSlowCommon
<1>19. ASSUME NEW t \in Threads, UlFlags(t) PROVE Wakeups'
  BY <1>19 DEF UlFlags
<1>20. ASSUME NEW t \in Threads, UlTry(t) PROVE Wakeups'
  BY <1>20 DEF UlTry
<1>21. ASSUME NEW t \in Threads, KUnlock(t) PROVE Wakeups'
  BY <1>21 DEF KUnlock
<1>22. ASSUME NEW t \in Threads, KClear(t) PROVE Wakeups'
  BY <1>22 DEF KClear, ClearFlags
<1>23. ASSUME NEW t \in Threads, KWork(t) PROVE Wakeups'
  BY <1>23, CommonEffect DEF KWork, UnlockSlowCommon
<1>24. ASSUME NEW t \in Threads, KFlags(t) PROVE Wakeups'
  BY <1>24 DEF KFlags
<1>25. ASSUME NEW t \in Threads, KTry(t) PROVE Wakeups'
  BY <1>25 DEF KTry
<1>26. ASSUME NEW t \in Threads, AfterPrime(t) PROVE Wakeups'
  BY <1>26 DEF AfterPrime
<1>27. ASSUME NEW t \in Threads, AfterWake(t) PROVE Wakeups'
  BY <1>27 DEF AfterWake, Woken
<1>28. CASE UNCHANGED vars  BY <1>28 DEF vars, InHand
<1> QED  BY <1>1, <1>2, <1>3, <1>4, <1>5, <1>6, <1>7, <1>8, <1>9, <1>10, <1>11, <1>12, <1>13, <1>14, <1>15, <1>16, <1>17, <1>18, <1>19, <1>20, <1>21, <1>22, <1>23, <1>24, <1>25, <1>26, <1>27, <1>28 DEF Next, Call, Interrupt, Step, Quiet

(***************************************************************************)
(* What is still to be done.  At user level only the flags user level       *)
(* handles leave the word when a turn of the unlock loop begins.            *)
(***************************************************************************)
Outstanding == /\ NoRequestForgotten
               /\ \A t \in Threads : pc[t] = "ul_work" =>
                    (hand[t] \cap CALLBACK_FLAGS) \ UlHandled \subseteq word

LEMMA OutstandingStep ==
    TypeOK /\ Exclusion /\ Wakeups /\ Outstanding /\ [Next]_vars => Outstanding'
<1> SUFFICES ASSUME TypeOK, Exclusion, Wakeups, Outstanding, [Next]_vars
             PROVE  Outstanding'
  OBVIOUS
<1>a. /\ word \subseteq Flags /\ pc \in [Threads -> PCs]
      /\ after \in [Threads -> SUBSET {"NEED_PRIME", "FL_NEED_WAKE"}]
      /\ hand \in [Threads -> SUBSET Flags]
      /\ owed \subseteq CALLBACK_FLAGS
  BY DEF TypeOK
<1>b. /\ \A u, v \in Threads : pc[u] \in Holding /\ pc[v] \in Holding => u = v
      /\ "LOCKED" \notin word => word = {}
  BY DEF Exclusion, MutualExclusion, FreeMeansNothingLeft
<1>c. \A u \in Threads : after[u] # {} =>
         pc[u] \in {"after", "k_clear", "k_work", "k_flags", "k_try"}
  BY DEF Wakeups
<1> USE <1>a, <1>b, <1>c DEF Outstanding, NoRequestForgotten, InHand, Holding, Goto,
        UlHandled, KHandled, UL_COMMON_MASK, UNLOCK_FLAGS, CALLBACK_FLAGS
<1> HIDE DEF TypeOK, Exclusion, Wakeups
<1>1. ASSUME NEW t \in Threads, Lock(t) PROVE Outstanding'
  BY <1>1 DEF Lock, Trylock
<1>2. ASSUME NEW t \in Threads, LockSlow(t) PROVE Outstanding'
  BY <1>2 DEF LockSlow
<1>3. ASSUME NEW t \in Threads, LockWait(t) PROVE Outstanding'
  BY <1>3 DEF LockWait
<1>4. ASSUME NEW t \in Threads, LockTimeout(t) PROVE Outstanding'
  BY <1>4 DEF LockTimeout
<1>5. ASSUME NEW t \in Threads, NEW fs \in Requests, SetFlagsIfLocked(t, fs) PROVE Outstanding'
  BY <1>5 DEF SetFlagsIfLocked
<1>6. ASSUME NEW t \in Threads, HolderSetFlag(t) PROVE Outstanding'
  BY <1>6 DEF HolderSetFlag
<1>7. ASSUME NEW t \in Threads, Interrupted(t) PROVE Outstanding'
  BY <1>7 DEF Interrupted
<1>8. ASSUME NEW t \in Threads, LockWaitInterrupted(t) PROVE Outstanding'
  BY <1>8 DEF LockWaitInterrupted
<1>9. ASSUME NEW t \in Threads, Spin(t) PROVE Outstanding'
  BY <1>9 DEF Spin, Trylock
<1>10. ASSUME NEW t \in Threads, LockOrRequestWake(t) PROVE Outstanding'
  BY <1>10 DEF LockOrRequestWake, Trylock
<1>11. ASSUME NEW t \in Threads, IsUnlockedOrRequestWake(t) PROVE Outstanding'
  BY <1>11 DEF IsUnlockedOrRequestWake
<1>12. ASSUME NEW t \in Threads, TimeoutRequest(t) PROVE Outstanding'
  BY <1>12 DEF TimeoutRequest
<1>13. ASSUME NEW t \in Threads, TimeoutSleep(t) PROVE Outstanding'
  BY <1>13 DEF TimeoutSleep
<1>14. ASSUME NEW t \in Threads, TimeoutExpires(t) PROVE Outstanding'
  BY <1>14 DEF TimeoutExpires
<1>15. ASSUME NEW t \in Threads, TimeoutTry(t) PROVE Outstanding'
  BY <1>15 DEF TimeoutTry, Trylock
<1>16. ASSUME NEW t \in Threads, Unlock(t) PROVE Outstanding'
  BY <1>16 DEF Unlock
<1>17. ASSUME NEW t \in Threads, UlClear(t) PROVE Outstanding'
  BY <1>17 DEF UlClear, ClearFlags
<1>18. ASSUME NEW t \in Threads, UlWork(t) PROVE Outstanding'
  BY <1>18, CommonEffect DEF UlWork, UnlockSlowCommon
<1>19. ASSUME NEW t \in Threads, UlFlags(t) PROVE Outstanding'
  BY <1>19 DEF UlFlags
<1>20. ASSUME NEW t \in Threads, UlTry(t) PROVE Outstanding'
  BY <1>20 DEF UlTry
<1>21. ASSUME NEW t \in Threads, KUnlock(t) PROVE Outstanding'
  BY <1>21 DEF KUnlock
<1>22. ASSUME NEW t \in Threads, KClear(t) PROVE Outstanding'
  BY <1>22 DEF KClear, ClearFlags
<1>23. ASSUME NEW t \in Threads, KWork(t) PROVE Outstanding'
  BY <1>23, CommonEffect DEF KWork, UnlockSlowCommon
<1>24. ASSUME NEW t \in Threads, KFlags(t) PROVE Outstanding'
  BY <1>24 DEF KFlags
<1>25. ASSUME NEW t \in Threads, KTry(t) PROVE Outstanding'
  BY <1>25 DEF KTry
<1>26. ASSUME NEW t \in Threads, AfterPrime(t) PROVE Outstanding'
  BY <1>26 DEF AfterPrime
<1>27. ASSUME NEW t \in Threads, AfterWake(t) PROVE Outstanding'
  BY <1>27 DEF AfterWake, Woken
<1>28. CASE UNCHANGED vars  BY <1>28 DEF vars, InHand
<1> QED  BY <1>1, <1>2, <1>3, <1>4, <1>5, <1>6, <1>7, <1>8, <1>9, <1>10, <1>11, <1>12, <1>13, <1>14, <1>15, <1>16, <1>17, <1>18, <1>19, <1>20, <1>21, <1>22, <1>23, <1>24, <1>25, <1>26, <1>27, <1>28 DEF Next, Call, Interrupt, Step, Quiet
(***************************************************************************)
(* The theorems.  Types, Exclusion, Wakeups and Outstanding together are    *)
(* inductive.                                                              *)
(***************************************************************************)
LEMMA Inductive == Spec => [](TypeOK /\ Exclusion /\ Wakeups /\ Outstanding)
<1>1. Init => TypeOK /\ Exclusion /\ Wakeups /\ Outstanding
  BY EpLockAssumption
  DEF Init, TypeOK, PCs, Flags, Exclusion, MutualExclusion, FreeMeansNothingLeft, Holding,
      Wakeups, NoLostWakeup, Asleep, Outstanding, NoRequestForgotten
<1>2. TypeOK /\ Exclusion /\ Wakeups /\ Outstanding /\ [Next]_vars
        => (TypeOK /\ Exclusion /\ Wakeups /\ Outstanding)'
  BY TypeStep, ExclusionStep, WakeupsStep, OutstandingStep
<1> QED  BY <1>1, <1>2, PTL DEF Spec

\* No two threads ever hold a stack's lock at once, however user-level and
\* kernel threads mix lock, trylock, timed lock and unlock.
THEOREM EpLockMutualExclusion == Spec => []MutualExclusion
<1>1. Exclusion => MutualExclusion  BY DEF Exclusion
<1> QED  BY <1>1, Inductive, PTL

\* The unlock paths never leave a thread asleep in oo_eplock_lock or
\* efab_eplock_lock_wait with nobody about to wake it.
THEOREM EpLockNoLostWakeup == Spec => []NoLostWakeup
<1>1. Wakeups => NoLostWakeup  BY DEF Wakeups
<1> QED  BY <1>1, Inductive, PTL

\* A flag set for the holder stays in the word, with the thread unlocking or
\* in its after_unlock_flags until its work is done, whichever of the user-level
\* and kernel unlock loops picks it up.
THEOREM EpLockNoRequestForgotten == Spec => []NoRequestForgotten
<1>1. Outstanding => NoRequestForgotten  BY DEF Outstanding
<1> QED  BY <1>1, Inductive, PTL

\* Every unlock path leaves the word empty.
THEOREM EpLockFreeMeansNothingLeft == Spec => []FreeMeansNothingLeft
<1>1. Exclusion => FreeMeansNothingLeft  BY DEF Exclusion
<1> QED  BY <1>1, Inductive, PTL
=============================================================================
