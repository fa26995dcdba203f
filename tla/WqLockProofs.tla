---------------------------- MODULE WqLockProofs ----------------------------
(***************************************************************************)
(* Safety of oo_wqlock for any set of threads, any set of work items and    *)
(* any number of calls.                                                    *)
(***************************************************************************)
EXTENDS WqLock, SequenceTheorems, TLAPS

(***************************************************************************)
(* Facts about sequences.                                                  *)
(***************************************************************************)
\* The list oo_wqlock_work_do builds holds the same kind of items.
LEMMA ReverseType == ASSUME NEW S, NEW s \in Seq(S)
                     PROVE  Reverse(s) \in Seq(S) /\ Len(Reverse(s)) = Len(s)
BY DEF Reverse

\* Work queued last is run last.
LEMMA ReversePush == ASSUME NEW S, NEW s \in Seq(S), NEW e \in S
                     PROVE  Reverse(<<e>> \o s) = Append(Reverse(s), e)
<1> DEFINE q == <<e>> \o s
           l == Reverse(q)
           r == Append(Reverse(s), e)
<1>0. <<e>> \in Seq(S) /\ Len(<<e>>) = 1 /\ <<e>>[1] = e
  OBVIOUS
<1>1. /\ q \in Seq(S)
      /\ Len(q) = Len(s) + 1
      /\ \A i \in 1..(Len(s) + 1) : q[i] = IF i <= 1 THEN <<e>>[i] ELSE s[i - 1]
  BY <1>0, ConcatProperties, LenProperties
<1>2. l \in Seq(S) /\ Len(l) = Len(s) + 1
  BY <1>1, ReverseType
<1>3. Reverse(s) \in Seq(S) /\ Len(Reverse(s)) = Len(s)
  BY ReverseType
<1>4. r \in Seq(S) /\ Len(r) = Len(s) + 1
  BY <1>3
<1>5. ASSUME NEW i \in 1..Len(l)  PROVE l[i] = r[i]
  <2>0. Len(s) \in Nat /\ i \in 1..(Len(s) + 1)
    BY <1>2, LenProperties
  <2>1. l[i] = q[(Len(s) + 1 - i) + 1]
    BY <1>1, <2>0 DEF Reverse
  <2>2. CASE i = Len(s) + 1
    <3>1. l[i] = e
      BY <2>0, <2>1, <2>2, <1>0, <1>1
    <3>2. r[i] = e
      BY <2>0, <2>2, <1>3
    <3> QED  BY <3>1, <3>2
  <2>3. CASE i \in 1..Len(s)
    <3> HIDE DEF q
    <3>1. l[i] = s[(Len(s) - i) + 1]
      BY <2>0, <2>1, <2>3, <1>1
    <3>2. r[i] = Reverse(s)[i]
      BY <2>0, <2>3, <1>3
    <3> QED  BY <3>1, <3>2, <2>3 DEF Reverse
  <2>4. i = Len(s) + 1 \/ i \in 1..Len(s)
    <3> HIDE DEF l, r
    <3> QED  BY <2>0
  <2> QED  BY <2>2, <2>3, <2>4
<1> QED
  <2> HIDE DEF l, r
  <2>1. l = r
    BY <1>2, <1>4, <1>5, SeqEqual
  <2> QED  BY <2>1 DEF l, r, q

-----------------------------------------------------------------------------
(***************************************************************************)
(* The inductive invariant.  Mutual exclusion and the wake-up property hold *)
(* because a free word is exactly zero and because the mutex is held by     *)
(* exactly the threads at the program points inside it.                    *)
(***************************************************************************)
IInv == /\ TypeOK
        /\ MutualExclusion
        /\ NoLostWakeup
        /\ "LOCKED" \notin bits => Free
        /\ \A t \in Threads : t \in mutex <=> pc[t] \in InMutex

LEMMA InitIInv == Init => IInv
BY BudgetAssumption DEF Init, IInv, TypeOK, MutualExclusion, NoLostWakeup, Free, Word, PCs, Holding, InMutex

\* Every step keeps the variables in their types.
LEMMA TypeStep == TypeOK /\ [Next]_vars => TypeOK'
<1> SUFFICES ASSUME TypeOK, [Next]_vars PROVE TypeOK'
  OBVIOUS
<1> USE DEF TypeOK, PCs, Holding, InMutex, Goto, Store
<1>0. ASSUME NEW t \in Threads, NEW p \in PCs, Drain(t, p) PROVE TypeOK'
  <2>1. work \in Seq(Works) /\ Reverse(work) \in Seq(Works)
    BY ReverseType
  <2> QED  BY <1>0, <2>1 DEF Drain
<1>1. ASSUME NEW t \in Threads, Progress(t) PROVE TypeOK'
  <2>1. CASE TryQueue(t)
    <3>1. PICK w \in arg[t] : /\ Store(bits, <<w>> \o work)
                             /\ order' = Append(order, w)
      BY <2>1 DEF TryQueue
    <3>2. w \in Works /\ <<w>> \in Seq(Works) /\ work \in Seq(Works)
      OBVIOUS
    <3>4. <<w>> \o work \in Seq(Works)
      BY <3>2, ConcatProperties
    <3>3. work' \in Seq(Works) /\ bits' = bits /\ order' \in Seq(Works)
      BY <3>1, <3>2, <3>4
    <3> QED  BY <2>1, <3>3 DEF TryQueue
  <2>2. CASE QueueGotLock(t)   BY <2>2 DEF QueueGotLock
  <2>3. CASE SlowMutex(t)      BY <2>3 DEF SlowMutex
  <2>4. CASE SlowTake(t)       BY <2>4 DEF SlowTake
  <2>5. CASE SlowNeedWake(t)   BY <2>5 DEF SlowNeedWake
  <2>6. CASE SlowDecideSleep(t)  BY <2>6 DEF SlowDecideSleep
  <2>7. CASE CondWait(t)       BY <2>7 DEF CondWait
  <2>8. CASE SlowReturn(t)     BY <2>8 DEF SlowReturn
  <2>9. CASE WorkDo(t)         BY <2>9 DEF WorkDo, Draining
  <2>10. CASE WorkDone(t)      BY <2>10 DEF WorkDone, Draining
  <2>11. CASE UnlockFast(t)    BY <2>11 DEF UnlockFast
  <2>12. CASE UnlockSlow(t)    BY <2>12 DEF UnlockSlow
  <2>13. CASE UnlockDrain(t)   BY <2>13, <1>0 DEF UnlockDrain
  <2>14. CASE UnlockRelease(t) BY <2>14 DEF UnlockRelease
  <2>15. CASE WakeMutex(t)     BY <2>15 DEF WakeMutex
  <2>16. CASE WakeUnlock(t)    BY <2>16 DEF WakeUnlock
  <2>17. CASE Broadcast(t)     BY <2>17 DEF Broadcast
  <2> QED  BY <1>1, <2>1, <2>2, <2>3, <2>4, <2>5, <2>6, <2>7, <2>8, <2>9, <2>10, <2>11,
              <2>12, <2>13, <2>14, <2>15, <2>16, <2>17 DEF Progress
<1>2. ASSUME NEW t \in Threads, Choice(t) PROVE TypeOK'
  <2>1. CASE TryLock(t)        BY <2>1 DEF TryLock, Spend
  <2>2. CASE LockSlow(t)       BY <2>2 DEF LockSlow, Spend
  <2>3. CASE \E w \in Works : DeferCall(t, w)  BY <2>3 DEF DeferCall, Spend
  <2>4. CASE DrainInCrit(t)    BY <2>4, <1>0 DEF DrainInCrit
  <2>5. CASE SpuriousWakeup(t) BY <2>5 DEF SpuriousWakeup, Spend
  <2> QED  BY <1>2, <2>1, <2>2, <2>3, <2>4, <2>5 DEF Choice
<1>3. CASE Quiet \/ UNCHANGED vars
  BY <1>3 DEF Quiet, vars
<1> QED  BY <1>1, <1>2, <1>3 DEF Next

\* Every step keeps the locking part of the invariant.
LEMMA LockStep == IInv /\ [Next]_vars => IInv'
<1> SUFFICES ASSUME IInv, [Next]_vars PROVE IInv'
  OBVIOUS
<1>0. TypeOK'
  BY TypeStep DEF IInv
<1>a. /\ pc \in [Threads -> PCs] /\ bits \subseteq {"LOCKED", "NEED_WAKE"}
      /\ \A t, u \in mutex : t = u
  BY DEF IInv, TypeOK
<1> USE DEF IInv, MutualExclusion, NoLostWakeup, Holding, InMutex, Goto, Store, Word, Free
<1>1. ASSUME NEW t \in Threads, Progress(t) PROVE IInv'
  <2>1. CASE TryQueue(t)
    BY <1>0, <1>a, <2>1 DEF TryQueue
  <2>2. CASE QueueGotLock(t)
    BY <1>0, <1>a, <2>2 DEF QueueGotLock
  <2>3. CASE SlowMutex(t)
    BY <1>0, <1>a, <2>3 DEF SlowMutex
  <2>4. CASE SlowTake(t)
    BY <1>0, <1>a, <2>4 DEF SlowTake
  <2>5. CASE SlowNeedWake(t)
    BY <1>0, <1>a, <2>5 DEF SlowNeedWake
  <2>6. CASE SlowDecideSleep(t)
    BY <1>0, <1>a, <2>6 DEF SlowDecideSleep
  <2>7. CASE CondWait(t)
    BY <1>0, <1>a, <2>7 DEF CondWait
  <2>8. CASE SlowReturn(t)
    BY <1>0, <1>a, <2>8 DEF SlowReturn
  <2>9. CASE WorkDo(t)
    BY <1>0, <1>a, <2>9 DEF WorkDo, Draining
  <2>10. CASE WorkDone(t)
    BY <1>0, <1>a, <2>10 DEF WorkDone, Draining
  <2>11. CASE UnlockFast(t)
    BY <1>0, <1>a, <2>11 DEF UnlockFast
  <2>12. CASE UnlockSlow(t)
    BY <1>0, <1>a, <2>12 DEF UnlockSlow
  <2>13. CASE UnlockDrain(t)
    BY <1>0, <1>a, <2>13 DEF UnlockDrain, Drain
  <2>14. CASE UnlockRelease(t)
    BY <1>0, <1>a, <2>14 DEF UnlockRelease
  <2>15. CASE WakeMutex(t)
    BY <1>0, <1>a, <2>15 DEF WakeMutex
  <2>16. CASE WakeUnlock(t)
    BY <1>0, <1>a, <2>16 DEF WakeUnlock
  <2>17. CASE Broadcast(t)
    BY <1>0, <1>a, <2>17 DEF Broadcast
  <2> QED  BY <1>1, <2>1, <2>2, <2>3, <2>4, <2>5, <2>6, <2>7, <2>8, <2>9, <2>10, <2>11, <2>12, <2>13, <2>14, <2>15, <2>16, <2>17 DEF Progress
<1>2. ASSUME NEW t \in Threads, Choice(t) PROVE IInv'
  <2>1. CASE TryLock(t)
    BY <1>0, <1>a, <2>1 DEF TryLock
  <2>2. CASE LockSlow(t)
    BY <1>0, <1>a, <2>2 DEF LockSlow
  <2>3. CASE \E w \in Works : DeferCall(t, w)
    BY <1>0, <1>a, <2>3 DEF DeferCall
  <2>4. CASE DrainInCrit(t)
    BY <1>0, <1>a, <2>4 DEF DrainInCrit, Drain
  <2>5. CASE SpuriousWakeup(t)
    BY <1>0, <1>a, <2>5 DEF SpuriousWakeup
  <2> QED  BY <1>2, <2>1, <2>2, <2>3, <2>4, <2>5 DEF Choice
<1>3. CASE Quiet \/ UNCHANGED vars
  BY <1>0, <1>3 DEF Quiet, vars
<1> QED  BY <1>1, <1>2, <1>3 DEF Next

\* oo_wqlock excludes: one holder at a time, and LOCKED set exactly while
\* there is one.
THEOREM WqLockMutualExclusion == Spec => []MutualExclusion
<1>1. IInv => MutualExclusion
  BY DEF IInv
<1> QED  BY <1>1, InitIInv, LockStep, PTL DEF Spec

\* The interlock of bug 66816: no thread sleeps, or is about to sleep, without
\* a holder or an unlocker bound to broadcast after it is asleep.
THEOREM WqLockNoLostWakeup == Spec => []NoLostWakeup
<1>1. IInv => NoLostWakeup
  BY DEF IInv
<1> QED  BY <1>1, InitIInv, LockStep, PTL DEF Spec

-----------------------------------------------------------------------------
(***************************************************************************)
(* The order in which queued work runs.                                    *)
(***************************************************************************)
\* A list of no items is reversed to a list of no items.
LEMMA ReverseEmpty == Reverse(<<>>) = <<>>
BY DEF Reverse

\* Running the first item of the list in hand leaves run-then-to-run as it was.
LEMMA ShiftHead == ASSUME NEW S, NEW s \in Seq(S), NEW q \in Seq(S), q # <<>>
                   PROVE  Append(s, Head(q)) \o Tail(q) = s \o q
<1> DEFINE l == Append(s, Head(q)) \o Tail(q)
           r == s \o q
<1>1. Len(s) \in Nat /\ Len(q) \in Nat \ {0}
  BY LenProperties, EmptySeq
<1>2. /\ Head(q) \in S /\ Head(q) = q[1] /\ Tail(q) \in Seq(S)
      /\ Len(Tail(q)) = Len(q) - 1
      /\ \A i \in 1..(Len(q) - 1) : Tail(q)[i] = q[i + 1]
  BY HeadTailProperties
<1>3. /\ Append(s, Head(q)) \in Seq(S)
      /\ Len(Append(s, Head(q))) = Len(s) + 1
      /\ \A i \in 1..Len(s) : Append(s, Head(q))[i] = s[i]
      /\ Append(s, Head(q))[Len(s) + 1] = q[1]
  BY <1>1, <1>2
<1>4. /\ l \in Seq(S)
      /\ Len(l) = Len(s) + 1 + (Len(q) - 1)
      /\ \A i \in 1..Len(l) : l[i] = IF i <= Len(s) + 1 THEN Append(s, Head(q))[i]
                                     ELSE Tail(q)[i - (Len(s) + 1)]
  BY <1>2, <1>3, ConcatProperties
<1>5. /\ r \in Seq(S)
      /\ Len(r) = Len(s) + Len(q)
      /\ \A i \in 1..(Len(s) + Len(q)) : r[i] = IF i <= Len(s) THEN s[i] ELSE q[i - Len(s)]
  BY ConcatProperties
<1> HIDE DEF l, r
<1>6. Len(l) = Len(r)
  BY <1>1, <1>4, <1>5
<1>7. ASSUME NEW i \in 1..Len(l) PROVE l[i] = r[i]
  <2>1. CASE i <= Len(s)
    <3>1. i \in 1..Len(s) /\ i <= Len(s) + 1 /\ i \in 1..(Len(s) + Len(q))
      BY <2>1, <1>1
    <3>2. l[i] = Append(s, Head(q))[i] /\ r[i] = s[i]
      BY <2>1, <3>1, <1>4, <1>5
    <3> QED  BY <3>1, <3>2, <1>3
  <2>2. CASE i = Len(s) + 1
    BY <2>2, <1>1, <1>3, <1>4, <1>5
  <2>3. CASE i > Len(s) + 1
    <3>1. /\ i - (Len(s) + 1) \in 1..(Len(q) - 1) /\ i \in 1..(Len(s) + Len(q))
          /\ ~(i <= Len(s) + 1) /\ ~(i <= Len(s))
          /\ (i - (Len(s) + 1)) + 1 = i - Len(s)
      BY <2>3, <1>1, <1>4
    <3>2. l[i] = Tail(q)[i - (Len(s) + 1)] /\ r[i] = q[i - Len(s)]
      BY <3>1, <1>4, <1>5
    <3>3. Tail(q)[i - (Len(s) + 1)] = q[(i - (Len(s) + 1)) + 1]
      BY <3>1, <1>2
    <3> QED  BY <3>1, <3>2, <3>3
  <2> QED  BY <1>1, <1>4, <2>1, <2>2, <2>3
<1>8. l = r
  BY <1>4, <1>5, <1>6, <1>7, SeqEqual
<1> QED  BY <1>8 DEF l, r

\* Appending to a concatenation appends to its second part.
LEMMA AppendConcat == \A s, q \in Seq(Works), e \in Works :
                        Append(s \o q, e) = s \o Append(q, e)
<1> TAKE s, q \in Seq(Works), e \in Works
<1>1. /\ <<e>> \in Seq(Works) /\ s \o q \in Seq(Works)
      /\ Append(s \o q, e) = (s \o q) \o <<e>>
      /\ Append(q, e) = q \o <<e>>
  BY ConcatProperties, AppendIsConcat
<1>2. (s \o q) \o <<e>> = s \o (q \o <<e>>)
  BY <1>1, ConcatAssociative
<1> QED  BY <1>1, <1>2

LEMMA OrderStep == IInv /\ WorkRunsInOrder /\ [Next]_vars => WorkRunsInOrder'
<1> SUFFICES ASSUME IInv, WorkRunsInOrder, [Next]_vars PROVE WorkRunsInOrder'
  OBVIOUS
<1> DEFINE rev == Reverse(work)
<1>0. /\ TypeOK /\ pc \in [Threads -> PCs]
      /\ rev \in Seq(Works) /\ ran \in Seq(Works) /\ work \in Seq(Works)
      /\ \A t \in Threads : todo[t] \in Seq(Works)
      /\ Free => work = <<>>
      /\ \A t, u \in Threads : pc[t] \in Holding /\ pc[u] \in Draining => t = u
  BY ReverseType DEF IInv, TypeOK, MutualExclusion, Free, Word, Holding, Draining
<1>1. ASSUME UNCHANGED <<work, todo, order, ran>>,
             \A u \in Threads : pc'[u] \in Draining <=> pc[u] \in Draining
      PROVE  WorkRunsInOrder'
  BY <1>1 DEF WorkRunsInOrder
<1>2. ASSUME NEW t \in Threads, NEW p \in Draining, pc[t] \in Holding \ Draining, Drain(t, p)
      PROVE  WorkRunsInOrder'
  <2>1. order = ran \o rev
    BY <1>0, <1>2 DEF WorkRunsInOrder
  <2>2. pc'[t] \in Draining /\ todo'[t] = rev /\ work' = <<>> /\ order' = order /\ ran' = ran
    BY <1>0, <1>2 DEF Drain, Goto, Store, IInv, TypeOK
  <2>3. (ran \o rev) \o Reverse(<<>>) = ran \o rev
    <3>1. ran \o rev \in Seq(Works)
      BY <1>0, ConcatProperties
    <3> QED  BY <3>1, ReverseEmpty, ConcatEmptySeq
  <2> QED  BY <2>1, <2>2, <2>3 DEF WorkRunsInOrder
<1>3. ASSUME NEW t \in Threads, WorkDo(t) PROVE WorkRunsInOrder'
  <2>1. pc[t] \in Draining /\ todo[t] # <<>>
    BY <1>3 DEF WorkDo
  <2>2. order = ran \o todo[t] \o rev
    BY <1>0, <2>1 DEF WorkRunsInOrder, Holding, Draining
  <2>3. Append(ran, Head(todo[t])) \o Tail(todo[t]) = ran \o todo[t]
    BY <1>0, <2>1, ShiftHead
  <2>4. /\ pc' = pc /\ order' = order /\ work' = work
        /\ ran' = Append(ran, Head(todo[t])) /\ todo'[t] = Tail(todo[t])
    BY <1>3 DEF WorkDo, IInv, TypeOK
  <2> QED  BY <2>1, <2>2, <2>3, <2>4 DEF WorkRunsInOrder
<1>4. ASSUME NEW t \in Threads, WorkDone(t) PROVE WorkRunsInOrder'
  <2>1. pc[t] \in Draining /\ todo[t] = <<>>
    BY <1>4 DEF WorkDone
  <2>2. order = ran \o <<>> \o rev
    BY <1>0, <2>1 DEF WorkRunsInOrder, Holding, Draining
  <2>3. order = ran \o rev
    BY <1>0, <2>2, ConcatEmptySeq
  <2>4. \A u \in Threads : pc'[u] \notin Draining
    BY <1>0, <1>4 DEF WorkDone, Goto, Holding, Draining
  <2>5. order' = order /\ ran' = ran /\ work' = work
    BY <1>4 DEF WorkDone
  <2> QED  BY <2>3, <2>4, <2>5 DEF WorkRunsInOrder
<1>5. ASSUME NEW t \in Threads, TryQueue(t) PROVE WorkRunsInOrder'
  <2>1. PICK w \in arg[t] : work' = <<w>> \o work /\ order' = Append(order, w)
    BY <1>5 DEF TryQueue, Store
  <2>2. w \in Works
    BY <2>1 DEF IInv, TypeOK
  <2>3. Reverse(work') = Append(rev, w)
    BY <1>0, <2>1, <2>2, ReversePush
  <2>4. ran' = ran /\ todo' = todo /\ \A u \in Threads : pc'[u] \in Draining <=> pc[u] \in Draining
    BY <1>0, <1>5 DEF TryQueue, Goto, Draining
  <2>5. CASE \E u \in Threads : pc[u] \in Draining /\ order = ran \o todo[u] \o rev
    <3>1. PICK u \in Threads : pc[u] \in Draining /\ order = ran \o todo[u] \o rev
      BY <2>5
    <3>2. ran \o todo[u] \in Seq(Works)
      BY <1>0, ConcatProperties
    <3>3. order' = ran \o todo[u] \o Append(rev, w)
      <4> HIDE DEF rev
      <4>1. Append((ran \o todo[u]) \o rev, w) = (ran \o todo[u]) \o Append(rev, w)
        BY <1>0, <2>2, AppendConcat, <3>2
      <4> QED  BY <2>1, <3>1, <4>1
    <3> QED  BY <2>3, <2>4, <3>1, <3>3 DEF WorkRunsInOrder
  <2>6. CASE order = ran \o rev /\ \A u \in Threads : pc[u] \notin Draining
    <3>1. order' = ran \o Append(rev, w)
      <4> HIDE DEF rev
      <4>1. Append(ran \o rev, w) = ran \o Append(rev, w)
        BY <1>0, <2>2, AppendConcat
      <4> QED  BY <2>1, <2>6, <4>1
    <3> QED  BY <2>3, <2>4, <2>6, <3>1 DEF WorkRunsInOrder
  <2> QED  BY <2>5, <2>6 DEF WorkRunsInOrder
<1>6. ASSUME NEW t \in Threads, Progress(t) PROVE WorkRunsInOrder'
  <2> USE DEF Goto, Store, Word, Draining, Holding
  <2>1. CASE UnlockDrain(t)
    BY <1>2, <2>1 DEF UnlockDrain
  <2>2. CASE \/ QueueGotLock(t) \/ SlowMutex(t) \/ SlowTake(t) \/ SlowNeedWake(t)
             \/ SlowDecideSleep(t) \/ CondWait(t) \/ SlowReturn(t)
    BY <1>0, <1>1, <2>2 DEF QueueGotLock, SlowMutex, SlowTake, SlowNeedWake, SlowDecideSleep,
                            CondWait, SlowReturn
  <2>3. CASE \/ UnlockFast(t) \/ UnlockSlow(t) \/ UnlockRelease(t)
             \/ WakeMutex(t) \/ WakeUnlock(t) \/ Broadcast(t)
    BY <1>0, <1>1, <2>3 DEF UnlockFast, UnlockSlow, UnlockRelease, WakeMutex, WakeUnlock, Broadcast
  <2> QED  BY <1>3, <1>4, <1>5, <1>6, <2>1, <2>2, <2>3 DEF Progress
<1>7. ASSUME NEW t \in Threads, Choice(t) PROVE WorkRunsInOrder'
  <2> USE DEF Goto, Store, Draining, Holding
  <2>1. CASE DrainInCrit(t)
    BY <1>2, <2>1 DEF DrainInCrit
  <2>2. CASE \/ TryLock(t) \/ LockSlow(t) \/ (\E w \in Works : DeferCall(t, w)) \/ SpuriousWakeup(t)
    BY <1>0, <1>1, <2>2 DEF TryLock, LockSlow, DeferCall, SpuriousWakeup
  <2> QED  BY <1>7, <2>1, <2>2 DEF Choice
<1>8. CASE Quiet \/ UNCHANGED vars
  BY <1>1, <1>8 DEF Quiet, vars
<1> QED  BY <1>6, <1>7, <1>8 DEF Next

\* Work handed to the holder of an oo_wqlock is run exactly once, in the order
\* in which it was queued.
THEOREM WqLockWorkInOrder == Spec => []WorkRunsInOrder
<1>1. Init => WorkRunsInOrder
  <2> SUFFICES ASSUME Init PROVE WorkRunsInOrder
    OBVIOUS
  <2>1. order = <<>> /\ ran = <<>> /\ work = <<>> /\ \A t \in Threads : pc[t] \notin Draining
    BY DEF Init, Free, Word, Draining
  <2>2. <<>> \o <<>> = <<>>
    BY EmptySeq, ConcatEmptySeq
  <2> QED  BY <2>1, <2>2, ReverseEmpty DEF WorkRunsInOrder
<1> QED  BY <1>1, InitIInv, LockStep, OrderStep, PTL DEF Spec

\* A thread that takes a free oo_wqlock finds every handed-over operation
\* already applied.
THEOREM WqLockFreeMeansAllRan == Spec => []FreeMeansAllRan
<1>1. IInv /\ WorkRunsInOrder => FreeMeansAllRan
  <2> SUFFICES ASSUME IInv, WorkRunsInOrder, Free PROVE ran = order
    BY DEF FreeMeansAllRan
  <2>1. work = <<>> /\ ran \in Seq(Works) /\ \A t \in Threads : pc[t] \notin Draining
    BY DEF IInv, TypeOK, MutualExclusion, Free, Word, Holding, Draining
  <2>2. order = ran \o Reverse(<<>>)
    BY <2>1 DEF WorkRunsInOrder
  <2> QED  BY <2>1, <2>2, ReverseEmpty, ConcatEmptySeq
<1>2. Spec => []IInv
  BY InitIInv, LockStep, PTL DEF Spec
<1> QED  BY <1>1, <1>2, WqLockWorkInOrder, PTL
=============================================================================
