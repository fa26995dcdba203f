---------------------------- MODULE RwLockProofs ----------------------------
(***************************************************************************)
(* The reader-writer lock excludes, and leaves nobody asleep without a     *)
(* thread that will wake it, for every finite set of threads.              *)
(***************************************************************************)
EXTENDS RwLock, FiniteSetTheorems, TLAPS

(* Threads that hold the writer bit up; those past the eviction of readers. *)
BitHolders == {"wcond", "wwoken", "contend", "writing", "sleeping", "wdec"}
PastReaders == {"contend", "writing", "sleeping", "wdec"}
Leaving == {"reading", "runlock", "rstop"}

ThreadSound(t) ==
    /\ lk[t] = "reading" <=> "READING_NOW" \in flags[t]
    /\ lk[t] = "reading" => "IS_READER" \in flags[t]
    /\ lk[t] \in BitHolders => val.writer
    /\ lk[t] \in PastReaders => Registered = {}
    /\ lk[t] = "writing" <=> wlock = t
    /\ lk[t] = "rcond" => val.writer
    /\ lk[t] \in {"rcond", "rwoken"} => "IS_READER" \notin flags[t]
    /\ lk[t] = "wcond" => Registered # {}
    /\ lk[t] \in {"wcond", "wwoken"} => \A u \in Registered : lk[u] \in Leaving

(* The inductive invariant: the counters count, and the writer bit is up    *)
(* exactly as long as a thread depends on it.                               *)
LockInv ==
    /\ LockTypeOK
    /\ val.readers = Cardinality(Registered)
    /\ writers = Cardinality(Pending)
    /\ val.writer => Pending # {}
    /\ \A t \in Threads : ThreadSound(t)

(* The threads counted by the lock are finitely many (ThreadsFinite). *)
LEMMA CountedFinite ==
    ASSUME LockTypeOK
    PROVE  /\ IsFiniteSet(Registered) /\ IsFiniteSet(Pending)
           /\ Cardinality(Registered) \in Nat /\ Cardinality(Pending) \in Nat
           /\ Registered = {} <=> Cardinality(Registered) = 0
<1>1. Registered \subseteq Threads /\ Pending \subseteq Threads  BY DEF Registered, Pending
<1>2. IsFiniteSet(Registered) /\ IsFiniteSet(Pending)  BY <1>1, ThreadsFinite, FS_Subset
<1>. QED  BY <1>2, FS_CardinalityType, FS_EmptySet

(* One more member counts one more. *)
LEMMA OneMore ==
    ASSUME NEW S, IsFiniteSet(S), NEW x, x \notin S
    PROVE  Cardinality(S \cup {x}) = Cardinality(S) + 1
BY FS_AddElement

(* One member fewer counts one fewer, and a single member is all there is. *)
LEMMA OneLess ==
    ASSUME NEW S, IsFiniteSet(S), NEW x \in S
    PROVE  /\ Cardinality(S \ {x}) = Cardinality(S) - 1
           /\ Cardinality(S) = 1 => S = {x}
<1>1. Cardinality(S \ {x}) = Cardinality(S) - 1 /\ IsFiniteSet(S \ {x})  BY FS_RemoveElement
<1>2. ASSUME Cardinality(S) = 1 PROVE S \ {x} = {}
  <2>1. Cardinality(S \ {x}) = 0  BY <1>1, <1>2
  <2>. QED  BY <2>1, <1>1, FS_EmptySet
<1>. QED  BY <1>1, <1>2

(* pthread_cond_broadcast moves only the sleepers, each to its test. *)
LEMMA BroadcastMoves ==
    ASSUME NEW pcs, NEW t \in Threads
    PROVE  /\ pcs[t] = "rcond" => Broadcast(pcs)[t] = "rwoken"
           /\ pcs[t] = "wcond" => Broadcast(pcs)[t] = "wwoken"
           /\ pcs[t] \notin {"rcond", "wcond"} => Broadcast(pcs)[t] = pcs[t]
           /\ Broadcast(pcs)[t] \notin {"rcond", "wcond"}
           /\ Broadcast(pcs) = [u \in Threads |-> Broadcast(pcs)[u]]
BY DEF Broadcast

(* The lock starts free and empty (oo_rwlock_ctor). *)
LEMMA InitLockInv == LockInit => LockInv
<1>. SUFFICES ASSUME LockInit PROVE LockInv  OBVIOUS
<1>1. Registered = {} /\ Pending = {}  BY DEF LockInit, Registered, Pending
<1>2. Cardinality(Registered) = 0 /\ Cardinality(Pending) = 0  BY <1>1, FS_EmptySet
<1>3. LockTypeOK  BY DEF LockInit, LockTypeOK
<1>4. \A t \in Threads : ThreadSound(t)
  BY NooneIsNoThread DEF LockInit, ThreadSound, BitHolders, PastReaders
<1>. QED  BY <1>1, <1>2, <1>3, <1>4 DEF LockInv, LockInit

(* A reader that registers finds no writer bit, hence no thread that counts *)
(* on there being no readers (rwlock_try_start_read).                       *)
LEMMA StartReadSound ==
    ASSUME LockInv, NEW t \in Threads, lk[t] \in {"out", "rwoken"},
           "IS_READER" \notin flags[t], StartRead(t)
    PROVE  LockInv'
<1>. USE DEF LockInv
<1>a. CASE val.writer
  <2>1. LockTypeOK'  BY <1>a DEF StartRead, LockTypeOK, At
  <2>2. Registered' = Registered /\ Pending' = Pending
    BY <1>a DEF StartRead, Registered, Pending, At, LockTypeOK
  <2>3. ASSUME NEW u \in Threads PROVE ThreadSound(u)'
    <3>1. ThreadSound(u) /\ ThreadSound(t)  OBVIOUS
    <3>. QED
      BY <1>a, <2>2, <3>1 DEF StartRead, ThreadSound, BitHolders, PastReaders, Leaving, At, LockTypeOK, Registered
  <2>. QED  BY <1>a, <2>1, <2>2, <2>3 DEF StartRead
<1>b. CASE ~ val.writer
  <2>1. LockTypeOK'  BY <1>b DEF StartRead, LockTypeOK, At
  <2>2. Registered' = Registered \cup {t} /\ Pending' = Pending /\ t \notin Registered
    BY <1>b DEF StartRead, Registered, Pending, At, LockTypeOK
  <2>3. Cardinality(Registered') = Cardinality(Registered) + 1
    BY <2>2, CountedFinite, OneMore
  <2>4. val'.readers = Cardinality(Registered')  BY <1>b, <2>3 DEF StartRead, LockTypeOK
  <2>5. ASSUME NEW u \in Threads PROVE ThreadSound(u)'
    <3>1. ThreadSound(u) /\ ThreadSound(t)  OBVIOUS
    <3>2. lk[u] \notin BitHolders /\ lk[u] # "rcond"  BY <1>b, <3>1 DEF ThreadSound
    <3>. QED
      BY <1>b, <2>2, <3>1, <3>2 DEF StartRead, ThreadSound, BitHolders, PastReaders, At, LockTypeOK
  <2>6. ~ val'.writer /\ writers' = writers  BY <1>b DEF StartRead, LockTypeOK
  <2>. QED  BY <2>1, <2>2, <2>4, <2>5, <2>6
<1>. QED  BY <1>a, <1>b

(* lock_read, by the fast path or by registering. *)
LEMMA LockReadSound ==
    ASSUME LockInv, NEW t \in Threads, LockRead(t)
    PROVE  LockInv'
<1>. USE DEF LockInv
<1>a. CASE "IS_READER" \notin flags[t]  BY <1>a, StartReadSound DEF LockRead, Out
<1>b. CASE "IS_READER" \in flags[t]
  <2>1. LockTypeOK'  BY <1>b DEF LockRead, LockTypeOK, At
  <2>2. Registered' = Registered /\ Pending' = Pending /\ t \in Registered
    BY <1>b DEF LockRead, Registered, Pending, At, LockTypeOK, Out
  <2>3. ASSUME NEW u \in Threads PROVE ThreadSound(u)'
    <3>1. ThreadSound(u) /\ ThreadSound(t)  OBVIOUS
    <3>. QED
      BY <1>b, <2>2, <3>1 DEF LockRead, Out, ThreadSound, BitHolders, PastReaders, Leaving, At, LockTypeOK
  <2>. QED  BY <1>b, <2>1, <2>2, <2>3 DEF LockRead
<1>. QED  BY <1>a, <1>b

(* The first half of unlock_read: READING_NOW is cleared. *)
LEMMA UnlockReadSound ==
    ASSUME LockInv, NEW t \in Threads, UnlockRead(t)
    PROVE  LockInv'
<1>. USE DEF LockInv
<1>1. LockTypeOK'  BY DEF UnlockRead, LockTypeOK, At
<1>2. Registered' = Registered /\ Pending' = Pending
  BY DEF UnlockRead, Reading, Registered, Pending, At, LockTypeOK
<1>3. ASSUME NEW u \in Threads PROVE ThreadSound(u)'
  <2>1. ThreadSound(u) /\ ThreadSound(t)  OBVIOUS
  <2>. QED
    BY <1>2, <2>1 DEF UnlockRead, Reading, ThreadSound, BitHolders, PastReaders, Leaving, At, LockTypeOK, Registered
<1>. QED  BY <1>1, <1>2, <1>3 DEF UnlockRead

(* The second half: with a writer about, the reader goes on to leave. *)
LEMMA UnlockReadTestSound ==
    ASSUME LockInv, NEW t \in Threads, UnlockReadTest(t)
    PROVE  LockInv'
<1>. USE DEF LockInv
<1>1. LockTypeOK'  BY DEF UnlockReadTest, LockTypeOK, At
<1>2. Registered' = Registered /\ Pending' = Pending
  BY DEF UnlockReadTest, Registered, Pending, At, LockTypeOK
<1>3. ASSUME NEW u \in Threads PROVE ThreadSound(u)'
  <2>1. ThreadSound(u) /\ ThreadSound(t)  OBVIOUS
  <2>. QED
    BY <1>2, <2>1 DEF UnlockReadTest, ThreadSound, BitHolders, PastReaders, Leaving, At, LockTypeOK, Registered
<1>. QED  BY <1>1, <1>2, <1>3 DEF UnlockReadTest

(* A writer woken by the broadcast tests val again. *)
LEMMA WriterWokenSound ==
    ASSUME LockInv, NEW t \in Threads, WriterWoken(t)
    PROVE  LockInv'
<1>. USE DEF LockInv
<1>1. LockTypeOK'  BY DEF WriterWoken, LockTypeOK, At
<1>2. Registered' = Registered /\ Pending' = Pending
  BY DEF WriterWoken, Registered, Pending, At, LockTypeOK
<1>3. OnlyWriter(val) <=> Registered = {}
  <2>1. ThreadSound(t)  OBVIOUS
  <2>. QED  BY <2>1, CountedFinite DEF OnlyWriter, WriterWoken, ThreadSound, BitHolders
<1>4. ASSUME NEW u \in Threads PROVE ThreadSound(u)'
  <2>1. ThreadSound(u) /\ ThreadSound(t)  OBVIOUS
  <2>. QED
    BY <1>2, <1>3, <2>1 DEF WriterWoken, ThreadSound, BitHolders, PastReaders, Leaving, At, LockTypeOK, Registered
<1>. QED  BY <1>1, <1>2, <1>4 DEF WriterWoken

(* rwlock_stop_read: the last reader to leave wakes the writers. *)
LEMMA DeregisterSound ==
    ASSUME LockInv, NEW t \in Threads, lk[t] \in {"out", "rstop"}, NEW pcs,
           pcs = lk \/ pcs = At(t, "out"), Deregister(t, pcs)
    PROVE  LockInv'
<1>. USE DEF LockInv
<1>0. /\ pcs \in [Threads -> {"out", "rcond", "rwoken", "reading", "runlock", "rstop",
                              "announced", "wcond", "wwoken", "contend", "writing",
                              "sleeping", "wdec"}]
      /\ pcs[t] \in {"out", "rstop"}
      /\ \A u \in Threads \ {t} : pcs[u] = lk[u]
  BY DEF At, LockTypeOK
<1>a. CASE "IS_READER" \notin flags[t]
  <2>1. LockTypeOK'  BY <1>a, <1>0 DEF Deregister, LockTypeOK
  <2>2. Registered' = Registered /\ Pending' = Pending /\ t \notin Registered
    BY <1>a, <1>0 DEF Deregister, Registered, Pending, LockTypeOK
  <2>3. ASSUME NEW u \in Threads PROVE ThreadSound(u)'
    <3>1. ThreadSound(u) /\ ThreadSound(t)  OBVIOUS
    <3>. QED
      BY <1>a, <1>0, <2>2, <3>1 DEF Deregister, ThreadSound, BitHolders, PastReaders, Leaving, LockTypeOK, Registered
  <2>. QED  BY <1>a, <2>1, <2>2, <2>3 DEF Deregister
<1>b. CASE "IS_READER" \in flags[t]
  <2>. DEFINE v == [val EXCEPT !.readers = @ - 1]
  <2>0. /\ val' = v /\ v.readers = val.readers - 1 /\ v.writer = val.writer
        /\ flags' = [flags EXCEPT ![t] = @ \ {"IS_READER"}]
        /\ writers' = writers /\ wlock' = wlock
        /\ lk' = IF OnlyWriter(v) THEN Broadcast(pcs) ELSE pcs
    BY <1>b DEF Deregister, LockTypeOK
  <2>1. Registered' = Registered \ {t} /\ t \in Registered
    BY <1>b, <2>0 DEF Registered, LockTypeOK
  <2>2. Cardinality(Registered') = Cardinality(Registered) - 1
    BY <2>1, CountedFinite, OneLess
  <2>3. Cardinality(Registered) # 0  BY <2>1, CountedFinite
  <2>4. val'.readers = Cardinality(Registered') /\ val'.readers \in Nat
    BY <2>0, <2>2, <2>3, CountedFinite
  <2>5. \A u \in Threads :
          \/ lk'[u] = pcs[u] /\ (pcs[u] \in {"rcond", "wcond"} => ~ OnlyWriter(v))
          \/ pcs[u] = "rcond" /\ lk'[u] = "rwoken"
          \/ pcs[u] = "wcond" /\ lk'[u] = "wwoken"
    BY <2>0, BroadcastMoves
  <2>6. LockTypeOK'
    <3>1. lk' \in [Threads -> {"out", "rcond", "rwoken", "reading", "runlock", "rstop",
                               "announced", "wcond", "wwoken", "contend", "writing",
                               "sleeping", "wdec"}]
      <4>1. lk' = [u \in Threads |-> lk'[u]]  BY <2>0, <1>0, BroadcastMoves
      <4>. QED  BY <4>1, <2>5, <1>0
    <3>. QED  BY <3>1, <2>0, <2>4 DEF LockTypeOK
  <2>7. Pending' = Pending  BY <2>5, <1>0 DEF Pending
  <2>8. \A u \in Threads : ThreadSound(u)  OBVIOUS
  <2>9. Registered' = {} <=> v.readers = 0
    <3>1. Registered' = {} <=> Cardinality(Registered') = 0  BY <2>6, CountedFinite, <2>1, FS_EmptySet, FS_RemoveElement
    <3>. QED  BY <3>1, <2>4, <2>0
  <2>. HIDE DEF v
  <2>10. ASSUME NEW u \in Threads PROVE ThreadSound(u)'
    <3>1. lk'[u] = "reading" <=> "READING_NOW" \in flags'[u]
      BY <2>5, <2>0, <2>8, <1>0 DEF ThreadSound, LockTypeOK
    <3>2. lk'[u] = "reading" => "IS_READER" \in flags'[u]
      BY <2>5, <2>0, <2>8, <1>0 DEF ThreadSound, LockTypeOK
    <3>3. lk'[u] \in BitHolders => lk[u] \in BitHolders
      BY <2>5, <1>0 DEF BitHolders
    <3>4. lk'[u] \in PastReaders => lk[u] \in PastReaders
      BY <2>5, <1>0 DEF PastReaders
    <3>5. lk'[u] = "writing" <=> lk[u] = "writing"  BY <2>5, <1>0
    <3>6. lk'[u] = "rcond" => lk[u] = "rcond"  BY <2>5, <1>0
    <3>7. lk'[u] = "wcond" => lk[u] = "wcond" /\ ~ OnlyWriter(v)  BY <2>5, <1>0
    <3>8. lk'[u] = "wcond" => val.writer  BY <3>7, <2>8 DEF ThreadSound, BitHolders
    <3>9. lk'[u] = "wcond" => Registered' # {}  BY <3>7, <3>8, <2>9, <2>0 DEF OnlyWriter
    <3>10. lk'[u] \in {"wcond", "wwoken"} => lk[u] \in {"wcond", "wwoken"}  BY <2>5, <1>0
    <3>11. \A w \in Registered' : lk[w] \in Leaving => lk'[w] \in Leaving
      BY <2>5, <2>1, <1>0 DEF Leaving, Registered
    <3>12. lk'[u] \in {"rcond", "rwoken"} => "IS_READER" \notin flags'[u]
      <4>1. lk'[u] \in {"rcond", "rwoken"} => lk[u] \in {"rcond", "rwoken"}  BY <2>5, <1>0
      <4>2. "IS_READER" \in flags'[u] => "IS_READER" \in flags[u]  BY <2>0 DEF LockTypeOK
      <4>. QED  BY <4>1, <4>2, <2>8 DEF ThreadSound
    <3>. QED
      BY <3>1, <3>2, <3>3, <3>4, <3>5, <3>6, <3>9, <3>10, <3>11, <3>12, <2>0, <2>1, <2>8 DEF ThreadSound
  <2>. QED  BY <2>0, <2>4, <2>6, <2>7, <2>10
<1>. QED  BY <1>a, <1>b

(* lock_write announces itself in writers. *)
LEMMA LockWriteSound ==
    ASSUME LockInv, NEW t \in Threads, LockWrite(t)
    PROVE  LockInv'
<1>. USE DEF LockInv
<1>1. LockTypeOK'  BY DEF LockWrite, LockTypeOK, At
<1>2. Registered' = Registered  BY DEF LockWrite, Registered
<1>3. Pending' = Pending \cup {t} /\ t \notin Pending
  BY DEF LockWrite, Out, Pending, At, LockTypeOK
<1>4. Cardinality(Pending') = Cardinality(Pending) + 1  BY <1>3, CountedFinite, OneMore
<1>5. ASSUME NEW u \in Threads PROVE ThreadSound(u)'
  <2>1. ThreadSound(u) /\ ThreadSound(t)  OBVIOUS
  <2>. QED
    BY <1>2, <2>1 DEF LockWrite, Out, ThreadSound, BitHolders, PastReaders, Leaving, At, LockTypeOK
<1>. QED  BY <1>1, <1>2, <1>3, <1>4, <1>5 DEF LockWrite

(* The writer bit goes up and the inactive readers go (rwlock_clear_readers): *)
(* what is left is in its section, and if nothing is, everybody is woken.     *)
LEMMA AnnounceSound ==
    ASSUME LockInv, NEW t \in Threads, Announce(t)
    PROVE  LockInv'
<1>. USE DEF LockInv
<1>. DEFINE n == val.readers - Cardinality(Inactive)
            pcs == IF n # 0 THEN At(t, "wcond") ELSE At(t, "contend")
<1>0. /\ lk[t] = "announced" /\ writers' = writers /\ wlock' = wlock
      /\ flags' = [u \in Threads |->
                     IF u \in Inactive THEN flags[u] \ {"IS_READER"} ELSE flags[u]]
      /\ val' = [readers |-> n, writer |-> TRUE]
      /\ lk' = IF n # 0 \/ val.readers = 0 THEN pcs ELSE Broadcast(pcs)
  BY DEF Announce
<1>1. Registered' = Registered \ Inactive /\ Inactive \subseteq Registered
  BY <1>0 DEF Registered, Inactive, LockTypeOK
<1>2. n = Cardinality(Registered') /\ n \in Nat
  <2>1. IsFiniteSet(Registered) /\ IsFiniteSet(Inactive)  BY <1>1, CountedFinite, FS_Subset
  <2>2. /\ IsFiniteSet(Registered \ Inactive)
        /\ Cardinality(Registered \ Inactive)
             = Cardinality(Registered) - Cardinality(Registered \cap Inactive)
    BY <2>1, FS_Difference
  <2>3. Registered \cap Inactive = Inactive  BY <1>1
  <2>4. Cardinality(Registered \ Inactive) \in Nat  BY <2>2, FS_CardinalityType
  <2>. QED  BY <2>2, <2>3, <2>4, <1>1
<1>3. Registered' = {} <=> n = 0
  <2>1. IsFiniteSet(Registered')  BY <1>1, CountedFinite, FS_Subset
  <2>. QED  BY <2>1, <1>2, FS_EmptySet
<1>4. val.readers = 0 => Registered = {}  BY CountedFinite
<1>. HIDE DEF n
<1>5. /\ pcs \in [Threads -> {"out", "rcond", "rwoken", "reading", "runlock", "rstop",
                              "announced", "wcond", "wwoken", "contend", "writing",
                              "sleeping", "wdec"}]
      /\ pcs[t] = IF n # 0 THEN "wcond" ELSE "contend"
      /\ \A u \in Threads \ {t} : pcs[u] = lk[u]
  BY DEF At, LockTypeOK
<1>. HIDE DEF pcs
<1>6. \A u \in Threads :
        \/ lk'[u] = pcs[u] /\ (pcs[u] \in {"rcond", "wcond"} => n # 0 \/ Registered = {})
        \/ pcs[u] = "rcond" /\ lk'[u] = "rwoken"
        \/ pcs[u] = "wcond" /\ lk'[u] = "wwoken"
  BY <1>0, <1>4, BroadcastMoves
<1>7. LockTypeOK'
  <2>1. lk' = [u \in Threads |-> lk'[u]]  BY <1>0, <1>5, BroadcastMoves
  <2>2. lk' \in [Threads -> {"out", "rcond", "rwoken", "reading", "runlock", "rstop",
                             "announced", "wcond", "wwoken", "contend", "writing",
                             "sleeping", "wdec"}]
    BY <2>1, <1>6, <1>5
  <2>. QED  BY <2>2, <1>0, <1>2 DEF LockTypeOK
<1>8. Pending' = Pending /\ t \in Pending  BY <1>0, <1>6, <1>5 DEF Pending
<1>9. \A u \in Threads : ThreadSound(u)  OBVIOUS
<1>10. \A u \in Registered' : u \in Threads /\ lk[u] = "reading" /\ lk'[u] = "reading"
  <2>1. \A u \in Registered' : u \in Threads /\ "READING_NOW" \in flags[u]
    BY <1>1 DEF Registered, Inactive
  <2>2. \A u \in Registered' : lk[u] = "reading" /\ u # t  BY <2>1, <1>0, <1>9 DEF ThreadSound
  <2>. QED  BY <2>1, <2>2, <1>5, <1>6
<1>11. ASSUME NEW u \in Threads PROVE ThreadSound(u)'
  <2>1. lk'[u] = "reading" <=> lk[u] = "reading"  BY <1>5, <1>6, <1>0
  <2>2. "READING_NOW" \in flags'[u] <=> "READING_NOW" \in flags[u]  BY <1>0
  <2>3. lk'[u] = "reading" => "IS_READER" \in flags'[u]
    BY <2>1, <1>0, <1>9 DEF ThreadSound, Inactive
  <2>4. val'.writer  BY <1>0
  <2>5. lk'[u] \in PastReaders => Registered' = {}
    <3>1. CASE u = t  BY <3>1, <1>3, <1>5, <1>6 DEF PastReaders
    <3>2. CASE u # t
      <4>1. lk'[u] \in PastReaders => lk[u] \in PastReaders  BY <3>2, <1>5, <1>6 DEF PastReaders
      <4>. QED  BY <4>1, <1>1, <1>9 DEF ThreadSound
    <3>. QED  BY <3>1, <3>2
  <2>6. lk'[u] = "writing" <=> wlock' = u
    <3>1. lk'[u] = "writing" <=> lk[u] = "writing"  BY <1>5, <1>6, <1>0
    <3>. QED  BY <3>1, <1>0, <1>9 DEF ThreadSound
  <2>7. lk'[u] = "wcond" => Registered' # {}
    <3>1. CASE n # 0  BY <3>1, <1>3
    <3>2. CASE n = 0
      <4>1. lk'[u] = "wcond" => u # t /\ lk[u] = "wcond" /\ Registered = {}
        BY <3>2, <1>5, <1>6
      <4>. QED  BY <4>1, <1>9 DEF ThreadSound
    <3>. QED  BY <3>1, <3>2
  <2>8. \A w \in Registered' : lk'[w] \in Leaving  BY <1>10 DEF Leaving
  <2>9. lk'[u] \in {"rcond", "rwoken"} => "IS_READER" \notin flags'[u]
    <3>1. lk'[u] \in {"rcond", "rwoken"} => lk[u] \in {"rcond", "rwoken"}  BY <1>5, <1>6
    <3>2. "IS_READER" \in flags'[u] => "IS_READER" \in flags[u]  BY <1>0
    <3>. QED  BY <3>1, <3>2, <1>9 DEF ThreadSound
  <2>. QED
    BY <2>1, <2>2, <2>3, <2>4, <2>5, <2>6, <2>7, <2>8, <2>9, <1>9 DEF ThreadSound
<1>. QED  BY <1>0, <1>2, <1>7, <1>8, <1>11

(* The writer takes write_lock, gives it up at the end, or for a sleep. *)
LEMMA WriteLockSound ==
    ASSUME LockInv, NEW t \in Threads, TakeWriteLock(t) \/ UnlockWrite(t) \/ CondWait(t)
    PROVE  LockInv'
<1>. USE DEF LockInv
<1>1. LockTypeOK'  BY DEF TakeWriteLock, UnlockWrite, CondWait, LockTypeOK, At
<1>2. Registered' = Registered /\ Pending' = Pending
  BY DEF TakeWriteLock, UnlockWrite, CondWait, Writing, Registered, Pending, At, LockTypeOK
<1>3. val' = val /\ writers' = writers /\ flags' = flags
  BY DEF TakeWriteLock, UnlockWrite, CondWait
<1>4. ASSUME NEW u \in Threads PROVE ThreadSound(u)'
  <2>1. ThreadSound(u) /\ ThreadSound(t)  OBVIOUS
  <2>2. lk[t] \in PastReaders /\ lk'[t] \in PastReaders /\ lk'[t] \in BitHolders
        /\ lk'[t] \notin {"rcond", "rwoken", "wcond", "wwoken", "reading"}
        /\ lk[t] # "reading"
    BY DEF TakeWriteLock, UnlockWrite, CondWait, Writing, PastReaders, BitHolders, At, LockTypeOK
  <2>3. Registered = {} /\ val.writer  BY <2>1, <2>2 DEF ThreadSound, BitHolders, PastReaders
  <2>4. lk'[u] = "writing" <=> wlock' = u
    BY <2>1, NooneIsNoThread
    DEF TakeWriteLock, UnlockWrite, CondWait, Writing, ThreadSound, At, LockTypeOK
  <2>5. u # t => lk'[u] = lk[u]
    BY DEF TakeWriteLock, UnlockWrite, CondWait, At, LockTypeOK
  <2>. QED  BY <1>2, <1>3, <2>1, <2>2, <2>3, <2>4, <2>5 DEF ThreadSound
<1>. QED  BY <1>1, <1>2, <1>3, <1>4

(* rwlock_writers_dec: only the last of the writers takes the bit away, and *)
(* it wakes the readers that wait for that.                                 *)
LEMMA WritersDecSound ==
    ASSUME LockInv, NEW t \in Threads, WritersDec(t)
    PROVE  LockInv'
<1>. USE DEF LockInv
<1>. DEFINE pcs == At(t, "out")
<1>0. /\ lk[t] = "wdec" /\ writers' = writers - 1 /\ flags' = flags /\ wlock' = wlock
      /\ val'.readers = val.readers
      /\ writers = 1 => ~ val'.writer /\ lk' = Broadcast(pcs)
      /\ writers # 1 => val' = val /\ lk' = pcs
  BY DEF WritersDec, LockTypeOK
<1>1. /\ pcs \in [Threads -> {"out", "rcond", "rwoken", "reading", "runlock", "rstop",
                              "announced", "wcond", "wwoken", "contend", "writing",
                              "sleeping", "wdec"}]
      /\ pcs[t] = "out" /\ \A u \in Threads \ {t} : pcs[u] = lk[u]
  BY DEF At, LockTypeOK
<1>. HIDE DEF pcs
<1>2. \A u \in Threads :
        \/ lk'[u] = pcs[u] /\ (pcs[u] \in {"rcond", "wcond"} => writers # 1)
        \/ pcs[u] = "rcond" /\ lk'[u] = "rwoken"
        \/ pcs[u] = "wcond" /\ lk'[u] = "wwoken"
  BY <1>0, BroadcastMoves
<1>3. Registered' = Registered  BY <1>0 DEF Registered
<1>4. Pending' = Pending \ {t} /\ t \in Pending  BY <1>0, <1>1, <1>2 DEF Pending
<1>5. /\ Cardinality(Pending') = Cardinality(Pending) - 1
      /\ writers = 1 => Pending' = {}
      /\ writers # 1 => Pending' # {}
  <2>1. Cardinality(Pending') = Cardinality(Pending) - 1 /\ (writers = 1 => Pending = {t})
    BY <1>4, CountedFinite, OneLess
  <2>2. Pending' = {} => Cardinality(Pending') = 0  BY FS_EmptySet
  <2>3. writers # 1 => Cardinality(Pending') # 0  BY <2>1, CountedFinite
  <2>. QED  BY <2>1, <2>2, <2>3, <1>4
<1>6. LockTypeOK'
  <2>1. lk' = [u \in Threads |-> lk'[u]]  BY <1>0, <1>1, BroadcastMoves
  <2>2. lk' \in [Threads -> {"out", "rcond", "rwoken", "reading", "runlock", "rstop",
                             "announced", "wcond", "wwoken", "contend", "writing",
                             "sleeping", "wdec"}]
    BY <2>1, <1>1, <1>2
  <2>3. writers' \in Nat
    <3>1. Cardinality(Pending) # 0  BY <1>4, CountedFinite, FS_EmptySet
    <3>. QED  BY <3>1, <1>0, CountedFinite
  <2>4. val' \in [readers : Nat, writer : BOOLEAN]  BY DEF WritersDec, LockTypeOK
  <2>. QED  BY <2>2, <2>3, <2>4, <1>0 DEF LockTypeOK
<1>7. \A u \in Threads : ThreadSound(u)  OBVIOUS
<1>8. Registered = {}  BY <1>0, <1>7 DEF ThreadSound, PastReaders
<1>9. ASSUME NEW u \in Threads PROVE ThreadSound(u)'
  <2>1. lk'[u] = "reading" <=> lk[u] = "reading"  BY <1>0, <1>1, <1>2
  <2>2. lk'[u] = "writing" <=> lk[u] = "writing"  BY <1>0, <1>1, <1>2
  <2>3. lk'[u] \in BitHolders => val'.writer
    <3>1. lk'[u] \in BitHolders => u \in Pending'
      BY <1>0, <1>1, <1>2 DEF BitHolders, Pending
    <3>2. lk'[u] \in BitHolders => lk[u] \in BitHolders  BY <1>0, <1>1, <1>2 DEF BitHolders
    <3>. QED  BY <3>1, <3>2, <1>0, <1>5, <1>7 DEF ThreadSound
  <2>4. lk'[u] = "rcond" => val'.writer  BY <1>0, <1>1, <1>2, <1>7 DEF ThreadSound
  <2>5. lk'[u] # "wcond"
    <3>1. lk'[u] = "wcond" => lk[u] = "wcond"  BY <1>1, <1>2
    <3>. QED  BY <3>1, <1>7, <1>8 DEF ThreadSound
  <2>6. lk'[u] \in {"rcond", "rwoken"} => lk[u] \in {"rcond", "rwoken"}  BY <1>1, <1>2
  <2>. QED  BY <2>1, <2>2, <2>3, <2>4, <2>5, <2>6, <1>0, <1>3, <1>7, <1>8 DEF ThreadSound
<1>10. val'.writer => Pending' # {}  BY <1>0, <1>5
<1>. QED  BY <1>0, <1>3, <1>5, <1>6, <1>9, <1>10

(* oo_rwlock_cond_broadcast: the woken threads contend for write_lock. *)
LEMMA CondWakeSound ==
    ASSUME LockInv, NEW t \in Threads, NEW S \in SUBSET Threads, CondWake(t, S)
    PROVE  LockInv'
<1>. USE DEF LockInv
<1>1. /\ flags' = flags /\ val' = val /\ writers' = writers /\ wlock' = wlock
      /\ lk' = [u \in Threads |-> IF u \in S THEN "contend" ELSE lk[u]]
      /\ \A u \in S : u \in Threads /\ lk[u] = "sleeping"
  BY DEF CondWake, CondBroadcast
<1>2. LockTypeOK'  BY <1>1 DEF LockTypeOK
<1>3. Registered' = Registered /\ Pending' = Pending  BY <1>1 DEF Registered, Pending
<1>4. ASSUME NEW u \in Threads PROVE ThreadSound(u)'
  <2>1. \A w \in Threads : ThreadSound(w)  OBVIOUS
  <2>2. \A w \in Registered : w \in Threads /\ (lk[w] \in Leaving => lk'[w] \in Leaving)
    BY <1>1 DEF Registered, Leaving
  <2>. QED
    BY <1>1, <1>3, <2>1, <2>2 DEF ThreadSound, BitHolders, PastReaders
<1>. QED  BY <1>1, <1>2, <1>3, <1>4

(* Every step of the lock keeps the invariant. *)
LEMMA LockStepSound == LockInv /\ [LockNext]_rwvars => LockInv'
<1>1. ASSUME LockInv, UNCHANGED rwvars PROVE LockInv'
  BY <1>1 DEF rwvars, LockInv, LockTypeOK, ThreadSound, Registered, Pending
<1>2. ASSUME LockInv, NEW t \in Threads, ReaderWoken(t) PROVE LockInv'
  <2>1. "IS_READER" \notin flags[t]  BY <1>2 DEF LockInv, ThreadSound, ReaderWoken
  <2>. QED  BY <1>2, <2>1, StartReadSound DEF ReaderWoken
<1>3. ASSUME LockInv, NEW t \in Threads, StopRead(t) PROVE LockInv'
  BY <1>3, DeregisterSound DEF StopRead
<1>4. ASSUME LockInv, NEW t \in Threads, ThreadExit(t) PROVE LockInv'
  BY <1>4, DeregisterSound DEF ThreadExit, Out
<1>5. ASSUME LockInv, LockNext PROVE LockInv'
  BY <1>2, <1>3, <1>4, <1>5, LockReadSound, UnlockReadSound, UnlockReadTestSound,
     AnnounceSound, WriterWokenSound, WriteLockSound, WritersDecSound, LockWriteSound,
     CondWakeSound
  DEF LockNext, LockStep
<1>. QED  BY <1>1, <1>5

(* In every behaviour of the lock, readers and writers exclude each other   *)
(* and write_lock admits one writer.                                        *)
THEOREM LockExcludes == LockSpec => []ReadersExcludeWriters
<1>1. LockInv => ReadersExcludeWriters
  <2>. SUFFICES ASSUME LockInv, NEW t \in Threads, NEW u \in Threads
                PROVE  /\ Reading(t) => lk[u] \notin {"writing", "sleeping"}
                       /\ Writing(t) /\ Writing(u) => t = u
    BY DEF ReadersExcludeWriters
  <2>1. ThreadSound(t) /\ ThreadSound(u)  BY DEF LockInv
  <2>2. Reading(t) => t \in Registered  BY <2>1 DEF Reading, ThreadSound, Registered
  <2>. QED  BY <2>1, <2>2 DEF ThreadSound, PastReaders, Writing
<1>. QED  BY <1>1, InitLockInv, LockStepSound, PTL DEF LockSpec

(* In every behaviour of the lock, a thread asleep on l->cond has a thread  *)
(* on its way to wake it.                                                   *)
THEOREM LockWakes == LockSpec => []SleepersHaveWakers
<1>1. LockInv => SleepersHaveWakers
  <2>. SUFFICES ASSUME LockInv, NEW t \in Threads
                PROVE  /\ lk[t] = "rcond" => Pending # {}
                       /\ lk[t] = "wcond" =>
                            \E u \in Registered : lk[u] \in {"reading", "runlock", "rstop"}
    BY DEF SleepersHaveWakers
  <2>1. ThreadSound(t)  BY DEF LockInv
  <2>. QED  BY <2>1 DEF ThreadSound, LockInv, Leaving
<1>. QED  BY <1>1, InitLockInv, LockStepSound, PTL DEF LockSpec
=============================================================================
