------------------------------- MODULE RwLock -------------------------------
(***************************************************************************)
(* The reader-writer lock of the user-level library (oo_rwlock), the type  *)
(* of the lock of the descriptor table (citp_ul_lock).  A reader registers *)
(* once and then enters and leaves with one compare-and-swap of its own    *)
(* flags; a writer has to evict the registered readers first.              *)
(*                                                                         *)
(* Every section run under oo_rwlock.mutex is one step.  Outside the mutex *)
(* the code changes only a thread's own READING_NOW flag and the counter   *)
(* of writers, both by compare-and-swap, and reads the writer bit of val.  *)
(***************************************************************************)
EXTENDS Naturals, FiniteSets

CONSTANTS Threads,  \* threads of the process
          NOONE     \* the owner of a free write_lock

ASSUME NooneIsNoThread == NOONE \notin Threads
ASSUME ThreadsFinite == IsFiniteSet(Threads)

VARIABLES lk,       \* how far each thread is in a call of the lock
          flags,    \* oo_rwlock_perthread.flags
          val,      \* number of registered readers, and OO_RWLOCK_VAL_WRITER
          writers,  \* number of writers pending or working
          wlock     \* owner of the mutex write_lock

rwvars == <<lk, flags, val, writers, wlock>>

(* Threads counted in writers. *)
Pending == {t \in Threads : lk[t] \in {"announced", "wcond", "wwoken", "contend",
                                       "writing", "sleeping", "wdec"}}
Registered == {t \in Threads : "IS_READER" \in flags[t]}

LockTypeOK ==
    /\ lk \in [Threads -> {"out", "rcond", "rwoken", "reading", "runlock", "rstop",
                           "announced", "wcond", "wwoken", "contend", "writing",
                           "sleeping", "wdec"}]
    /\ flags \in [Threads -> SUBSET {"IS_READER", "READING_NOW"}]
    /\ val \in [readers : Nat, writer : BOOLEAN]
    /\ writers \in Nat
    /\ wlock \in Threads \cup {NOONE}

LockInit ==
    /\ lk = [t \in Threads |-> "out"]
    /\ flags = [t \in Threads |-> {}]
    /\ val = [readers |-> 0, writer |-> FALSE]
    /\ writers = 0
    /\ wlock = NOONE

Out(t) == lk[t] = "out"
Reading(t) == lk[t] = "reading"
Writing(t) == lk[t] = "writing"

At(t, pc) == [lk EXCEPT ![t] = pc]

(* pthread_cond_broadcast(&l->cond): the woken threads test again. *)
Broadcast(pcs) ==
    [t \in Threads |-> CASE pcs[t] = "rcond" -> "rwoken"
                         [] pcs[t] = "wcond" -> "wwoken"
                         [] OTHER -> pcs[t]]

(* val == OO_RWLOCK_VAL_WRITER: a writer, and no reader. *)
OnlyWriter(v) == v.writer /\ v.readers = 0

(* rwlock_try_start_read, or the wait for the writers to go. *)
StartRead(t) ==
    IF val.writer
    THEN lk' = At(t, "rcond") /\ UNCHANGED <<flags, val, writers, wlock>>
    ELSE /\ flags' = [flags EXCEPT ![t] = {"IS_READER", "READING_NOW"}]
         /\ val' = [val EXCEPT !.readers = @ + 1]
         /\ lk' = At(t, "reading")
         /\ UNCHANGED <<writers, wlock>>

(* A registered reader needs only its own flags. *)
LockRead(t) ==
    /\ Out(t)
    /\ IF "IS_READER" \in flags[t]
       THEN /\ flags' = [flags EXCEPT ![t] = @ \cup {"READING_NOW"}]
            /\ lk' = At(t, "reading")
            /\ UNCHANGED <<val, writers, wlock>>
       ELSE StartRead(t)

ReaderWoken(t) == lk[t] = "rwoken" /\ StartRead(t)

(* The writer bit read before READING_NOW is cleared, as the processor may  *)
(* do without the barrier.                                                  *)
UnlockReadNoBarrier(t) ==
    /\ Reading(t)
    /\ flags' = [flags EXCEPT ![t] = @ \ {"READING_NOW"}]
    /\ lk' = At(t, "out")
    /\ UNCHANGED <<val, writers, wlock>>

UnlockRead(t) ==
    /\ Reading(t)
    /\ flags' = [flags EXCEPT ![t] = @ \ {"READING_NOW"}]
    /\ lk' = At(t, "runlock")
    /\ UNCHANGED <<val, writers, wlock>>

(* The test of the writer bit after READING_NOW has been cleared. *)
UnlockReadTest(t) ==
    /\ lk[t] = "runlock"
    /\ lk' = At(t, IF val.writer THEN "rstop" ELSE "out")
    /\ UNCHANGED <<flags, val, writers, wlock>>

(* rwlock_stop_read: a writer may have removed the reader already. *)
Deregister(t, pcs) ==
    IF "IS_READER" \in flags[t]
    THEN LET v == [val EXCEPT !.readers = @ - 1]
         IN  /\ flags' = [flags EXCEPT ![t] = @ \ {"IS_READER"}]
             /\ val' = v
             /\ lk' = IF OnlyWriter(v) THEN Broadcast(pcs) ELSE pcs
             /\ UNCHANGED <<writers, wlock>>
    ELSE lk' = pcs /\ UNCHANGED <<flags, val, writers, wlock>>

StopRead(t) == lk[t] = "rstop" /\ Deregister(t, At(t, "out"))

(* rwlock_perthread_dtor, at the exit of a thread. *)
ThreadExit(t) == Out(t) /\ "IS_READER" \in flags[t] /\ Deregister(t, lk)

LockWrite(t) ==
    /\ Out(t)
    /\ writers' = writers + 1
    /\ lk' = At(t, "announced")
    /\ UNCHANGED <<flags, val, wlock>>

(* Readers that rwlock_clear_readers evicts. *)
Inactive == {u \in Registered : "READING_NOW" \notin flags[u]}

AnnounceKeepingReaders(t) ==
    /\ lk[t] = "announced"
    /\ val' = [val EXCEPT !.writer = TRUE]
    /\ lk' = At(t, "contend")
    /\ UNCHANGED <<flags, writers, wlock>>

Announce(t) ==
    LET v == [readers |-> val.readers - Cardinality(Inactive), writer |-> TRUE]
    IN  /\ lk[t] = "announced"
        /\ flags' = [u \in Threads |->
                       IF u \in Inactive THEN flags[u] \ {"IS_READER"} ELSE flags[u]]
        /\ val' = v
        /\ lk' = IF v.readers # 0 THEN At(t, "wcond")
                 ELSE IF val.readers = 0 THEN At(t, "contend")
                 ELSE Broadcast(At(t, "contend"))
        /\ UNCHANGED <<writers, wlock>>

WriterWoken(t) ==
    /\ lk[t] = "wwoken"
    /\ lk' = At(t, IF OnlyWriter(val) THEN "contend" ELSE "wcond")
    /\ UNCHANGED <<flags, val, writers, wlock>>

TakeWriteLock(t) ==
    /\ lk[t] = "contend" /\ wlock = NOONE
    /\ wlock' = t
    /\ lk' = At(t, "writing")
    /\ UNCHANGED <<flags, val, writers>>

UnlockWrite(t) ==
    /\ Writing(t)
    /\ wlock' = NOONE
    /\ lk' = At(t, "wdec")
    /\ UNCHANGED <<flags, val, writers>>

(* rwlock_writers_dec: the last writer takes the bit away. *)
WritersDec(t) ==
    /\ lk[t] = "wdec"
    /\ writers' = writers - 1
    /\ IF writers = 1
       THEN /\ val' = [val EXCEPT !.writer = FALSE]
            /\ lk' = Broadcast(At(t, "out"))
       ELSE /\ lk' = At(t, "out")
            /\ UNCHANGED val
    /\ UNCHANGED <<flags, wlock>>

(* oo_rwlock_cond_wait gives up write_lock only; the thread stays a pending *)
(* writer, so readers stay out.                                             *)
CondWait(t) ==
    /\ Writing(t)
    /\ wlock' = NOONE
    /\ lk' = At(t, "sleeping")
    /\ UNCHANGED <<flags, val, writers>>

(* oo_rwlock_cond_broadcast on the conditions of the threads in S. *)
CondBroadcast(S) == [u \in Threads |-> IF u \in S THEN "contend" ELSE lk[u]]

CondWake(t, S) ==
    /\ Writing(t)
    /\ \A u \in S : lk[u] = "sleeping"
    /\ lk' = CondBroadcast(S)
    /\ UNCHANGED <<flags, val, writers, wlock>>

(* The steps of a call that its caller waits for. *)
LockStep(t) ==
    \/ ReaderWoken(t) \/ UnlockReadTest(t) \/ StopRead(t)
    \/ Announce(t) \/ WriterWoken(t) \/ TakeWriteLock(t) \/ WritersDec(t)

LockNext ==
    \E t \in Threads :
        \/ LockStep(t)
        \/ LockRead(t) \/ UnlockRead(t) \/ ThreadExit(t)
        \/ LockWrite(t) \/ UnlockWrite(t) \/ CondWait(t)
        \/ \E S \in SUBSET Threads : CondWake(t, S)

(* The lock under any calls of threads that unlock only what they hold. *)
LockSpec == LockInit /\ [][LockNext]_rwvars

(* A thread between LOCK_RD and UNLOCK_RD meets no thread between LOCK and  *)
(* UNLOCK of the same lock, not even one asleep in oo_rwlock_cond_wait, and *)
(* of the latter only one is awake.                                         *)
ReadersExcludeWriters ==
    \A t, u \in Threads :
        /\ Reading(t) => lk[u] \notin {"writing", "sleeping"}
        /\ Writing(t) /\ Writing(u) => t = u

(* A thread asleep on l->cond has somebody to wake it: a reader, a writer   *)
(* that will leave; a writer, a registered reader that is in its section or *)
(* on its way out.                                                          *)
SleepersHaveWakers ==
    \A t \in Threads :
        /\ lk[t] = "rcond" => Pending # {}
        /\ lk[t] = "wcond" =>
             \E u \in Registered : lk[u] \in {"reading", "runlock", "rstop"}
=============================================================================
