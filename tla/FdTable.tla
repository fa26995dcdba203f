------------------------------- MODULE FdTable -------------------------------
(***************************************************************************)
(* The descriptor table of the user-level library (fdtable.c): lookup,     *)
(* probe, close, dup, dup2, handover, creation of a socket and poll, by    *)
(* concurrent threads, over the lock citp_ul_lock of module RwLock.        *)
(*                                                                         *)
(* The configuration is EF_FDS_MT_SAFE=0, EF_FDTABLE_STRICT=0.  An entry   *)
(* is a word changed by compare-and-swap; a read with the swap that uses   *)
(* it is one step.  A word is a pointer when its low two bits are clear;   *)
(* 4 stands for &citp_the_closed_fd and Fdis are the other pointers.       *)
(***************************************************************************)
EXTENDS RwLock, Sequences

CONSTANTS Fds,   \* descriptors, consecutive numbers
          Fdis   \* addresses at which a citp_fdinfo can be allocated (bound)

ASSUME FdsAreNumbers == Fds \subseteq Nat \ {0}
ASSUME FdisAreAligned == \A i \in Fdis : i \in Nat /\ i > 4 /\ i % 4 = 0

VARIABLES table,    \* citp_fdtable.table[fd].fdip
          waiters,  \* threads whose citp_fdtable_waiter a busy entry links
          kern,     \* the file the kernel has at a descriptor
          raw,      \* sockets with CI_SB_AFLAG_NOT_READY
          fdi,      \* the citp_fdinfo objects
          th,       \* the calls each thread is in, innermost first
          res,      \* what the last call returned
          duplock   \* owner of the mutex citp_dup_lock

fdvars == <<table, waiters, kern, raw, fdi, th, res, duplock>>
vars == <<rwvars, fdvars>>

NULL == 0
fdip_passthru == 1
fdip_unknown == 2
fdip_busy == 3
fdip_closing == 4
fdip_is_normal(p) == p % 4 = 0

OK == 1
EBADF == 2

NoFile == 0
OsFile == 1
Sockets == 2..(1 + Cardinality(Fds) + Cardinality(Fdis))

Frame(at, fd) == [at |-> at, fd |-> fd, from |-> 0, seen |-> NULL,
                  fdi |-> NULL, locked |-> FALSE]
In(t, at) ==
    /\ th[t] # <<>> /\ Head(th[t]).at = at
    /\ Out(t) \/ Reading(t) \/ Writing(t)
Top(t) == Head(th[t])

(* What a step makes of the calls of t. *)
With(t, f) == [th EXCEPT ![t] = <<f>> \o Tail(@)]
Goto(t, at) == With(t, [Top(t) EXCEPT !.at = at])
Call(t, f, cont) == [th EXCEPT ![t] = <<f, [Head(@) EXCEPT !.at = cont]>> \o Tail(@)]
Return(t) == [th EXCEPT ![t] = Tail(@)]

(* citp_fdtable_busy_wait, for a thread that has the write lock: it links   *)
(* itself to the entry and sleeps; awake, it looks at the entry again.      *)
Sleep(t, fd) ==
    /\ table[fd] = fdip_busy
    /\ CondWait(t)
    /\ waiters' = [waiters EXCEPT ![fd] = @ \cup {t}]
    /\ UNCHANGED <<table, kern, raw, fdi, th, res, duplock>>

(* ... and for one that does not have it. *)
WaitBusy(t, fd) ==
    /\ table[fd] = fdip_busy
    /\ IF Top(t).locked THEN Sleep(t, fd)
       ELSE /\ LockWrite(t)
            /\ th' = Call(t, Frame("bw", fd), Top(t).at)
            /\ UNCHANGED <<table, waiters, kern, raw, fdi, res, duplock>>

BusyWait(t) ==
    /\ In(t, "bw")
    /\ \/ Sleep(t, Top(t).fd)
       \/ /\ table[Top(t).fd] # fdip_busy
          /\ UnlockWrite(t)
          /\ th' = Return(t)
          /\ UNCHANGED <<table, waiters, kern, raw, fdi, res, duplock>>

(* citp_fdtable_busy_clear: with waiters linked it has to have the lock. *)
Clear(t, fd, fdip, calls) ==
    IF waiters[fd] = {}
    THEN /\ table' = [table EXCEPT ![fd] = fdip]
         /\ th' = calls
         /\ UNCHANGED <<rwvars, waiters>>
    ELSE IF Top(t).locked
    THEN /\ table' = [table EXCEPT ![fd] = fdip]
         /\ waiters' = [waiters EXCEPT ![fd] = {}]
         /\ CondWake(t, waiters[fd])
         /\ th' = calls
    ELSE /\ LockWrite(t)
         /\ th' = [calls EXCEPT ![t] =
                      <<[Frame("slow", fd) EXCEPT !.seen = fdip, !.locked = TRUE]>> \o @]
         /\ UNCHANGED <<table, waiters>>

(* __citp_fdtable_busy_clear_slow, all links popped under the lock. *)
ClearSlow(t) ==
    /\ In(t, "slow")
    /\ Clear(t, Top(t).fd, Top(t).seen, Goto(t, "unlock"))
    /\ UNCHANGED <<kern, raw, fdi, res, duplock>>

Unlock(t) ==
    /\ In(t, "unlock") /\ UnlockWrite(t)
    /\ th' = Return(t)
    /\ UNCHANGED <<table, waiters, kern, raw, fdi, res, duplock>>

(* A step that changes only the calls of t. *)
Only(t, calls) ==
    th' = calls /\ UNCHANGED <<rwvars, table, waiters, kern, raw, fdi, res, duplock>>
(* A step that also starts or ends a section of the lock. *)
Locking(t, calls) ==
    th' = calls /\ UNCHANGED <<table, waiters, kern, raw, fdi, res, duplock>>

(* citp_fdinfo_ref; citp_the_closed_fd is never freed. *)
RefNothing(i) == fdi
Ref(i) == IF i \in Fdis THEN [fdi EXCEPT ![i].refs = @ + 1] ELSE fdi

(* The thread makes the entry busy and keeps what was there. *)
Own(t, fd, at) ==
    /\ table' = [table EXCEPT ![fd] = fdip_busy]
    /\ th' = With(t, [Top(t) EXCEPT !.at = at, !.seen = table[fd]])
    /\ UNCHANGED <<waiters, kern, raw, res, duplock>>

ReleaseFrame(i, locked) ==
    [Frame("release", 0) EXCEPT !.fdi = i, !.locked = locked]

(* citp_fdinfo_release_ref; at zero, what on_ref_count_zero says. *)
Release(t) ==
    LET f == Top(t)
        i == f.fdi
    IN  /\ In(t, "release")
        /\ fdi' = [fdi EXCEPT ![i].refs = @ - 1]
        /\ th' = IF fdi[i].refs > 1 THEN Return(t)
                 ELSE With(t, [f EXCEPT !.at = fdi[i].rcz, !.fd = fdi[i].fd,
                                        !.from = fdi[i].from])
        /\ UNCHANGED <<rwvars, table, waiters, kern, raw, res, duplock>>


RczClose(t) ==
    /\ In(t, "RCZ_CLOSE")
    /\ \/ WaitBusy(t, Top(t).fd)
       \/ /\ table[Top(t).fd] = fdip_closing
          /\ Own(t, Top(t).fd, "sysclose")
          /\ UNCHANGED <<rwvars, fdi>>

SysClose(t) ==
    /\ In(t, "sysclose")
    /\ kern' = [kern EXCEPT ![Top(t).fd] = NoFile]
    /\ th' = Goto(t, "closed")
    /\ UNCHANGED <<rwvars, table, waiters, raw, fdi, res, duplock>>

Closed(t) ==
    /\ In(t, "closed")
    /\ Clear(t, Top(t).fd, fdip_unknown, Goto(t, "free"))
    /\ UNCHANGED <<kern, raw, fdi, res, duplock>>

Free(t) ==
    /\ In(t, "free")
    /\ fdi' = [fdi EXCEPT ![Top(t).fdi].live = FALSE]
    /\ th' = Return(t)
    /\ UNCHANGED <<rwvars, table, waiters, kern, raw, res, duplock>>

(* FDI_ON_RCZ_HANDOVER: the kernel puts the O/S socket in place. *)
DoHandover(t) ==
    /\ In(t, "RCZ_HANDOVER")
    /\ kern' = [kern EXCEPT ![Top(t).fd] = OsFile]
    /\ Clear(t, Top(t).fd, fdip_passthru, Goto(t, "free"))
    /\ UNCHANGED <<raw, fdi, res, duplock>>

(* citp_fdtable_probe_locked, always under the write lock. *)
ProbeFrame(fd) == [Frame("probe", fd) EXCEPT !.locked = TRUE]

Probe(t) ==
    LET fd == Top(t).fd
        e == table[fd]
    IN  /\ In(t, "probe")
        /\ \/ Sleep(t, fd)
           \/ /\ e = fdip_passthru
              /\ th' = Return(t) /\ res' = [res EXCEPT ![t] = NULL]
              /\ UNCHANGED <<rwvars, table, waiters, kern, raw, fdi, duplock>>
           \/ /\ e = fdip_unknown \/ fdip_is_normal(e)
              /\ Own(t, fd, "probed")
              /\ fdi' = Ref(e)
              /\ UNCHANGED rwvars

FreeFdi(i) == i \in Fdis /\ ~fdi[i].live
NewFdi == CHOOSE i \in Fdis : FreeFdi(i) /\ \A j \in Fdis : FreeFdi(j) => i <= j
Fdi(fd, refs, file) ==
    [live |-> TRUE, refs |-> refs, rcz |-> "NONE", fd |-> fd, from |-> 0,
     result |-> NULL, file |-> file]

(* What the probing thread leaves in the entry and returns: a file that is  *)
(* closed or still NOT_READY stays unknown and reads as the closed fdi.     *)
Probed(t) ==
    LET f == Top(t)
        file == kern[f.fd]
        Leave(fdip, ret) ==
            /\ Clear(t, f.fd, fdip, Return(t))
            /\ res' = [res EXCEPT ![t] = ret]
            /\ UNCHANGED <<kern, raw, duplock>>
    IN  /\ In(t, "probed")
        /\ \/ fdip_is_normal(f.seen) /\ Leave(f.seen, f.seen) /\ UNCHANGED fdi
           \/ /\ f.seen = fdip_unknown
              /\ \/ /\ file = NoFile \/ file \in raw
                    /\ Leave(fdip_unknown, fdip_closing) /\ UNCHANGED fdi
                 \/ file = OsFile /\ Leave(fdip_passthru, NULL) /\ UNCHANGED fdi
                 \/ /\ file \in Sockets \ raw
                    /\ \E i \in Fdis : FreeFdi(i)
                    /\ fdi' = [fdi EXCEPT ![NewFdi] = Fdi(f.fd, 2, file)]
                    /\ Leave(NewFdi, NewFdi)

(* citp_fdtable_lookup. *)
Lookup(t) ==
    LET fd == Top(t).fd
        e == table[fd]
    IN  /\ In(t, "look")
        /\ \/ WaitBusy(t, fd)
           \/ /\ e = fdip_passthru
              /\ th' = Return(t) /\ res' = [res EXCEPT ![t] = NULL]
              /\ UNCHANGED <<rwvars, table, waiters, kern, raw, fdi, duplock>>
           \/ /\ e = fdip_unknown
              /\ LockWrite(t)
              /\ Locking(t, Call(t, ProbeFrame(fd), "unlock"))
           \/ /\ fdip_is_normal(e)
              /\ Own(t, fd, "looked")
              /\ fdi' = Ref(e)
              /\ UNCHANGED rwvars

Looked(t) ==
    /\ In(t, "looked")
    /\ Clear(t, Top(t).fd, Top(t).seen, Return(t))
    /\ res' = [res EXCEPT ![t] = Top(t).seen]
    /\ UNCHANGED <<kern, raw, fdi, duplock>>

(* A call on a socket: look the descriptor up, use the fdi, release it.     *)
(* handover calls citp_fdinfo_handover and epoll polls a member meanwhile.  *)
Begin(t) ==
    \E op \in {"recv", "handover", "epoll"} :
        /\ In(t, op)
        /\ Only(t, Call(t, Frame("look", Top(t).fd), "found " \o op))

Found(t) ==
    \E op \in {"recv", "handover", "epoll"} :
        /\ In(t, "found " \o op)
        /\ \/ /\ res[t] \notin Fdis
              /\ Only(t, Return(t))
           \/ /\ res[t] \in Fdis
              /\ Only(t, With(t, [Top(t) EXCEPT !.fdi = res[t], !.at = "using " \o op]))

EndUse(t) ==
    /\ In(t, "using recv")
    /\ Only(t, Call(t, ReleaseFrame(Top(t).fdi, FALSE), "done"))

Done(t) == In(t, "done") /\ Only(t, Return(t))

(* citp_ul_poll, citp_ul_select: under the read lock a normal entry is used *)
(* without a reference.  So it is in a poll of an epoll member, which spins *)
(* on a busy entry with the lock held.                                      *)
Poll(t) ==
    \E op \in {"poll", "member"} :
        In(t, op) /\ LockRead(t) /\ Locking(t, Goto(t, op \o " entry"))

PollEntry(t) ==
    LET e == table[Top(t).fd]
    IN  /\ In(t, "poll entry") \/ (In(t, "member entry") /\ e # fdip_busy)
        /\ Only(t, With(t, [Top(t) EXCEPT !.at = "polling",
                                          !.fdi = IF e \in Fdis THEN e ELSE NULL]))

PollEnd(t) == In(t, "polling") /\ UnlockRead(t) /\ Locking(t, Goto(t, "done"))

(* epoll_wait on an fdi it holds, polling the member from. *)
EpollWait(t) ==
    /\ In(t, "using epoll")
    /\ Only(t, Call(t, Frame("member", Top(t).from), "using recv"))

(* citp_fdinfo_handover.  A busy entry is waited for under the lock. *)
Handover(t) ==
    LET f == Top(t)
    IN  \/ /\ In(t, "using handover") /\ LockWrite(t)
           /\ Locking(t, Goto(t, "handover entry"))
        \/ /\ In(t, "handover entry")
           /\ \/ Sleep(t, f.fd)
              \/ /\ table[f.fd] \notin {fdip_busy, f.fdi}
                 /\ Only(t, Goto(t, "handover drop"))
              \/ /\ table[f.fd] = f.fdi
                 /\ table' = [table EXCEPT ![f.fd] = fdip_busy]
                 /\ fdi' = [fdi EXCEPT ![f.fdi].rcz = "RCZ_HANDOVER"]
                 /\ th' = Call(t, ReleaseFrame(f.fdi, TRUE), "handover drop")
                 /\ UNCHANGED <<rwvars, waiters, kern, raw, res, duplock>>
        \/ /\ In(t, "handover drop")
           /\ Only(t, Call(t, ReleaseFrame(f.fdi, TRUE), "unlock"))

(* citp_ep_close. *)
Close(t) == In(t, "close") /\ LockWrite(t) /\ Locking(t, Goto(t, "close entry"))

(* The entry shows closing from here on, and the lock is dropped. *)
Closing(t, fdis, frame) ==
    /\ UnlockWrite(t)
    /\ table' = [table EXCEPT ![Top(t).fd] = fdip_closing]
    /\ fdi' = fdis
    /\ th' = With(t, frame)
    /\ UNCHANGED <<waiters, kern, raw, res, duplock>>

CloseEntry(t) ==
    LET f == Top(t)
        e == table[f.fd]
    IN  /\ In(t, "close entry")
        /\ \/ Sleep(t, f.fd)
           \/ e = fdip_closing /\ Only(t, Goto(t, "unlock"))
           \/ e = fdip_unknown /\ Only(t, Call(t, ProbeFrame(f.fd), "close probed"))
           \/ e = fdip_passthru /\ Closing(t, fdi, [f EXCEPT !.at = "close os"])
           \/ /\ e \in Fdis
              /\ Closing(t, [fdi EXCEPT ![e].rcz = "RCZ_CLOSE"],
                         [f EXCEPT !.at = "using recv", !.fdi = e])

(* After a probe the compare-and-swap of unknown is tried all the same. *)
CloseProbed(t) ==
    LET f == Top(t)
    IN  \/ /\ In(t, "close probed")
           /\ Only(t, IF res[t] = fdip_closing THEN Goto(t, "unlock")
                      ELSE IF res[t] = NULL THEN Goto(t, "close cas")
                      ELSE Call(t, ReleaseFrame(res[t], TRUE), "close cas"))
        \/ /\ In(t, "close cas")
           /\ IF table[f.fd] = fdip_unknown
              THEN Closing(t, fdi, [f EXCEPT !.at = "close os"])
              ELSE Only(t, Goto(t, "close entry"))

(* An O/S file: fdtable_swap to unknown, then the system close. *)
CloseOs(t) ==
    LET fd == Top(t).fd
    IN  \/ /\ In(t, "close os")
           /\ \/ WaitBusy(t, fd)
              \/ /\ table[fd] = fdip_closing
                 /\ table' = [table EXCEPT ![fd] = fdip_unknown]
                 /\ th' = Goto(t, "sysclose os")
                 /\ UNCHANGED <<rwvars, waiters, kern, raw, fdi, res, duplock>>
        \/ /\ In(t, "sysclose os")
           /\ kern' = [kern EXCEPT ![fd] = NoFile]
           /\ th' = Return(t)
           /\ UNCHANGED <<rwvars, table, waiters, raw, fdi, res, duplock>>

(* dup2_complete, for a real fdi or for the dummy of an O/S descriptor. *)
DupDone(t, result) ==
    LET i == Top(t).fdi
    IN  /\ fdi' = IF i = NULL THEN fdi
                  ELSE [fdi EXCEPT ![i].result = result, ![i].rcz = "RCZ_DONE"]
        /\ res' = IF i = NULL THEN [res EXCEPT ![t] = result] ELSE res
        /\ th' = Return(t)
        /\ UNCHANGED <<rwvars, table, waiters, kern, raw, duplock>>

DupComplete(t) ==
    LET f == Top(t)
        e == table[f.from]
    IN  /\ In(t, "RCZ_DUP2")
        /\ \/ WaitBusy(t, f.from)
           \/ e = fdip_closing /\ DupDone(t, EBADF)
           \/ /\ e = fdip_unknown
              /\ IF f.locked THEN UNCHANGED rwvars ELSE LockWrite(t)
              /\ Locking(t, Call(t, ProbeFrame(f.from), "dup2 probed"))
           \/ /\ e \in Fdis \cup {fdip_passthru}
              /\ Own(t, f.from, "dup2 owned")
              /\ UNCHANGED <<rwvars, fdi>>

(* The reference that the probe returned is released after the unlock. *)
DupProbed(t) ==
    LET f == Top(t)
    IN  \/ /\ In(t, "dup2 probed")
           /\ IF f.locked THEN UNCHANGED rwvars ELSE UnlockWrite(t)
           /\ Locking(t, Goto(t, IF res[t] = fdip_closing THEN "dup2 EBADF"
                                 ELSE "dup2 drop"))
        \/ In(t, "dup2 EBADF") /\ DupDone(t, EBADF)
        \/ /\ In(t, "dup2 drop")
           /\ Only(t, IF res[t] = NULL THEN Goto(t, "dup2 cas")
                      ELSE Call(t, ReleaseFrame(res[t], TRUE), "dup2 cas"))
        \/ /\ In(t, "dup2 cas")
           /\ IF table[f.from] = fdip_unknown
              THEN Own(t, f.from, "dup2 owned") /\ UNCHANGED <<rwvars, fdi>>
              ELSE Only(t, Goto(t, "RCZ_DUP2"))

(* ci_sys_dup3 replaces the file at tofd; then tofd reads unknown, and      *)
(* fromfd what it was.                                                      *)
DupSys(t) ==
    LET f == Top(t)
    IN  \/ /\ In(t, "dup2 owned")
           /\ IF kern[f.from] = NoFile
              THEN Clear(t, f.from, f.seen, Goto(t, "dup2 EBADF")) /\ UNCHANGED kern
              ELSE /\ kern' = [kern EXCEPT ![f.fd] = kern[f.from]]
                   /\ th' = Goto(t, "dup2 to")
                   /\ UNCHANGED <<rwvars, table, waiters>>
           /\ UNCHANGED <<raw, fdi, res, duplock>>
        \/ /\ In(t, "dup2 to")
           /\ Clear(t, f.fd, fdip_unknown, Goto(t, "dup2 from"))
           /\ UNCHANGED <<kern, raw, fdi, res, duplock>>
        \/ /\ In(t, "dup2 from")
           /\ Clear(t, f.from, f.seen, Goto(t, "dup2 ok"))
           /\ UNCHANGED <<kern, raw, fdi, res, duplock>>
        \/ In(t, "dup2 ok") /\ DupDone(t, OK)

(* citp_ep_dup3: probe fromfd, take citp_dup_lock, make tofd busy. *)
Dup2(t) ==
    LET f == Top(t)
    IN  \/ /\ In(t, "dup2")
           /\ IF table[f.from] = fdip_unknown
              THEN LockWrite(t) /\ Locking(t, Call(t, ProbeFrame(f.from), "dup2 pre"))
              ELSE Only(t, Goto(t, "dup2 lock"))
        \/ /\ In(t, "dup2 pre")
           /\ Only(t, IF res[t] \notin Fdis THEN Goto(t, "dup2 unlock")
                      ELSE Call(t, ReleaseFrame(res[t], TRUE), "dup2 unlock"))
        \/ /\ In(t, "dup2 unlock") /\ UnlockWrite(t)
           /\ Locking(t, Goto(t, "dup2 lock"))
        \/ /\ In(t, "dup2 lock") /\ duplock = NOONE /\ LockWrite(t)
           /\ duplock' = t
           /\ th' = Goto(t, "dup2 entry")
           /\ UNCHANGED <<table, waiters, kern, raw, fdi, res>>

(* A closing tofd is waited for by giving the lock up and taking it again;  *)
(* a tofd that is a user-level socket is replaced by whoever drops its last *)
(* reference, and the caller spins until that is done.                      *)
Dup2To(t) ==
    LET f == Top(t)
        e == table[f.fd]
    IN  \/ /\ In(t, "dup2 entry")
           /\ \/ Sleep(t, f.fd)
              \/ e = fdip_closing /\ UnlockWrite(t) /\ Locking(t, Goto(t, "dup2 relock"))
              \/ /\ e \in Fdis \cup {fdip_unknown, fdip_passthru}
                 /\ UnlockWrite(t)
                 /\ Own(t, f.fd, IF e \in Fdis THEN "dup2 release" ELSE "dup2 os")
                 /\ UNCHANGED fdi
        \/ In(t, "dup2 relock") /\ LockWrite(t) /\ Locking(t, Goto(t, "dup2 entry"))
        \/ /\ In(t, "dup2 release")
           /\ fdi' = [fdi EXCEPT ![f.seen].rcz = "RCZ_DUP2", ![f.seen].from = f.from]
           /\ th' = Call(t, ReleaseFrame(f.seen, FALSE), "dup2 spin")
           /\ UNCHANGED <<rwvars, table, waiters, kern, raw, res, duplock>>
        \/ /\ In(t, "dup2 os")
           /\ Only(t, Call(t, [Frame("RCZ_DUP2", f.fd) EXCEPT !.from = f.from], "dup2 ret"))

(* A failed dup puts tofd back as it was. *)
Dup2End(t) ==
    LET f == Top(t)
    IN  \/ /\ In(t, "dup2 spin") /\ fdi[f.seen].rcz = "RCZ_DONE"
           /\ IF fdi[f.seen].result = OK
              THEN /\ fdi' = [fdi EXCEPT ![f.seen].live = FALSE]
                   /\ th' = Goto(t, "dup2 out")
                   /\ UNCHANGED <<rwvars, table, waiters>>
              ELSE /\ fdi' = [fdi EXCEPT ![f.seen].refs = 1, ![f.seen].rcz = "NONE"]
                   /\ Clear(t, f.fd, f.seen, Goto(t, "dup2 out"))
           /\ UNCHANGED <<kern, raw, res, duplock>>
        \/ /\ In(t, "dup2 ret")
           /\ IF res[t] = OK
              THEN Only(t, Goto(t, "dup2 out"))
              ELSE /\ Clear(t, f.fd, f.seen, Goto(t, "dup2 out"))
                   /\ UNCHANGED <<kern, raw, fdi, res, duplock>>
        \/ /\ In(t, "dup2 out")
           /\ duplock' = NOONE
           /\ th' = Return(t)
           /\ UNCHANGED <<rwvars, table, waiters, kern, raw, fdi, res>>

(* The kernel gives a new file the lowest free descriptor. *)
FreeFds == {fd \in Fds : kern[fd] = NoFile}
NewFd == CHOOSE fd \in FreeFds : \A other \in FreeFds : fd <= other

(* citp_fdtable_new_fd_set: the entry may still show the end of a close. *)
NewFdSet(t) ==
    LET f == Top(t)
    IN  /\ In(t, "new fd")
        /\ \/ WaitBusy(t, f.fd)
           \/ /\ table[f.fd] \notin {fdip_busy, fdip_closing}
              /\ table' = [table EXCEPT ![f.fd] = f.seen]
              /\ th' = Return(t)
              /\ UNCHANGED <<rwvars, waiters, kern, raw, fdi, res, duplock>>

(* socket(): the kernel's descriptor exists, NOT_READY, before its entry is *)
(* marked busy.                                                             *)
Socket(t) ==
    LET f == Top(t)
        used == {kern[fd] : fd \in Fds} \cup {fdi[i].file : i \in Fdis}
        file == CHOOSE n \in Sockets \ used : TRUE
    IN  \/ /\ In(t, "socket")
           /\ IF FreeFds = {}
              THEN Only(t, Return(t))
              ELSE /\ kern' = [kern EXCEPT ![NewFd] = file]
                   /\ raw' = raw \cup {file}
                   /\ th' = [th EXCEPT ![t] =
                               <<[Frame("new fd", NewFd) EXCEPT !.seen = fdip_busy],
                                 [Frame("insert", NewFd) EXCEPT !.from = file]>> \o Tail(@)]
                   /\ UNCHANGED <<rwvars, table, waiters, fdi, res, duplock>>
        \/ /\ In(t, "insert") /\ (\E i \in Fdis : FreeFdi(i))
           /\ fdi' = [fdi EXCEPT ![NewFdi] = Fdi(f.fd, 1, f.from)]
           /\ raw' = raw \ {f.from}
           /\ Clear(t, f.fd, NewFdi, Return(t))
           /\ UNCHANGED <<kern, res, duplock>>

(* citp_ep_dup, which makes oldfd busy for the time of the system call. *)
Dup(t) ==
    LET f == Top(t)
        e == table[f.fd]
    IN  /\ In(t, "dup")
        /\ \/ WaitBusy(t, f.fd)
           \/ e = fdip_closing /\ Only(t, Return(t))
           \/ /\ e = fdip_unknown /\ LockWrite(t)
              /\ Locking(t, Call(t, ProbeFrame(f.fd), "dup probed"))
           \/ /\ e \in Fdis \cup {fdip_passthru}
              /\ Own(t, f.fd, "dup owned")
              /\ UNCHANGED <<rwvars, fdi>>

DupKnown(t) ==
    LET f == Top(t)
    IN  \/ /\ In(t, "dup probed") /\ UnlockWrite(t)
           /\ Locking(t, Goto(t, IF res[t] = fdip_closing THEN "done" ELSE "dup drop"))
        \/ /\ In(t, "dup drop")
           /\ Only(t, IF res[t] = NULL THEN Goto(t, "dup cas")
                      ELSE Call(t, ReleaseFrame(res[t], TRUE), "dup cas"))
        \/ /\ In(t, "dup cas")
           /\ IF table[f.fd] = fdip_unknown
              THEN Own(t, f.fd, "dup owned") /\ UNCHANGED <<rwvars, fdi>>
              ELSE Only(t, Goto(t, "dup"))
        \/ /\ In(t, "dup owned")
           /\ IF FreeFds = {} \/ kern[f.fd] = NoFile
              THEN Only(t, Goto(t, "dup clear"))
              ELSE /\ kern' = [kern EXCEPT ![NewFd] = kern[f.fd]]
                   /\ th' = Call(t, [Frame("new fd", NewFd) EXCEPT !.seen = fdip_unknown],
                                 "dup clear")
                   /\ UNCHANGED <<rwvars, table, waiters, raw, fdi, res, duplock>>
        \/ /\ In(t, "dup clear")
           /\ Clear(t, f.fd, f.seen, Return(t))
           /\ UNCHANGED <<kern, raw, fdi, res, duplock>>

(* A thread that makes no more calls exits. *)
Exit(t) == th[t] = <<>> /\ ThreadExit(t) /\ UNCHANGED fdvars

FdStep(t) ==
    \/ LockStep(t) /\ UNCHANGED fdvars
    \/ BusyWait(t) \/ ClearSlow(t) \/ Unlock(t)
    \/ Release(t) \/ RczClose(t) \/ SysClose(t) \/ Closed(t) \/ Free(t) \/ DoHandover(t)
    \/ Probe(t) \/ Probed(t) \/ Lookup(t) \/ Looked(t)
    \/ Begin(t) \/ Found(t) \/ EndUse(t) \/ Done(t)
    \/ Poll(t) \/ PollEntry(t) \/ PollEnd(t) \/ EpollWait(t) \/ Handover(t)
    \/ Close(t) \/ CloseEntry(t) \/ CloseProbed(t) \/ CloseOs(t)
    \/ DupComplete(t) \/ DupProbed(t) \/ DupSys(t) \/ Dup2(t) \/ Dup2To(t) \/ Dup2End(t)
    \/ NewFdSet(t) \/ Socket(t) \/ Dup(t) \/ DupKnown(t)

Finished ==
    /\ \A t \in Threads : th[t] = <<>> /\ Out(t)
    /\ UNCHANGED vars

Next == (\E t \in Threads : FdStep(t) \/ Exit(t)) \/ Finished

(* Descriptors with the entries tab and the files files; each thread is     *)
(* about to make the calls calls[t], one after the other.                   *)
FdInit(calls, tab, files) ==
    /\ LockInit
    /\ table = tab /\ kern = files
    /\ waiters = [fd \in Fds |-> {}]
    /\ raw = {} /\ duplock = NOONE
    /\ fdi = [i \in Fdis |->
                IF \E fd \in Fds : tab[fd] = i
                THEN LET fd == CHOOSE n \in Fds : tab[n] = i IN Fdi(fd, 1, files[fd])
                ELSE [Fdi(0, 0, NoFile) EXCEPT !.live = FALSE]]
    /\ th = calls
    /\ res = [t \in Threads |-> NULL]

(* Every thread runs; a mutex is granted to a thread that waits for it,     *)
(* however often others take it meanwhile.                                  *)
Fairness ==
    \A t \in Threads : /\ WF_vars(FdStep(t))
                       /\ SF_vars(TakeWriteLock(t) /\ UNCHANGED fdvars)

Frames(t) == {th[t][k] : k \in DOMAIN th[t]}

(* Frames in which the thread uses the fdi, and so needs it to exist. *)
Using == {"using recv", "using handover", "using epoll", "handover entry",
          "handover drop", "release", "polling"}

(* An fdi is freed only when nobody can reach it any more: a thread in a    *)
(* call on it, a poll that looks at it under the read lock without a        *)
(* reference, and a table entry find it allocated and referenced.  When all *)
(* calls have returned, no fdi is left but the entries' own, referenced     *)
(* once.                                                                    *)
FdisSound ==
    /\ \A t \in Threads : \A f \in Frames(t) :
         /\ f.at \in Using /\ f.fdi # NULL => fdi[f.fdi].live /\ fdi[f.fdi].refs > 0
         /\ f.at = "free" => fdi[f.fdi].live /\ fdi[f.fdi].refs = 0
    /\ \A fd \in Fds :
         table[fd] \in Fdis => fdi[table[fd]].live /\ fdi[table[fd]].refs > 0
    /\ (\A t \in Threads : th[t] = <<>>) =>
         \A i \in Fdis : fdi[i].live => fdi[i].refs = 1 /\ table[fdi[i].fd] = i


(* Every call returns: no thread waits for ever for a busy entry, for a     *)
(* closing one, for the lock or for the last reference.                     *)
EveryCallReturns == \A t \in Threads : <>(th[t] = <<>>)
=============================================================================
