# Onload: TLA+ models and proofs

Onload is a user-level TCP/IP stack. A *stack* lives in memory shared between the processes that use it and the kernel driver. Every thread that touches a stack, in an application, in a system call, in a softirq or on a workqueue, is at once a client of the stack and the one who does the stack's work. There is no server thread: what one thread finds it cannot do, because somebody else holds a lock or because it is in the wrong context, it leaves as a flag, a list or a counter for another. This project models that cooperation, which is the part of Onload that tests reach least, and proves the locks and the lock-free list it rests on.

Paths below are relative to `src/src/` of the repository.

## 1. The system and its parts

Sizes are lines of C and headers.

| Part | Where | Lines | Here |
|---|---|---|---|
| User-level lock with a work queue (`oo_wqlock`) | `lib/transport/unix/wqlock.c`, `include/onload/ul/wqlock.h` | 0.3k | `WqLock`, proofs |
| Shared stack lock (`ci_eplock`) | `include/onload/eplock.h`, `lib/transport/ip/eplock_slow.c`, `lib/efthrm/eplock_resource_manager.c` | 0.6k | `EpLock`, proofs |
| Trusted lock, unlock callback, workqueue, destruction of a stack | `lib/efthrm/tcp_helper_resource.c` | 8.8k | `StackLocks` (locks and hand-over) |
| Socket lock, sleeping, wakeups | `lib/efthrm/tcp_helper_sleep.c`, `lib/transport/ip/tcp_sleep.c`, `netif_event.c` (post-poll list), `tcp_helper_linux.c` | 1.5k | `SockSleep`, proofs |
| Deferred socket work, TCP send prequeue, shutdown, orphans | `lib/transport/ip/netif.c`, `tcp_send.c`, `tcp_misc.c`, `tcp_close.c`, `waitable.c` | 2k of 11k | `DeferredSockets` |
| Packet pool, waiting for packets | `netif_pkt.c`, `tcp_sleep.c`, `include/ci/internal/ip.h`, fragments of `udp_send.c` | 1k | `NonbPool`, `AbsPool`, proofs; `PktPool` |
| Reference counts of a stack | `include/onload/tcp_helper_ref.h` | 0.15k | planned |
| `oo_rwlock` | `lib/transport/ip/rwlock.c`, `include/onload/ul/rwlock.h` | 0.5k | `RwLock`, proofs |
| fd table: lookup, probe, close, dup, dup2, handover | `lib/transport/unix/fdtable.c` | 2.3k | `FdTable` |
| Waitable free lists | `waitable.c` | 0.5k | planned |
| IP timer wheel | `iptimer.c` | 0.7k | planned |
| Software filter table | `netif_table.c` | 0.7k | planned |
| TCP state machine, receive and transmit | `tcp_rx.c`, `tcp_tx.c`, `tcp_synrecv.c`, `tcp_connect.c`, `tcp_close.c`, `tcp_timer.c` | 15k | planned in part |
| UDP, pipes | `udp_*.c`, `pipe.c` | 6k | packets of a datagram in `PktPool`; the rest planned in part |
| epoll, poll and select | `lib/transport/unix/epoll_fd.c`, `poll_select.c` | 4.5k | walk over the descriptors in `FdTable`; ready lists planned |
| Hardware filters (oof), clusters, moving endpoints | `lib/efthrm/oof_*.c`, `tcp_helper_cluster.c` | 9k | last |
| Ring buffer, PIO buddy allocator | `ringbuffer.c`, `pio_buddy.c` | 0.4k | planned |
| Control plane | `tools/cplane`, `lib/cplane`, `include/cplane` | 15k | version protocol planned |
| ef_vi | `lib/ciul`, `include/etherfabric` | 17k | no: the other side is hardware |
| Resource managers | `lib/efhw`, `lib/efrm`, `driver/linux_resource`, `driver/linux_char` | 30k | no: hardware programming |
| Network driver | `driver/linux_net` | 117k | no |
| Interception, option parsing, tools, debug output | `lib/transport/unix`, `tools`, `lib/citools`, `lib/ciapp` | 30k | no: dispatch and formatting |

`PROJECT.json` has the list with a reason for each part that is left out, and the hazards of the code at the lines where they bite.

How the modelled parts interact. Any thread takes the *shared lock* to touch a stack; the kernel takes its *trusted lock* first. Whoever fails to lock leaves a flag in the word of one of them. TCP calls that only add work for one socket do not wait: they put data on the socket's *prequeue* and link the socket into a list whose head is a bit field of the shared lock word. The holder finds all of it in the slow path of its unlock. A thread that needs something to *happen* sleeps on its socket and is woken by whoever polls the stack, at the latest in that same unlock. `epoll` sets have a lock of their own, `oo_wqlock`, on the same principle. Packet buffers are shared by everyone: threads without the lock take them from a lock-free list and leave the accounting to the next holder; when there are none they sleep until an unlock finds that some have come back. Before any of this, an intercepted call has to find out what its descriptor is: the *fd table* of the process, changed by compare-and-swap, with a reader-writer lock that `poll` holds to keep descriptors from being closed under it.

```
   application threads                        softirq / syscalls / timers
        |                                            |
   fd table, oo_rwlock                        trusted lock --> workqueue, destructor
   (FdTable on RwLock)                               |             (StackLocks)
        |            \                               |
        |         oo_wqlock (WqLock)                 |
        v         of an epoll set                    |
   shared stack lock (EpLock) <----------------------+
        |                    |                       |
   deferred sockets,    packet pool, packet     post-poll list, sleep_seq,
   prequeue             waiters                 socket lock
   (DeferredSockets)    (PktPool on NonbPool)   (SockSleep)
```

Each module abstracts its neighbours to what its own properties can tell apart. `PktPool` composes with `NonbPool`, and `FdTable` with `RwLock`, by extending them: each of their steps is a step of the part or leaves it alone, so what is proved of the part holds in the whole (`pkts` checks this as the property `PoolSpec`; TLC confirmed the same of `LockSpec` and the casts of `fdtable`). `SockSleep`, `DeferredSockets` and `PktPool` reduce the stack lock to its owner and the flags they use, relying on the mutual exclusion and the lossless flags that `EpLock` and `StackLocks` establish; `StackLocks` leaves the sleepers of the shared lock to `EpLock`.

## 2. Modules

A read of a word together with the compare-and-swap that validates it is one step: a failed swap goes round its loop, which is a step that changes nothing. `NonbPool`, where the swap may succeed on a word that has changed and changed back, has them as two. Flag words are sets of flag names. A plain access to a shared word is a step of its own. `Quiet` is the step of a system in which nobody is inside a call, so a state in which somebody is inside and nobody can move is a deadlock, which TLC reports. Only `pkts` does not check it: a sender may really wait for packets that nobody is going to free.

### `WqLock` (`wqlock.c`, `wqlock.h`)

State: the lock bits and the list of work that share one word (`bits`, `work`), the mutex and condition variable, and per thread the program point, its work item and the list it is draining. Actions: `TryLock`, `LockSlow` and its steps down to `pthread_cond_wait`, `DeferCall`/`TryQueue` (`oo_wqlock_lock_or_queue` as `epoll_ctl` uses it), `DrainInCrit`, `WorkDo`, and the fast and slow unlock with its mutex-then-broadcast interlock (bug 66816). Spurious wakeups are possible. `order` and `ran` are history.

### `EpLock` (`eplock.h`, `eplock_slow.c`, `eplock_resource_manager.c`, unlock paths of `netif.c` and `tcp_helper_resource.c`)

One flag stands for each way the unlock paths treat flags: handled at both levels under the lock (`NEED_POLL`, `PRIME_IF_IDLE`), in the kernel under the lock (`NEED_WAKE`), in the kernel after the lock is dropped or at user level under it (`NEED_PRIME`). Actions: the lock calls with spin, request, sleep, signal and timeout; `SetFlagsIfLocked`; the user-level unlock (`UlClear`, `UlWork`, `UlFlags`, `UlTry`) and the kernel's (`KUnlock`, `KClear`, `KWork`, `KFlags`, `KTry`, `AfterPrime`, `AfterWake`). `owed` is the history of work asked for and not yet done.

### `StackLocks` (`tcp_helper_resource.c`, `tcp_helper_linux.c`)

Both lock words, `trs_aflags`, the two work items, `CI_NETIF_FLAG_IN_DL_CONTEXT`, and the list of endpoints to be closed. Agents are softirqs (interrupts, OS socket callbacks), application threads, kernel threads of the timer and of reset work, the workqueue and the destructor. Actions follow `oo_trusted_lock_drop` (`Drop*`), `efab_tcp_helper_netif_lock_callback` (`Cb*`), `efab_eplock_unlock_and_wake`, `tcp_helper_do_non_atomic`, `tcp_helper_rm_free` and `efab_tcp_helper_rm_free_locked` (`Fl*`). A process may die with the shared lock (`Crash`). Configuration: kernel without `CI_CFG_UL_INTERRUPT_HELPER`. The lists that `tcp_helper_do_non_atomic` walks for single endpoints are not in the model.

### `SockSleep` (`tcp_helper_sleep.c`, `tcp_sleep.c`, `sleep.h`, `netif_event.c`, `waitable.c`, `tcp_helper_linux.c`)

One socket, its lock word, `sleep_seq`, `sb_flags`, `wake_request`, its place on the post-poll list and its wait queue, shared by sleepers for readiness and for the socket lock. Receivers hold the socket lock, senders hold nothing and connectors hold the stack lock when they decide to sleep. Wakers: polls at user level, in the kernel and in softirqs, wakes outside a poll, the unlock path, the workqueue, and callbacks of the OS socket, which run under no lock. The increments of `sleep_seq` are a read and a write. `oo_avoid_wakeup_from_dl()` is taken to be true. Left out: the ready lists of epoll.

### `DeferredSockets` (`netif.c:862-1003`, `tcp_send.c`, `tcp_misc.c`, `tcp_close.c`, `waitable.c`)

The deferred list as it is (head in the lock word, links in the sockets), the `DEFERRED` bits, `defer_work_count`, the request flags, prequeue and send stream of each socket, and the calls that use them: `send()` with and without the lock and when it blocks, `shutdown()`, window updates, resets, and the closing of the last descriptor. Waiting for the lock is one step. A chunk of data is a thread and a number; the send queue is everything ever enqueued, so that order can be stated. Left out: `SHUT_RD`, `MSG_MORE` and the refilling of a partly filled tail packet, zero-copy and delegated sends, the UDP async queue, and what follows orphaning. `defer_work_count` is counted up to the limit, beyond which its value makes no difference.

### `NonbPool`, `AbsPool` and `PktPool` (`netif_pkt.c`, `ip.h`, `tcp_sleep.c`, `udp_send.c`, unlock paths)

`NonbPool` is the pool that threads use without the stack lock: a list linked through the packets, whose head shares a 64-bit word with a generation. A pop reads the word, reads the link of the first packet, which another thread may be changing, and swaps; only a push raises the generation. The generation is a natural number in the model: its 32 bits are taken not to wrap between a read and its swap. `AbsPool` is what the pool promises, a stack of packets in which a pop or a push of a list is one step.

`PktPool` extends `NonbPool` by the rest of the life of a packet: allocation under the lock and without it (`ci_netif_pkt_alloc_block`), stealing from the pool, the fragments of a datagram and their release when a later one cannot be had, the free of a packet with and without the lock, `n_async_pkts` with its atomic part and the flag that asks the holder to merge it, the packets left in `tx_async_q`, the wait for packets of a user-level and of a kernel thread with its signals, and the unlock that wakes the waiters. The periodic timer polls: sent packets come back, receive rings are filled. Left out: mapping more packet sets, the limits of a memory crisis, the turn limit of `ci_netif_set_merge_atomic_flag`, the softirq form of the kernel agents.

### `RwLock` (`rwlock.c`, `rwlock.h`)

Readers that have registered enter and leave with one swap of their own flags; a writer raises a bit, evicts the readers that are not in their section and waits for the others. Each section under the internal mutex is one step; so is each access outside it. `CondWait` gives up the write mutex and not the lock, so a thread asleep in it keeps readers out. The two `try` forms have no caller and are left out.

### `FdTable` (`fdtable.c`, parts of `epoll_fd.c`, `poll_select.c`, `sockcall_intercept.c`, `tcp_fd.c`)

The table of descriptors (unknown, pass-through, busy, closing or a `citp_fdinfo`), the reference counts, flags and `on_ref_count_zero` of the `citp_fdinfo`s, the waiters of a busy entry, and the files the kernel has at each number. A thread has a stack of the calls it is in, and every access to an entry is a step. Calls: lookup and release as every intercepted call does them, the probe of an unknown entry, `close`, `dup`, `dup2`, the handover of a socket to the O/S, the creation of a socket, `poll` and the poll of a member of an epoll set under the read lock. The kernel's own `dup`, `dup2` and `close` are single steps and hand out the lowest free number. Configuration: `EF_FDS_MT_SAFE=0`, `EF_FDTABLE_STRICT=0`. Left out: strict mode, cached sockets, moved endpoints, reserved descriptors, growth of the table, fork, duplication of an epoll set, and failure of a handover.

## 3. Runs

| Run | Instance | What it shows |
|---|---|---|
| `wqlock` | 3 threads, 2 work items, 2 calls each | mutual exclusion, no lost wakeup, work runs once, in order, before the lock is free; every call returns |
| `eplock` | 2 user-level threads, a kernel thread, a call or signal each | mutual exclusion, no lost wakeup, no request forgotten; every request is served, every call returns |
| `stacklocks_safety` | 2 softirqs, 2 application threads, a kernel thread, workqueue, destructor, an endpoint | each lock has exactly one owner through every hand-over; no poll, wakeup or pending close without somebody in charge; the trusted word is legal when a stack is freed |
| `stacklocks_live` | one of each agent, interrupt-driven | a stack that nobody uses is freed; pending endpoints are closed |
| `socksleep` | three casts: two receivers and the OS socket as the only counter; a sender, a connector and a softirq whose wakeups go through the workqueue; a receiver between a user-level and a kernel poller; SIGIO | the socket lock is exclusive, no lost wakeup on either side of the shared queue, post-poll list drained; who sleeps on a ready socket wakes up, no call is stuck on the locks |
| `deferred` | two sockets, a sender, a thread that shuts down or updates the window, a lock holder, limit 1 | the deferred list is sound, data keeps its order, FIN is last, accepted data is kept, an unlock leaves nothing behind |
| `pkts` | ten casts of two out of a user-level sender, a kernel sender, a connector and the timer, two packets, datagrams of one or two packets | the lock-free pool is sound and is the abstract pool; no path loses a packet; the accounting done without the lock adds up and is merged; a thread asleep for a packet is woken by the timer's unlock at the latest |
| `fdtable` | 22 casts of three calls on three descriptors | no `citp_fdinfo` is freed while it can be reached, or leaked; the table never shows a socket that the kernel does not have there; readers exclude writers; every call returns |
| `stacklocks_prime`, `socksleep_count`, `deferred_thrown`, `pkts_eintr` | | disagreements of code and comments, section 6 |

**Bounds.** `Budget` bounds the calls, events and signals of an agent, and `Limit` the deferral limit. The races in question need a holder, a thread that decides on an old value and a third that changes it in between, so every instance has at least three agents that can meet. Where a thread must meet what it left behind itself (`wqlock`, a sender in `deferred`) it makes two calls. In `deferred`, limit 1 makes the limited path happen with one deferral; two sockets make the list longer than its head, so that a link is followed. The counters of `sleep_seq` are bounded only by the events.

In `socksleep`, `pkts` and `fdtable` the initial state chooses a *cast*, the agents that take part and what they find, so that one state graph holds several small instances. In `pkts` two packets are enough for a pool whose head is popped, pushed back and popped again below a slow pop, and for a datagram that gets its first packet and not its second. The casts of `fdtable` are those in which closing calls meet each other and users, and in which a number is given out again. Before they were chosen, TLC went through all 1047 combinations of three out of eleven calls on the five kinds of entry, without those of section 6: 1.7 million states without a violation of the invariants or a deadlock. `Fdis` has as many addresses as the calls of a cast can need, so that an address is used again only after it has been freed.

**Symmetry** is used only in `deferred`, over sockets and over senders, and only for invariants.

**Fairness.** All liveness is under weak fairness of `Step(a)` (or `Progress(t)`) of every agent: a thread, softirq or work item inside this code goes on, critical sections end, timers expire. No call, packet, signal or spurious wakeup has to happen. `stacklocks_live` needs one assumption more, `NoLockStepSpec`: an agent that finds the trusted lock ready to be dropped again and again drops it in the end. Without it two agents can pass `CLOSE_ENDPOINT` between the two locks for ever, each failing its swap because of the other (the comment at `tcp_helper_resource.c:7977` is about this ping-pong). The code bounds this only by real time, so it is an assumption on the scheduler and not a result. `fdtable` has weak fairness of every thread, and strong fairness of taking the mutex `write_lock`, for which writers contend: pthread mutexes do not starve a thread for ever in practice, and the code relies on that. In `pkts` the timer keeps firing, since a waiter that sets its flag after the last unlock depends on the timer alone; `TimerWakesWaiters` is therefore claimed of the casts that have a timer.

**Mutants.** Each property is paired in `PROJECT.json` with a mutated definition, written beside the original, under which TLC finds it violated.

## 4. Proofs

The theorems hold for any number of threads and calls. They are in `WqLockProofs`, `EpLockProofs`, `NonbPoolProofs`, `RwLockProofs` and, for `SockSleep`, in `SockSleepTypes`, `SockSleepLocks` and `SockSleepWakeups`, each of these three extending the one before.

`WqLockProofs`, from `BudgetAssumption` (`Budget` is a natural number): `WqLockMutualExclusion`, `WqLockNoLostWakeup`, `WqLockWorkInOrder`, `WqLockFreeMeansAllRan`. Mutual exclusion and the wakeups need each other: that a waiter about to sleep still holds the mutex is what makes the broadcast wait for it. The inductive invariant `IInv` therefore adds to them who holds the mutex at each program point, and that the word has no work or `NEED_WAKE` without `LOCKED`. The order of the work is a second induction on top, over lemmas on how `Reverse` and concatenation commute with pushing and taking the first item.

`EpLockProofs`, from `EpLockAssumption` (user-level and kernel threads are disjoint): `EpLockMutualExclusion`, `EpLockNoLostWakeup`, `EpLockNoRequestForgotten`, `EpLockFreeMeansNothingLeft`. The invariant is `TypeOK /\ Exclusion /\ Wakeups /\ Outstanding`. `Exclusion` ties `LOCKED` to the one thread in a critical section or unlock path, and says that a word without it is empty. `Wakeups` is about sleepers and the flag they left. `Outstanding` says, per program point, what of the flags taken from the word is still in the hand of the thread that took them.

`SockSleepTypes`, `SockSleepLocks` and `SockSleepWakeups`, from `SockSleepAssumption` (an agent has one role; `"none"` is not an agent):

* `TypeCorrect` proves `TypeOK` together with `Roles`, which says which agents run which code and where their calls return to; without it a return could go anywhere.
* `SockLockExcludes` and `SockLockWakes` are one induction (`SockInv`): an unlocked word is empty, so a waiter that finds any bit set has a holder that will see its `NEED_WAKE`.
* `PostPollListDrained` (`PostPollDrained`) needs `Owner`, that the program points under the stack lock belong to its one owner, and `Stages`, what may be on the list at each of them: without `NEED_WAKE` the list is empty whenever the lock is about to be dropped or handed to the workqueue.
* `StackWakesSleepers` (`NoLostWakeup`) assumes `OsEvents = {}`: `sleep_seq` is then written under the stack lock only, and `socksleep_count` shows that the claim is false without such an assumption. The invariant follows a thread to sleep. After it has found the socket not ready, new readiness either changes the counters it has read or is yet to be counted (`Noticed`). Once it has set `wake_request`, it has been woken, the request stands, or somebody who cleared it has yet to wake the queue. Asleep, its wakeup is on its way. `Counting` is what connects the last two: whatever is counted is looked for in `wake_request` afterwards. `Progress` says what a step of any agent does to those who sleep, and is proved once for steps away from the post-poll list (`BystanderProgress`) and once for the owner of the stack lock (`OwnerProgress`).

`NonbPoolProofs`, from `NullIsNoPacket` and `PktsFinite`: `PoolIsSound` (`PoolSound`) and the refinement `PoolIsAStack`, that `PoolSpec` implements `AbsPool` with the ghost `chain` for its stack. The question is a pop that reads the first packet and its link, and then is overtaken: others pop that packet, use it, write its link and push it back, and the slow pop's swap must fail. The inductive invariant `PoolInv` says why it does: if a pop about to swap has read the current generation and its packet is in the pool, then the link it has read is the packet's link (`PopSound`). A packet that leaves the pool can only come back by a push, which raises the generation; so it does not matter that pops leave the generation alone. `PushSound` says that the links of a list about to be pushed spell the list, down to the head that the swap expects. The refinement then takes each swap that succeeds to one `Pop` or `Push`, and every other step of the pool to a stutter.

`RwLockProofs`, from `NooneIsNoThread` and `ThreadsFinite`: `LockExcludes` (`ReadersExcludeWriters`) and `LockWakes` (`SleepersHaveWakers`). In `LockInv` the two counters count (registered readers, pending writers), the writer bit is up whenever a thread depends on it, and a writer past the eviction finds nobody registered. The last is the point of the lock: a reader enters by a swap of its own flags without looking at the writer bit, which is safe only because it must be registered and eviction takes that away. A writer that waits has left registered only readers in or leaving their section, each of which will look for writers after its `READING_NOW` is gone; hence `LockWakes`.

Only model-checked: all liveness (fairness and `ENABLED` are out of the prover's reach), `NoLostWakeup` with OS events alone, and `StackLocks`, `DeferredSockets`, `PktPool` beyond its pool, and `FdTable` beyond its lock.

## 5. How the proofs are laid out

Each step lemma (`TypeStep`, `LockStep`, `ExclusionStep`, `WakeupsStep`, `OutstandingStep`, `OrderStep`) has one case per action. Effects shared by several actions are lemmas of their own: `CommonEffect` says what `ci_netif_unlock_slow_common` may do to the word, and `OutsideKeepsExclusion` what a thread that does not hold the lock may do. In the `SockSleep` modules `Others` says that a step changes the record of the agent that takes it only, so that an invariant of all agents is checked for that agent and framed for the rest (`SockAside`, `OwnerAside`, `OtherSteps`, `SleepingFrame`). In `NonbPoolProofs` facts about lists (`LinkedSpells`, `TailOfChain`, `ListBeforeChain`) come first, so that the lemma of each action is about sets and links only; in `RwLockProofs` `OneMore` and `OneLess` do the same for the counters. The runs check the properties these invariants imply; the strengthening rests on its proof.

## 6. Where the code and its comments disagree

Each of these is a run in which TLC finds the comment's claim violated, with the comment quoted in `PROJECT.json`.

* `stacklocks_prime`: `NEED_PRIME` seen on one turn of the unlock loop in a softirq is kept in a local variable. If the unlock then fails because of a flag that must be deferred, the next turn hands the lock to the work item and the local is dropped (`tcp_helper_resource.c:8022`).
* `socksleep_count`: the callback of the OS socket increments `sleep_seq` without the stack lock (`tcp_helper_linux.c:1231`). An increment lost against a poll lets a thread sleep on a ready socket. For this reason `NoLostWakeup` is claimed when only one kind of agent counts (the casts of `socksleep`), and the run shows it false when both do.
* `deferred_thrown`: `shutdown()` sets `tx_errno` before it takes over the prequeue. A sender that waits for room in between sees the error and frees the prequeue, with data an earlier `send()` reported as sent (`tcp_send.c:1684`). `AcceptedIsKept` therefore excepts what was thrown away so.

* `pkts_eintr`: `ip.h:695` says that `ci_netif_pkt_wait` returns with the stack locked on success if that was asked for. A signal makes the user-level wait `continue` a do-while, which goes to the loop condition; if a packet has been freed by then, the function returns 0 without the lock (`tcp_sleep.c:396`), and `connect()` goes on as if it held it.

Observed while modelling, without a run:

* The destructor decides from two failed trylocks that a process died with the shared lock. A timer or softirq that is still unlocking makes both fail, and a healthy stack is closed ungracefully (`tcp_helper_resource.c:5718`). The comment there names reset work as the only such case.

* In a softirq `PRIME_IF_IDLE` is lost in the same way as `NEED_PRIME` (`tcp_helper_resource.c:8020`).
* `ef_eplock_holder_set_flag` with two flags stops as soon as either is set (`tcp_helper_resource.c:1017`).
* With a limit of 1, three senders on three sockets make a deferred list of 3, more than the `2 * defer_work_limit` of the comment at `netif.c:996`, because the count is tested long before it is incremented. The list cannot be longer than the number of sockets.
* A kernel sender interrupted in the contended path returns with its data on the prequeue; the code says so (`netif.c:931`, bug 78628). The model has the step (`Interrupted`), but no instance makes a sender a kernel thread, so `ProgramOrder` is about senders at user level.
* Two senders that each hold some fragments of a datagram and wait for the last packets wait for each other (`udp_send.c:1293`), until other traffic frees packets. `PktPool` says what a waiter is promised: to be woken when there is a packet.
* The comment at `rwlock.c:125` has the writer bit set before `writers` is incremented; `oo_rwlock_lock_write` increments first (`rwlock.h:252`). The proof uses the order of the code.
* `oo_rwlock_try_write` asserts `l->val == 0` just after it has made sure that `l->val` is `OO_RWLOCK_VAL_WRITER` (`rwlock.h:233`).

The fd table has combinations of calls that are left out of `fdtable`, so that its properties say something about all the others. TLC finds each of them in `FdTable` when it is put back:

* `citp_fdinfo_handover` waits for a busy entry while it holds a reference (`fdtable.c:1523`). Two handovers of one descriptor, or a handover and a `dup2` onto it, wait for each other for ever. `internal.h:421` says that on return the `citp_fdinfo` has been removed from the table.
* The poll of an epoll member spins on a busy entry with the read lock held (`epoll_fd.c:163`). The `dup2` that keeps the entry busy may need the write lock to wait for its own source, and then neither goes on. In the same way `epoll_wait` on a set with member y, `dup2(x,y)` and a third thread asleep until y is no longer busy: a sleeper keeps readers out.
* `citp_ep_dup` and `dup2_complete` release a reference after the unlock and say that the lock is held (`fdtable.c:1825`, `:1921`), against `internal.h:379`. If a close, handover or `dup2` meanwhile dropped the table's reference, the descriptor is closed without the lock.
* Without `EF_FDTABLE_STRICT` the close of an O/S descriptor makes its entry unknown before the system call (`fdtable.c:2259`), the gap that the comment at `:1446` avoids for sockets. A lookup in the gap can leave a `citp_fdinfo` for a closed descriptor.
* A thread that uses a number which another thread's `dup` or `socket` has not returned yet makes the new entry replace one in use; the code logs the orphan and leaks it on purpose (`fdtable.c:1609`).

And two that the model does not reach: a spurious wakeup in `citp_fdtable_busy_wait` would link the waiter twice (`fdtable.c:1694`); and `on_ref_count_zero` is stored after the unlock in `close` (`:2229`), while `citp_fdinfo_handover` asserts that it is set (`:1534`), an assertion of debug builds.

## 7. Not modelled, and the plan

Out of reach or without interleavings of their own: the network driver, `ef_vi` and the resource managers, whose other side is hardware; syncookies, option parsing, dispatch and tools. What is left out inside the modelled parts is said with each module in section 2. The rest, in this order, each as a module with its runs and, where the argument is about any number of threads, proofs:

1. Proofs for `DeferredSockets`: the deferred list, FIN is last, nothing left behind.
2. `ThrRef`: the three reference counts and their release callbacks, as the environment of `StackLocks`' destruction; the list of deferred frees of waitables.
3. An abstract specification of the stack lock (a lock with a set of requests, each served by a later holder), with `EpLock` and `StackLocks` shown to implement it.
4. `FdTable` in strict mode, with fork and with cached sockets.
5. Pure algorithms against reference definitions: `IpTimer` (wheel against a sorted set), `FilterTable` (open addressing against a map), `PioBuddy`.
6. `UdpRecvQ`, `Pipe`, `RingBuffer`, `ReadyList`, `CplaneMib`: single-producer single-consumer protocols.
7. `TcpConn`: connection states of two endpoints over a lossy channel, with close, reset and TIME_WAIT.
8. Filters (oof), clusters and moving endpoints.
