# WinQEMU: a TLA+ verification project

WinQEMU is QEMU 0.14.50 built for Win32 with MSVC.  This project models the
parts of it in which several activities share state (threads, asynchronous
requests, callbacks, timers, failing I/O, crashes), checks the models with TLC on small instances,
and proves their central safety properties with TLAPS for every value of the
constants.  Paths below are relative to `src/`.

## 1. Inventory

| Component | State it keeps | Operations | Interacts with | What is hard |
|---|---|---|---|---|
| Win32 mutexes and condition variables (`qemu/qemu-thread-win32.c`) | owner; waiters, target, semaphore, event | lock, trylock, unlock, wait, signal, broadcast | every threaded part | unlocked decrements, a three-object rendez-vous |
| VNC encoding worker (`qemu/ui/vnc-jobs-async.c`) and the VNC server (`qemu/ui/vnc.c`) | job queue, client list, output buffers, server surface, three kinds of lock | queue, join and run jobs; connect, disconnect, refresh, resize, copy, read, write | threads, main-loop timers, sockets | two threads, lifetime of clients, lock order |
| QED driver (`qemu/block/qed*.c`) | header flag, L1 table, L2 cache with reference counts, queue of allocating writes, timer, requests | read, write, the timer's chain, open, close, check | block layer, AIO, timers | interleaved callback chains, errors halfway, cache eviction, crash recovery |
| Block layer (`qemu/block.c`) | drive list, emulated AIO | read, write, flush, multiwrite merge | drivers, devices | merging requests, callbacks from submission |
| Bottom halves and AIO wait (`qemu/async.c`, `qemu/aio.c`) | list of BHs, AIO contexts, handlers | schedule, cancel, delete, poll, wait | everything asynchronous | lists changed from callbacks, nested waits |
| Main loop, timers, clocks (`qemu/vl.c`, `qemu/qemu-timer.c`) | sorted timer lists, handlers | mod, del, run | everything | timers changed by callbacks |
| qcow2 driver (`qemu/block/qcow2*.c`) | L2 and refcount caches with dependencies | read, write, allocate, snapshot | block layer | write ordering of metadata |
| Packet queues and network clients (`qemu/net/queue.c`, `qemu/net.c`) | packets, a `delivering` flag; peers, links, `receive_disabled` | send, append, purge, flush; set link, delete | NICs, network back ends, monitor | re-entrant delivery, refusals, clients deleted under their peers |
| TAP-Win32 adapter (`qemu/net/tap-win32.c`) | two linked lists of buffers, three semaphores, one overlapped write | read (a thread), send, write | network queues, TAP driver | two threads on linked lists, buffers running out |
| Migration, savevm (`qemu/migration*.c`, `qemu/buffered_file.c`, `qemu/savevm.c`, `qemu/arch_init.c`, `qemu/block-migration.c`) | state of the migration, two output buffers, dirty bitmap, suspended monitor | migrate, cancel, set speed, put, flush, tick, notify, complete, close | sockets, RAM, guest, monitor, disks | rate limit, a frozen socket, errors at every send, who frees what |
| Virtio rings (`qemu/hw/virtio.c`) | ring indices | pop, push, notify | guest, devices | index wrap-around, lost notification |
| Interrupt controllers and PC devices (`qemu/hw`) | registers | port reads and writes | CPU | priority and edge rules |
| Translator and CPU (`qemu/translate-all.c`, `qemu/cpu-exec.c`, `qemu/exec.c`, `qemu/target-*`) | translated blocks | translate, chain, invalidate | everything | out of reach of a model checker |
| Monitor, QMP, slirp, other image formats, VNC encodings and TLS, character devices, SDL, audio | various | various | | sequential code, vendored code or host I/O |

Vendored libraries (gnutls, SDL, zlib, fmod) are not part of the inventory.
`qemu-thread-posix.c`, `posix-aio-compat.c` and `vnc-jobs-sync.c` are in the
tree but not in this build, and `CONFIG_IOTHREAD` is off: outside the VNC
worker, one thread runs the guest, the devices and the event loop.

What makes each modelled component correct:

* **Condition variable**: nobody misses a wake-up meant for it, nobody takes one
  meant for an earlier waiter, nothing is left over, signalling returns.
* **VNC worker**: a client is freed only when the worker is done with it,
  messages are not torn, the surface does not move under the encoder, the main
  loop never waits for ever, closed clients go away.
* **QED**: allocating writes run one at a time; each cluster is referenced once;
  a cache entry is neither freed early nor leaked; an acknowledged write stays
  readable; the file is marked dirty while its tables change, and clean
  afterwards; every request is answered.

* **QED after a crash**: the opened image has no dangling or doubly used cluster, and
  holds what the guest was promised.
* **Bottom halves**: what is scheduled runs; a walk of the list survives what
  callbacks do to it; a synchronous request sees no callback begun before it, and returns.
* **Packet queues**: order, no loss without a reason, one callback for each refused send,
  no handler entered twice or after its client is gone.
* **TAP-Win32**: buffers and semaphores agree; frames arrive once, in order.
* **Migration**: the guest runs in one place, with its memory, or where it was; status,
  monitor and handlers tell the truth.

`PROJECT.json` lists every hazard with the source line where it bites.

## 2. Modules

    CondVar          abstract condition variable
    Win32Thread      the Win32 implementation; instantiates CondVar (Refines)
    MCWin32Thread    callers that use one kind of wake-up, for TLC
    Win32ThreadProofs   proofs about Win32Thread
    VncJobs          VNC worker and server; takes its queue lock and condition
                     from Win32Thread (Q == INSTANCE Win32Thread)
    MCVncJobs        symmetry for TLC
    VncJobsProofs    proofs about VncJobs
    Qed              QED driver
    MCQed            extents and symmetry for TLC
    QedProofs        proofs about Qed
    QedCrash         QED image under crashes: open, check, write, flush, close
    MCQedCrash       modes for TLC
    QedCrashProofs   proofs about QedCrash
    AsyncContext     bottom halves, async contexts, emulated block I/O
    AsyncContextProofs  proofs about AsyncContext
    NetQueue         packet queues, network clients, virtio-net's and slirp's use of them
    MCNetQueue       topologies for TLC
    NetQueueProofs   proofs about NetQueue
    TapWin32         TAP-Win32 adapter
    TapWin32Proofs   proofs about TapWin32
    Migration        outgoing live migration
    MigrationProofs  proofs about Migration

An operator whose comment begins with "Mutant:" is no part of a specification: it is the
faulty version of the operator defined after it that `PROJECT.json` names.

### Win32Thread (`qemu/qemu-thread-win32.c`)

| Model | Code |
|---|---|
| `owner` | `QemuMutex.owner`; the CRITICAL_SECTION is free iff it is `None` |
| `waiters`, `target`, `sema`, `cont` | the fields of `QemuCond` and the state of its two Win32 objects |
| `cpc[t]`, `tmp[t]` | where thread t stands in a library call, and the register holding a loaded value |

Every load, store and Win32 call is a step.  `cond->waiters++` is a load and a
store; the interlocked decrement and the load of `target` it is compared with
are two steps, in the order the compiler emits for `InterlockedDecrement(...)
== cond->target`.  The callers are the most general ones that obey the
comments: they hold the mutex when they wait, signal or broadcast.  Creating
threads and destroying objects, which only allocate and free, are left out.

`CondVar` says what callers may rely on: grants (`quota`) are given to threads
already waiting and are all delivered before the mutex is released.  The
mapping takes `wait_sema` for waiting, the steps after it for woken, and the
semaphore's count for the grants not yet delivered.

### VncJobs (`qemu/ui/vnc-jobs-async.c`, `qemu/ui/vnc.c`)

| Model | Code |
|---|---|
| `jobs` | `queue->jobs`: each job is a client and its number of rectangles |
| `owner` ... `tmp` | `queue->mutex`, `queue->cond` (module Win32Thread) |
| `dlock`, `olock` | `VncDisplay.mutex`, `VncState.output_mutex` |
| `cl[c]` | live (allocated and listed), `csock # -1`, `abort`, `need_update`, `force_update`, some dirty bit, the output buffer |
| `timer` | `vd->timer` exists |
| `stk` | call stack of the main loop's thread |
| `wpc`, `job`, `local` | the worker: its position, its job, whether its local `VncState` was filled in |

Each step is what a thread does between two operations the other thread can
see.  Main-loop events (`Tick`, `Resize`, `BitBlt`, connect, readable and
writable sockets) push a frame; the frames run `vnc_refresh`,
`vnc_update_client`, `vnc_dpy_resize`, `vnc_dpy_copy`, `vnc_abort_display_jobs`,
`vnc_disconnect_finish`, `vnc_jobs_join`, `vnc_flush` and so on to the end
before the next event.  An output buffer is a sequence of pieces: a whole message, or the
head and the rest of one written with several calls.

Left out: pixels and encodings; the handshake (a client is connected once it
is past it); audio capture messages; `vnc_stop_worker_thread`, which nothing
calls.  `vnc_disconnect_start` is one step.

### Qed (`qemu/block/qed.c`, `qed-table.c`, `qed-cluster.c`, `qed-l2-cache.c`)

| Model | Code |
|---|---|
| `need_check`, `disk_check` | `QED_F_NEED_CHECK` in memory and in the file's header |
| `l1`, `disk_l1`, `disk_l2`, `data`, `file_size` | L1 table in memory; tables and data in the file; the next free offset |
| `ent`, `cache` | `CachedL2Table` objects (offset, table, references); `l2_cache.entries` |
| `acb[r]` | `QEDAIOCB`: kind, range, position, current cluster, entry held, result, data read |
| `queue`, `plugged`, `timer` | `allocating_write_reqs`, its plug, the need-check timer |
| `io[a]` | the I/O that request a, or the timer's chain, waits for, and its outcome |
| `run` | the call in progress: all calls between these functions are tail calls |
| `abort` | the assertion that failed |

An action is one function of the driver with the helpers it calls.  A callback
chain runs to the next I/O without interruption, because only the event loop
starts another one.  `HostIo` (external) carries out a pending I/O and picks
its result; the callback runs later, in any order.  The Win32 build emulates AIO
(the I/O happens at submission, its callback from a bottom half), which is one of
the orders allowed here.  The file is never shorter than a write that
succeeded, and there is no volatile cache: crashes are the subject of QedCrash.

Data is abstracted to who wrote a sector.  Tables fit a sector, so `qed_write_table`
writes the entries it was given in one I/O.  `Clusters` keeps the code's
division by `cluster_size - 1`.  Reading an entry after its `free()` is a choice
between the old content and something else (`FreedReads`).  The need-check timer
may fire whenever it is pending.

### QedCrash (`qemu/block/qed.c`, `qed-check.c`, `qed-table.c`)

| Model | Code |
|---|---|
| `img`, `stable`, `cached` | the image file as QEMU sees it, what storage holds, writes not flushed yet |
| `need_check`, `l1`, `file_size`, `cur` | the driver's state in memory |
| `pc`, `req` | the step of the one request, of `bdrv_qed_open` or of `bdrv_qed_close` |
| `guest`, `may` | what the guest must read now, and may read after a crash |

Every write to the file is a step, and `Crash` may come between any two; in a mode with
a volatile cache any subset of the cached writes is lost.  One request runs at a time:
`AllocatingWritesSerial`, proved for Qed, is what justifies that for metadata.  `FixTable`,
`FixL1`, `Checked` and `ClearAfterCheck` are `qed_check` split at its writes; `used_clusters`
and `Corruptions` follow its bitmap.  A repair may be interrupted and started again.

### AsyncContext (`qemu/async.c`, `qemu/aio.c`, `qemu/block.c`)

| Model | Code |
|---|---|
| `contexts` | the chain of `AsyncContext`s, each with its list `first_bh` |
| `scheduled`, `idle`, `deleted` | the flags of `QEMUBH` |
| `stack` | the calls in progress: `qemu_bh_poll` with its saved `next`, a synchronous request, `qemu_aio_flush` |
| `done` | `async_ret != NOT_DONE` |

The emulation of AIO in `block.c` is the user: `bdrv_aio_rw_vector` creates and schedules a bottom
half for each request, `bdrv_read_em` pushes a context and waits.  Devices schedule, cancel
and delete theirs from the main loop or from callbacks.  On a Windows host nothing
registers an AIO descriptor, so `qemu_aio_wait` is a poll.

### NetQueue (`qemu/net/queue.c`, `qemu/net.c`, `qemu/hw/virtio-net.c`)

| Model | Code |
|---|---|
| `queue`, `delivering` | `NetQueue`, one for each client of a pair or one for the VLAN (`Hub`) |
| `disabled`, `link_down` | `receive_disabled`, `link_down` |
| `waiting` | `async_tx.elem.out_num`, or the TAP's `read_poll` off: awaits its callback |
| `owes` | the client has arranged to be woken and to flush |
| `stack` | nested calls of `qemu_net_queue_send` and `_flush` |
| `peers`, `order` | clients not yet freed, clients not yet deleted |

The clients are a virtio NIC, a TAP of the POSIX kind (`net/tap.c`, which refuses and flushes) and
slirp (which answers from its receive handler).  How a descriptor fills up and how the guest
refills its ring is a choice (`Refuse`).  Link changes, deletions and `stop` come from the
monitor, between two events.

### TapWin32 (`qemu/net/tap-win32.c`)

| Model | Code |
|---|---|
| `next`, `free_list`, `front`, `back` | `tun_buffer_t.next` and the three list pointers |
| `free_sema`, `out_sema`, `tap_sema` | the semaphores, with their maximum count |
| `tpc`, `tbuf`; `mpc`, `mbuf` | the reader thread and the main loop, and the buffer each holds |
| `write`, `wevent`, `disabled`, `queued` | the overlapped write, its event, and what the network queue makes of its result |

A critical section's body is one step and each Win32 call another.  `tap_cleanup` only
stops listening; the thread goes on until it has no buffer.

### Migration (`qemu/migration.c`, `migration-tcp.c`, `buffered_file.c`, `savevm.c`, `arch_init.c`)

| Model | Code |
|---|---|
| `mig` | `FdMigrationState`: state, the descriptor's write handler, `file`, `mon`, `bandwidth_limit` |
| `qf`, `bf` | `QEMUFile` (buffer, `has_error`) and `QEMUFileBuffered` (buffer, `has_error`, `freeze_output`, `bytes_xfer`, `xfer_limit`) |
| `pc`, `call`, `arg` | the main thread: its place in a handler, and inside `buffered_put_buffer` or `buffered_flush` |
| `mem`, `dirty`, `last`, `vm` | guest RAM, `MIGRATION_DIRTY_FLAG`, `last_offset`, `vm_running` |
| `suspended` | `suspend_cnt` of the user's monitor |
| `wire`, `dst` | socket and network; the destination (external) |
| `posix` | which build: on Windows a full socket is an error, since `WSAEWOULDBLOCK` is not `EAGAIN`, and `close` does not close sockets |

The stream is a sequence of pages and one end mark.  Between two sends the peer may read and
the connection may break; commands come when the main thread is idle.  Assumed of the operator: no
`cont` and no further `migrate` once `query-migrate` says completed.

## 3. Runs

| Run | Result | What it shows |
|---|---|---|
| `win32_cond` | pass | 4 threads that signal or that broadcast: `TypeOK`, `WaitersExact`, `Rendezvous`, refinement of `CondVar` (`Refines`), every signal and broadcast returns (`SignalReturns`) |
| `vnc_jobs` | pass | 2 clients: `ClientsOutliveJobs` (types, `JobStaysQueued`, `JobsUseLiveClients`), `OutputIntact`, `ResizeWaits`, no deadlock |
| `vnc_jobs_live` | pass | 1 client, fair threads: `MainLoopReturns`, `GoneClientsFreed` |
| `qed` | pass | 3 requests, timer, failing L2 table writes: `QueueAssertions`, `AllocatingWritesSerial`, `CacheSound` (types, `ReferencesExact`), `ClustersReferencedOnce`, `DirtyWhileUpdating`, `AckedWritesSeen`, `ReadsCurrent` |
| `qed_live` | pass | 2 requests, with and without a backing file, every I/O but the data write failing at will: `RequestsComplete`, `DirtyCleared` |
| `qed_crash` | pass | 3 writes, 2 crashes, 4 modes: `OpenedConsistent`, `DurableData`, `ReadsOwn` |
| `qed_mark` | violation | `DirtyBeforeInconsistent`: the dirty bit is not flushed |
| `async` | pass | `ListsSound` (types, `NoneLost`), `Isolated`, `FlushDrains`, `CallbacksRun` (`ScheduledRuns`, `SyncReturns`) |
| `net` | pass | 4 topologies: `HandlersSound` (types, `NoReentry`, `ReceiverAlive`), `CallbackExact`, `PairFifo`, `QueuedOwed`, `CallbackComes` |
| `tap` | pass | `ListsSound` (types, `BuffersConserved`, `SemaphoresExact`), `FramesInOrder`, `FramesSent` |
| `migration` | pass | 2 migrations, both builds: `NoSplitBrain`, `GuestSurvives`, `Released` (types, `MonitorReleased`, `NoUseAfterFree`), `HandsOver`, `MigrationEnds` |
| `migration_close` | violation | `CompletedMeansSent`: an error in the closing flush is lost |

Each property of a passing run has a mutant in `PROJECT.json`: a plausible
change to one modelled function under which TLC finds the property violated.

### Bounds

* **Win32Thread**: four threads, so that a broadcast has a first and a last waiter, and a
  waiter that is late for one wake-up can meet the target of the next, which has two
  waiters of its own.  `MCWin32Thread` lets the callers choose one kind of wake-up, signals or
  broadcasts, which is how every condition of the repository is used; if they mix both,
  the late waiter does harm (section 4).
  `CHECK_DEADLOCK FALSE`: all threads may wait with nobody left to wake them,
  which is up to the callers.
* **VncJobs**: two clients, so one can leave while the worker serves the other;
  `MaxRects`, `MaxJobs` and `MaxOut` bound rectangles per job, queued jobs and
  pieces in an output buffer, and appear in guards.  Two jobs are enough for
  one to be running and one to be queued behind it.  The liveness run has one
  client and buffers of two pieces.  Deadlock is checked.
* **Qed**: clusters of 2 sectors, tables of 4 entries and 2 clusters, an image
  file of at most 32 sectors.  Initially cluster 0 is allocated, cluster 1 is a
  zero cluster, the rest of two L2 tables is unallocated, and further L1 entries
  have no L2 table.  The extents are chosen to start and end inside clusters, to
  cross one, to share a table and to need a new one.  `CacheSize` is 3
  (no eviction) or 1.  `CHECK_DEADLOCK FALSE`: each request is issued once, and when all are
  answered the system stops.
* **QedCrash**: 3 virtual clusters of two sectors in two L2 tables of 2 entries, so that
  requests share a table, need a new one, share a cluster and split one; three writes and two
  crashes, so that a repair can be interrupted and clusters cut off by the first crash
  are used again before the second.  `MaxClusters` is never the limit for three writes.
  Deadlock is checked: `MaxWrites` only stops the guest.
* **AsyncContext**: one normal and one idle device, 3 requests, 4 operations, contexts
  nested 3 deep: a synchronous request inside a callback inside another one.  In `async` no
  completion stops the VM (`StopOnError = FALSE`): section 4 says what happens when one does.
  Deadlock is checked: the main loop polls for ever.
* **NetQueue**: up to 2 packets per client and 2 refusals: one packet refused, one sent or queued
  behind it, and a second refusal from the flush.  Each topology has the
  changes that matter for it.  `CHECK_DEADLOCK FALSE`: when all packets are sent nothing happens.
* **TapWin32**: 3 buffers and 5 frames, so that buffers run out and are used again;
  2 packets to the adapter.  `CHECK_DEADLOCK FALSE`: after the last frame nothing happens.
* **Migration**: 3 pages, a file buffer of 2 units and a socket of 1, so that a full buffer
  is flushed in the middle of a pass and the socket freezes; limits 0 and 1; one guest write at any
  moment (a page can become dirty after it was sent), 2 migrations, 1 broken connection.
  Deadlock is checked.

### Fairness

* **Win32Thread**: weak fairness of each thread's steps inside a library call.  The host
  scheduler runs every runnable thread.  Nothing is assumed about when callers
  call.
* **VncJobs**: weak fairness of both threads; strong fairness of `Tick`, because
  `main_loop_wait` runs expired timers in every round, whatever other events there
  are.
* **Qed**: weak fairness of `Driver`: the event loop goes on, host I/Os complete (with
  a result or an error), the virtual clock advances.  New requests are not
  assumed.
* **AsyncContext**: weak fairness of `Step`: the one thread runs, and callbacks return.
* **NetQueue**: weak fairness of calls in progress; strong fairness of `qemu_flush_queued_packets`
  for a client that arranged it: the descriptor becomes writable, or the guest refills
  its ring, again and again if other events come first.
* **TapWin32**: weak fairness of both threads and of the driver completing a write it accepted.
* **Migration**: weak fairness of the main thread inside a handler, of each handler it must
  notice, and of the destination reading.  Nothing is assumed of guest, operator and network.

## 4. Findings

Recorded with a run:

1. `migration_close`: an error of the last flush, inside `buffered_close`, does not reach
   `migrate_fd_put_ready`, which reports a completed migration; the guest runs nowhere.
2. `qed_mark`: a power failure can lose the write of `QED_F_NEED_CHECK` and keep later ones.

Found with the same models under other constants; each can be reproduced by giving TLC the
constants and the property named:

| Module, constants, property | What the code does |
|---|---|
| Win32Thread, four threads, `UseSignal` and `UseBroadcast`, `Rendezvous` and `Refines` | a waiter of a broadcast, delayed between its decrement and its comparison (`qemu-thread-win32.c:188`), takes the target of a later signal for its own and lets the signalling thread go on with the slice still in the semaphore; the comment at 182-186 says each waiter consumes exactly one slice.  No caller in the repository mixes signals and broadcasts on one condition |
| VncJobs, `CopyRect = {c1}`, `SurfaceLocked` | `vnc_dpy_copy` (`ui/vnc.c:689`) changes the server surface without the lock that `vnc-jobs-async.c:37-39` says protects it |
| VncJobs, `CopyRect = {c1}`, `EncodingPersists` | a job abandoned at `vnc-jobs-async.c:216` copies an uninitialised local `VncState` back |
| MCQed, `Extents <- EvictExtents`, `CacheSize = 1`, `AckedWritesSeen` | a table newer in memory than in the file is evicted (`qed-l2-cache.c:164`) and read back; an acknowledged write disappears, though the cache is called write-through |
| MCQed, `Extents <- MixedExtents`, two requests, `FreedReads = {TRUE, FALSE}`, `CommitFindsEntry` | of two simultaneous readers of a table the second uses its entry after the commit freed it (`qed-table.c:246`, "guaranteed to succeed") |
| MCQed, `Backings = {TRUE}`, `FailOps = {"main"}`, `AckedWritesSeen` | the result of the data write is dropped (`qed.c:998`): a failed write is linked and acknowledged |
| MCQed, "header" in `FailOps`, `DirtyWhileUpdating` | the result of writing the dirty header is dropped (`qed.c:1074`) |
| TapWin32, `RefusalEnds` | `tap_win32_write` returns 0 for a pending write (`tap-win32.c:483`), a refusal to `net/queue.c:27-30`, but the adapter never flushes: the VLAN's plain packets to it are queued for ever |
| MCNetQueue, `Clients = {nic, nic2, slirp}`, `Topologies <- TwoNics`, `QueuedOwed` | deliveries by iov ignore `receive_disabled` (`net.c:541-594`); with two virtio NICs on a VLAN packets are left that nobody will flush |
| AsyncContext, `Devices = {}`, two requests, `MaxContexts = 1`, `StopOnError = TRUE`, `WalkSafe` | with `werror=stop` a completion with an error stops the VM (`hw/ide/core.c:510`); `qemu_aio_flush` (`cpus.c:125`) polls inside the poll and frees a cancelled or completed bottom half that the outer walk saved as next (`async.c:145`), though `async.c:29-30` says contexts protect callbacks against interfering with each other |

Met while modelling, and kept out of the properties by a condition they state:

* A write to part of a zero cluster of an image with a backing file fills the rest from the backing
  file (`qed.c:1067`): the extents used with a backing file avoid it.  `qed_check_table_offset`
  rejects every table of an image with `table_size` 1 (`qed.h:300`): `QedAssumption` excludes it.
* After a first power failure, an image without backing file may end in part of a
  cluster, which is allocated again with its old data; a second one can expose it (`DurableData`).
* A failed send resumes the monitor twice (`migration.c:333`, `302`), and `buffered_rate_tick` frees
  the file behind `s->file` (`buffered_file.c:236`), which `migrate_set_speed` or a new
  migration within 100 ms then uses: `Released` excludes failed sends.  `buffered_close` passes the wrong
  pointer to `wait_for_unfreeze` (`buffered_file.c:179`).
* `set_link` on a NIC whose back end was deleted puts its link up again (`net.c:1268`); deleting a
  client that refused leaves the VLAN's queue to the next send; a VLAN client that refuses
  makes the others see a packet twice; a sent callback while the VM is stopped reaches an
  assertion in `virtio_net_flush_tx` (`hw/virtio-net.c:715`).  A packet sent without a callback is
  queued, where `net/queue.c:37-38` says it is dropped.
* A second TAP adapter reinitialises the static buffers of the first (`tap-win32.c:621`), and a pending
  write goes on using the caller's buffer.

`qed_live` lets every I/O but `main` fail because of the third QED entry of the table.

## 5. Proofs

**`Win32ThreadProofs`**, for any finite set of threads (`ThreadsAssumption`), under the
hypothesis `OneWakeKind` that callers of a condition either signal or broadcast but do
not mix (section 4 shows that without it `Rendezvous` is false):

* `TypeCorrect`, `WaitersCorrect`, `RendezvousCorrect`: `TypeOK`, `WaitersExact` and
  `Rendezvous` are invariants;
* `Refinement`: the specification implements `CondVar`.

None of the three is inductive alone.  `IInv` adds who holds the mutex in which
position, that the loaded half of `waiters++` is not stale, that no wake-up is under
way or left over unless a thread stands in the final wait of a signal or broadcast (`Quiet`),
and the stages of the rendez-vous (`SigStage`, `BcStage`), which relate the semaphore, the event, and
the threads asleep, awake and leaving.

**`QedProofs`**, for any finite set of requests, any extents inside the disk, table and cluster size,
cache size, file bound and set of failing I/Os (`QedAssumption`; it asks for tables of at least two
clusters and two entries, clusters of at least two sectors, a file bound that the initial image
fits, and requests that end where the tables end, which `bdrv_check_request` ensures):

* `AssertionsHold`: the driver's assertions about the queue and the timer never fail
  (`QueueAssertions`);
* `AllocatingWritesAreSerial`: `AllocatingWritesSerial`;
* `FileIsMarked`: `DirtyWhileUpdating`, under the hypothesis that the write of the header does not
  fail (`"header" \notin FailOps`; section 4 shows it false otherwise);
* `CacheIsSound`: `CacheSound`, the types and the exact reference counts of the L2 cache;
* `ClustersAreReferencedOnce`: `ClustersReferencedOnce`, for the tables the driver works with and
  for the ones in the file.

The inductive invariant `IInv` says what a call in progress may work on
(`CallShape`), that whatever runs, waits or is queued is a request under way (`Busy`),
that everybody behind the head stands still, and the head too while the queue
is plugged (`Frozens`), that whoever allocates is the head of an open queue
(`HolderIsHead`), that the queue is plugged exactly while the timer's chain is
at work (`Plug`), and that the timer is pending only while the queue is empty
and open (`TimerQuiet`).  The last two are why the timer's assertion holds; the others are what each
callback needs to preserve them.  There is one lemma per group of actions.
`IInv` was also checked by TLC on the instance of the run `qed` before it was proved.
`FileIsMarked` adds `Marked`: without a backing file whoever holds the queue has set
`QED_F_NEED_CHECK` in memory, and if it is set there it is in the file too, unless the holder's write
of the header is under way.

The last two theorems need each other.  A request changes a table in place through its cache entry,
so the layout of the file rests on which entries exist; and an entry is only evicted, shared or freed
correctly if no table is known under two offsets.  Their invariant `CInv` adds to `IInv`:
freed entries are empty and the cache has one entry for an offset (`CacheShape`); which stages of a
request hold an entry, and when nobody else knows it (`HeldBy`: while its table is being read, or is new
and not in the L1 table yet); that lookups and reads stay in range (`ChainBy`); that tables and
clusters lie in the file and apart, *whichever version* of a table one looks at, the one in the file,
in an entry, or on its way from the file to an entry (`Layout`, over `Tab` and `Ref`); and that a
request's new clusters lie behind everything that any version refers to, until it links them (`FreshBy`).
The versions are why a cluster cannot be linked twice: a stale copy of a table may come back from the
file, but over all versions a cluster appears at one place only.  `Exchange` and `LinkStep` are the two
lemmas the rest leans on, one for steps that trade one entry for another, one for steps that link new
clusters; `AllocFacts` is the counting argument that a free entry exists.  `CInv` was checked by TLC on
two instances (about a million states each) before it was proved.

**`QedCrashProofs`**, for any number of virtual clusters that the tables can address, any table
size from two clusters, any file bound with room for header and L1 table, any modes and any numbers
of writes and crashes (`QedCrashAssumption`):

* `OpenedAreConsistent`: `OpenedConsistent`;
* `ReadsAreOwn`: `ReadsOwn`;
* `DataIsDurable`: `DurableData`.

A crash keeps any of the writes made since the last flush, so an invariant of the current image says
nothing of the image found afterwards.  `Reach` is the set of all images that a crash may leave: a
write adds what it makes of each (`WriteReach`), a flush leaves one (`FlushReach`), a crash picks one
(`CrashReach`).  `Core` says of all of them that they have some of the references of one image
(`Sub`), which has no cluster twice (`Apart`); that image is the current one, and during a repair, which
only takes references away, the stored one.  New references point beyond all others (`Bound`).  An
image of `Reach` without the dirty bit has its references in its file (`Fits`), or else the crash that
leaves it loses the mark.  `Own` is about the current image: it holds for each sector what the guest
wrote.  `Safe` is about what each image of `Reach` will give the guest (`Holds`): something it may read,
even if the file ends before the sector's cluster and the repair drops the entry.  Without a
backing file and with a volatile cache it rests on `Virgin`: until the first crash nothing was written
beyond the end of the file, so a lost data write leaves a hole and not another cluster's old contents.
TLC checked all parts on the 1 365 707 states of the run `qed_crash` before they were proved.

**`MigrationProofs`**, for any number of pages, any sizes of the two buffers and the socket, any
rates, builds, and numbers of writes, migrations and failures (`MigrationAssumption`):

* `GuestIsRestored`: `GuestSurvives` is an invariant;
* `ReleasesAll`: `Released`;
* `NeverSplit`: `NoSplitBrain`.

`GuestSurvives` is not inductive, because whether the guest is restarted depends on what
`migrate_fd_put_ready` remembers, and because a handler left over by a completed migration could
still turn it into a failed one.  `IInv` adds that the guest is untouched before the last
stage (`Untouched`), that it is stopped and `old` holds the operator's wish during it (`Stopped`),
that while the file is closed it is back unless the verdict is success (`Closing`), and that
a completed migration has no handler, timer or call left (`Over`).  `Released` follows from that and
`Clean`: as long as no send has failed, the objects of a migration live exactly as long as its
handlers.  For `NoSplitBrain`, `Stream` speaks of everything between source and destination as one
sequence, the `Pipe`: the network, the buffered file's buffer, the argument of the write in
progress, and the QEMUFile's buffer.  The end mark is the last thing in it, and loading
the whole pipe over the destination's memory gives the guest's memory, except for the pages
still dirty; at the end mark there are none.

**`TapWin32Proofs`**, for any number of buffers, frames and packets (`TapAssumption`):

* `ListsAreSound`: `ListsSound`;
* `FramesAreInOrder`: `FramesInOrder`.

The code walks links; the proof speaks of the two sequences the links spell out.  `Sound(fr, ou)`
says that `fr` and `ou` are the chains from the list heads (`ChainIs`), that they and the buffers in
the threads' hands are all the buffers, each in one place (`Linked`, `Apart`, `Placed`), that a
semaphore counts its list but for the steps between taking a unit and unlinking, and linking
and releasing (`Semaphores`), and that the frames sent, in `ou` and in the threads' hands are those read,
in order (`Ordered`).

**`VncJobsProofs`**, for any set of clients and any bounds (`VncAssumption`):

* `JobsNeverOutliveClients`: `ClientsOutliveJobs`;
* `OutputStaysIntact`: `OutputIntact`;
* `ResizeAlwaysWaits`: the action property `ResizeWaits`.

`IInv` has eight parts: which calls of the main loop may be nested (`StackOK`); the queue's mutex and
condition with exactly two threads (`QueueOK`: the worker broadcasts after it has unlocked the
queue, so the invariant of `Win32ThreadProofs`, whose callers hold the mutex, does not apply); where
the threads hold the queue's mutex (`MutexOK`); that connected clients are not freed (`LiveOK`);
that the worker's job stays queued and every job's client is alive (`JobsOK`); what the joins have
established: no job for a client about to be freed, and in a resize none but those of clients
still to be joined (`JoinOK`); and who holds an output mutex in the middle of a message (`OutOK`).
TLC checked it on the 3 537 759 states of the instance of the run `vnc_jobs` without symmetry.

**`AsyncContextProofs`**, for any bottom halves, number of operations and nesting
(`AsyncAssumption`), under the hypothesis that completions do not stop the VM
(`StopOnError = FALSE`; otherwise a freed bottom half can be read, see section 4, and nothing is
defined from there on):

* `ListsAreSound`, `RequestsAreIsolated`: `ListsSound`, `Isolated`;
* `FlushLeavesNothing`: the action property `FlushDrains`.

The calls in progress take turns with the contexts (`Shape`), so each list has at most one walker,
and a walk suspended in a callback is disturbed only by bottom halves put in front of it
(`WalkOK`).  That a context may be forgotten, or a flush may return, is known from the poll
that returned `FALSE` just before (`DrainOK`).

**`NetQueueProofs`**, for any clients, kinds of clients, pairs and VLANs, numbers of packets and
refusals, and any changes by the operator (`NetAssumption`):

* `HandlersAreSound`: `HandlersSound`;
* `CallbacksAreExact`: `CallbackExact`;
* `QueuedAreOwed`: `QueuedOwed`, under the hypothesis that there is one virtio NIC at most
  (`AtMostOneNic`; section 4 shows it false with two on a VLAN);
* `PairsAreFifo`: `PairFifo`.

`NetAssumption` asks that one client of a pair is a NIC: `qemu_new_nic` is the only caller of
`qemu_new_net_client` that gives a peer.  `HInv` is about the calls in progress.  A delivery has its queue to itself: none of the calls it
leads to works on the same queue (`Turns`).  In a pair a call's queue is the receiving client
(`Frames`), and a client whose peer was deleted has its link down unless the operator put it up
again (`Pair`).  `ClientOK` follows one client's callback: a packet with a callback is in one
place, a queue or a delivery (`Once`), it is where its sender sends to, and the sender waits
for it (`Waits`).

For `QueuedOwed`, `OInv` follows a refusal until it shows: a delivery that some receiver refused
has a client that will flush the queue (`OwedFrame`), and that client is not called again, and so
cannot forget, before the packet is queued; for that a NIC must have refused with `receive_disabled`
set (`Owing`), which a delivery by iov ignores, but the only NIC does not receive what it sends.

For `PairFifo`, `PInv` describes the line of packets from one client to the other: got, being
delivered out of the queue, queued, being sent (`LineOf`), with all that were sent accounted for
(`CountOf`).  A packet that is being sent is last in the line, so it may only be accepted when the
queue is empty.  For a NIC or TAP it is, because a client with a queued packet waits (`ClientOK`).
For slirp it need not be, but then the receiver has `receive_disabled` set, and slirp's packets, which
are not sent by iov, are refused without a call.  The remaining danger is a send inside a delivery
or callback on the same queue: in a pair, only slirp's receive handler and a sent callback have
calls inside them (`Nested`), slirp's queue is not the one it sends to, and a queue marked as
delivering has a delivery in progress (`Marked`), so that the branch of `Send` that appends to
a busy queue is never taken in a pair.  TLC checked all of it on the 230 104 states of the run `net`.

Facts about sequences that need induction (appending, removing and restricting,
chains of links, loading a stream) are proved by taking the least counterexample of a *set* of naturals;
the library's induction theorems take a predicate, which the provers cannot instantiate.

**Only model-checked**: liveness (`SignalReturns`, `MainLoopReturns`, `GoneClientsFreed`,
`RequestsComplete`, `DirtyCleared`, `CallbacksRun`, `CallbackComes`, `FramesSent`, `HandsOver`,
`MigrationEnds`), which is out of the prover's reach; `AckedWritesSeen` and `ReadsCurrent` of `Qed`
(section 4 shows `AckedWritesSeen` false where a table is evicted whose write failed, or a data write
fails with a backing file).

## 6. Not modelled

Listed in `PROJECT.json` with reasons.  In short: instruction translation and the CPU
(semantics and code generation), encodings, parsing and host I/O (no interesting
state), slirp (third-party), and the components planned below.

## 7. Plan

Done: Win32Thread with CondVar, VncJobs, Qed, QedCrash, AsyncContext, NetQueue, TapWin32,
Migration; their runs; the theorems above.

Left, in order:

1. **qcow2-cache**: write ordering between L2 tables and refcount blocks.
2. **Virtio ring**: indices modulo 2^16, notification suppression.
3. **Timers** (`qemu-timer.c`): order under callbacks that change the list.
4. **i8259** priority against a reference definition.
5. **Block migration** (`block-migration.c`): the dirty bitmap against in-flight reads.

Theorem planned: `Qed` `AckedWritesSeen` where section 4's counterexamples cannot happen (no table or
data write fails).
