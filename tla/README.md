# TLA+ models of DPFS

DPFS exports a host file system to a guest over virtio-fs. A HAL receives
FUSE requests from the guest and runs them on one or more poll threads: the
SNAP HAL reads them from DPU queues, the rvfs HAL from eRPC. Each request
goes to a handler of a FUSE back end. In this repository that back end is
`dpfs_aio`, which mirrors a local directory (`src/unnamed/part_001`,
`mirror_impl.c`). This directory holds TLA+ models of that back end's inode
table, the handlers that change it, and the guest kernel that drives them.
The models are checked with TLC.

## The system and its parts

| Part | Source | State | Operations | Interacts with |
|---|---|---|---|---|
| Inode table | part_001 (`do_lookup`, `forget_one`); `inode_table_*` and `ino_to_inodeptr` live outside src/ | `f->inodes` (backing ino → record); per record `src_ino`, `fd` (an O_PATH descriptor, or `-ENOENT` once unlinked), `nlookup`, `nopen`, `generation`, mutex `i->m`; table mutex `f->m` | getsert, erase | every namespace and handle handler |
| Namespace handlers | part_001: lookup 207, forget 653, batch_forget 663, unlink 862, make_something/mknod/mkdir/symlink 763-843, create 587, rmdir 631, rename 676 | backing directory, descriptor table | lookup, forget, unlink, mknod, … | inode table, kernel |
| Handle handlers | part_001: open 475, release 530, flush, fsync, flock, fallocate | `nopen`, file-handle descriptors | open, release | inode table (`i->fd`, `nopen`) |
| Async I/O | part_001: read 699, write 730; the reaper and `mpool` live outside src/ | cb_data pool, aio context | submit, complete | HAL completion |
| Directory streams | part_001: opendir 314, readdir 381, releasedir 366 | DIR stream, offset | open, read, release | inode table (readdirplus lookups) |
| HAL | rvfs.cpp: rvfs HAL 1-252, SNAP HAL 253-572 | message pool `avail`, `keep_running`, poll threads | req_handler, async_complete, loop | handlers, async I/O |
| Handler table | part_001 `fuser_mirror_assign_ops` 952-981 | which ops are non-NULL | — | HAL dispatch |
| Configuration | part_000 (`main`, TOML), conf_example.toml | metadata_timeout, nthreads, … | parse | everything, once at start |

How they interact. A HAL poll thread calls the handler of one request. A
handler either replies directly, or (read and write) submits aio and returns
`EWOULDBLOCK`; the reaper then completes the request through
`dpfs_hal_async_complete`. Namespace handlers share the inode table through
the table mutex `f->m` and the record mutexes `i->m`. The kernel names a
record by its address (`e->ino = (fuse_ino_t) i`), holds `nlookup` references
on it until it sends FORGET, and holds file handles (`fi.fh`, a descriptor)
until it sends RELEASE.

The behaviours that are hard here, and that a test hardly reaches:

- handlers of several poll threads interleaving between lock operations, in
  particular `do_lookup`'s two paths, whose lock orders differ, against
  `forget_one`;
- values read without a lock and used later: `i->fd` in open and getattr,
  and the record itself after `forget_one` erased it;
- a record address and a descriptor number reused after free;
- unlink doing its work in a fixed order (release the descriptor, then
  `unlinkat`) where the last step may fail;
- the lookup and open counts having to stay equal to what the kernel holds,
  across unlink's own lookup and compensating forget.

## Modules

### `Mirror.tla` and `AbsInode.tla`: inode table, namespace and handle handlers

**State.**

- `dir` and `binc` are the backing directory and the incarnation of every
  backing inode number. A backing file is `<<ino, incarnation>>`, so a reused
  inode number is a different file.
- `fdtab` is the server's descriptor table. A free descriptor is allocated
  lowest-first, as open(2) does.
- `live`, `tbl` and `rec` are the allocated records, `f->inodes`, and the
  record fields. `rec` keeps the contents of freed records, because the code
  reads freed memory.
- `tlock` and `ilock` are the owners of `f->m` and of every `i->m`.
- `pc` and `loc` are each poll thread's step and locals.
- `kref`, `kfile` and `kopen` are the guest kernel: lookup references, the
  file each node was looked up as, and open file handles.
- `issued` is a history of every `<<node, generation, file>>` sent to the
  kernel, kept when `KeepHistory` is set.

**Actions.** Each handler is one action per stretch between two mutex
operations, or between an unlocked read and its use:

| Action | Code |
|---|---|
| `DLOpen` | do_lookup 135-154: openat, fstatat, the mountpoint check |
| `DLGetsert` | 156-171: lock f->m, getsert, choose a path |
| `DLExisting` | 171-182: unlock f->m, lock i->m, nlookup++, close(newfd) |
| `DLFresh` | 183-202: lock i->m under f->m, fill the record in |
| `FOLock`, `FOErase`, `FOTail` | forget_one 33-47, 48-51, 55-56 |
| `ULInval`, `ULLockfs`, `ULUnlinkat` | unlink 884-893, 894-904, 906-909 |
| `OPOpen`, `OPCount` | open 509-518, 520-527 |
| `Rel` | release 543-547 |
| `GAStat` | getattr 117-125: fstatat on the `i->fd` read without `i->m` |
| `FSync` | fsync 552-566: fsync on the kernel's file handle |
| `Recv*` | the kernel sends a request; the handler's arguments are read |
| `Reply` | the kernel receives the reply |

Unlink with `Timeout = 0` runs `do_lookup`, then its own steps, then
`forget_one`. batch_forget (663-674) calls `forget_one` once per entry;
its request carries two entries (`ForgetBatches`). `LookupReturn` and
`ForgetReturn` say where each sub-procedure returns to. `exit(-1)` in forget_one stops every thread (`aborted`).

**The kernel as environment.** The kernel does the following, as the FUSE
protocol and the VFS guarantee:

- it holds the directory lock across unlink and mknod;
- it does not send two lookups of one name at once;
- it sends FORGET and BATCH_FORGET only for references it holds, and only
  for nodes with no open handle and no request in flight. A node evicted,
  looked up again and evicted again may appear twice in one batch. A FORGET takes no directory lock,
  so an unlink may start while one is in flight;
- it opens only nodes it holds;
- it releases only handles it holds, and none with an fsync in flight;
- it sends getattr only for nodes it holds.

It may also stop sending requests (`KernelQuiet`), so reaching a bound is not
reported as a deadlock.

**Constants.**

- `Threads`, `Names`, `Inos`, `Recs` (record addresses) and `MaxFd` size the
  model.
- `MaxInc` bounds the incarnations of one inode number.
- `MaxLookup` bounds the references the kernel holds per node.
- `MaxOpen` bounds the open handles.
- `Timeout` is the config's `metadata_timeout`.
- `Enabled` is the set of installed handlers: `DefaultOps` is what
  `assign_ops` installs among this module's handlers (lookup, getattr,
  open, release, fsync); `Ops` is every modelled handler.
  `mirror_full_seq` leaves fsync out: it changes no server state, and
  `mirror_default` runs it.
- `MountNames` are names on another device.
- `UnlinkMayFail` lets the backing `unlinkat` refuse.
- `InitDirs` is the set of start trees.

`MCMirror.tla` gives the sets their values for the .cfg files.

**Properties.**

- `TypeOK` is the type invariant (no run checks it; the count and
  descriptor properties below say more).
- `KernelRefsLive`: a node the kernel holds is an allocated record, still in
  the table, for the file the kernel was told.
- `LookupCountsAgree`: between requests, `nlookup` equals the kernel's
  references, and a record with none is erased.
- `OpenCountsAgree`: between requests, `nopen` equals the kernel's handles on
  the node.
- `NoFdLeak`: every open descriptor belongs to a record, a handle or a
  running request.
- `OpenHandleMatchesFile`: a file handle is a descriptor of the file that was
  opened.
- `AttrMatchesFile`: a getattr reply describes the file the kernel's node
  stands for. getattr reads `i->fd` without `i->m`. If unlink closes that
  descriptor and a lookup is given the same number first, getattr returns
  another file's attributes. The shipped table installs no unlink, and
  `mirror_default` shows the property holds with two threads. With unlink
  installed and two threads it fails exactly as open does
  (`mirror_open_stale_fd`'s configuration), so it is checked only in
  `mirror_default`.
- `UnlinkedMeansGone`: a record that gave up its descriptor in unlink
  belongs to a file without a name. No run checks it: whenever the backing
  `unlinkat` refuses, the file keeps its name while its node has lost its
  descriptor (15 states, one thread; see "Not modelled").
- `InodeLifecycle`: `Mirror` implements `AbsInode!Spec`. `AbsInode.tla` is
  the record lifecycle of spec sections 3 and 4.8, per backing inode number:
  dead (absent), live, or unlinked-retained, with `nlookup` and `nopen`.
  A lookup makes a record live and adds one reference. Unlink turns a live
  record with no open file into unlinked-retained. Open needs a live
  record. Erase needs both counts at 0. Forget and release move the counts
  by what the kernel sent. The mapping reads the record `tbl` holds for
  each inode number. A record still without a descriptor (`Unset`, just
  inserted) counts as absent. `DLFresh`, `DLExisting`, `FOLock`,
  `FOErase`, `ULLockfs`, `OPCount` and `Rel` are the contract's steps, and
  every other step stutters. It is checked in `mirror_full_seq`. With two
  threads and every handler (`mirror_open_stale_fd`'s configuration) it
  fails as well: an open whose stale descriptor still worked adds to
  `nopen` of a record unlink has already retired.
- `NodeGenIdentifiesFile`: a node-id and generation pair names one file.
- `NoUseAfterFree`: no step touches a freed record. No run checks it:
  `forget_one` reads `i->nlookup` after the erase (part_001:55), so it fails
  on the first forget. The harmful cases are other runs. A lookup that
  increments a freed record is `mirror_lookup_forget_race`. The unlock at
  line 55 releasing another thread's mutex is `MutexOwnedInSection`.
- `MutexOwnedInSection`: a thread that holds `i->m` while it waits for
  `f->m` still owns `i->m`. These are forget_one before its erase, and
  unlink before it invalidates the record.
- `NoLockCycle`: no two threads wait on each other's mutexes.

### `RvfsAio.tla`: rvfs request path and asynchronous read/write

**State.**

- `sent` and `pending` are the requests the remote client has sent and those
  eRPC has not yet handed to `req_handler`.
- `nmsg`, `avbuf`, `avlen` and `reqh` are the rpc_msgs created, the
  `hal->avail` vector (its buffer and its length), and `msg->reqh`.
- `cbfree`, `cbctx` and `aioq` are the cb_data pool, each record's
  `completion_context`, and the records submitted to the aio context.
- `answers` counts the `enqueue_response` calls for every request.
- `keep_running` and `hal_live` are the loop flag and whether the hal object
  still exists.

**Actions.**

| Action | Code |
|---|---|
| `RHRecv`, `RHPop` | `req_handler` 68-86: `avail.empty()`, `new rpc_msg` or `back()` then `pop_back()`, `msg->reqh = reqh` |
| `RHDispatch` | 122-134: a synchronous handler completes at once; read and write (`SubmitRW`, part_001 699-761) either return `EWOULDBLOCK` or, when `io_submit` fails, complete with the error |
| `RPReap`, `RPFree` | the aio reaper (outside src/, from the spec): reap an event, complete, then `mpool_free` |
| `ACEnqueue`, `ACLen`, `ACPush` | `dpfs_hal_async_complete` 231-250: `enqueue_response(msg->reqh)`, then `push_back`, as a read of the length and a store |
| `Signal`, `ERPCExit` | `signal_handler`, the end of `dpfs_hal_loop`, and `dpfs_hal_destroy` |

`avail` has no lock. Its push and pop are split into loads and stores so
that TLC explores how they interleave. The data race is undefined
behaviour, and these interleavings are the outcomes a compiled build can
produce.

The reaper is a thread of its own. The spec allows completions to be
drained inline between requests, but the code does not: the configuration
requires at least one completion-queue thread (part_000:83-103), and
`dpfs_hal_async_complete` initialises eRPC's thread registry for a thread
that is not the eRPC thread (rvfs.cpp:240-242).

**Properties.** Both fail, and each is the property of a violation run.

- `AnsweredOnce`: no request is answered twice, and only requests that were
  sent and delivered are answered.
- `NoCompleteAfterDestroy`: no completion runs after the hal is deleted.

With a separate reaper no property of this pipeline holds that says more
than its type: the msg pool, the answers and the shutdown are all broken
by the two races above. `TypeOK` is kept as the module's type invariant.

**Fairness.** Weak fairness of the eRPC thread, of each reaper, and of each
completion. Both loops busy-poll (`run_event_loop_once`, the reaper's
`io_getevents`), so a step that stays enabled is taken. The client's `Send`
is not fair.

### `SnapHal.tla` and `AbsHal.tla`: the SNAP HAL and the HAL contract

`SnapHal` models the SNAP half of rvfs.cpp (lines 303-571) as one process.
It has three kinds of thread: the main thread, the polling threads
`1..n-1`, and the file server's completion thread. The main thread is
thread 0; it also polls mmio and handles signals. The completion thread
calls `dpfs_hal_async_complete`. The SNAP controller library is not in the
repository, so it is modelled by its contract. `progress_io(ctrl, t)` hands
the requests of queue `t` to `dpfs_hal_handle_req` while the controller is
live (`Progress`). After `virtio_fs_ctrl_suspend` it takes no new request.
`progress` (mmio) reports the controller suspended once nothing is in
flight.

**State.**

- `mpc`, `mi` and `mj` are the main thread's step and the loop indices
  `i` and `j` of `loop_multithreaded`.
- `suspending` is `loop_singlethreaded`'s local variable.
- `handler` records that `sigaction` has installed the signal handler.
- `keep_running` is the loop flag.
- `ctrl` is the controller: none, live, suspending, suspended, destroyed,
  or leaked by a failed `dpfs_hal_new`.
- `created`, `joined` and `cancelled` describe each `tdatas[t].thread`
  handle.
- `tstate` is each polling thread's state.
- `st` and `rq` are each request's state and its queue.

**Actions.**

| Action | Code |
|---|---|
| `MNew` | `dpfs_hal_new` 472-562: success, or a failed check or init step returning NULL |
| `MCreate`, `MCancel`, `MCJoin`, `MJoin` | `loop_multithreaded` 401-424: create, the failure cleanup (`j = i-1 .. 0`), the final joins |
| `MSigaction`, `MPoll`, `MCheck`, `MLoopEnd` | `loop_singlethreaded` 334-373 and `dpfs_hal_loop` |
| `MDestroy` | `dpfs_hal_destroy` 564-571 |
| `WPoll`, `WExit`, `WCancel` | `dpfs_hal_loop_thread` 383-396; a cancellation taking effect |
| `AsyncComplete` | `dpfs_hal_async_complete` 444-458 |
| `Signal`, `Send` | `signal_handler`; the guest filling a queue |

`pthread_cancel` and `pthread_join` on a handle that `pthread_create` never
set, or that was already joined, are undefined behaviour (`Valid`). Two
outcomes are modelled: the process crashes, or the call returns ESRCH and
the process goes on. A signal before `sigaction` ends the process by the
default action, so it is not modelled.

`AbsHal` is the HAL contract of spec sections 4.6, 5 and 9:

- requests are taken only while the device serves;
- a taken request is answered at once, or later and once;
- draining starts only after a shutdown request;
- the device stops only when nothing is in flight.

`SnapHal` refines it: `Phase` maps `ctrl` to the abstract phase, and
`stopReq` is `~keep_running`.

**Properties.**

- `TypeOK` is the type invariant.
- `NoPollAfterDestroy`: the controller is destroyed only after every
  polling thread has left its loop.
- `RequestsAnswered` (liveness): a request on a live controller's queue is
  eventually handled, and a request in flight is eventually answered, also
  across a shutdown.
- `EveryRequestAnswered` is `RequestsAnswered` in the behaviours where
  every `pthread_create` succeeds.
- `ShutdownCompletes` (liveness): when every thread started, a cleared
  `keep_running` leads to `dpfs_hal_destroy`.
- `HalRefinement`: `SnapHal` implements `AbsHal!Spec`.

**Fairness.** Weak fairness of the main thread, of each polling thread, and
of the completion thread, because all of them busy-poll. A pending
cancellation (`WCancel`) is not fair: `progress_io` may never reach a
cancellation point. The guest and signals are not fair either.

### `Readdir.tla` and `AbsListing.tla`: directory streams and the listing contract

`fuser_mirror_opendir`, `fuser_mirror_readdir` (readdir and readdirplus)
and `fuser_mirror_releasedir` (part_001 314-473). A handle (`struct
directory`) wraps a `DIR` stream over the directory and caches `d->offset`,
the `d_off` of the last entry read. The stream is moved with `seekdir` only
when the kernel asks for another offset. The hard case is a full reply
buffer. The entry that does not fit has already been read, `d->offset` has
moved past it, and for readdirplus it has been looked up. The next request
comes at the offset of the last entry the kernel got, so the stream must
seek back, and `forget_one` must undo the lookup.

**State.**

- `cookie` is the `d_off` the backing filesystem gives each entry. `MCOrders`
  gives "." and ".." first, as ext4 does, or interleaved with the names, as a
  hashed order does.
- `present` holds the linked names.
- `dh` holds, per handle, the stream and `d->offset`. The stream is
  glibc's `readdir(3)`: a position, the entries a `getdents` read ahead
  (`buf`), and whether it has read since the last `opendir` or `seekdir`
  (`fetched`). A `getdents` returns the entries after the position as the
  directory is then; the buffered ones may have been unlinked since. After
  a `getdents` that read to the end, a hashed directory (ext4 htree) may
  keep reporting the end until a seek, whatever was linked since
  (`Reads`).
- `nlook` is each name's `nlookup`. `do_lookup` is abstracted to the count it
  adds; its races are in `Mirror`.
- `pc` and `loc` describe the readdir in progress: the handle, the buffer
  size in entries, plus or not, the buffer, and `err`.
- `kl` is the kernel's listing per handle: the next offset, the count of
  each name received, the state, `stable`, the names linked all through
  the listing, and `may`, the names linked at some time of it.
- `kref` is the kernel's lookup references.

**Actions.**

| Action | Code |
|---|---|
| `OpenDir`, `ReleaseDir` | opendir 314-363, releasedir 366-374 |
| `RDStart` | readdir 381-403: lock `i->m`, seek when `off != d->offset` |
| `RDEntry` | readdir 405-450: one turn of the loop (`EntryLoop`: end of stream or `readdir` error; `EntryTurn`: `d->offset = d_off`, skip dots, `do_lookup` for plus, which fails for a buffered name unlinked since, the fit test with `forget_one` on a full buffer) |
| `RDReply` | readdir 451-473: unlock; an error only when the buffer is empty, otherwise the partial buffer; the kernel continues at the last `d_off` and takes one reference per readdirplus entry |
| `Forget` | the FORGET handler, on another thread, at any time |
| `Rewind`, `Retry`, `Link`, `Unlink` | the application rewinds or reads again after an error; a create or unlink between readdirs (the kernel holds the directory lock exclusively for those, and shared for readdir) |

`Room` and `Written` model `struct iov` and the encoders
`fuse_add_direntry(_plus)` of dpfs_fuse.h: an entry is written when the
buffer has room, otherwise 0 is returned.

**Properties.**

- `ListingExact`: one listing gives the kernel every name that stayed
  linked all through it exactly once. It never gives "." or "..", and never
  gives a name twice (spec section 8, property 5, extended to a directory
  that changes between requests).
- `LookupBalanced`: between readdirs, every name's `nlookup` equals the
  kernel's references. This covers the buffer-full compensation and the
  rule that an error is reported only when no looked-up entry would be
  dropped.
- `ListingRefinement`: `Readdir` implements `AbsListing!Spec`.
  `AbsListing` is the listing contract of spec sections 4.5 and 8. Its
  state is the kernel's offset, the names it got and the listing state
  per handle. It follows readdir(3): a name linked or unlinked after the
  listing began may or may not be listed. `Deliver(h, S)` gives a set of
  names after the offset, all linked at some time of the listing, that
  leaves out no name linked all through it up to the last of `S`, and
  moves the offset to that last name. `End` is allowed only when no name
  linked all through the listing is left after the offset, and `Fail`
  leaves the offset alone. The refinement mapping is
  `KernelListing`: the kernel's `kl`, with a request in flight counted as
  still reading. `RDStart` and `RDEntry` are stuttering steps of the
  contract; each `RDReply` is one `Deliver`, `End` or `Fail`. This is
  stronger than `ListingExact`: it fixes the order and the exact offset of
  every reply, not only the totals at the end.

**Bounds.** Three names and buffers of one or two entries make every reply
short, so every listing takes several requests. With `MaxListings = 2`, one
handle is opened, or rewound, twice. One handle is enough because readdirs
of one directory are serialised by its `i->m`. Two handles would only add
independent streams, and they do not finish within five minutes.

The opendir and fdopendir failures change no modelled state and are left
out. None of these handlers is installed by `fuser_mirror_assign_ops`; the
module checks them as if they were.

## Runs

| Run | Expect | What it shows |
|---|---|---|
| `mirror_default` | pass | 2 threads, the handlers assign_ops installs (lookup, getattr, open, release, fsync), 2 files: the counts, descriptors and handles stay consistent, and getattr stats the kernel's file (143 k states) |
| `mirror_full_seq` | pass | 1 thread, every modelled handler but fsync (with batch_forget and getattr), a file or a hard link, inode numbers reused by mknod, a backing `unlinkat` that may refuse: every count, descriptor and recycled record stays consistent, and the table implements `AbsInode` (446 k states, about 35 s) |
| `mirror_lookup_forget_race` | violation | KernelRefsLive: lookup and forget race and the kernel gets a freed node |
| `mirror_recycle_deadlock` | violation | NoLockCycle: the lock-order inversion in do_lookup deadlocks against forget on a recycled record |
| `mirror_open_stale_fd` | violation | OpenHandleMatchesFile: open's unlocked `i->fd` is closed and reused |
| `mirror_nodegen_reuse` | violation | NodeGenIdentifiesFile: a reused address restarts at generation 0 |
| `mirror_forget_tail_unlock` | violation | MutexOwnedInSection: forget_one's tail reads the freed record after unlink's lookup reused it, and unlocks the `i->m` that unlink holds (one inode, one record address) |
| `rvfs_destroy_inflight` | violation | NoCompleteAfterDestroy: a shutdown signal while a read is submitted; the loop ends at once and `dpfs_hal_destroy` deletes the hal while the reaper completes the read (7 states) |
| `rvfs_avail_race` | violation | AnsweredOnce: with a reaper thread, the unlocked `avail` push/pop race gives one msg to two requests (needs 5 requests) |
| `snap_shutdown` | pass | 3 polling threads, 3 requests, failing `dpfs_hal_new` and `pthread_create`, a shutdown: the SNAP HAL implements `AbsHal`, destroys only after the joins, and, when every thread started, answers every request and completes the shutdown (22 k states) |
| `readdir_listing` | pass | 3 names in two `d_off` orders, buffers of 1-2 entries, readdir and readdirplus over glibc's buffered `readdir(3)`, failing `readdir(3)` and `do_lookup`, a rewind, names linked and unlinked between requests: listings exact, lookup counts balanced, `AbsListing` refined (382 k states, about 80 s) |
| `snap_create_fail` | violation | RequestsAnswered: after a `pthread_create` failure the cleanup cancels the never-created `tdatas[0]` and carries on. The process crashes, or the failed thread's queue is never polled |

The violation runs record code bugs or divergences. They are listed under
"findings" in PROJECT.json with their source lines.

In the default configuration the dangerous handlers (forget, unlink, mknod)
are not installed, and the default run passes. The races appear as soon as
forget is installed, which any kernel that evicts inodes needs. The
violation runs therefore enable every modelled handler.

**Bounds.**

- Two names and two inode numbers are enough for a hard link, a second file,
  and an inode number reused by a new name.
- Two record addresses are enough for one address to be freed and handed to
  another file.
- 3-4 descriptors are enough for a number to be reused, and for the table to
  be full (EMFILE).
- `MaxInc = 2` allows one reuse of an inode number.
- `MaxLookup` is 1 in every run: it bounds the lookups the kernel sends,
  and the lookups of unlink, of mknod and of racing threads go past it, so
  counts of 2 occur, and a FORGET or a batch entry drops one of two or both
  at once. `mirror_full_seq` with `MaxLookup = 2` and a refusing `unlinkat`
  has 3.1 M states and does not finish in five minutes; the refusing
  `unlinkat` is the case a pass run must not leave out.
- A refused `unlinkat` leaves the record's generation bumped and the name
  in place, so unlink can be repeated without end. `RecvUnlink` stops once a
  record's generation reaches `MaxInc`.
- `KeepHistory` records `issued` only in `mirror_nodegen_reuse`, the one run
  whose property reads it. The history set multiplies the states of
  `mirror_full_seq` by more than ten and changes no other variable.
- Two threads are enough for every race above. The full handler set uses one
  thread, so that the pass run stays under five minutes. Its races are the
  violation runs.

**Bounds for `RvfsAio`.**

- Two callback records allow two reads in flight at once.
- Two requests are enough for a read in flight across the shutdown.
- The double answer needs five requests: two to create two msgs, one whose
  pop races a completion, and two more to pop the duplicated msg while it is
  still in use.

**Bounds for `SnapHal`.**

- Three threads give one creation that succeeds before one that fails.
  The cleanup then meets both a valid handle (thread 1) and the
  never-created `tdatas[0]`.
- Three requests let one request be in flight across the shutdown while
  others wait on other queues.

**Fairness.** `Mirror` and `Readdir` check safety only, and assume no fairness.
`RvfsAio` and `SnapHal` assume weak fairness of their busy-polling threads
(see above).

## Mutants

Every property of a passing run is broken by a mutant of the code it is
about: for example, a dropped `nlookup++`, a dropped `close(newfd)`, release
closing `i->fd`, an erase that leaves the descriptor open, or unlink skipping
its `st_nlink == 1` test, or an unlink that skips its
`nopen == 0` test (breaks `InodeLifecycle`). For the SNAP HAL, the mutants are:

- a cleanup loop that runs past `j = 0`;
- skipped joins;
- every polling thread polling queue 0;
- a loop that ends on `keep_running` alone;
- a suspend without a signal.

For `Readdir`, the mutants are:

- a readdir that never seeks;
- a full buffer whose readdirplus entry keeps its lookup;
- an encoder whose "no room" return is ignored;
- `d->offset` set only once the entry is in the buffer (breaks
  `ListingRefinement`: the entry that did not fit is skipped).

Each mutant is defined in its module just before the definition it
replaces.

## Not modelled, and the plan

Done:

- `Mirror`, with the namespace and handle handlers, batch_forget, getattr
  and fsync, and its refinement of `AbsInode`;
- `RvfsAio`, with the rvfs request path and the asynchronous read/write
  pipeline;
- `SnapHal`, with the SNAP HAL and its refinement of `AbsHal`;
- `Readdir`, with the directory streams and their refinement of
  `AbsListing`.

Some defects were found by reading and are not kept as runs, because one
call in a unit test, with one injected failure, shows each of them:

- `do_lookup` leaks `newfd` on its ENOTSUP and EIO returns
  (part_001:150-153);
- read and write leak their callback data when `io_submit` fails
  (part_001:723, 756);
- `do_lookup` returns ENOMEM with `f->m` still locked when
  `inode_table_getsert` fails (part_001:159-160), so the next lookup hangs;
- read and write use `mpool_alloc`'s result without a NULL check
  (part_001:706, 738);
- unlink has already closed the descriptor and bumped the generation when
  `unlinkat` refuses (part_001:895-909). The file keeps its name, and the
  kernel's node for it has lost its descriptor, so getattr and open on it
  fail until it is forgotten. `UnlinkedMeansGone` fails in 15 states under
  `mirror_full_seq`'s configuration, which checks that the counts and the
  lifecycle survive the refusal;
- create returns do_lookup's error without closing the descriptor that
  `openat(O_CREAT)` gave it, so EMFILE in do_lookup leaks it. Both of its
  error stores are unnegated (part_001:609, 619). create is not installed;
- init calls `seteuid` before `setegid` (part_001:82-92). A root server
  loses `CAP_SETGID` with the first call, so every INIT with a non-zero uid
  and gid fails with EPERM. The effective uid is left changed, and
  `init_done` is left unset. The spec asks for both ids to be dropped.

Left out, and why:

- **create, rename, rmdir, mkdir and symlink.** None is installed by
  `assign_ops`. mkdir and symlink are `make_something` with another file
  type, and the model does not tell file types apart, so they would repeat
  mknod. rename and rmdir are one `renameat` or `unlinkat` on the parent's
  descriptor and change no server state. create's descriptor leak is listed
  above; checking it would take a violation run of its own, and the twelve
  runs are all in use.
- **Reads and writes on `Mirror`'s file handles.** The kernel sends
  release only after every read and write on the file has been answered,
  so a handle cannot be closed under a read in flight. What remains of the
  composition is the stale descriptor that open may return, which
  `mirror_open_stale_fd` already shows.
- **The generation in `AbsInode`.** Spec section 3 says
  `(src_ino, generation)` is never reused. The code restarts a new record
  at generation 0, which `mirror_nodegen_reuse` shows. The lifecycle
  contract therefore leaves the generation out, so that the run checking it
  can pass.

- **Configuration parsing (part_000).** It is sequential file parsing; only
  the resulting `metadata_timeout` and thread count matter, and they are
  constants.
- **setattr, statfs, fsyncdir, flush, flock and fallocate.** None is
  installed. Each is one system call on `i->fd` or the file handle, and
  changes no server state. The stale-descriptor case they share is the one
  `mirror_open_stale_fd` shows on open and `AttrMatchesFile` states for
  getattr.
- **The Makefile and the experiment scripts.**
- **The session fields of dpfs_fuse.h** (`got_init`, `got_destroy`,
  `init_done`). The code that sets them (dpfs_fuse.c) is not in the
  repository. The header itself only declares them and the operation table.
  The init/destroy race its comment mentions therefore cannot be modelled
  from source.
