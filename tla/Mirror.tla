------------------------------- MODULE Mirror -------------------------------
(***************************************************************************)
(* The inode table of the local-mirror file server (dpfs_aio,              *)
(* src/unnamed/part_001) and the FUSE handlers that change it: lookup      *)
(* (do_lookup), forget (forget_one), unlink, mknod (make_something), open  *)
(* and release.                                                            *)
(*                                                                         *)
(* Every HAL poll thread runs one request at a time.  A handler is split   *)
(* into one action per step between the points where it takes, releases  *)
(* or waits on a mutex (the table mutex f->m or a record mutex i->m), or   *)
(* reads a field without a lock and uses it later.  The guest kernel is    *)
(* the environment: it issues requests only as the FUSE protocol allows   *)
(* (it forgets what it has looked up, releases what it has opened, and     *)
(* holds the directory lock across namespace operations).                  *)
(*                                                                         *)
(* A record is an address in Recs: the wire node-id is the record's        *)
(* address (e->ino = (fuse_ino_t) i), erase frees it and a later insert   *)
(* may be given the same address again.  Backing files are pairs          *)
(* <<ino, incarnation>>: the backing filesystem reuses an inode number    *)
(* only when no name and no open descriptor refers to it.                 *)
(***************************************************************************)
EXTENDS Integers, Sequences, FiniteSets

CONSTANTS
    Threads,        \* HAL poll threads (dpfs_hal_loop_multithreaded)
    Names,          \* names in the exported root directory
    Inos,           \* backing inode numbers
    Recs,           \* addresses an inode record can be allocated at
    MaxFd,          \* descriptor numbers 1..MaxFd are free for the server
    MaxInc,         \* bound: incarnations of one backing inode number
    MaxLookup,      \* bound: lookup references the kernel holds per node
    MaxOpen,        \* bound: file handles the kernel holds at once
    Timeout,        \* metadata_timeout of the configuration (0 or not)
    Enabled,        \* handlers installed by fuser_mirror_assign_ops
    MountNames,     \* names that are mountpoints (other st_dev)
    UnlinkMayFail,  \* the backing unlinkat may be refused (EACCES, EPERM)
    InitDirs,       \* the directory trees the server may start on
    KeepHistory,    \* record `issued` (only NodeGenIdentifiesFile reads it)
    None            \* no value

ASSUME Timeout \in Nat
ASSUME MountNames \subseteq Names
ASSUME UnlinkMayFail \in BOOLEAN /\ KeepHistory \in BOOLEAN
ASSUME InitDirs \subseteq [Names -> Inos \cup {None}]
ASSUME Cardinality(Recs) >= Cardinality(Inos)

Ops == {"lookup", "forget", "batch_forget", "unlink", "mknod", "open", "release",
        "getattr", "fsync"}

\* The handlers fuser_mirror_assign_ops installs among those of this
\* module; the others stay NULL (init, read and write are RvfsAio's).
DefaultOps == {"lookup", "getattr", "open", "release", "fsync"}

ASSUME Enabled \subseteq Ops

Fds == 1..MaxFd

\* struct fuse_batch_forget_in with two struct fuse_forget_one entries.
ForgetBatches == {<<x, y>> : x, y \in [r : Recs, n : 1..MaxLookup]}
Files == Inos \X (1..MaxInc)

\* i->fd before the record is filled, and the sentinel unlink stores.
Unset == -1
Unlinked == -2          \* -ENOENT

VARIABLES
    dir,        \* backing root directory: name -> inode number or None
    binc,       \* current incarnation of every backing inode number
    fdtab,      \* the server's descriptor table: fd -> file or None
    live,       \* allocated inode records
    tbl,        \* f->inodes: backing inode number -> record or None
    rec,        \* record contents, kept after free (stale memory)
    tlock,      \* owner of f->m
    ilock,      \* owner of every i->m
    pc,         \* step each thread is at
    loc,        \* each thread's request arguments and locals
    aborted,    \* forget_one called exit(-1)
    kref,       \* kernel: lookup references per node-id
    kfile,      \* kernel: file the last entry reply for a node named
    kopen,      \* kernel: open file handles
    issued      \* history: every entry (node, generation, file) replied

fsvars == <<dir, binc, fdtab>>
srvvars == <<live, tbl, rec, tlock, ilock, aborted>>
kvars == <<kref, kfile, kopen, issued>>
vars == <<fsvars, srvvars, pc, loc, kvars>>

Steps == {"idle", "DL_open", "DL_getsert", "DL_existing", "DL_fresh",
          "UL_inval", "UL_lockfs", "UL_unlinkat",
          "FO_lock", "FO_erase", "FO_tail",
          "OP_open", "OP_count", "REL", "GA_stat", "FS_sync", "reply",
          "exited"}

Errs == {"OK", "ENOENT", "EEXIST", "ENOTSUP", "EMFILE", "ENOSPC", "EACCES",
         "EBADF"}

Blank == [op |-> None, name |-> None, r |-> None, n |-> 0, newfd |-> None,
          file |-> None, gen |-> 0, nlink |-> 0, rfd |-> None, attr |-> None,
          rest |-> <<>>, err |-> "OK"]

FreshRec == [src |-> None, fd |-> Unset, nlookup |-> 0, nopen |-> 0, gen |-> 0]

-----------------------------------------------------------------------------
(* Helpers                                                                 *)

FileOf(n) == <<dir[n], binc[dir[n]]>>
NamedFiles == {FileOf(n) : n \in {m \in Names : dir[m] # None}}
Nlink(i) == Cardinality({m \in Names : dir[m] = i})
FreeFds == {fd \in Fds : fdtab[fd] = None}
LowestFree == CHOOSE fd \in FreeFds : \A g \in FreeFds : fd <= g
\* A backing inode number no name and no descriptor refers to.
FreeIno(i) == /\ Nlink(i) = 0
              /\ \A fd \in Fds : fdtab[fd] # None => fdtab[fd][1] # i
Busy(t) == pc[t] # "idle"
InFlight(S) == {t \in Threads : Busy(t) /\ loc[t].op \in S}
Quiescent == \A t \in Threads : ~Busy(t)
Goto(t, s) == pc' = [pc EXCEPT ![t] = s]

-----------------------------------------------------------------------------
(* Where a handler goes when a sub-procedure returns.                     *)

\* Mutant: unlink forgets to drop the lookup it added when nlink > 1.
LookupReturnNoForget(t, l) ==
    IF loc[t].op = "unlink" /\ l.err = "OK"
    THEN IF l.nlink = 1
         THEN /\ Goto(t, "UL_inval") /\ loc' = [loc EXCEPT ![t] = l]
         ELSE /\ Goto(t, "UL_unlinkat") /\ loc' = [loc EXCEPT ![t] = l]
    ELSE /\ Goto(t, "reply") /\ loc' = [loc EXCEPT ![t] = l]

\* do_lookup returned err to lookup, mknod (make_something) or unlink.
LookupReturn(t, l) ==
    IF loc[t].op = "unlink" /\ l.err = "OK"
    THEN IF l.nlink = 1
         THEN /\ Goto(t, "UL_inval") /\ loc' = [loc EXCEPT ![t] = l]
         ELSE /\ Goto(t, "FO_lock")
              /\ loc' = [loc EXCEPT ![t] = [l EXCEPT !.n = 1]]
    ELSE /\ Goto(t, "reply") /\ loc' = [loc EXCEPT ![t] = l]

\* forget_one returned to unlink, to batch_forget's loop, or to the
\* forget handler (no reply).
ForgetReturn(t) ==
    CASE loc[t].op = "unlink" ->
             Goto(t, "UL_unlinkat") /\ UNCHANGED loc
      [] loc[t].rest # <<>> ->
             /\ Goto(t, "FO_lock")
             /\ loc' = [loc EXCEPT ![t].r = Head(loc[t].rest).r,
                                   ![t].n = Head(loc[t].rest).n,
                                   ![t].rest = Tail(@)]
      [] OTHER ->
             Goto(t, "idle") /\ loc' = [loc EXCEPT ![t] = Blank]

-----------------------------------------------------------------------------
(* do_lookup                                                               *)

\* openat(parent fd, name, O_PATH | O_NOFOLLOW), fstatat, the st_dev check.
DLOpen(t) ==
    LET n == loc[t].name IN
    /\ pc[t] = "DL_open"
    /\ \/ /\ dir[n] = None
          /\ LookupReturn(t, [loc[t] EXCEPT !.err = "ENOENT"])
          /\ UNCHANGED fdtab
       \/ /\ dir[n] # None /\ FreeFds = {}
          /\ LookupReturn(t, [loc[t] EXCEPT !.err = "EMFILE"])
          /\ UNCHANGED fdtab
       \/ /\ dir[n] # None /\ FreeFds # {}
          /\ fdtab' = [fdtab EXCEPT ![LowestFree] = FileOf(n)]
          /\ IF n \in MountNames
             THEN LookupReturn(t, [loc[t] EXCEPT !.err = "ENOTSUP"])
             ELSE /\ Goto(t, "DL_getsert")
                  /\ loc' = [loc EXCEPT ![t].newfd = LowestFree,
                                        ![t].file = FileOf(n),
                                        ![t].nlink = Nlink(dir[n])]
    /\ UNCHANGED <<dir, binc, srvvars, kvars>>

\* Mutant: insert a new record without looking the inode number up.
DLGetsertAlwaysInsert(t) ==
    LET i == loc[t].file[1] IN
    /\ pc[t] = "DL_getsert"
    /\ tlock = None
    /\ \E r \in Recs \ live :
       /\ live' = live \cup {r}
       /\ tbl' = [tbl EXCEPT ![i] = r]
       /\ rec' = [rec EXCEPT ![r] = FreshRec]
       /\ loc' = [loc EXCEPT ![t].r = r, ![t].gen = 0]
       /\ Goto(t, "DL_fresh") /\ tlock' = t
    /\ UNCHANGED <<fsvars, ilock, aborted, kvars>>

\* Lock f->m, inode_table_getsert, read the generation and the fd; keep
\* f->m only when the record has no descriptor yet (new or recycled).
DLGetsert(t) ==
    LET i == loc[t].file[1]
        Continue(r, newrec) ==
            /\ rec' = [rec EXCEPT ![r] = newrec]
            /\ loc' = [loc EXCEPT ![t].r = r, ![t].gen = newrec.gen]
            /\ IF newrec.fd > 0
               THEN /\ Goto(t, "DL_existing") /\ UNCHANGED tlock
               ELSE /\ Goto(t, "DL_fresh") /\ tlock' = t
    IN
    /\ pc[t] = "DL_getsert"
    /\ tlock = None
    /\ IF tbl[i] # None
       THEN /\ Continue(tbl[i], rec[tbl[i]])
            /\ UNCHANGED <<live, tbl>>
       ELSE \E r \in Recs \ live :
            /\ live' = live \cup {r}
            /\ tbl' = [tbl EXCEPT ![i] = r]
            /\ Continue(r, FreshRec)
    /\ UNCHANGED <<fsvars, ilock, aborted, kvars>>

\* Mutant: the existing-record path forgets nlookup++.
DLExistingNoCount(t) ==
    LET r == loc[t].r IN
    /\ pc[t] = "DL_existing"
    /\ ilock[r] = None
    /\ fdtab' = [fdtab EXCEPT ![loc[t].newfd] = None]
    /\ LookupReturn(t, [loc[t] EXCEPT !.newfd = None, !.err = "OK"])
    /\ UNCHANGED <<dir, binc, srvvars, kvars>>

\* Mutant: the existing-record path does not close(newfd).
DLExistingNoClose(t) ==
    LET r == loc[t].r IN
    /\ pc[t] = "DL_existing"
    /\ ilock[r] = None
    /\ rec' = [rec EXCEPT ![r].nlookup = @ + 1]
    /\ LookupReturn(t, [loc[t] EXCEPT !.newfd = None, !.err = "OK"])
    /\ UNCHANGED <<fsvars, live, tbl, tlock, ilock, aborted, kvars>>

\* Mutant: the existing-record path closes i->fd instead of newfd.
DLExistingCloseWrong(t) ==
    LET r == loc[t].r IN
    /\ pc[t] = "DL_existing"
    /\ ilock[r] = None
    /\ rec' = [rec EXCEPT ![r].nlookup = @ + 1]
    /\ fdtab' = [fdtab EXCEPT ![rec[r].fd] = None]
    /\ LookupReturn(t, [loc[t] EXCEPT !.newfd = None, !.err = "OK"])
    /\ UNCHANGED <<dir, binc, live, tbl, tlock, ilock, aborted, kvars>>

\* Found a record with a descriptor: lock i->m, nlookup++, close(newfd).
DLExisting(t) ==
    LET r == loc[t].r IN
    /\ pc[t] = "DL_existing"
    /\ ilock[r] = None
    /\ rec' = [rec EXCEPT ![r].nlookup = @ + 1]
    /\ fdtab' = [fdtab EXCEPT ![loc[t].newfd] = None]
    /\ LookupReturn(t, [loc[t] EXCEPT !.newfd = None, !.err = "OK"])
    /\ UNCHANGED <<dir, binc, live, tbl, tlock, ilock, aborted, kvars>>

\* New or recycled record: lock i->m while holding f->m, fill it in, keep
\* the existing nlookup, adopt newfd, unlock both.
DLFresh(t) ==
    LET r == loc[t].r IN
    /\ pc[t] = "DL_fresh"
    /\ ilock[r] = None
    /\ rec' = [rec EXCEPT ![r].src = loc[t].file[1],
                          ![r].nlookup = @ + 1,
                          ![r].fd = loc[t].newfd]
    /\ tlock' = None
    /\ LookupReturn(t, [loc[t] EXCEPT !.newfd = None, !.err = "OK"])
    /\ UNCHANGED <<fsvars, live, tbl, ilock, aborted, kvars>>

-----------------------------------------------------------------------------
(* forget_one                                                              *)

\* Mutant: the record is released while one reference is left.
FOLockEarlyErase(t) ==
    LET r == loc[t].r IN
    /\ pc[t] = "FO_lock"
    /\ ilock[r] = None
    /\ IF loc[t].n > rec[r].nlookup
       THEN /\ aborted' = TRUE
            /\ pc' = [u \in Threads |-> "exited"]
            /\ UNCHANGED <<rec, ilock, loc>>
       ELSE /\ rec' = [rec EXCEPT ![r].nlookup = @ - loc[t].n]
            /\ UNCHANGED aborted
            /\ IF rec[r].nlookup <= loc[t].n + 1
               THEN /\ ilock' = [ilock EXCEPT ![r] = t]
                    /\ Goto(t, "FO_erase") /\ UNCHANGED loc
               ELSE /\ UNCHANGED ilock
                    /\ ForgetReturn(t)
    /\ UNCHANGED <<fsvars, live, tbl, tlock, kvars>>

\* Lock i->m, exit on a negative count, nlookup -= n; keep i->m when zero.
FOLock(t) ==
    LET r == loc[t].r IN
    /\ pc[t] = "FO_lock"
    /\ ilock[r] = None
    /\ IF loc[t].n > rec[r].nlookup
       THEN /\ aborted' = TRUE
            /\ pc' = [u \in Threads |-> "exited"]
            /\ UNCHANGED <<rec, ilock, loc>>
       ELSE /\ rec' = [rec EXCEPT ![r].nlookup = @ - loc[t].n]
            /\ UNCHANGED aborted
            /\ IF rec[r].nlookup = loc[t].n
               THEN /\ ilock' = [ilock EXCEPT ![r] = t]
                    /\ Goto(t, "FO_erase") /\ UNCHANGED loc
               ELSE /\ UNCHANGED ilock
                    /\ ForgetReturn(t)
    /\ UNCHANGED <<fsvars, live, tbl, tlock, kvars>>

\* Mutant: erase frees the record but leaves its descriptor open.
FOEraseNoClose(t) ==
    LET r == loc[t].r IN
    /\ pc[t] = "FO_erase"
    /\ tlock = None
    /\ ilock' = [ilock EXCEPT ![r] = None]
    /\ tbl' = [tbl EXCEPT ![rec[r].src] = None]
    /\ live' = live \ {r}
    /\ Goto(t, "FO_tail")
    /\ UNCHANGED <<fsvars, rec, tlock, aborted, loc, kvars>>

\* Lock f->m, unlock i->m, inode_table_erase (frees the record and closes
\* its descriptor), unlock f->m.
FOErase(t) ==
    LET r == loc[t].r IN
    /\ pc[t] = "FO_erase"
    /\ tlock = None
    /\ ilock' = [ilock EXCEPT ![r] = None]
    /\ tbl' = [tbl EXCEPT ![rec[r].src] = None]
    /\ live' = live \ {r}
    /\ fdtab' = IF rec[r].fd > 0 THEN [fdtab EXCEPT ![rec[r].fd] = None]
                                 ELSE fdtab
    /\ Goto(t, "FO_tail")
    /\ UNCHANGED <<dir, binc, rec, tlock, aborted, loc, kvars>>

\* `if (i->nlookup) unlock(&i->m)` after the erase: reads the freed
\* record, which another thread may have been given since.
FOTail(t) ==
    LET r == loc[t].r IN
    /\ pc[t] = "FO_tail"
    /\ ilock' = IF rec[r].nlookup # 0 THEN [ilock EXCEPT ![r] = None]
                                      ELSE ilock
    /\ ForgetReturn(t)
    /\ UNCHANGED <<fsvars, live, tbl, rec, tlock, aborted, kvars>>

-----------------------------------------------------------------------------
(* unlink                                                                  *)

\* Mutant: unlink releases the descriptor even while files are open.
ULInvalIgnoreOpen(t) ==
    LET r == loc[t].r IN
    /\ pc[t] = "UL_inval"
    /\ ilock[r] = None
    /\ IF rec[r].fd > 0
       THEN /\ ilock' = [ilock EXCEPT ![r] = t]
            /\ Goto(t, "UL_lockfs") /\ UNCHANGED loc
       ELSE /\ UNCHANGED ilock
            /\ Goto(t, "FO_lock") /\ loc' = [loc EXCEPT ![t].n = 1]
    /\ UNCHANGED <<fsvars, live, tbl, rec, tlock, aborted, kvars>>

\* nlink was 1: lock i->m; if it has a descriptor and no open file, go on
\* to lock f->m; otherwise unlock and forget the extra lookup.
ULInval(t) ==
    LET r == loc[t].r IN
    /\ pc[t] = "UL_inval"
    /\ ilock[r] = None
    /\ IF rec[r].fd > 0 /\ rec[r].nopen = 0
       THEN /\ ilock' = [ilock EXCEPT ![r] = t]
            /\ Goto(t, "UL_lockfs") /\ UNCHANGED loc
       ELSE /\ UNCHANGED ilock
            /\ Goto(t, "FO_lock") /\ loc' = [loc EXCEPT ![t].n = 1]
    /\ UNCHANGED <<fsvars, live, tbl, rec, tlock, aborted, kvars>>

\* Lock f->m, close(i->fd), i->fd = -ENOENT, generation++, unlock both.
ULLockfs(t) ==
    LET r == loc[t].r IN
    /\ pc[t] = "UL_lockfs"
    /\ tlock = None
    /\ fdtab' = [fdtab EXCEPT ![rec[r].fd] = None]
    /\ rec' = [rec EXCEPT ![r].fd = Unlinked, ![r].gen = @ + 1]
    /\ ilock' = [ilock EXCEPT ![r] = None]
    /\ Goto(t, "FO_lock") /\ loc' = [loc EXCEPT ![t].n = 1]
    /\ UNCHANGED <<dir, binc, live, tbl, tlock, aborted, kvars>>

\* unlinkat(parent fd, name, 0).
ULUnlinkat(t) ==
    LET n == loc[t].name IN
    /\ pc[t] = "UL_unlinkat"
    /\ \/ /\ dir[n] = None
          /\ loc' = [loc EXCEPT ![t].err = "ENOENT"]
          /\ UNCHANGED dir
       \/ /\ dir[n] # None
          /\ dir' = [dir EXCEPT ![n] = None]
          /\ loc' = [loc EXCEPT ![t].err = "OK"]
       \/ /\ dir[n] # None /\ UnlinkMayFail
          /\ loc' = [loc EXCEPT ![t].err = "EACCES"]
          /\ UNCHANGED dir
    /\ Goto(t, "reply")
    /\ UNCHANGED <<binc, fdtab, srvvars, kvars>>

-----------------------------------------------------------------------------
(* open and release                                                        *)

\* Mutant: a failed open() falls through to nopen++.
OPOpenNoReturn(t) ==
    LET rfd == loc[t].rfd IN
    /\ pc[t] = "OP_open"
    /\ IF rfd \in Fds /\ fdtab[rfd] # None /\ FreeFds # {}
       THEN /\ fdtab' = [fdtab EXCEPT ![LowestFree] = fdtab[rfd]]
            /\ loc' = [loc EXCEPT ![t].newfd = LowestFree]
       ELSE /\ loc' = [loc EXCEPT ![t].err =
                          IF FreeFds = {} THEN "EMFILE" ELSE "ENOENT"]
            /\ UNCHANGED fdtab
    /\ Goto(t, "OP_count")
    /\ UNCHANGED <<dir, binc, srvvars, kvars>>

\* open("/proc/self/fd/<i->fd>", O_RDWR | O_DIRECT) with the fd read
\* without the record lock when the request arrived.
OPOpen(t) ==
    LET rfd == loc[t].rfd IN
    /\ pc[t] = "OP_open"
    /\ IF rfd \in Fds /\ fdtab[rfd] # None /\ FreeFds # {}
       THEN /\ fdtab' = [fdtab EXCEPT ![LowestFree] = fdtab[rfd]]
            /\ loc' = [loc EXCEPT ![t].newfd = LowestFree]
            /\ Goto(t, "OP_count")
       ELSE /\ loc' = [loc EXCEPT ![t].err =
                          IF FreeFds = {} THEN "EMFILE" ELSE "ENOENT"]
            /\ Goto(t, "reply") /\ UNCHANGED fdtab
    /\ UNCHANGED <<dir, binc, srvvars, kvars>>

\* Lock i->m, nopen++, unlock; the new descriptor is the file handle.
OPCount(t) ==
    LET r == loc[t].r IN
    /\ pc[t] = "OP_count"
    /\ ilock[r] = None
    /\ rec' = [rec EXCEPT ![r].nopen = @ + 1]
    /\ Goto(t, "reply")
    /\ UNCHANGED <<fsvars, live, tbl, tlock, ilock, aborted, loc, kvars>>

\* Mutant: release closes the inode's descriptor instead of fh.
RelCloseWrong(t) ==
    LET r == loc[t].r IN
    /\ pc[t] = "REL"
    /\ ilock[r] = None
    /\ rec' = [rec EXCEPT ![r].nopen = @ - 1]
    /\ fdtab' = IF rec[r].fd > 0 THEN [fdtab EXCEPT ![rec[r].fd] = None]
                                 ELSE fdtab
    /\ Goto(t, "idle") /\ loc' = [loc EXCEPT ![t] = Blank]
    /\ UNCHANGED <<dir, binc, live, tbl, tlock, ilock, aborted, kvars>>

\* Lock i->m, nopen--, unlock, close(fh).
Rel(t) ==
    LET r == loc[t].r IN
    /\ pc[t] = "REL"
    /\ ilock[r] = None
    /\ rec' = [rec EXCEPT ![r].nopen = @ - 1]
    /\ fdtab' = [fdtab EXCEPT ![loc[t].newfd] = None]
    /\ Goto(t, "idle") /\ loc' = [loc EXCEPT ![t] = Blank]
    /\ UNCHANGED <<dir, binc, live, tbl, tlock, ilock, aborted, kvars>>

-----------------------------------------------------------------------------
(* getattr and fsync                                                       *)

\* fstatat(i->fd, "", AT_EMPTY_PATH) on the descriptor read from the
\* record without its lock; a closed descriptor gives EBADF.
GAStat(t) ==
    LET rfd == loc[t].rfd IN
    /\ pc[t] = "GA_stat"
    /\ loc' = IF rfd \in Fds /\ fdtab[rfd] # None
              THEN [loc EXCEPT ![t].attr = fdtab[rfd]]
              ELSE [loc EXCEPT ![t].err = "EBADF"]
    /\ Goto(t, "reply")
    /\ UNCHANGED <<fsvars, srvvars, kvars>>

\* fsync (or fdatasync) on the file handle the kernel passes.
FSync(t) ==
    /\ pc[t] = "FS_sync"
    /\ loc' = IF fdtab[loc[t].newfd] = None
              THEN [loc EXCEPT ![t].err = "EBADF"] ELSE loc
    /\ Goto(t, "reply")
    /\ UNCHANGED <<fsvars, srvvars, kvars>>

-----------------------------------------------------------------------------
(* The kernel: requests and replies                                        *)

\* Bound: no lookup of a name whose file the kernel already holds
\* MaxLookup references on.
RefRoom(n) == \A r \in Recs : kref[r] > 0 /\ dir[n] # None /\ kfile[r] = FileOf(n)
                                => kref[r] < MaxLookup
Start(t, l, s) ==
    /\ ~Busy(t) /\ ~aborted /\ l.op \in Enabled
    /\ Goto(t, s) /\ loc' = [loc EXCEPT ![t] = l]

\* Lookups of one name are not issued in parallel, and not while the
\* directory is locked for unlink or mknod.
RecvLookup(t, n) ==
    /\ InFlight({"unlink", "mknod"}) = {}
    /\ \A u \in InFlight({"lookup"}) : loc[u].name # n
    /\ RefRoom(n)
    /\ Start(t, [Blank EXCEPT !.op = "lookup", !.name = n], "DL_open")
    /\ UNCHANGED <<fsvars, srvvars, kvars>>

\* The kernel sends FORGET only for a node it holds no open file and no
\* request on; it drops its references when it sends.
RecvForget(t, r, k) ==
    /\ k <= kref[r]
    /\ \A h \in kopen : h.node # r
    /\ InFlight({"open", "release", "unlink", "getattr", "fsync"}) = {}
    /\ Start(t, [Blank EXCEPT !.op = "forget", !.r = r, !.n = k], "FO_lock")
    /\ kref' = [kref EXCEPT ![r] = @ - k]
    /\ UNCHANGED <<fsvars, srvvars, kfile, kopen, issued>>

\* References a batch of forget entries drops on node r.
Dropped(b, r) ==
    (IF b[1].r = r THEN b[1].n ELSE 0) + (IF b[2].r = r THEN b[2].n ELSE 0)

\* BATCH_FORGET carries the forget entries of several evicted nodes,
\* under the same conditions as FORGET; a node evicted, looked up again
\* and evicted again before the server ran may appear twice.  The
\* handler calls forget_one for each entry in turn.
RecvBatchForget(t, b) ==
    /\ kref[b[1].r] > 0
    /\ \A r \in Recs : Dropped(b, r) <= kref[r]
    /\ \A h \in kopen, i \in 1..Len(b) : h.node # b[i].r
    /\ InFlight({"open", "release", "unlink", "getattr", "fsync"}) = {}
    /\ Start(t, [Blank EXCEPT !.op = "batch_forget", !.r = Head(b).r,
                              !.n = Head(b).n, !.rest = Tail(b)], "FO_lock")
    /\ kref' = [r \in Recs |-> kref[r] - Dropped(b, r)]
    /\ UNCHANGED <<fsvars, srvvars, kfile, kopen, issued>>

\* unlink holds the directory lock.  With metadata_timeout = 0 the
\* handler first looks the name up to release the inode's descriptor.
\* A FORGET may be in flight: inode eviction queues it without a
\* directory lock.
RecvUnlink(t, n) ==
    /\ InFlight({"lookup", "unlink", "mknod"}) = {}
    /\ \A r \in live : rec[r].gen < MaxInc
    /\ Start(t, [Blank EXCEPT !.op = "unlink", !.name = n],
             IF Timeout = 0 THEN "DL_open" ELSE "UL_unlinkat")
    /\ UNCHANGED <<fsvars, srvvars, kvars>>

\* mknod holds the directory lock; make_something runs mknodat (the
\* backing filesystem picks a free inode number) then do_lookup.
RecvMknod(t, n) ==
    /\ InFlight({"lookup", "unlink", "mknod"}) = {}
    /\ \/ /\ dir[n] # None
          /\ Start(t, [Blank EXCEPT !.op = "mknod", !.name = n,
                                    !.err = "EEXIST"], "reply")
          /\ UNCHANGED fsvars
       \/ /\ dir[n] = None /\ \A i \in Inos : ~FreeIno(i)
          /\ Start(t, [Blank EXCEPT !.op = "mknod", !.name = n,
                                    !.err = "ENOSPC"], "reply")
          /\ UNCHANGED fsvars
       \/ \E i \in Inos :
          /\ dir[n] = None /\ FreeIno(i) /\ binc[i] < MaxInc
          /\ tbl[i] # None => kref[tbl[i]] < MaxLookup
          /\ dir' = [dir EXCEPT ![n] = i]
          /\ binc' = [binc EXCEPT ![i] = @ + 1]
          /\ Start(t, [Blank EXCEPT !.op = "mknod", !.name = n], "DL_open")
          /\ UNCHANGED fdtab
    /\ UNCHANGED <<srvvars, kvars>>

\* open on a node the kernel holds; the handler reads i->fd unlocked.
RecvOpen(t, r) ==
    /\ kref[r] > 0
    /\ Cardinality(kopen) + Cardinality(InFlight({"open"})) < MaxOpen
    /\ Start(t, [Blank EXCEPT !.op = "open", !.r = r, !.file = kfile[r],
                              !.rfd = rec[r].fd], "OP_open")
    /\ UNCHANGED <<fsvars, srvvars, kvars>>

\* getattr on a node the kernel holds; the handler reads i->fd unlocked.
RecvGetattr(t, r) ==
    /\ kref[r] > 0
    /\ Start(t, [Blank EXCEPT !.op = "getattr", !.r = r, !.file = kfile[r],
                              !.rfd = rec[r].fd], "GA_stat")
    /\ UNCHANGED <<fsvars, srvvars, kvars>>

RecvFsync(t, h) ==
    /\ Start(t, [Blank EXCEPT !.op = "fsync", !.r = h.node, !.newfd = h.fd],
             "FS_sync")
    /\ UNCHANGED <<fsvars, srvvars, kvars>>

\* The kernel releases a file only once no request holds it.
RecvRelease(t, h) ==
    /\ \A u \in InFlight({"fsync"}) : loc[u].newfd # h.fd
    /\ Start(t, [Blank EXCEPT !.op = "release", !.r = h.node,
                              !.newfd = h.fd], "REL")
    /\ kopen' = kopen \ {h}
    /\ UNCHANGED <<fsvars, srvvars, kref, kfile, issued>>

\* struct fuse_entry_param of an entry reply: ino is the record's address,
\* generation the record's, and attr the fstatat of the backing file
\* (abstracted to the file).  The timeouts are not modelled.
EntryParam(l) == [ino |-> l.r, generation |-> l.gen, attr |-> l.file]

\* The reply reaches the kernel (fuse_ll_reply_entry / reply_open).
Reply(t) ==
    LET l == loc[t] IN
    /\ pc[t] = "reply"
    /\ IF l.op \in {"lookup", "mknod"} /\ l.err = "OK"
       THEN /\ kref' = [kref EXCEPT ![l.r] = @ + 1]
            /\ kfile' = [kfile EXCEPT ![l.r] = l.file]
            /\ issued' = IF KeepHistory THEN issued \cup {EntryParam(l)}
                                         ELSE issued
            /\ UNCHANGED kopen
       ELSE IF l.op = "open" /\ l.err = "OK"
       THEN /\ kopen' = kopen \cup {[node |-> l.r, fd |-> l.newfd,
                                     file |-> l.file]}
            /\ UNCHANGED <<kref, kfile, issued>>
       ELSE UNCHANGED kvars
    /\ Goto(t, "idle") /\ loc' = [loc EXCEPT ![t] = Blank]
    /\ UNCHANGED <<fsvars, srvvars>>

\* With every thread idle the kernel may send nothing more.
KernelQuiet == Quiescent /\ ~aborted /\ UNCHANGED vars

-----------------------------------------------------------------------------

Init ==
    /\ dir \in InitDirs
    /\ binc = [i \in Inos |-> IF \E n \in Names : dir[n] = i THEN 1 ELSE 0]
    /\ fdtab = [fd \in Fds |-> None]
    /\ live = {}
    /\ tbl = [i \in Inos |-> None]
    /\ rec = [r \in Recs |-> FreshRec]
    /\ tlock = None
    /\ ilock = [r \in Recs |-> None]
    /\ pc = [t \in Threads |-> "idle"]
    /\ loc = [t \in Threads |-> Blank]
    /\ aborted = FALSE
    /\ kref = [r \in Recs |-> 0]
    /\ kfile = [r \in Recs |-> None]
    /\ kopen = {}
    /\ issued = {}

Step(t) ==
    \/ DLOpen(t) \/ DLGetsert(t) \/ DLExisting(t) \/ DLFresh(t)
    \/ FOLock(t) \/ FOErase(t) \/ FOTail(t)
    \/ ULInval(t) \/ ULLockfs(t) \/ ULUnlinkat(t)
    \/ OPOpen(t) \/ OPCount(t) \/ Rel(t) \/ GAStat(t) \/ FSync(t) \/ Reply(t)

Request(t) ==
    \/ \E n \in Names : RecvLookup(t, n) \/ RecvUnlink(t, n) \/ RecvMknod(t, n)
    \/ \E r \in Recs, k \in 1..MaxLookup : RecvForget(t, r, k)
    \/ \E b \in ForgetBatches : RecvBatchForget(t, b)
    \/ \E r \in Recs : RecvOpen(t, r) \/ RecvGetattr(t, r)
    \/ \E h \in kopen : RecvRelease(t, h) \/ RecvFsync(t, h)

Next == (\E t \in Threads : Request(t) \/ Step(t)) \/ KernelQuiet

Spec == Init /\ [][Next]_vars

-----------------------------------------------------------------------------
(* Properties                                                              *)

TypeOK ==
    /\ dir \in [Names -> Inos \cup {None}]
    /\ binc \in [Inos -> 0..MaxInc]
    /\ fdtab \in [Fds -> Files \cup {None}]
    /\ live \subseteq Recs
    /\ tbl \in [Inos -> Recs \cup {None}]
    /\ \A r \in Recs :
         /\ rec[r].src \in Inos \cup {None}
         /\ rec[r].fd \in Fds \cup {Unset, Unlinked}
         /\ rec[r].nlookup \in 0..(MaxLookup + Cardinality(Threads))
         /\ rec[r].nopen \in 0..MaxOpen
         /\ rec[r].gen \in 0..MaxInc
    /\ tlock \in Threads \cup {None}
    /\ ilock \in [Recs -> Threads \cup {None}]
    /\ pc \in [Threads -> Steps]
    /\ \A t \in Threads : loc[t].err \in Errs
    /\ aborted \in BOOLEAN
    /\ kref \in [Recs -> Nat]
    /\ kfile \in [Recs -> Files \cup {None}]
    /\ kopen \subseteq [node : Recs, fd : Fds, file : Files \cup {None}]

\* Every node-id the kernel holds a lookup reference on is an allocated
\* record, still in the table under its backing inode, for the same
\* backing inode the kernel was told about (do_lookup, forget_one).
KernelRefsLive ==
    \A r \in Recs : kref[r] > 0 =>
        /\ r \in live
        /\ tbl[rec[r].src] = r
        /\ kfile[r][1] = rec[r].src

\* Between requests the server's lookup count of every record equals the
\* references the kernel holds on it, and a record with none has been
\* erased (nlookup++ in do_lookup, the compensating forget_one in unlink,
\* the erase in forget_one).
LookupCountsAgree ==
    Quiescent => \A r \in live : rec[r].nlookup = kref[r] /\ kref[r] > 0

\* Every open descriptor of the server belongs to a record, to a file
\* handle the kernel holds, or to a request still running (the newfd of
\* do_lookup, the reopened fd of open).
NoFdLeak ==
    \A fd \in Fds : fdtab[fd] # None =>
        \/ \E r \in live : rec[r].fd = fd
        \/ \E h \in kopen : h.fd = fd
        \/ \E t \in Threads : Busy(t) /\ loc[t].newfd = fd

\* Between requests the server's open count of every record equals the
\* file handles the kernel holds on that node (nopen++ in open after the
\* reopen succeeded, nopen-- in release); unlink trusts it to decide
\* whether the descriptor may be released.
OpenCountsAgree ==
    Quiescent => \A r \in live :
        rec[r].nopen = Cardinality({h \in kopen : h.node = r})

\* A file handle the kernel holds is a descriptor of the file it opened
\* the node for (open reads i->fd without the lock; unlink closes it).
OpenHandleMatchesFile ==
    \A h \in kopen : fdtab[h.fd] = h.file

\* Outside an unlink, a record has given up its descriptor only if the
\* kernel's file of that node no longer has a name (unlink closes i->fd
\* before unlinkat).  No run checks it: whenever the backing unlinkat is
\* refused, the file keeps its name and the node its -ENOENT descriptor.
UnlinkedMeansGone ==
    InFlight({"unlink"}) = {} =>
        \A r \in live : rec[r].fd = Unlinked => kfile[r] \notin NamedFiles

\* A node-id and generation pair names one backing file over the whole
\* run (fuse_entry_param: "ino/generation pairs need to be unique over
\* the file system's lifetime").
NodeGenIdentifiesFile ==
    \A x, y \in issued :
        x.ino = y.ino /\ x.generation = y.generation => x.attr = y.attr

\* No thread reads or writes a record after it has been freed.
NoUseAfterFree ==
    \A t \in Threads :
        pc[t] \in {"DL_existing", "DL_fresh", "UL_inval", "UL_lockfs",
                   "FO_lock", "FO_erase", "FO_tail", "OP_count", "REL"}
            => loc[t].r \in live

\* A thread that took i->m and waits for f->m (forget_one before its erase,
\* unlink before inode invalidation) still owns i->m.  forget_one's last
\* statement, `if (i->nlookup) unlock(&i->m)` (part_001:55), reads the
\* record after the erase freed it; once a lookup has reused that address,
\* the read count is not 0 and it releases a mutex another thread holds.
MutexOwnedInSection ==
    \A t \in Threads : pc[t] \in {"FO_erase", "UL_lockfs"} => ilock[loc[t].r] = t

\* The lock a thread's next step waits for, and the locks it holds.
WaitsFor(t) ==
    CASE pc[t] \in {"DL_getsert", "UL_lockfs", "FO_erase"} -> "table"
      [] pc[t] \in {"DL_existing", "DL_fresh", "UL_inval", "FO_lock",
                    "OP_count", "REL"} -> loc[t].r
      [] OTHER -> None
Holds(t) == {r \in Recs : ilock[r] = t} \cup (IF tlock = t THEN {"table"} ELSE {})

\* No two threads each wait for a mutex the other holds (lock order
\* i->m before f->m, which the fresh-record path of do_lookup inverts).
NoLockCycle ==
    \A t, u \in Threads :
        ~(t # u /\ WaitsFor(t) \in Holds(u) /\ WaitsFor(u) \in Holds(t))

\* A getattr reply describes the file the kernel's node stands for:
\* getattr stats i->fd, read without i->m, and the descriptor must not
\* have been closed and its number given to another file in between
\* (unlink's close(i->fd) and i->fd = -ENOENT, do_lookup's openat).
AttrMatchesFile ==
    \A t \in Threads :
        pc[t] = "reply" /\ loc[t].op = "getattr" /\ loc[t].err = "OK"
            => loc[t].attr = loc[t].file


\* The inode record of each backing inode number, as AbsInode sees it: a
\* record still without a descriptor (just inserted) is not yet there.
RecOf(i) == tbl[i]
AbsState(i) ==
    CASE RecOf(i) = None \/ rec[RecOf(i)].fd = Unset -> "dead"
      [] rec[RecOf(i)].fd = Unlinked -> "unlinked"
      [] OTHER -> "live"
AbsCount(i, f) == IF RecOf(i) = None THEN 0 ELSE rec[RecOf(i)][f]

Lifecycle == INSTANCE AbsInode WITH
    st <- [i \in Inos |-> AbsState(i)],
    nl <- [i \in Inos |-> AbsCount(i, "nlookup")],
    no <- [i \in Inos |-> AbsCount(i, "nopen")]

\* The table implements the record lifecycle of spec 4.8: a record turns
\* Unlinked-Retained only from Live and with no open file (unlink's
\* st_nlink and nopen tests), comes back to Live only through a lookup
\* that adopts a new descriptor, and is erased only when nlookup and
\* nopen are both 0 (forget_one, inode_table_erase); nlookup and nopen
\* move only by what lookup, forget, open and release carry.
InodeLifecycle == Lifecycle!Spec

=============================================================================
