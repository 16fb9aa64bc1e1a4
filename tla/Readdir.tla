------------------------------- MODULE Readdir -------------------------------
(***************************************************************************)
(* Directory streams of the local-mirror file server (src/unnamed/part_001 *)
(* 314-473): opendir wraps a fresh directory stream over the inode's fd,   *)
(* readdir and readdirplus fill one reply buffer per request from that     *)
(* stream, and releasedir destroys it.                                     *)
(*                                                                         *)
(* The handle caches d->offset, the d_off of the last entry it read, and   *)
(* seeks the stream only when the kernel asks for another offset.  The     *)
(* entry that does not fit the buffer has already been read from the       *)
(* stream (and, for readdirplus, looked up); the next request, at the      *)
(* offset of the last entry the kernel got, must seek back to it.          *)
(*                                                                         *)
(* readdir runs under the directory's i->m, so readdirs of one directory   *)
(* do not overlap.  The kernel holds the directory lock shared across a    *)
(* readdir and exclusive across a create or unlink, so the directory       *)
(* changes only between two readdir requests.  do_lookup is abstracted to  *)
(* the lookup count it adds (its races are the Mirror module's); FORGET    *)
(* runs on another thread at any time.                                     *)
(***************************************************************************)
EXTENDS Integers, Sequences, FiniteSets

CONSTANTS
    Names,          \* entries of the directory other than "." and ".."
    Handles,        \* directory handles the kernel may hold open
    Orders,         \* the d_off cookies the backing filesystem may give
    MaxBuf,         \* bound: entries one reply buffer holds
    MaxListings,    \* bound: listings (opendir or rewind) per handle
    IoMayFail,      \* readdir(3) or do_lookup may fail (EIO, EMFILE)
    None

Dots == {".", ".."}
Entries == Names \cup Dots
Cookies == 1..Cardinality(Entries)

ASSUME Orders \subseteq [Entries -> Cookies]
ASSUME MaxBuf \in Nat \ {0} /\ IoMayFail \in BOOLEAN

VARIABLES
    cookie,     \* the backing filesystem's d_off of every entry
    present,    \* names linked in the backing directory
    dh,         \* struct directory per handle: the stream (position,
                \* glibc's buffer of entries read ahead) and d->offset
    nlook,      \* nlookup of each name's inode record
    pc,         \* the readdir in progress: "idle", "RD_entry", "RD_reply"
    loc,        \* its request and locals: handle, buffer size, plus, err
    kl,         \* kernel, per handle: next offset, names got, state
    kref,       \* kernel: lookup references per name
    nlist       \* listings started per handle

vars == <<cookie, present, dh, nlook, pc, loc, kl, kref, nlist>>

\* A stream at position p with nothing read ahead, as opendir and
\* seekdir leave it.
At(p) == [open |-> TRUE, pos |-> p, offset |-> p, buf |-> {}, fetched |-> FALSE]
Closed == [At(0) EXCEPT !.open = FALSE]

KStates == {"closed", "reading", "waiting", "eof", "error"}

\* A listing from offset 0: what the kernel has been given so far, the
\* names linked in the directory all through it and those linked at some
\* time of it.
Listing(st) == [off |-> 0, got |-> [e \in Entries |-> 0], state |-> st,
                stable |-> present, may |-> present]

Blank == [h |-> None, cap |-> 0, plus |-> FALSE, buf |-> <<>>, err |-> FALSE]

-----------------------------------------------------------------------------
(* Helpers                                                                 *)

IsDotOrDotdot(e) == e \in Dots

\* getdents(2) at the stream position: the entries after it in the
\* directory as it is now (one call holds a directory this small).
Fetch(d) == {x \in Dots \cup present : cookie[x] > d.pos}

First(S) == CHOOSE e \in S : \A x \in S : cookie[e] <= cookie[x]

\* readdir(3) (glibc): the entries still in its buffer, which may since
\* have been unlinked; once the buffer is drained, a new getdents.  After
\* a getdents that read to the end, a hashed directory (ext4 htree) keeps
\* reporting the end until a seek, whatever was linked since.  The empty
\* set is the end of the stream.
Reads(d) ==
    IF d.buf # {} THEN {d.buf}
    ELSE {Fetch(d)} \cup (IF d.fetched THEN {{}} ELSE {})

\* The stream after readdir(3) returned the first of S.
Read(d, S) == [d EXCEPT !.pos = cookie[First(S)], !.buf = S \ {First(S)},
                        !.fetched = TRUE]

\* struct iov: the room left in the reply buffer, in entries.
Room(l) == l.cap - Len(l.buf)

\* Mutant: the "buffer full" return of the encoder is ignored.
WrittenAlways(l) == TRUE

\* fuse_add_direntry(_plus) writes the entry when it fits, else returns 0.
Written(l) == Room(l) > 0

-----------------------------------------------------------------------------
(* The handlers                                                            *)

\* opendir: calloc the handle, openat(i->fd, "."), fdopendir; the stream
\* starts at the beginning and d->offset is 0.
OpenDir(h) ==
    /\ kl[h].state = "closed" /\ nlist[h] < MaxListings
    /\ dh' = [dh EXCEPT ![h] = At(0)]
    /\ kl' = [kl EXCEPT ![h] = Listing("reading")]
    /\ nlist' = [nlist EXCEPT ![h] = @ + 1]
    /\ UNCHANGED <<cookie, present, nlook, pc, loc, kref>>

\* releasedir: directory_destroy(fh), which closes the stream.
ReleaseDir(h) ==
    /\ kl[h].state \in {"reading", "eof", "error"}
    /\ dh' = [dh EXCEPT ![h] = Closed]
    /\ kl' = [kl EXCEPT ![h].state = "closed"]
    /\ UNCHANGED <<cookie, present, nlook, pc, loc, kref, nlist>>

\* Mutant: the stream is not moved to the kernel's offset.
RDStartNoSeek(h, cap, plus) ==
    /\ pc = "idle" /\ kl[h].state = "reading"
    /\ loc' = [Blank EXCEPT !.h = h, !.cap = cap, !.plus = plus]
    /\ kl' = [kl EXCEPT ![h].state = "waiting"]
    /\ pc' = "RD_entry"
    /\ UNCHANGED <<cookie, present, dh, nlook, kref, nlist>>

\* readdir(plus) arrives with the kernel's offset and buffer size: lock
\* i->m; seekdir and d->offset = off when off differs from d->offset.
RDStart(h, cap, plus) ==
    LET off == kl[h].off IN
    /\ pc = "idle" /\ kl[h].state = "reading"
    /\ dh' = IF off # dh[h].offset THEN [dh EXCEPT ![h] = At(off)] ELSE dh
    /\ loc' = [Blank EXCEPT !.h = h, !.cap = cap, !.plus = plus]
    /\ kl' = [kl EXCEPT ![h].state = "waiting"]
    /\ pc' = "RD_entry"
    /\ UNCHANGED <<cookie, present, nlook, kref, nlist>>

\* One turn of the loop for the entry e read from the stream (S its
\* read-ahead): d->offset = d_off, skip "." and "..", look the name up for
\* readdirplus (which fails for a name unlinked since the getdents, or
\* with EMFILE), and add the entry.  An entry that does not fit ends the
\* loop; for readdirplus forget_one undoes its lookup, so the count is as
\* before.  SetAlways is whether d->offset = d_off runs for every entry,
\* and Undo whether forget_one runs (both TRUE in the code).
EntryTurn(h, S, SetAlways, Undo) ==
    LET e == First(S)
        Add == loc' = [loc EXCEPT !.buf = Append(@, e)]
        Fails == IoMayFail \/ e \notin present
        Lookup ==
            \/ Fails /\ loc' = [loc EXCEPT !.err = TRUE]
               /\ pc' = "RD_reply" /\ UNCHANGED nlook
            \/ /\ e \in present /\ Written(loc)
               /\ nlook' = [nlook EXCEPT ![e] = @ + 1]
               /\ Add /\ UNCHANGED pc
            \/ /\ e \in present /\ ~Written(loc)
               /\ nlook' = IF Undo THEN nlook ELSE [nlook EXCEPT ![e] = @ + 1]
               /\ pc' = "RD_reply" /\ UNCHANGED loc
    IN
    /\ dh' = [dh EXCEPT ![h] =
                IF SetAlways \/ IsDotOrDotdot(e) \/ Written(loc)
                THEN [Read(@, S) EXCEPT !.offset = cookie[e]]
                ELSE Read(@, S)]
    /\ CASE IsDotOrDotdot(e) -> UNCHANGED <<nlook, loc, pc>>
         [] loc.plus -> Lookup
         [] Written(loc) -> Add /\ UNCHANGED <<nlook, pc>>
         [] OTHER -> pc' = "RD_reply" /\ UNCHANGED <<nlook, loc>>

\* The loop of fuser_mirror_readdir, one turn per step, with SetAlways
\* and Undo as in EntryTurn.
EntryLoop(SetAlways, Undo) ==
    LET h == loc.h IN
    /\ pc = "RD_entry"
    /\ \/ /\ IoMayFail /\ loc' = [loc EXCEPT !.err = TRUE]
          /\ pc' = "RD_reply" /\ UNCHANGED <<dh, nlook>>
       \/ \E S \in Reads(dh[h]) :
          IF S = {}
          THEN /\ dh' = [dh EXCEPT ![h].fetched = TRUE]
               /\ pc' = "RD_reply" /\ UNCHANGED <<nlook, loc>>
          ELSE EntryTurn(h, S, SetAlways, Undo)
    /\ UNCHANGED <<cookie, present, kl, kref, nlist>>

\* Mutant: the readdirplus entry that does not fit keeps its lookup.
RDEntryNoForget == EntryLoop(TRUE, FALSE)

\* Mutant: d->offset is advanced only for an entry that was added.
RDEntryOffsetOnAdd == EntryLoop(FALSE, TRUE)

\* One turn of the loop: readdir(d->dp); at the end of the stream, or if
\* it fails, go to the reply; else the turn for the entry it returned.
RDEntry == EntryLoop(TRUE, TRUE)

\* Unlock i->m and reply.  An error is reported only when no entry was
\* stored (otherwise the lookup counts of the stored entries would be
\* wrong); else the entries collected so far are returned, and an empty
\* buffer is the end of the directory.  The kernel continues at the d_off
\* of the last entry it got, and takes one lookup reference per
\* readdirplus entry.
RDReply ==
    LET h == loc.h
        buf == loc.buf
        Count(e) == Cardinality({i \in 1..Len(buf) : buf[i] = e})
    IN
    /\ pc = "RD_reply"
    /\ kl' = [kl EXCEPT ![h] =
                CASE loc.err /\ buf = <<>> -> [@ EXCEPT !.state = "error"]
                  [] buf = <<>> -> [@ EXCEPT !.state = "eof"]
                  [] OTHER -> [@ EXCEPT !.state = "reading",
                                        !.off = cookie[buf[Len(buf)]],
                                        !.got = [e \in Entries |-> @[e] + Count(e)]]]
    /\ kref' = IF loc.plus THEN [n \in Names |-> kref[n] + Count(n)] ELSE kref
    /\ pc' = "idle" /\ loc' = Blank
    /\ UNCHANGED <<cookie, present, dh, nlook, nlist>>

\* FORGET (forget_one on another thread) drops k references at once.
Forget(n, k) ==
    /\ k <= kref[n]
    /\ kref' = [kref EXCEPT ![n] = @ - k]
    /\ nlook' = [nlook EXCEPT ![n] = @ - k]
    /\ UNCHANGED <<cookie, present, dh, pc, loc, kl, nlist>>

-----------------------------------------------------------------------------
(* The kernel and the rest of the system                                   *)

\* rewinddir: the application starts the listing again at offset 0.
Rewind(h) ==
    /\ kl[h].state \in {"reading", "eof", "error"} /\ nlist[h] < MaxListings
    /\ kl' = [kl EXCEPT ![h] = Listing("reading")]
    /\ nlist' = [nlist EXCEPT ![h] = @ + 1]
    /\ UNCHANGED <<cookie, present, dh, nlook, pc, loc, kref>>

\* After an error the application may read again at the same offset.
Retry(h) ==
    /\ kl[h].state = "error"
    /\ kl' = [kl EXCEPT ![h].state = "reading"]
    /\ UNCHANGED <<cookie, present, dh, nlook, pc, loc, kref, nlist>>

\* A create or an unlink in the directory, between two readdirs.
Link(n) ==
    /\ pc = "idle" /\ n \notin present
    /\ present' = present \cup {n}
    /\ kl' = [h \in Handles |-> [kl[h] EXCEPT !.may = @ \cup {n}]]
    /\ UNCHANGED <<cookie, dh, nlook, pc, loc, kref, nlist>>

Unlink(n) ==
    /\ pc = "idle" /\ n \in present
    /\ present' = present \ {n}
    /\ kl' = [h \in Handles |-> [kl[h] EXCEPT !.stable = @ \ {n}]]
    /\ UNCHANGED <<cookie, dh, nlook, pc, loc, kref, nlist>>

-----------------------------------------------------------------------------

Init ==
    /\ cookie \in Orders
    /\ present \in SUBSET Names
    /\ dh = [h \in Handles |-> Closed]
    /\ nlook = [n \in Names |-> 0]
    /\ pc = "idle"
    /\ loc = Blank
    /\ kl = [h \in Handles |-> Listing("closed")]
    /\ kref = [n \in Names |-> 0]
    /\ nlist = [h \in Handles |-> 0]

Next ==
    \/ \E h \in Handles :
          \/ OpenDir(h) \/ ReleaseDir(h) \/ Rewind(h) \/ Retry(h)
          \/ \E cap \in 1..MaxBuf, plus \in BOOLEAN : RDStart(h, cap, plus)
    \/ RDEntry \/ RDReply
    \/ \E n \in Names : Link(n) \/ Unlink(n) \/ \E k \in 1..kref[n] : Forget(n, k)

Spec == Init /\ [][Next]_vars

-----------------------------------------------------------------------------
(* Properties                                                              *)

TypeOK ==
    /\ cookie \in Orders
    /\ present \subseteq Names
    /\ dh \in [Handles -> [open : BOOLEAN, pos : 0..Cardinality(Entries),
                           offset : 0..Cardinality(Entries),
                           buf : SUBSET Entries, fetched : BOOLEAN]]
    /\ nlook \in [Names -> Nat]
    /\ pc \in {"idle", "RD_entry", "RD_reply"}
    /\ loc.buf \in Seq(Entries) /\ Len(loc.buf) <= MaxBuf
    /\ \A h \in Handles : kl[h].state \in KStates /\ kl[h].stable \subseteq Names
    /\ kref \in [Names -> Nat]
    /\ nlist \in [Handles -> 0..MaxListings]

\* One listing gives the kernel every name that stayed linked all through
\* it exactly once, never "." or "..", and no name twice, however the
\* reply buffers cut the directory (spec 8, property 5).  It depends on
\* d->offset being advanced before the fit test and on the seek back when
\* the kernel asks for the offset of the last entry it got.
ListingExact ==
    \A h \in Handles, e \in Entries :
        /\ kl[h].got[e] <= 1
        /\ IsDotOrDotdot(e) => kl[h].got[e] = 0
        /\ kl[h].state = "eof" /\ e \in kl[h].stable => kl[h].got[e] = 1

\* Between readdirs, every name's nlookup equals the references the kernel
\* holds: each readdirplus entry the kernel gets was looked up once, the
\* entry that did not fit was forgotten, and an error is reported only
\* when no looked-up entry is dropped with it.
LookupBalanced == pc = "idle" => nlook = kref

\* The kernel's view of each listing, with a request in flight counted as
\* still reading.
KernelListing ==
    [h \in Handles |-> [off |-> kl[h].off, got |-> kl[h].got,
                        stable |-> kl[h].stable, may |-> kl[h].may,
                        state |-> IF kl[h].state = "waiting" THEN "reading"
                                  ELSE kl[h].state]]

Abs == INSTANCE AbsListing WITH lst <- KernelListing

\* readdir and readdirplus implement AbsListing: each reply is a run of
\* names after the kernel's offset that leaves out no name linked all
\* through the listing, whatever the cached d->offset, the stream
\* position after the entry that did not fit, glibc's stale read-ahead, a
\* failing lookup or a create or unlink between two requests; the end is
\* reported only when no such name is left after the offset.
ListingRefinement == Abs!Spec

====
