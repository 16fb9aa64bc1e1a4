------------------------------ MODULE AbsListing ------------------------------
(***************************************************************************)
(* What a directory listing promises the kernel, whatever the reply       *)
(* buffers and the stream underneath: every reply is a run of names after  *)
(* the kernel's offset, in d_off order, without "." and "..", and the      *)
(* kernel's offset moves to the last of them; the end of the directory is  *)
(* reported only when no name lies after the offset.  As readdir(3) says,  *)
(* a name linked or unlinked after the listing began may or may not be     *)
(* listed; a name linked all through it is listed, in its place.           *)
(* Spec sections 4.5 and 8 (property 5).                                   *)
(***************************************************************************)
EXTENDS Integers, FiniteSets

CONSTANTS Names, Handles, Orders

Entries == Names \cup {".", ".."}

VARIABLES
    cookie,     \* the backing filesystem's d_off of every entry
    present,    \* names linked in the directory
    lst         \* per handle: kernel offset, names got, listing state,
                \* names linked all through it, names linked at some time

vars == <<cookie, present, lst>>

Fresh(st) == [off |-> 0, got |-> [e \in Entries |-> 0], state |-> st,
              stable |-> present, may |-> present]

Init ==
    /\ cookie \in Orders
    /\ present \in SUBSET Names
    /\ lst = [h \in Handles |-> Fresh("closed")]

Open(h) ==
    /\ lst[h].state = "closed"
    /\ lst' = [lst EXCEPT ![h] = Fresh("reading")]
    /\ UNCHANGED <<cookie, present>>

Release(h) ==
    /\ lst[h].state # "closed"
    /\ lst' = [lst EXCEPT ![h].state = "closed"]
    /\ UNCHANGED <<cookie, present>>

Restart(h) ==
    /\ lst[h].state # "closed"
    /\ lst' = [lst EXCEPT ![h] = Fresh("reading")]
    /\ UNCHANGED <<cookie, present>>

Retry(h) ==
    /\ lst[h].state = "error"
    /\ lst' = [lst EXCEPT ![h].state = "reading"]
    /\ UNCHANGED <<cookie, present>>

\* A reply of the names S: all after the offset, linked at some time of
\* the listing, and every name linked all through it up to the last of S.
Deliver(h, S) ==
    LET l == lst[h]
        last == CHOOSE c \in {cookie[n] : n \in S} : \A n \in S : cookie[n] <= c
    IN
    /\ l.state = "reading" /\ S # {} /\ S \subseteq l.may
    /\ \A n \in S : cookie[n] > l.off
    /\ \A n \in l.stable : l.off < cookie[n] /\ cookie[n] <= last => n \in S
    /\ lst' = [lst EXCEPT ![h].off = last,
                          ![h].got = [e \in Entries |-> @[e] + IF e \in S THEN 1 ELSE 0]]
    /\ UNCHANGED <<cookie, present>>

\* The end, once no name linked all through the listing lies after the
\* offset.
End(h) ==
    /\ lst[h].state = "reading"
    /\ \A n \in lst[h].stable : cookie[n] <= lst[h].off
    /\ lst' = [lst EXCEPT ![h].state = "eof"]
    /\ UNCHANGED <<cookie, present>>

Fail(h) ==
    /\ lst[h].state = "reading"
    /\ lst' = [lst EXCEPT ![h].state = "error"]
    /\ UNCHANGED <<cookie, present>>

Link(n) ==
    /\ n \notin present /\ present' = present \cup {n}
    /\ lst' = [h \in Handles |-> [lst[h] EXCEPT !.may = @ \cup {n}]]
    /\ UNCHANGED cookie

Unlink(n) ==
    /\ n \in present /\ present' = present \ {n}
    /\ lst' = [h \in Handles |-> [lst[h] EXCEPT !.stable = @ \ {n}]]
    /\ UNCHANGED cookie

Next ==
    \/ \E h \in Handles :
          \/ Open(h) \/ Release(h) \/ Restart(h) \/ Retry(h) \/ End(h) \/ Fail(h)
          \/ \E S \in SUBSET Names : Deliver(h, S)
    \/ \E n \in Names : Link(n) \/ Unlink(n)

Spec == Init /\ [][Next]_vars

=============================================================================
