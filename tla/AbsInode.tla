------------------------------- MODULE AbsInode -------------------------------
(***************************************************************************)
(* The life of an inode record as the file server promises it (spec 3 and *)
(* 4.8), per backing inode number: absent (Fresh or Dead) until a lookup  *)
(* makes it Live; Live becomes Unlinked-Retained when its last link is     *)
(* unlinked while no file is open on it, and a lookup makes it Live again  *)
(* with a fresh descriptor; it is erased only when neither lookup          *)
(* references nor open files are left.  Lookup, forget, open and release   *)
(* move the two counts by the amounts the kernel sent.                     *)
(***************************************************************************)
EXTENDS Naturals

CONSTANT Inos

VARIABLES
    st,     \* inode number -> "dead", "live", "unlinked"
    nl,     \* nlookup of its record
    no      \* nopen of its record

vars == <<st, nl, no>>

Init ==
    /\ st = [i \in Inos |-> "dead"]
    /\ nl = [i \in Inos |-> 0]
    /\ no = [i \in Inos |-> 0]

Lookup(i) ==
    /\ st' = [st EXCEPT ![i] = "live"]
    /\ nl' = [nl EXCEPT ![i] = @ + 1]
    /\ UNCHANGED no

Forget(i, n) ==
    /\ st[i] # "dead" /\ n \in 1..nl[i]
    /\ nl' = [nl EXCEPT ![i] = @ - n]
    /\ UNCHANGED <<st, no>>

Erase(i) ==
    /\ st[i] # "dead" /\ nl[i] = 0 /\ no[i] = 0
    /\ st' = [st EXCEPT ![i] = "dead"]
    /\ UNCHANGED <<nl, no>>

Open(i) ==
    /\ st[i] = "live"
    /\ no' = [no EXCEPT ![i] = @ + 1]
    /\ UNCHANGED <<st, nl>>

Release(i) ==
    /\ no[i] > 0
    /\ no' = [no EXCEPT ![i] = @ - 1]
    /\ UNCHANGED <<st, nl>>

Unlink(i) ==
    /\ st[i] = "live" /\ no[i] = 0
    /\ st' = [st EXCEPT ![i] = "unlinked"]
    /\ UNCHANGED <<nl, no>>

Next ==
    \E i \in Inos :
        \/ Lookup(i) \/ Erase(i) \/ Open(i) \/ Release(i) \/ Unlink(i)
        \/ \E n \in 1..nl[i] : Forget(i, n)

Spec == Init /\ [][Next]_vars

=============================================================================
