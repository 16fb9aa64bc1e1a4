-------------------------------- MODULE AbsHal --------------------------------
(***************************************************************************)
(* What a HAL promises the file server and the guest, independent of how  *)
(* it polls: requests are taken only while the device serves, a taken     *)
(* request is answered at once or left in flight and answered once later, *)
(* the device starts draining only after a shutdown was requested, and it *)
(* stops only when nothing is in flight.  Spec sections 4.6, 5 and 9.     *)
(***************************************************************************)
CONSTANTS Reqs

VARIABLES
    phase,      \* "init", "serving", "draining", "stopped"
    stopReq,    \* a shutdown has been requested
    st          \* request -> "unsent", "queued", "pending", "answered"

vars == <<phase, stopReq, st>>

Init ==
    /\ phase = "init"
    /\ stopReq = FALSE
    /\ st = [r \in Reqs |-> "unsent"]

Start == phase = "init" /\ phase' = "serving" /\ UNCHANGED <<stopReq, st>>

Submit(r) == st[r] = "unsent" /\ st' = [st EXCEPT ![r] = "queued"]
             /\ UNCHANGED <<phase, stopReq>>

Accept(r) ==
    /\ phase = "serving" /\ st[r] = "queued"
    /\ \E x \in {"answered", "pending"} : st' = [st EXCEPT ![r] = x]
    /\ UNCHANGED <<phase, stopReq>>

Complete(r) ==
    /\ phase # "stopped" /\ st[r] = "pending"
    /\ st' = [st EXCEPT ![r] = "answered"]
    /\ UNCHANGED <<phase, stopReq>>

RequestStop == ~stopReq /\ stopReq' = TRUE /\ UNCHANGED <<phase, st>>

Drain == phase = "serving" /\ stopReq /\ phase' = "draining"
         /\ UNCHANGED <<stopReq, st>>

Stop ==
    /\ phase = "draining" /\ \A r \in Reqs : st[r] # "pending"
    /\ phase' = "stopped"
    /\ UNCHANGED <<stopReq, st>>

Next ==
    \/ Start \/ RequestStop \/ Drain \/ Stop
    \/ \E r \in Reqs : Submit(r) \/ Accept(r) \/ Complete(r)

Spec == Init /\ [][Next]_vars

=============================================================================
