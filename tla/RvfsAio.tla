------------------------------- MODULE RvfsAio -------------------------------
(***************************************************************************)
(* The request path of the rvfs HAL (src/dpfs_hal/src/rvfs.cpp) together   *)
(* with the asynchronous read/write pipeline of the mirror server          *)
(* (fuser_mirror_read/write in src/unnamed/part_001 and the completion     *)
(* reaper of dpfs_aio).                                                   *)
(*                                                                         *)
(* The eRPC event-loop thread runs req_handler for every request: it takes *)
(* an rpc_msg from the vector hal->avail (or news one), dispatches, and   *)
(* either completes at once or, for read and write, leaves the request    *)
(* to the reaper.  The reaper reaps aio events, completes the request     *)
(* through dpfs_hal_async_complete, which pushes the msg back onto        *)
(* hal->avail, and returns the callback data to the pool.  hal->avail is  *)
(* a std::vector with no lock: push and pop are modelled as a read and a  *)
(* write of its length, so the outcomes of the unsynchronised accesses    *)
(* are the interleavings of those steps.                                  *)
(***************************************************************************)
EXTENDS Integers, FiniteSets

CONSTANTS
    Reapers,        \* aio completion reaper threads
    MaxReqs,        \* bound: requests the client sends
    Cbs,            \* callback-data records of the cb_data mpool
    SubmitMayFail,  \* io_submit may fail (EAGAIN, EBADF, ...)
    Shutdown,       \* SIGINT/SIGTERM may arrive
    None

ASSUME SubmitMayFail \in BOOLEAN
ASSUME Shutdown \in BOOLEAN /\ MaxReqs \in Nat

ERPC == "erpc"
Procs == {ERPC} \cup Reapers
Reqs == 1..MaxReqs
\* Every request holds at most one msg, so req_handler news at most MaxReqs.
Msgs == 1..MaxReqs
\* Slots of the vector's buffer: a racing push may leave one extra entry
\* per request.
Slots == 1..(2 * MaxReqs)

VARIABLES
    sent,       \* requests the client has sent (1..sent)
    pending,    \* sent requests eRPC has not handed to req_handler yet
    nmsg,       \* rpc_msgs created by `new rpc_msg(hal)`
    avbuf,      \* hal->avail's buffer: slot -> msg
    avlen,      \* hal->avail.size()
    reqh,       \* msg->reqh
    cbfree,     \* free records of cb_data_pool
    cbctx,      \* rw_cb_data->completion_context
    aioq,       \* callback data submitted to the aio context, not reaped
    answers,    \* enqueue_response calls per request
    keep_running,
    hal_live,   \* the dpfs_hal object has not been deleted
    pc,
    loc         \* per thread: request, msg, cb and the length it read

vars == <<sent, pending, nmsg, avbuf, avlen, reqh, cbfree, cbctx, aioq,
          answers, keep_running, hal_live, pc, loc>>

Blank == [q |-> None, m |-> None, cb |-> None, len |-> 0]

Goto(p, s) == pc' = [pc EXCEPT ![p] = s]

-----------------------------------------------------------------------------
(* req_handler on the eRPC thread                                         *)

\* run_event_loop_once delivers a request to req_handler; avail.empty(),
\* then either `new rpc_msg` or avail.back() (the length is kept in a
\* register for the pop_back that follows).
RHRecv ==
    /\ pc[ERPC] = "loop" /\ keep_running
    /\ \E q \in pending :
       /\ pending' = pending \ {q}
       /\ IF avlen = 0
          THEN /\ nmsg' = nmsg + 1
               /\ reqh' = [reqh EXCEPT ![nmsg + 1] = q]
               /\ loc' = [loc EXCEPT ![ERPC] = [Blank EXCEPT !.q = q, !.m = nmsg + 1]]
               /\ Goto(ERPC, "RH_dispatch")
          ELSE /\ loc' = [loc EXCEPT ![ERPC] = [Blank EXCEPT !.q = q,
                                           !.m = avbuf[avlen], !.len = avlen]]
               /\ Goto(ERPC, "RH_pop")
               /\ UNCHANGED <<nmsg, reqh>>
    /\ UNCHANGED <<sent, avbuf, avlen, cbfree, cbctx, aioq, answers,
                   keep_running, hal_live>>

\* avail.pop_back(); msg->reqh = reqh.
RHPop ==
    /\ pc[ERPC] = "RH_pop"
    /\ avlen' = loc[ERPC].len - 1
    /\ reqh' = [reqh EXCEPT ![loc[ERPC].m] = loc[ERPC].q]
    /\ Goto(ERPC, "RH_dispatch")
    /\ UNCHANGED <<sent, pending, nmsg, avbuf, cbfree, cbctx, aioq, answers,
                   keep_running, hal_live, loc>>

\* fuser_mirror_read and fuser_mirror_write (the same control): take a
\* record from cb_data_pool, store the completion_context, io_submit one
\* iocb.  On success they return EWOULDBLOCK (Pending), on failure they
\* set the reply error and return 0 (Failed) without giving the record
\* back.
SubmitRW(m, Pending, Failed) ==
    \E cb \in cbfree :
    /\ cbfree' = cbfree \ {cb}
    /\ cbctx' = [cbctx EXCEPT ![cb] = m]
    /\ \/ aioq' = aioq \cup {cb} /\ Pending
       \/ SubmitMayFail /\ UNCHANGED aioq /\ Failed

\* ret = hal->ops.request_handler(...): a synchronous handler returns 0,
\* read and write submit.  ret 0 completes the request here with
\* DPFS_HAL_COMPLETION_SUCCES; EWOULDBLOCK leaves it to the reaper.
RHDispatch ==
    LET m == loc[ERPC].m IN
    /\ pc[ERPC] = "RH_dispatch"
    /\ \/ /\ Goto(ERPC, "AC_enqueue")
          /\ UNCHANGED <<cbfree, cbctx, aioq, loc>>
       \/ SubmitRW(m, Goto(ERPC, "loop") /\ loc' = [loc EXCEPT ![ERPC] = Blank],
                      Goto(ERPC, "AC_enqueue") /\ UNCHANGED loc)
    /\ UNCHANGED <<sent, pending, nmsg, avbuf, avlen, reqh, answers,
                   keep_running, hal_live>>

\* The loop ends once keep_running is cleared; dpfs_hal_destroy then
\* deletes the msgs on avail and the hal itself.
ERPCExit ==
    /\ pc[ERPC] = "loop" /\ ~keep_running
    /\ hal_live' = FALSE
    /\ Goto(ERPC, "exited")
    /\ UNCHANGED <<sent, pending, nmsg, avbuf, avlen, reqh, cbfree, cbctx,
                   aioq, answers, keep_running, loc>>

-----------------------------------------------------------------------------
(* The completion reaper                                                   *)

\* io_getevents returns a completed iocb; its aio_data is the callback
\* data, whose completion_context is the msg.  Completions come in any
\* order.
RPReap(r) ==
    /\ pc[r] = "idle"
    /\ \E cb \in aioq :
       /\ aioq' = aioq \ {cb}
       /\ loc' = [loc EXCEPT ![r] = [Blank EXCEPT !.cb = cb, !.m = cbctx[cb]]]
    /\ Goto(r, "AC_enqueue")
    /\ UNCHANGED <<sent, pending, nmsg, avbuf, avlen, reqh, cbfree, cbctx,
                   answers, keep_running, hal_live>>

\* After async_complete the reaper returns the record to the pool.
RPFree(r) ==
    /\ pc[r] = "RP_free"
    /\ cbfree' = cbfree \cup {loc[r].cb}
    /\ cbctx' = [cbctx EXCEPT ![loc[r].cb] = None]
    /\ Goto(r, "idle") /\ loc' = [loc EXCEPT ![r] = Blank]
    /\ UNCHANGED <<sent, pending, nmsg, avbuf, avlen, reqh, aioq, answers,
                   keep_running, hal_live>>

-----------------------------------------------------------------------------
(* dpfs_hal_async_complete, on the eRPC thread or on a reaper             *)

\* rpc->enqueue_response(msg->reqh, ...).
ACEnqueue(p) ==
    LET q == reqh[loc[p].m] IN
    /\ pc[p] = "AC_enqueue"
    /\ answers' = [answers EXCEPT ![q] = @ + 1]
    /\ Goto(p, "AC_len")
    /\ UNCHANGED <<sent, pending, nmsg, avbuf, avlen, reqh, cbfree, cbctx,
                   aioq, keep_running, hal_live, loc>>

\* avail.push_back(msg): read the length, ...
ACLen(p) ==
    /\ pc[p] = "AC_len"
    /\ loc' = [loc EXCEPT ![p].len = avlen]
    /\ Goto(p, "AC_push")
    /\ UNCHANGED <<sent, pending, nmsg, avbuf, avlen, reqh, cbfree, cbctx,
                   aioq, answers, keep_running, hal_live>>

\* ... store the msg behind it and write the new length.
ACPush(p) ==
    /\ pc[p] = "AC_push"
    /\ avbuf' = [avbuf EXCEPT ![loc[p].len + 1] = loc[p].m]
    /\ avlen' = loc[p].len + 1
    /\ IF p = ERPC
       THEN Goto(p, "loop") /\ loc' = [loc EXCEPT ![p] = Blank]
       ELSE Goto(p, "RP_free") /\ UNCHANGED loc
    /\ UNCHANGED <<sent, pending, nmsg, reqh, cbfree, cbctx, aioq, answers,
                   keep_running, hal_live>>

-----------------------------------------------------------------------------
(* The environment                                                         *)

\* The remote rvfs client sends one more request.
Send ==
    /\ sent < MaxReqs
    /\ sent' = sent + 1
    /\ pending' = pending \cup {sent + 1}
    /\ UNCHANGED <<nmsg, avbuf, avlen, reqh, cbfree, cbctx, aioq, answers,
                   keep_running, hal_live, pc, loc>>

\* signal_handler: keep_running = 0.
Signal ==
    /\ Shutdown /\ keep_running
    /\ keep_running' = FALSE
    /\ UNCHANGED <<sent, pending, nmsg, avbuf, avlen, reqh, cbfree, cbctx,
                   aioq, answers, hal_live, pc, loc>>

\* Every thread polls without work: the client has sent everything and
\* all of it is done, or the eRPC loop has ended.
Quiet ==
    /\ \/ sent = MaxReqs /\ pending = {} /\ aioq = {}
       \/ pc[ERPC] = "exited"
    /\ \A p \in Procs : pc[p] \in {"loop", "idle", "exited"}
    /\ UNCHANGED vars

-----------------------------------------------------------------------------

Init ==
    /\ sent = 0
    /\ pending = {}
    /\ nmsg = 0
    /\ avbuf = [s \in Slots |-> None]
    /\ avlen = 0
    /\ reqh = [m \in Msgs |-> None]
    /\ cbfree = Cbs
    /\ cbctx = [cb \in Cbs |-> None]
    /\ aioq = {}
    /\ answers = [q \in Reqs |-> 0]
    /\ keep_running = TRUE
    /\ hal_live = TRUE
    /\ pc = [p \in Procs |-> IF p = ERPC THEN "loop" ELSE "idle"]
    /\ loc = [p \in Procs |-> Blank]

ERPCStep == RHRecv \/ RHPop \/ RHDispatch \/ ERPCExit
ReaperStep(r) == RPReap(r) \/ RPFree(r)
Complete(p) == ACEnqueue(p) \/ ACLen(p) \/ ACPush(p)

Next ==
    \/ ERPCStep
    \/ \E r \in Reapers : ReaperStep(r)
    \/ \E p \in Procs : Complete(p)
    \/ Send \/ Signal \/ Quiet

\* Both loops busy-poll (run_event_loop_once, io_getevents), so a step
\* that stays enabled is taken.
Fairness ==
    /\ WF_vars(ERPCStep)
    /\ \A p \in Procs : WF_vars(Complete(p))
    /\ \A r \in Reapers : WF_vars(ReaperStep(r))

Spec == Init /\ [][Next]_vars /\ Fairness

-----------------------------------------------------------------------------
(* Properties                                                              *)

TypeOK ==
    /\ sent \in 0..MaxReqs
    /\ pending \subseteq Reqs
    /\ nmsg \in 0..MaxReqs
    /\ avbuf \in [Slots -> Msgs \cup {None}]
    /\ avlen \in 0..Cardinality(Slots)
    /\ \A s \in 1..avlen : avbuf[s] \in Msgs
    /\ reqh \in [Msgs -> Reqs \cup {None}]
    /\ cbfree \subseteq Cbs
    /\ cbctx \in [Cbs -> Msgs \cup {None}]
    /\ aioq \subseteq Cbs
    /\ answers \in [Reqs -> Nat]
    /\ keep_running \in BOOLEAN /\ hal_live \in BOOLEAN

\* Every request is answered at most once, and a request answered is one
\* the client sent and eRPC delivered (enqueue_response(msg->reqh) with
\* the reqh req_handler stored in that msg).
AnsweredOnce ==
    \A q \in Reqs : answers[q] <= 1 /\ (answers[q] = 1 => q <= sent /\ q \notin pending)

\* No completion touches the hal after dpfs_hal_destroy deleted it: the
\* shutdown stops the poll loop only after the in-flight completions have
\* drained (spec 5 and 9), so a reaper never reaches async_complete's
\* enqueue_response and push_back on a deleted hal.
NoCompleteAfterDestroy ==
    \A p \in Procs : pc[p] \in {"AC_enqueue", "AC_len", "AC_push"} => hal_live

=============================================================================
