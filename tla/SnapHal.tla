------------------------------- MODULE SnapHal -------------------------------
(***************************************************************************)
(* The SNAP virtio-fs HAL (second half of src/dpfs_hal/src/rvfs.cpp):     *)
(* dpfs_hal_new, dpfs_hal_loop with its single- and multithreaded polling *)
(* loops, the signal handler, dpfs_hal_async_complete and                *)
(* dpfs_hal_destroy, as one process: the main thread (thread id 0, which  *)
(* also polls mmio and handles signals), the polling threads 1..n-1, and  *)
(* the file server's completion thread calling dpfs_hal_async_complete.   *)
(*                                                                         *)
(* The SNAP controller itself is not in the repository.  It is modelled  *)
(* by its contract: progress_io(ctrl, t) hands the requests of queue t to *)
(* dpfs_hal_handle_req while the controller is live; after                *)
(* virtio_fs_ctrl_suspend it takes no new request, and progress (mmio)    *)
(* reports it suspended once no request is in flight.                     *)
(***************************************************************************)
EXTENDS Integers

CONSTANTS
    NThreads,       \* emu->nthreads
    MaxReqs,        \* bound: requests the guest sends
    NewMayFail,     \* a check or an init step of dpfs_hal_new may fail
    CreateMayFail,  \* pthread_create may fail
    Shutdown        \* SIGINT/SIGTERM may arrive

ASSUME NThreads \in Nat \ {0} /\ MaxReqs \in Nat
ASSUME {NewMayFail, CreateMayFail, Shutdown} \subseteq BOOLEAN

Tids == 0..(NThreads - 1)       \* thread ids; queue t is polled by thread t
Workers == 1..(NThreads - 1)    \* the threads pthread_create starts
Reqs == 1..MaxReqs

VARIABLES
    mpc,            \* main thread's place in new / loop / destroy
    mi, mj,         \* the loop indices i and j of loop_multithreaded
    suspending,     \* loop_singlethreaded's local `suspending`
    handler,        \* sigaction has installed signal_handler
    keep_running,
    ctrl,           \* "none", "live", "suspending", "suspended", "destroyed", "leaked"
    created,        \* tdatas[t].thread holds a thread pthread_create made
    joined,         \* that thread has been joined
    cancelled,      \* pthread_cancel was called on it
    tstate,         \* polling thread: "none", "running", "exited"
    st,             \* request -> "unsent", "queued", "pending", "answered"
    rq              \* request -> the queue the guest put it on

vars == <<mpc, mi, mj, suspending, handler, keep_running, ctrl, created,
          joined, cancelled, tstate, st, rq>>

Alive == mpc # "crashed"

\* A handle pthread_cancel and pthread_join may be given: one made by
\* pthread_create and not joined yet.  Any other handle is undefined
\* behaviour; the outcomes glibc can produce are a crash and an ESRCH
\* return.
Valid(t) == created[t] /\ ~joined[t]

Queued(t) == {r \in Reqs : st[r] = "queued" /\ rq[r] = t}

NoPending == \A r \in Reqs : st[r] # "pending"

\* progress_io(ctrl, t) on a live controller hands a request of queue t to
\* dpfs_hal_handle_req, which returns the file server's answer: done now
\* (0) or in flight (EWOULDBLOCK), completed later by async_complete.
Progress(t) ==
    /\ ctrl = "live" /\ Queued(t) # {}
    /\ \E r \in Queued(t), x \in {"answered", "pending"} :
          st' = [st EXCEPT ![r] = x]

-----------------------------------------------------------------------------
(* Main thread                                                             *)

\* dpfs_hal_new: the parameter checks, the logger, the PCI manager,
\* virtio_fs_ctrl_init and pthread_key_create, each of which may fail and
\* return NULL; a failing pthread_key_create leaves the controller it made.
\* Then dpfs_hal_loop picks the single- or multithreaded loop.
MNew ==
    /\ mpc = "new"
    /\ \/ /\ ctrl' = "live" /\ mi' = 1
          /\ mpc' = IF NThreads <= 1 THEN "loop" ELSE "create"
       \/ /\ NewMayFail /\ mpc' = "failed" /\ ctrl' \in {"none", "leaked"}
          /\ UNCHANGED mi
    /\ UNCHANGED <<mj, suspending, handler, keep_running, created, joined,
                   cancelled, tstate, st, rq>>

\* for (i = 1; i < nthreads; i++) pthread_create(&tdatas[i].thread, ...);
\* on failure the cleanup loop starts at j = i - 1.
MCreate ==
    /\ mpc = "create"
    /\ \/ /\ mi >= NThreads /\ mpc' = "loop"
          /\ UNCHANGED <<mi, mj, created, tstate>>
       \/ /\ mi < NThreads
          /\ created' = [created EXCEPT ![mi] = TRUE]
          /\ tstate' = [tstate EXCEPT ![mi] = "running"]
          /\ mi' = mi + 1 /\ UNCHANGED <<mpc, mj>>
       \/ /\ mi < NThreads /\ CreateMayFail
          /\ mj' = mi - 1 /\ mpc' = "cancel"
          /\ UNCHANGED <<mi, created, tstate>>
    /\ UNCHANGED <<suspending, handler, keep_running, ctrl, joined, cancelled,
                   st, rq>>

\* Undefined behaviour ends the process or returns ESRCH and goes on.
Crash == mpc' = "crashed" /\ UNCHANGED <<mi, mj>>

\* pthread_cancel(tdatas[j].thread)
MCancel ==
    /\ mpc = "cancel"
    /\ \/ /\ Valid(mj) /\ cancelled' = [cancelled EXCEPT ![mj] = TRUE]
          /\ mpc' = "cjoin" /\ UNCHANGED <<mi, mj>>
       \/ /\ ~Valid(mj) /\ UNCHANGED cancelled
          /\ ((mpc' = "cjoin" /\ UNCHANGED <<mi, mj>>) \/ Crash)
    /\ UNCHANGED <<suspending, handler, keep_running, ctrl, created,
                   joined, tstate, st, rq>>

\* Mutant: the cleanup loop runs on past j = 0.
CleanupNextPastZero == mpc' = "cancel" /\ mj' = mj - 1 /\ UNCHANGED mi

\* pthread_join(tdatas[j].thread, NULL); j--.  When the cleanup loop ends,
\* the creation loop goes on with i + 1.
CleanupNext ==
    IF mj = 0 THEN mpc' = "create" /\ mi' = mi + 1 /\ UNCHANGED mj
              ELSE mpc' = "cancel" /\ mj' = mj - 1 /\ UNCHANGED mi

MCJoin ==
    /\ mpc = "cjoin"
    /\ \/ /\ Valid(mj) /\ tstate[mj] = "exited"
          /\ joined' = [joined EXCEPT ![mj] = TRUE] /\ CleanupNext
       \/ ~Valid(mj) /\ UNCHANGED joined /\ (CleanupNext \/ Crash)
    /\ UNCHANGED <<suspending, handler, keep_running, ctrl, created, cancelled,
                   tstate, st, rq>>

\* loop_singlethreaded's prologue: installs signal_handler for SIGINT,
\* SIGPIPE and SIGTERM; suspending = false.
MSigaction ==
    /\ mpc = "loop"
    /\ handler' = TRUE /\ suspending' = FALSE /\ mpc' = "poll"
    /\ UNCHANGED <<mi, mj, keep_running, ctrl, created, joined, cancelled,
                   tstate, st, rq>>

\* One turn of while (keep_running || !is_suspended(ctrl)): progress_io
\* for thread 0, then progress (mmio), which reports a suspending
\* controller suspended once nothing is in flight.
MPoll ==
    /\ mpc = "poll" /\ (keep_running \/ ctrl # "suspended")
    /\ \/ Progress(0)
       \/ ~(ctrl = "live" /\ Queued(0) # {}) /\ UNCHANGED st
    /\ ctrl' = IF ctrl = "suspending" /\ NoPending' THEN "suspended" ELSE ctrl
    /\ mpc' = "check"
    /\ UNCHANGED <<mi, mj, suspending, handler, keep_running, created, joined,
                   cancelled, tstate, rq>>

\* Mutant: the controller is suspended without a shutdown request.
MCheckNoSignal ==
    /\ mpc = "check"
    /\ IF ~suspending THEN ctrl' = "suspending" /\ suspending' = TRUE
                      ELSE UNCHANGED <<ctrl, suspending>>
    /\ mpc' = "poll"
    /\ UNCHANGED <<mi, mj, handler, keep_running, created, joined, cancelled,
                   tstate, st, rq>>

\* if (!keep_running && !suspending) { virtio_fs_ctrl_suspend(ctrl); ... }
MCheck ==
    /\ mpc = "check"
    /\ IF ~keep_running /\ ~suspending
       THEN ctrl' = "suspending" /\ suspending' = TRUE
       ELSE UNCHANGED <<ctrl, suspending>>
    /\ mpc' = "poll"
    /\ UNCHANGED <<mi, mj, handler, keep_running, created, joined, cancelled,
                   tstate, st, rq>>

\* Mutant: the loop ends on keep_running alone, not waiting for suspension.
MLoopEndEarly ==
    /\ mpc = "poll" /\ ~keep_running
    /\ mpc' = IF NThreads <= 1 THEN "destroy" ELSE "join"
    /\ mi' = 1
    /\ UNCHANGED <<mj, suspending, handler, keep_running, ctrl, created,
                   joined, cancelled, tstate, st, rq>>

\* The polling loop ends; loop_multithreaded then joins tdatas[1..n-1].
MLoopEnd ==
    /\ mpc = "poll" /\ ~keep_running /\ ctrl = "suspended"
    /\ mpc' = IF NThreads <= 1 THEN "destroy" ELSE "join"
    /\ mi' = 1
    /\ UNCHANGED <<mj, suspending, handler, keep_running, ctrl, created,
                   joined, cancelled, tstate, st, rq>>

\* Mutant: the polling threads are not joined before destroy.
MJoinSkip ==
    /\ mpc = "join" /\ mpc' = "destroy"
    /\ UNCHANGED <<mi, mj, suspending, handler, keep_running, ctrl, created,
                   joined, cancelled, tstate, st, rq>>

\* for (i = 1; i < nthreads; i++) pthread_join(tdatas[i].thread, NULL);
MJoin ==
    /\ mpc = "join"
    /\ \/ mi >= NThreads /\ mpc' = "destroy" /\ UNCHANGED <<mi, mj, joined>>
       \/ /\ mi < NThreads /\ Valid(mi) /\ tstate[mi] = "exited"
          /\ joined' = [joined EXCEPT ![mi] = TRUE]
          /\ mi' = mi + 1 /\ UNCHANGED <<mpc, mj>>
       \/ /\ mi < NThreads /\ ~Valid(mi) /\ UNCHANGED joined
          /\ ((mi' = mi + 1 /\ UNCHANGED <<mpc, mj>>) \/ Crash)
    /\ UNCHANGED <<suspending, handler, keep_running, ctrl, created,
                   cancelled, tstate, st, rq>>

\* dpfs_hal_destroy after dpfs_hal_loop returns.
MDestroy ==
    /\ mpc = "destroy"
    /\ ctrl' = "destroyed" /\ mpc' = "done"
    /\ UNCHANGED <<mi, mj, suspending, handler, keep_running, created, joined,
                   cancelled, tstate, st, rq>>

-----------------------------------------------------------------------------
(* Polling threads, completion thread, signals and the guest               *)

\* Mutant: every polling thread polls queue 0 (its thread id is lost).
WPollQueue0(t) ==
    /\ Alive /\ tstate[t] = "running" /\ Progress(0)
    /\ UNCHANGED <<mpc, mi, mj, suspending, handler, keep_running, ctrl,
                   created, joined, cancelled, tstate, rq>>

\* dpfs_hal_loop_thread: while (keep_running || !is_suspended) progress_io.
WPoll(t) ==
    /\ Alive /\ tstate[t] = "running" /\ Progress(t)
    /\ UNCHANGED <<mpc, mi, mj, suspending, handler, keep_running, ctrl,
                   created, joined, cancelled, tstate, rq>>

WExit(t) ==
    /\ Alive /\ tstate[t] = "running"
    /\ ~keep_running /\ ctrl = "suspended"
    /\ tstate' = [tstate EXCEPT ![t] = "exited"]
    /\ UNCHANGED <<mpc, mi, mj, suspending, handler, keep_running, ctrl,
                   created, joined, cancelled, st, rq>>

\* A cancelled thread ends if progress_io reaches a cancellation point;
\* whether it has one is SNAP's business, so this step is not fair.
WCancel(t) ==
    /\ Alive /\ tstate[t] = "running" /\ cancelled[t]
    /\ tstate' = [tstate EXCEPT ![t] = "exited"]
    /\ UNCHANGED <<mpc, mi, mj, suspending, handler, keep_running, ctrl,
                   created, joined, cancelled, st, rq>>

\* dpfs_hal_async_complete(cb, status): cb->cb(snap_status, cb->user_arg)
\* answers the request the file server left in flight.
AsyncComplete(r) ==
    /\ Alive /\ st[r] = "pending"
    /\ st' = [st EXCEPT ![r] = "answered"]
    /\ UNCHANGED <<mpc, mi, mj, suspending, handler, keep_running, ctrl,
                   created, joined, cancelled, tstate, rq>>

\* signal_handler: keep_running = 0.  Before sigaction the default action
\* ends the process, which is not modelled.
Signal ==
    /\ Shutdown /\ Alive /\ handler /\ keep_running
    /\ keep_running' = FALSE
    /\ UNCHANGED <<mpc, mi, mj, suspending, handler, ctrl, created, joined,
                   cancelled, tstate, st, rq>>

\* The guest puts the next request on one of the queues.
Send ==
    \E r \in Reqs, q \in Tids :
       /\ st[r] = "unsent" /\ \A s \in 1..(r - 1) : st[s] # "unsent"
       /\ st' = [st EXCEPT ![r] = "queued"] /\ rq' = [rq EXCEPT ![r] = q]
       /\ UNCHANGED <<mpc, mi, mj, suspending, handler, keep_running, ctrl,
                      created, joined, cancelled, tstate>>

\* A busy-polling thread always has a turn, and an ended process none.
Quiet ==
    /\ \/ mpc \in {"poll", "check", "done", "failed", "crashed"}
       \/ \E t \in Workers : tstate[t] = "running"
    /\ UNCHANGED vars

-----------------------------------------------------------------------------

Init ==
    /\ mpc = "new" /\ mi = 1 /\ mj = 0
    /\ suspending = FALSE /\ handler = FALSE /\ keep_running = TRUE
    /\ ctrl = "none"
    /\ created = [t \in Tids |-> FALSE]
    /\ joined = [t \in Tids |-> FALSE]
    /\ cancelled = [t \in Tids |-> FALSE]
    /\ tstate = [t \in Tids |-> "none"]
    /\ st = [r \in Reqs |-> "unsent"]
    /\ rq = [r \in Reqs |-> 0]

MainStep ==
    \/ MNew \/ MCreate \/ MCancel \/ MCJoin \/ MSigaction
    \/ MPoll \/ MCheck \/ MLoopEnd \/ MJoin \/ MDestroy
WorkerStep(t) == WPoll(t) \/ WExit(t)

Next ==
    \/ MainStep
    \/ \E t \in Workers : WorkerStep(t) \/ WCancel(t)
    \/ \E r \in Reqs : AsyncComplete(r)
    \/ Signal \/ Send \/ Quiet

\* Every thread busy-polls, and the file server's completion thread polls
\* io_getevents, so a step that stays enabled is taken.  Cancellation
\* and the guest and signals are not.
Fairness ==
    /\ WF_vars(MainStep)
    /\ \A t \in Workers : WF_vars(WorkerStep(t))
    /\ WF_vars(\E r \in Reqs : AsyncComplete(r))

Spec == Init /\ [][Next]_vars /\ Fairness

-----------------------------------------------------------------------------
(* Properties                                                              *)

TypeOK ==
    /\ mpc \in {"new", "create", "cancel", "cjoin", "loop", "poll", "check",
                "join", "destroy", "done", "failed", "crashed"}
    /\ mi \in 1..NThreads /\ mj \in 0..NThreads
    /\ {suspending, handler, keep_running} \subseteq BOOLEAN
    /\ ctrl \in {"none", "live", "suspending", "suspended", "destroyed", "leaked"}
    /\ created \in [Tids -> BOOLEAN] /\ joined \in [Tids -> BOOLEAN]
    /\ cancelled \in [Tids -> BOOLEAN]
    /\ tstate \in [Tids -> {"none", "running", "exited"}]
    /\ st \in [Reqs -> {"unsent", "queued", "pending", "answered"}]
    /\ rq \in [Reqs -> Tids]

\* dpfs_hal_destroy frees the controller only after every polling thread
\* has left its progress_io loop (the joins of loop_multithreaded).
NoPollAfterDestroy ==
    ctrl = "destroyed" => \A t \in Workers : tstate[t] # "running"

\* No pthread_create of loop_multithreaded fails in this behaviour.
AllThreadsStarted == [](mpc # "cancel")

\* A request on a live controller's queue is handled by the thread that
\* polls that queue, and a request left in flight is answered, also
\* across a shutdown (the loops wait for is_suspended).
RequestsAnswered ==
    \A r \in Reqs :
        /\ (st[r] = "queued" /\ ctrl = "live") ~> (st[r] = "answered" \/ ctrl # "live")
        /\ st[r] = "pending" ~> st[r] = "answered"

\* RequestsAnswered, in every behaviour where all polling threads start.
EveryRequestAnswered == AllThreadsStarted => RequestsAnswered

\* Once signal_handler has cleared keep_running, dpfs_hal_loop returns and
\* dpfs_hal_destroy runs: the controller suspends, the polling threads
\* leave their loops and are joined (when every polling thread started).
ShutdownCompletes == AllThreadsStarted => (~keep_running ~> mpc = "done")

\* The HAL as the file server and guest see it: the controller after
\* dpfs_hal_new serves, after virtio_fs_ctrl_suspend drains, after
\* dpfs_hal_destroy is stopped; a shutdown is requested by clearing
\* keep_running.
Phase ==
    CASE ctrl \in {"none", "leaked"}           -> "init"
      [] ctrl = "live"                         -> "serving"
      [] ctrl \in {"suspending", "suspended"}   -> "draining"
      [] ctrl = "destroyed"                    -> "stopped"

Abs == INSTANCE AbsHal WITH phase <- Phase, stopReq <- ~keep_running

\* The SNAP HAL implements AbsHal: it drains only after a signal, takes
\* no request while draining, completes nothing after destroy, and
\* destroys only when nothing is in flight.
HalRefinement == Abs!Spec

=============================================================================
