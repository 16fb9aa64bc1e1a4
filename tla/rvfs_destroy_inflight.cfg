\* A shutdown signal while a read is submitted: the eRPC loop ends and
\* dpfs_hal_destroy deletes the hal with the reaper thread still running.
CONSTANTS
    Reapers = {rp}
    MaxReqs = 2
    Cbs <- MCCbs
    SubmitMayFail = FALSE
    Shutdown = TRUE
    None = None
SPECIFICATION Spec
INVARIANT NoCompleteAfterDestroy
