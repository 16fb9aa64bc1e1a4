CONSTANTS
    Reapers = {rp}
    MaxReqs = 5
    Cbs <- MCCbs
    SubmitMayFail = FALSE
    Shutdown = FALSE
    None = None
SPECIFICATION Spec
INVARIANT AnsweredOnce
