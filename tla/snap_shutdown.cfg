\* Three polling threads (main and two pthreads), three requests,
\* dpfs_hal_new and pthread_create may fail, a shutdown signal may arrive.
CONSTANTS
    NThreads = 3
    MaxReqs = 3
    NewMayFail = TRUE
    CreateMayFail = TRUE
    Shutdown = TRUE
SPECIFICATION Spec
INVARIANT TypeOK NoPollAfterDestroy
PROPERTY EveryRequestAnswered ShutdownCompletes HalRefinement
