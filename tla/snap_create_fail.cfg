\* Two polling threads; the pthread_create of thread 1 may fail.
CONSTANTS
    NThreads = 2
    MaxReqs = 2
    NewMayFail = FALSE
    CreateMayFail = TRUE
    Shutdown = FALSE
SPECIFICATION Spec
PROPERTY RequestsAnswered
