\* open reads i->fd unlocked while unlink closes it and a lookup reuses the number.
CONSTANTS
    Threads = {t1, t2}
    Names <- MCNames
    Inos <- MCInos
    Recs = {r1, r2}
    MaxFd = 3
    MaxInc = 2
    MaxLookup = 1
    MaxOpen = 1
    Timeout = 0
    Enabled <- MCAllOps
    MountNames = {}
    UnlinkMayFail = FALSE
    None = None
    InitDirs <- MCOneFileOrLink
    KeepHistory = FALSE
SPECIFICATION Spec
INVARIANT OpenHandleMatchesFile
CHECK_DEADLOCK FALSE
