\* A freed record address is handed out again with generation 0.
CONSTANTS
    Threads = {t1}
    Names <- MCNames
    Inos <- MCInos
    Recs = {r1, r2}
    MaxFd = 3
    MaxInc = 2
    MaxLookup = 1
    MaxOpen = 1
    Timeout = 0
    Enabled <- MCAllOps
    MountNames = {}
    UnlinkMayFail = FALSE
    None = None
    InitDirs <- MCOneFileOrLink
    KeepHistory = TRUE
SPECIFICATION Spec
INVARIANT NodeGenIdentifiesFile
CHECK_DEADLOCK FALSE
