\* The shipped handler table, two poll threads.
CONSTANTS
    Threads = {t1, t2}
    Names <- MCNames
    Inos <- MCInos
    Recs = {r1, r2}
    MaxFd = 4
    MaxInc = 1
    MaxLookup = 2
    MaxOpen = 2
    Timeout = 0
    Enabled <- MCDefaultOps
    MountNames = {}
    UnlinkMayFail = FALSE
    None = None
    InitDirs <- MCTwoFiles
    KeepHistory = FALSE
SPECIFICATION Spec
INVARIANT KernelRefsLive LookupCountsAgree NoFdLeak OpenHandleMatchesFile AttrMatchesFile
