\* Every modelled handler, one poll thread, metadata_timeout = 0, and a
\* backing unlinkat that may be refused.
CONSTANTS
    Threads = {t1}
    Names <- MCNames
    Inos <- MCInos
    Recs = {r1, r2}
    MaxFd = 3
    MaxInc = 2
    MaxLookup = 1
    MaxOpen = 1
    Timeout = 0
    Enabled <- MCAllOps
    MountNames = {}
    UnlinkMayFail = TRUE
    None = None
    InitDirs <- MCOneFileOrLink
    KeepHistory = FALSE
SPECIFICATION Spec
INVARIANT KernelRefsLive LookupCountsAgree OpenCountsAgree NoFdLeak OpenHandleMatchesFile
PROPERTY InodeLifecycle
