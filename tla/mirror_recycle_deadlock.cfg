\* Lookup of a recycled inode takes i->m under f->m while forget holds i->m.
CONSTANTS
    Threads = {t1, t2}
    Names <- MCNames
    Inos <- MCInos
    Recs = {r1, r2}
    MaxFd = 3
    MaxInc = 2
    MaxLookup = 1
    MaxOpen = 1
    Timeout = 0
    Enabled <- MCAllOps
    MountNames = {}
    UnlinkMayFail = FALSE
    None = None
    InitDirs <- MCOneFileOrLink
    KeepHistory = FALSE
SPECIFICATION Spec
INVARIANT NoLockCycle
CHECK_DEADLOCK FALSE
