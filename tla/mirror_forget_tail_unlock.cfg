\* forget_one unlocks i->m of a record that was freed and handed to another file.
CONSTANTS
    Threads = {t1, t2}
    Names <- MCNames
    Inos <- MCOneIno
    Recs = {r1}
    MaxFd = 3
    MaxInc = 1
    MaxLookup = 1
    MaxOpen = 1
    Timeout = 0
    Enabled <- MCAllOps
    MountNames = {}
    UnlinkMayFail = FALSE
    None = None
    InitDirs <- MCOneFile
    KeepHistory = FALSE
SPECIFICATION Spec
INVARIANT MutexOwnedInSection
CHECK_DEADLOCK FALSE
