\* init() called again on another thread while collect() is between its
\* unlocked read of mIsEnabled and taking the lock; the probe of the second
\* init() finds the proc files no longer accessible.
CONSTANTS
    Pids = {p1}
    Churning = {p1}
    Uids = {u1}
    AuxSlots = {t1}
    KMax = 7
    MaxCpu = 1
    MaxFaults = 0
    MaxGen = 0
    ProcFilesAccessible = TRUE
    TimeInStateSupported = TRUE
    AllowSetUid = FALSE
    SameTickReuse = FALSE
    AllowBadComm = FALSE
    AccessMayChange = TRUE
    MayBlock = FALSE
SPECIFICATION Spec
INVARIANTS
    ScanOnlyWhileEnabled
