\* A process that changes its uid between two collections (a zygote child
\* calling setuid) while the deltas are added up per incarnation.
CONSTANTS
    Pids = {p1}
    Churning = {p1}
    Uids = {u1, u2}
    AuxSlots = {t1}
    KMax = 7
    MaxCpu = 1
    MaxFaults = 0
    MaxGen = 1
    ProcFilesAccessible = TRUE
    TimeInStateSupported = TRUE
    AllowSetUid = TRUE
    SameTickReuse = FALSE
    AllowBadComm = FALSE
    AccessMayChange = FALSE
    MayBlock = FALSE
SPECIFICATION AccSpec
INVARIANTS
    NoOverReport
