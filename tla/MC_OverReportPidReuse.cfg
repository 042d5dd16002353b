\* A pid reused by a process of another uid between the reads of its stat
\* and status files, while the deltas are added up per incarnation.
CONSTANTS
    Pids = {p1}
    Churning = {p1}
    Uids = {u1, u2}
    AuxSlots = {t1}
    KMax = 7
    MaxCpu = 1
    MaxFaults = 0
    MaxGen = 1
    ProcFilesAccessible = TRUE
    TimeInStateSupported = TRUE
    AllowSetUid = FALSE
    SameTickReuse = FALSE
    AllowBadComm = FALSE
    AccessMayChange = FALSE
    MayBlock = FALSE
SPECIFICATION AccSpec
INVARIANTS
    NoOverReport
