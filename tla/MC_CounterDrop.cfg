\* Counters that go down between two snapshots (a tid reused by a new
\* thread, a pid reused within the same clock tick, with the same start
\* time), and every started collect() returning. Uids and AuxSlots are
\* singletons, so there is no symmetry to reduce by.
CONSTANTS
    Pids = {p1}
    Churning = {p1}
    Uids = {u1}
    AuxSlots = {t1}
    KMax = 7
    MaxCpu = 1
    MaxFaults = 1
    MaxGen = 1
    ProcFilesAccessible = TRUE
    TimeInStateSupported = TRUE
    AllowSetUid = FALSE
    SameTickReuse = TRUE
    AllowBadComm = FALSE
    AccessMayChange = FALSE
    MayBlock = TRUE
SPECIFICATION Spec
INVARIANTS
    DeltaBounded
    IoBlockedCounted
PROPERTIES
    CollectReturns
