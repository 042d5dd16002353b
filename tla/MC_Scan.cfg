\* The scan of /proc racing process churn: one churning pid beside an idle
\* one, two uids, one extra thread, the pid reused once with a later start,
\* setuid between and during scans.
CONSTANTS
    Pids = {p1, p2}
    Churning = {p1}
    Uids = {u1, u2}
    AuxSlots = {t1}
    KMax = 7
    MaxCpu = 1
    MaxFaults = 0
    MaxGen = 1
    ProcFilesAccessible = TRUE
    TimeInStateSupported = TRUE
    AllowSetUid = TRUE
    SameTickReuse = FALSE
    AllowBadComm = TRUE
    AccessMayChange = FALSE
    MayBlock = FALSE
SPECIFICATION Spec
SYMMETRY Symmetry
INVARIANTS
    TypeOK
    CyclesMatchTids
    UidFoldConsistent
PROPERTIES
    DeltaIsIncrease
    PublishesAtomically
