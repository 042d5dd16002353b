\* Spec 4.B/4.E: every readable status file yields the process's owner.
CONSTANTS
    NameWords = {"Uid", "Tgid", "x"}
    MaxWords = 3
SPECIFICATION Spec
INVARIANTS
    ReadsOwner
CHECK_DEADLOCK FALSE
