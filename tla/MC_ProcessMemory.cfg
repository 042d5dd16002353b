\* smaps values up to 2 KiB, statm up to 2 pages of 4 KiB, uint64 as 0..15.
CONSTANTS
    KMax = 15
    MaxKb = 2
    MaxPages = 2
    PageSizeKb = 4
SPECIFICATION Spec
INVARIANTS
    OneReading
\* one process; the step ends
CHECK_DEADLOCK FALSE
