\* Spec 8.2: every comm without a line break round-trips.
CONSTANTS
    CommChars <- MCCommChars
    MaxComm = 4
    NumFields = 23
    MillisPerClockTick = 10
SPECIFICATION Spec
INVARIANTS
    RoundTrip
\* one call per comm; the returned state has no successor
CHECK_DEADLOCK FALSE
