\* Every comm of up to 4 characters over letter, digit, space, ')' and
\* line break, in a stat line of 23 fields.
CONSTANTS
    CommChars <- MCCommChars
    MaxComm = 4
    NumFields = 23
    MillisPerClockTick = 10
SPECIFICATION Spec
INVARIANTS
    FaithfulUnlessParenSpace
\* one call per comm; the returned state has no successor
CHECK_DEADLOCK FALSE
