\* readTimeInStateFile over every file of up to 3 lines; uint64 is 0..15,
\* so 3 * 4 and 5 * 4 overflow in mul and two entries of 2 * 3 overflow in
\* the sum once scaled by 2.
CONSTANTS
    KMax = 15
    Freqs = {0, 2, 3, 5}
    Ticks = {1, 3, 4}
    MaxLines = 3
    CyclesPerKHzClockTicks = 2
SPECIFICATION Spec
INVARIANTS
    TypeOK
PROPERTIES
    RefinesCall
\* a single call returns; the final state has no successor
CHECK_DEADLOCK FALSE
