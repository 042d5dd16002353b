----------------------------- MODULE TimeInStateCall -----------------------------
(***************************************************************************)
(* What one call of readTimeInStateFile promises its caller, the per-task  *)
(* step 5 of readProcessStatsLocked, in one atomic step: READ_WARNING when *)
(* the file cannot be read, READ_ERROR when any line is malformed, and     *)
(* otherwise a cycle count no smaller than the saturated true count and    *)
(* no larger than the uint64 ceiling. How the lines are walked is left     *)
(* open.                                                                   *)
(***************************************************************************)
EXTENDS Naturals

CONSTANTS
    Files,      \* the inputs: sequences of lines with a kind
    KMax,       \* stands for kMaxUint64
    Exact(_)    \* the saturated true cycle count of a file

VARIABLES
    readable,   \* ReadFileToString succeeds
    file,       \* the input
    status,     \* "pending", "warning", "error" or "ok"
    value       \* the cycles returned with "ok"

vars == <<readable, file, status, value>>

\* a line with fewer than two fields or with a field that is not a uint64
Malformed(f) == \E j \in DOMAIN f : f[j].kind \in {"short", "unparsable"}

Init ==
    /\ readable \in BOOLEAN /\ file \in Files
    /\ status = "pending" /\ value = 0

\* the call returns
Return ==
    /\ status = "pending"
    /\ \/ ~readable /\ status' = "warning" /\ UNCHANGED value
       \/ readable /\ Malformed(file) /\ status' = "error" /\ UNCHANGED value
       \/ /\ readable /\ ~Malformed(file)
          /\ status' = "ok" /\ value' \in Exact(file)..KMax
    /\ UNCHANGED <<readable, file>>

Spec == Init /\ [][Return]_vars
================================================================================
