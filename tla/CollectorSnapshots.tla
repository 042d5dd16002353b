--------------------------- MODULE CollectorSnapshots ---------------------------
(***************************************************************************)
(* What collect() promises the readers of mLatestStats and mDeltaStats     *)
(* (spec 4.H, 5 and the lifecycle of section 3), with the scan in between  *)
(* left out: a call either fails and leaves both snapshots as they were,   *)
(* or publishes, in one step, a new latest snapshot together with its      *)
(* delta against the latest snapshot it replaces.                          *)
(***************************************************************************)
CONSTANTS
    Empty,      \* the empty uid map both snapshots start as
    Delta(_, _) \* the delta of a new snapshot against the previous one

VARIABLES
    latest,     \* mLatestStats
    delta,      \* mDeltaStats
    result      \* what the last collect() returned

vars == <<latest, delta, result>>

Init == latest = Empty /\ delta = Empty /\ result = "none"

\* a successful collect(): both snapshots replaced together
Publish ==
    /\ result' = "ok"
    /\ delta' = Delta(latest, latest')

\* a failed collect(): nothing published
Fail ==
    /\ result' = "error"
    /\ UNCHANGED <<latest, delta>>

Spec == Init /\ [][Publish \/ Fail]_vars
================================================================================
