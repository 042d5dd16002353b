--------------------------- MODULE CollectorAccounting ---------------------------
(***************************************************************************)
(* UidProcStatsCollector with a history variable: the cpu time that the   *)
(* deltas of all successful collect() calls have handed out for each       *)
(* incarnation of each pid. A consumer that adds up mDeltaStats (the       *)
(* resource-overuse check) sees this total as the process's usage.         *)
(***************************************************************************)
EXTENDS UidProcStatsCollector

VARIABLE credited   \* pid -> incarnation -> cpu time credited by deltas

\* cpu time the new mDeltaStats gives to incarnation g of pid p
CreditedNow(p, g) ==
    LET owners == {u \in DOMAIN deltaStats' :
                     /\ p \in DOMAIN deltaStats'[u].processStatsByPid
                     /\ deltaStats'[u].processStatsByPid[p].gen = g}
    IN IF owners = {} THEN 0
       ELSE deltaStats'[CHOOSE u \in owners : TRUE]
                .processStatsByPid[p].cpuTimeMillis

AccInit ==
    /\ Init
    /\ credited = [p \in Pids |-> [g \in 0..MaxGen |-> 0]]

AccNext ==
    /\ Next
    /\ IF CollectSucceeds
       THEN credited' = [p \in Pids |-> [g \in 0..MaxGen |->
                            credited[p][g] + CreditedNow(p, g)]]
       ELSE UNCHANGED credited

AccSpec == AccInit /\ [][AccNext]_<<vars, credited>>

\* Spec 1 and 3 (the delta is the increase since the previous snapshot):
\* summed over all collections, the deltas never credit an incarnation of a
\* pid with more cpu time than it has used, as last read from its stat file.
NoOverReport ==
    \A u \in DOMAIN latestStats :
      \A p \in DOMAIN latestStats[u].processStatsByPid :
        LET ps == latestStats[u].processStatsByPid[p]
        IN credited[p][ps.gen] <= ps.cpuTimeMillis
================================================================================
