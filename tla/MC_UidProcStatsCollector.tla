----------------------- MODULE MC_UidProcStatsCollector -----------------------
(* Instantiates UidProcStatsCollector for TLC. Pids, Churning, Uids and    *)
(* AuxSlots are sets of model values given in the .cfg files.              *)
EXTENDS UidProcStatsCollector

\* uids and tids are only compared for equality; pids are not symmetric
\* once some of them churn and others do not
Symmetry == Permutations(Uids) \cup Permutations(AuxSlots)
================================================================================
