------------------------------- MODULE ProcessMemory -------------------------------
(***************************************************************************)
(* Step 3 of readProcessStatsLocked (UidProcStatsCollector.cpp): the       *)
(* memory of one process, from smaps_rollup (readSmapsRollup) or, when     *)
(* that is not usable, from /proc/<pid>/statm (readPidStatmFile).          *)
(*                                                                         *)
(* SmapsOrRollupFromFile is an external collaborator: it fails or returns  *)
(* a reading with uss <= pss <= rss. A statm file is gone, unparsable, or *)
(* a reading with shared <= resident pages, as the kernel prints them.     *)
(***************************************************************************)
EXTENDS Naturals

CONSTANTS
    KMax,           \* stands for kMaxUint64
    MaxKb,          \* largest smaps value
    MaxPages,       \* largest statm page count
    PageSizeKb      \* mPageSizeKb

ASSUME KMax \in Nat /\ MaxKb \in Nat /\ MaxPages \in Nat /\ PageSizeKb \in Nat \ {0}

SmapsReadings ==
    {r \in [pss: 0..MaxKb, rss: 0..MaxKb, uss: 0..MaxKb, swapPss: 0..MaxKb] :
        r.uss <= r.pss /\ r.pss <= r.rss}

StatmReadings ==
    {r \in [rssPages: 0..MaxPages, sharedPages: 0..MaxPages] :
        r.sharedPages <= r.rssPages}

NoMemory == [pss |-> 0, rss |-> 0, uss |-> 0, swapPss |-> 0]

VARIABLES
    profiling,      \* mIsMemoryProfilingEnabled
    smapsSupported, \* mIsSmapsRollupSupported
    smapsRead,      \* SmapsOrRollupFromFile succeeds
    smaps,          \* the reading it returns
    statmFile,      \* "gone", "garbled" or "ok"
    statm,          \* the reading of an "ok" statm file
    pc,             \* "smaps", "statm", "done"
    mem,            \* the memory fields of processStats
    status          \* "pending", "error" (the collection aborts), "ok"

vars == <<profiling, smapsSupported, smapsRead, smaps, statmFile, statm, pc, mem,
          status>>

\* the return value of readSmapsRollup once the fields are written
SmapsUsable(r) == r.pss > 0 /\ r.rss > 0 /\ r.uss > 0

\* rss - shared in KiB, in uint64, zeroed when not below rss
UssKb(rssKb, sharedKb) ==
    LET ussKb == (rssKb + (KMax + 1) - sharedKb) % (KMax + 1)
    IN IF ussKb < rssKb THEN ussKb ELSE 0

Init ==
    /\ profiling \in BOOLEAN /\ smapsSupported \in BOOLEAN
    /\ smapsRead \in BOOLEAN /\ smaps \in SmapsReadings
    /\ statmFile \in {"gone", "garbled", "ok"} /\ statm \in StatmReadings
    /\ pc = "smaps" /\ mem = NoMemory /\ status = "pending"

\* memory profiling off: no memory step
SkipMemory ==
    /\ pc = "smaps" /\ ~profiling
    /\ pc' = "done" /\ status' = "ok"
    /\ UNCHANGED <<profiling, smapsSupported, smapsRead, smaps, statmFile, statm,
                   mem>>

\* readSmapsRollup: the fields are written before the check
ReadSmaps ==
    /\ pc = "smaps" /\ profiling
    /\ IF smapsSupported /\ smapsRead
       THEN /\ mem' = smaps
            /\ IF SmapsUsable(smaps)
               THEN pc' = "done" /\ status' = "ok"
               ELSE pc' = "statm" /\ UNCHANGED status
       ELSE pc' = "statm" /\ UNCHANGED <<mem, status>>
    /\ UNCHANGED <<profiling, smapsSupported, smapsRead, smaps, statmFile, statm>>

\* the statm fallback: READ_WARNING is ignored, READ_ERROR aborts
ReadStatm ==
    /\ pc = "statm"
    /\ \/ statmFile = "gone" /\ status' = "ok" /\ UNCHANGED mem
       \/ statmFile = "garbled" /\ status' = "error" /\ UNCHANGED mem
       \/ /\ statmFile = "ok"
          /\ LET rssKb == statm.rssPages * PageSizeKb
             IN mem' = [mem EXCEPT
                          !.rss = rssKb,
                          !.uss = UssKb(rssKb, statm.sharedPages * PageSizeKb)]
          /\ status' = "ok"
    /\ pc' = "done"
    /\ UNCHANGED <<profiling, smapsSupported, smapsRead, smaps, statmFile, statm>>

Next == SkipMemory \/ ReadSmaps \/ ReadStatm

\* one process; the step ends after at most two reads
Spec == Init /\ [][Next]_vars

(***************************************************************************)
(* Properties                                                              *)
(***************************************************************************)
\* Spec 2 (unset memory fields are 0) and 4.E step 5: the memory of a
\* process comes from smaps_rollup or, when that fails, from statm. So a
\* finished record is either the smaps_rollup reading as a whole, or holds
\* no pss and no swap pss. readSmapsRollup writes all four fields before it
\* rejects a reading with a zero field, and the statm fallback overwrites
\* only rss and uss: a rejected reading's pss and swap pss stay beside
\* statm's rss, and pss may then exceed rss.
OneReading ==
    pc = "done" => mem = smaps \/ (mem.pss = 0 /\ mem.swapPss = 0)
================================================================================
