------------------------- MODULE UidProcStatsCollector -------------------------
(***************************************************************************)
(* UidProcStatsCollector (src/cpp/watchdog/server/src/                     *)
(* UidProcStatsCollector.cpp): one collect() scans /proc pid by pid, reads  *)
(* stat, status and every task's stat and time_in_state, folds the records *)
(* per UID into a local map, then diffs it against mLatestStats into        *)
(* mDeltaStats and replaces mLatestStats.                                   *)
(*                                                                         *)
(* The kernel is modelled as an environment that runs concurrently with    *)
(* the scan: processes tick, fault, start and end threads, exit, and their *)
(* pids are reused by new processes, at any point between two file reads.  *)
(* Counters are kept in the units the code compares them in (ms, cycles); *)
(* the clock-tick scaling multiplies previous and current alike.           *)
(***************************************************************************)
EXTENDS Naturals, FiniteSets, Functions, TLC

CONSTANTS
    Pids,                 \* pid directories under /proc (model values)
    Churning,             \* the pids whose processes start, end and churn
    Uids,                 \* owning uids (model values)
    AuxSlots,             \* tids of non-main threads, per process
    KMax,                 \* stands for kMaxUint64
    MaxCpu,               \* bound on a process's cpu time
    MaxFaults,            \* bound on a process's major faults
    MaxGen,               \* bound on how often a pid is reused
    ProcFilesAccessible,  \* init(): stat, task stat and status readable
    TimeInStateSupported, \* init(): task time_in_state present and > 0
    AllowSetUid,          \* may a live process change its uid
    SameTickReuse,        \* may a reused pid get the old start time
    AllowBadComm,         \* may a new process get a comm that breaks stat
    AccessMayChange,      \* may a later init() probe find other outcomes
    MayBlock              \* may tasks enter uninterruptible sleep ("D")

ASSUME Churning \subseteq Pids
ASSUME KMax \in Nat /\ MaxCpu \in Nat /\ MaxFaults \in Nat /\ MaxGen \in Nat
ASSUME {ProcFilesAccessible, TimeInStateSupported, AllowSetUid,
        SameTickReuse, AllowBadComm, AccessMayChange, MayBlock} \subseteq BOOLEAN

MainSlot == "main"            \* the task whose tid equals the pid
None == "none"                \* no pid or uid yet
Slots == {MainSlot} \cup AuxSlots

VARIABLES
    proc,                 \* kernel: what /proc/<pid>/... would show now
    isEnabled,            \* mIsEnabled
    isTimeInStateEnabled, \* mIsTimeInStateEnabled
    latestStats,          \* mLatestStats: uid -> UidProcStats
    deltaStats,           \* mDeltaStats: uid -> UidProcStats
    pc,                   \* where collect() is
    pidTodo,              \* pid entries readdir has still to return
    cur,                  \* the process readProcessStatsLocked is building
    tidTodo,              \* task entries readdir has still to return
    scan,                 \* the local uidProcStatsByUid
    lastResult            \* what the last collect() returned

kernelVars == <<proc>>
collectorVars == <<isEnabled, isTimeInStateEnabled, latestStats, deltaStats,
                   pc, pidTodo, cur, tidTodo, scan, lastResult>>
vars == <<kernelVars, collectorVars>>

(***************************************************************************)
(* uint64 arithmetic of the code, with KMax for kMaxUint64.                *)
(***************************************************************************)
\* addUint64: saturating addition
AddUint64(l, r) == IF (KMax - l) > r THEN l + r ELSE KMax

\* the plain `+=' on uint64_t fields: wraps
AddWrap(l, r) == (l + r) % (KMax + 1)

(***************************************************************************)
(* Records. gen is a ghost field: which incarnation of the pid the stat    *)
(* file belonged to. The code never reads it.                              *)
(***************************************************************************)
EmptyFn == [x \in {} |-> 0]
NoCur == [pid |-> None]       \* no process being read

ProcessStats ==
    [startTimeMillis: 0..MaxGen, cpuTimeMillis: 0..KMax,
     totalCpuCycles: 0..KMax, totalMajorFaults: 0..KMax,
     totalTasksCount: 1..Cardinality(Slots),
     ioBlockedTasksCount: 0..Cardinality(Slots),
     cpuCyclesByTid: UNION {[S -> 0..KMax] : S \in SUBSET Slots}, gen: 0..MaxGen]

\* UidProcStats without its processStatsByPid map
UidTotals ==
    [cpuTimeMillis: 0..KMax, cpuCycles: 0..KMax, totalMajorFaults: 0..KMax,
     totalTasksCount: Nat, ioBlockedTasksCount: Nat]

EmptyUidProcStats ==
    [cpuTimeMillis |-> 0, cpuCycles |-> 0, totalMajorFaults |-> 0,
     totalTasksCount |-> 0, ioBlockedTasksCount |-> 0,
     processStatsByPid |-> EmptyFn]

\* fold of one numeric field over the processes of a uid
FoldField(op(_, _), procs, field) ==
    FoldFunction(op, 0, [p \in DOMAIN procs |-> procs[p][field]])

(***************************************************************************)
(* Kernel (environment) state and steps.                                   *)
(***************************************************************************)
KProc == [alive: BOOLEAN, uid: Uids, gen: 0..MaxGen, startTime: 0..MaxGen,
          cpu: 0..MaxCpu, faults: 0..MaxFaults, threads: SUBSET AuxSlots,
          cycles: [Slots -> 0..MaxCpu], garbled: BOOLEAN]

NewProc(u, g, st, bad) ==
    [alive |-> TRUE, uid |-> u, gen |-> g, startTime |-> st, cpu |-> 0,
     faults |-> 0, threads |-> {}, cycles |-> [s \in Slots |-> 0],
     garbled |-> bad]

TaskAlive(p, s) == proc[p].alive /\ (s = MainSlot \/ s \in proc[p].threads)

\* a task of p runs: cpu time and the task's time_in_state grow together
Tick(p, s) ==
    /\ TaskAlive(p, s)
    /\ proc[p].cpu < MaxCpu
    /\ proc' = [proc EXCEPT ![p].cpu = @ + 1, ![p].cycles[s] = @ + 1]

MajorFault(p) ==
    /\ proc[p].alive
    /\ proc[p].faults < MaxFaults
    /\ proc' = [proc EXCEPT ![p].faults = @ + 1]

\* a new thread may get the tid of one that ended: its counters restart
ThreadStart(p, s) ==
    /\ proc[p].alive /\ s \notin proc[p].threads
    /\ proc' = [proc EXCEPT ![p].threads = @ \cup {s}, ![p].cycles[s] = 0]

\* a task that is gone has no files left; its counter is dropped
ThreadExit(p, s) ==
    /\ s \in proc[p].threads
    /\ proc' = [proc EXCEPT ![p].threads = @ \ {s}, ![p].cycles[s] = 0]

\* only the pid's last incarnation is remembered, to reuse the pid
Exit(p) ==
    /\ proc[p].alive
    /\ proc' = [proc EXCEPT ![p] = [NewProc(@.uid, @.gen, @.startTime, FALSE)
                                       EXCEPT !.alive = FALSE]]

\* the pid is reused; its start time is later unless reuse is within a tick.
\* A process may name itself so that its stat line no longer parses.
Spawn(p, u) ==
    /\ ~proc[p].alive
    /\ proc[p].gen < MaxGen
    /\ \E st \in IF SameTickReuse THEN {proc[p].startTime, proc[p].startTime + 1}
                                  ELSE {proc[p].startTime + 1},
          bad \in IF AllowBadComm THEN BOOLEAN ELSE {FALSE} :
           proc' = [proc EXCEPT ![p] = NewProc(u, proc[p].gen + 1, st, bad)]

SetUid(p, u) ==
    /\ AllowSetUid
    /\ proc[p].alive /\ proc[p].uid # u
    /\ proc' = [proc EXCEPT ![p].uid = u]

\* the other pids keep one idle process for the whole behaviour
KernelNext ==
    /\ \/ \E p \in Churning, s \in Slots : Tick(p, s)
       \/ \E p \in Churning : MajorFault(p) \/ Exit(p)
       \/ \E p \in Churning, s \in AuxSlots : ThreadStart(p, s) \/ ThreadExit(p, s)
       \/ \E p \in Churning, u \in Uids : Spawn(p, u) \/ SetUid(p, u)
    /\ UNCHANGED collectorVars

(***************************************************************************)
(* The collector.                                                          *)
(***************************************************************************)
\* what the probe of PID_FOR_INIT may find: its files readable or not, and
\* task/1/time_in_state gone, read as zero, or read as positive cycles
ProbeAccess == IF AccessMayChange THEN BOOLEAN ELSE {ProcFilesAccessible}
ProbeTimeInState ==
    IF AccessMayChange THEN {"gone", "zero", "positive"}
    ELSE {IF TimeInStateSupported THEN "positive" ELSE "gone"}

\* init(): probe outside the lock, then set the flags under mMutex, which
\* is free unless a collection holds it. mIsTimeInStateEnabled is only
\* assigned when the file is accessible.
InitCollector ==
    /\ pc \in {"idle", "checked"}
    /\ \E acc \in ProbeAccess, tis \in ProbeTimeInState :
          /\ isEnabled' = acc
          /\ isTimeInStateEnabled' = IF tis = "gone" THEN isTimeInStateEnabled
                                                     ELSE tis = "positive"
    /\ UNCHANGED <<kernelVars, latestStats, deltaStats, pc, pidTodo, cur,
                   tidTodo, scan, lastResult>>

\* collect() when disabled: returns an error, snapshots untouched
CollectDisabled ==
    /\ pc = "idle" /\ ~isEnabled
    /\ lastResult' = "error"
    /\ UNCHANGED <<kernelVars, isEnabled, isTimeInStateEnabled, latestStats,
                   deltaStats, pc, pidTodo, cur, tidTodo, scan>>

\* collect() reads mIsEnabled before it takes the lock
CollectCheck ==
    /\ pc = "idle" /\ isEnabled
    /\ pc' = "checked"
    /\ UNCHANGED <<kernelVars, isEnabled, isTimeInStateEnabled, latestStats,
                   deltaStats, pidTodo, cur, tidTodo, scan, lastResult>>

\* collect(): lock (mIsEnabled is not read again), readUidProcStatsLocked
\* opens /proc; readdir returns the pid directories that exist now
\* Mutant: mDeltaStats is cleared when the scan starts, not once it succeeded.
CollectBeginClearDelta ==
    /\ pc = "checked"
    /\ pc' = "pid" /\ pidTodo' = {p \in Pids : proc[p].alive}
    /\ scan' = EmptyFn /\ deltaStats' = EmptyFn
    /\ UNCHANGED <<kernelVars, isEnabled, isTimeInStateEnabled, latestStats,
                   cur, tidTodo, lastResult>>

CollectBegin ==
    /\ pc = "checked"
    /\ pc' = "pid"
    /\ pidTodo' = {p \in Pids : proc[p].alive}
    /\ scan' = EmptyFn
    /\ UNCHANGED <<kernelVars, isEnabled, isTimeInStateEnabled, latestStats,
                   deltaStats, cur, tidTodo, lastResult>>

\* an error other than READ_WARNING ends collect() with the snapshots as
\* they were
Abort ==
    /\ pc' = "idle" /\ lastResult' = "error"
    /\ pidTodo' = {} /\ tidTodo' = {} /\ scan' = EmptyFn /\ cur' = NoCur
    /\ UNCHANGED <<kernelVars, isEnabled, isTimeInStateEnabled, latestStats,
                   deltaStats>>

\* Mutant: a pid whose read gave READ_WARNING stays in the listing.
SkipPidRetry(p) ==
    /\ pc' = "pid" /\ cur' = NoCur
    /\ UNCHANGED <<kernelVars, isEnabled, isTimeInStateEnabled, latestStats,
                   deltaStats, pidTodo, tidTodo, scan, lastResult>>

\* READ_WARNING from readProcessStatsLocked: skip the pid
SkipPid(p) ==
    /\ pidTodo' = pidTodo \ {p} /\ pc' = "pid" /\ cur' = NoCur
    /\ UNCHANGED <<kernelVars, isEnabled, isTimeInStateEnabled, latestStats,
                   deltaStats, tidTodo, scan, lastResult>>

\* Mutant: the main thread is not counted among the tasks.
\* state == "D" ? 1 : 0 of a task's stat line. Whether a task sleeps on
\* I/O at the instant its stat is read is up to the kernel, read by read.
StateD == IF MayBlock THEN {0, 1} ELSE {0}

InitialProcessStatsNoMainTask(p, d) ==
    [startTimeMillis |-> proc[p].startTime, cpuTimeMillis |-> proc[p].cpu,
     totalCpuCycles |-> 0, totalMajorFaults |-> proc[p].faults,
     totalTasksCount |-> 0, ioBlockedTasksCount |-> d,
     cpuCyclesByTid |-> EmptyFn, gen |-> proc[p].gen]

\* the ProcessStats a process starts from: its own stat line, one task
InitialProcessStats(p, d) ==
    [startTimeMillis |-> proc[p].startTime,
     cpuTimeMillis |-> proc[p].cpu,
     totalCpuCycles |-> 0,
     totalMajorFaults |-> proc[p].faults,
     totalTasksCount |-> 1,
     ioBlockedTasksCount |-> d,
     cpuCyclesByTid |-> EmptyFn,
     gen |-> proc[p].gen]

\* 1. read /proc/<pid>/stat (readPidStatFile, parsePidStatLine): gone is a
\* READ_WARNING, an unparsable line a READ_ERROR
ReadPidStat(p) ==
    /\ pc = "pid" /\ p \in pidTodo
    /\ \/ ~proc[p].alive /\ SkipPid(p)
       \/ proc[p].alive /\ proc[p].garbled /\ Abort
       \/ /\ proc[p].alive /\ ~proc[p].garbled
          /\ \E d \in StateD :
                cur' = [pid |-> p, uid |-> None, stats |-> InitialProcessStats(p, d)]
          /\ pc' = "status"
          /\ UNCHANGED <<kernelVars, isEnabled, isTimeInStateEnabled,
                         latestStats, deltaStats, pidTodo, tidTodo, scan,
                         lastResult>>

\* (uid, tgid) of a pid: from its status file while the process lives (a
\* pid under /proc is a thread-group leader, so tgid = pid), else from the
\* entry of mLatestStats with this pid and start time, else unresolved
PidOwner(p, startTime) ==
    LET rec == {u \in DOMAIN latestStats :
                  /\ p \in DOMAIN latestStats[u].processStatsByPid
                  /\ latestStats[u].processStatsByPid[p].startTimeMillis
                        = startTime}
    IN IF proc[p].alive THEN [uid |-> proc[p].uid, tgid |-> p]
       ELSE IF rec # {} THEN [uid |-> CHOOSE u \in rec : TRUE, tgid |-> p]
       ELSE [uid |-> None, tgid |-> None]

\* 2. read /proc/<pid>/status; skip the pid when the uid is unresolved or
\* the pid is not a thread-group leader
ReadPidStatus ==
    /\ pc = "status"
    /\ LET p == cur.pid
           owner == PidOwner(p, cur.stats.startTimeMillis)
       IN IF owner.uid = None \/ owner.tgid # p
          THEN SkipPid(p)
          ELSE /\ cur' = [cur EXCEPT !.uid = owner.uid]
               /\ pc' = "taskdir"
               /\ UNCHANGED <<kernelVars, isEnabled, isTimeInStateEnabled,
                              latestStats, deltaStats, pidTodo, tidTodo, scan,
                              lastResult>>

\* 4. open /proc/<pid>/task; when the process is gone there are no tasks
OpenTaskDir ==
    /\ pc = "taskdir"
    /\ tidTodo' = IF proc[cur.pid].alive
                  THEN {MainSlot} \cup proc[cur.pid].threads ELSE {}
    /\ pc' = "tid"
    /\ UNCHANGED <<kernelVars, isEnabled, isTimeInStateEnabled, latestStats,
                   deltaStats, pidTodo, cur, scan, lastResult>>

\* one task entry: its stat when tid # pid, then its time_in_state
ReadTid(s) ==
    /\ pc = "tid" /\ s \in tidTodo
    /\ LET p == cur.pid
           live == TaskAlive(p, s)
           cycles == proc[p].cycles[s]
       IN \/ /\ s # MainSlot /\ ~live
             /\ tidTodo' = tidTodo \ {s}
             /\ UNCHANGED <<kernelVars, isEnabled, isTimeInStateEnabled,
                            latestStats, deltaStats, pc, pidTodo, cur, scan,
                            lastResult>>
          \/ s # MainSlot /\ live /\ proc[p].garbled /\ Abort
          \/ /\ s = MainSlot \/ ~proc[p].garbled
             /\ s = MainSlot \/ live
             /\ \E d \in StateD :
                LET counted == IF s = MainSlot THEN cur.stats
                               ELSE [cur.stats EXCEPT !.totalTasksCount = @ + 1,
                                                      !.ioBlockedTasksCount = @ + d]
                IN cur' = [cur EXCEPT !.stats =
                       IF isTimeInStateEnabled /\ live /\ cycles > 0
                       THEN [counted EXCEPT
                               !.totalCpuCycles = AddUint64(@, cycles),
                               !.cpuCyclesByTid = @ @@ (s :> cycles)]
                       ELSE counted]
             /\ tidTodo' = tidTodo \ {s}
             /\ UNCHANGED <<kernelVars, isEnabled, isTimeInStateEnabled,
                            latestStats, deltaStats, pc, pidTodo, scan,
                            lastResult>>

\* Mutant: the task count of the uid is assigned instead of added to.
FoldProcessAssignTasks(byUid, u, p, ps) ==
    LET old == IF u \in DOMAIN byUid THEN byUid[u] ELSE EmptyUidProcStats
    IN (u :> [old EXCEPT
                !.cpuTimeMillis = AddWrap(@, ps.cpuTimeMillis),
                !.cpuCycles = AddUint64(@, ps.totalCpuCycles),
                !.totalMajorFaults = AddWrap(@, ps.totalMajorFaults),
                !.totalTasksCount = ps.totalTasksCount,
                !.ioBlockedTasksCount = @ + ps.ioBlockedTasksCount,
                !.processStatsByPid = @ @@ (p :> ps)]) @@ byUid

\* fold the finished process into uidProcStatsByUid[uid]
FoldProcess(byUid, u, p, ps) ==
    LET old == IF u \in DOMAIN byUid THEN byUid[u] ELSE EmptyUidProcStats
        new == [cpuTimeMillis |-> AddWrap(old.cpuTimeMillis, ps.cpuTimeMillis),
                cpuCycles |-> AddUint64(old.cpuCycles, ps.totalCpuCycles),
                totalMajorFaults |-> AddWrap(old.totalMajorFaults,
                                             ps.totalMajorFaults),
                totalTasksCount |-> old.totalTasksCount + ps.totalTasksCount,
                ioBlockedTasksCount |-> old.ioBlockedTasksCount
                                          + ps.ioBlockedTasksCount,
                processStatsByPid |-> old.processStatsByPid @@ (p :> ps)]
    IN (u :> new) @@ byUid

FinishProcess ==
    /\ pc = "tid" /\ tidTodo = {}
    /\ scan' = FoldProcess(scan, cur.uid, cur.pid, cur.stats)
    /\ pidTodo' = pidTodo \ {cur.pid}
    /\ pc' = "pid" /\ cur' = NoCur
    /\ UNCHANGED <<kernelVars, isEnabled, isTimeInStateEnabled, latestStats,
                   deltaStats, tidTodo, lastResult>>

(***************************************************************************)
(* The delta of collect(): per uid present before, per pid with the same   *)
(* start time, per tid; a counter that went down is taken as it is now.    *)
(***************************************************************************)
\* Mutant: the difference is taken without the prev <= curr guard, so the
\* uint64 subtraction wraps.
UnguardedDiff(now, prev) == (now + (KMax + 1) - prev) % (KMax + 1)

\* `if (prev <= cur) cur -= prev': a counter that went down is kept as is
GuardedDiff(now, prev) == IF prev <= now THEN now - prev ELSE now

DeltaTidCycles(curr, prev, tid) ==
    IF tid \in DOMAIN prev.cpuCyclesByTid
    THEN GuardedDiff(curr.cpuCyclesByTid[tid], prev.cpuCyclesByTid[tid])
    ELSE curr.cpuCyclesByTid[tid]

\* Mutant: totalCpuCycles is not reset before the per-tid deltas are added.
DeltaTotalCyclesNoReset(total, byTid) == FoldFunction(AddUint64, total, byTid)

\* totalCpuCycles = 0, then the saturating sum of the per-tid deltas
DeltaTotalCycles(total, byTid) == FoldFunction(AddUint64, 0, byTid)

DeltaProcessStats(curr, prev) ==
    LET byTid == [tid \in DOMAIN curr.cpuCyclesByTid |->
                      DeltaTidCycles(curr, prev, tid)]
    IN [curr EXCEPT
          !.cpuTimeMillis = GuardedDiff(@, prev.cpuTimeMillis),
          !.totalMajorFaults = GuardedDiff(@, prev.totalMajorFaults),
          !.cpuCyclesByTid = byTid,
          !.totalCpuCycles = DeltaTotalCycles(@, byTid)]

\* Mutant: a pid is taken as the same process without comparing start times.
SameProcessByPidOnly(prevUid, pid, curr) ==
    pid \in DOMAIN prevUid.processStatsByPid

SameProcess(prevUid, pid, curr) ==
    /\ pid \in DOMAIN prevUid.processStatsByPid
    /\ prevUid.processStatsByPid[pid].startTimeMillis = curr.startTimeMillis

ProcessDelta(prevUid, pid, curr) ==
    IF SameProcess(prevUid, pid, curr)
    THEN DeltaProcessStats(curr, prevUid.processStatsByPid[pid])
    ELSE curr

\* the counts a delta takes as they are now (they are instantaneous)
InstantCountsNoBlocked(currUid) ==
    [totalTasksCount |-> currUid.totalTasksCount, ioBlockedTasksCount |-> 0]

InstantCounts(currUid) ==
    [totalTasksCount |-> currUid.totalTasksCount,
     ioBlockedTasksCount |-> currUid.ioBlockedTasksCount]

DeltaUidProcStats(prevUid, currUid) ==
    LET procs == [pid \in DOMAIN currUid.processStatsByPid |->
                     ProcessDelta(prevUid, pid, currUid.processStatsByPid[pid])]
    IN InstantCounts(currUid) @@
       [cpuTimeMillis |-> FoldField(AddWrap, procs, "cpuTimeMillis"),
        cpuCycles |-> FoldField(AddUint64, procs, "totalCpuCycles"),
        totalMajorFaults |-> FoldField(AddWrap, procs, "totalMajorFaults"),
        processStatsByPid |-> procs]

ComputeDelta(prev, curr) ==
    [uid \in DOMAIN curr |->
        IF uid \notin DOMAIN prev THEN curr[uid]
        ELSE DeltaUidProcStats(prev[uid], curr[uid])]

\* readdir is exhausted: replace mDeltaStats and mLatestStats
CollectEnd ==
    /\ pc = "pid" /\ pidTodo = {}
    /\ deltaStats' = ComputeDelta(latestStats, scan)
    /\ latestStats' = scan
    /\ scan' = EmptyFn
    /\ pc' = "idle" /\ lastResult' = "ok"
    /\ UNCHANGED <<kernelVars, isEnabled, isTimeInStateEnabled, pidTodo, cur,
                   tidTodo>>

CollectorNext ==
    \/ InitCollector \/ CollectDisabled \/ CollectCheck \/ CollectBegin
    \/ \E p \in Pids : ReadPidStat(p)
    \/ ReadPidStatus \/ OpenTaskDir
    \/ \E s \in Slots : ReadTid(s)
    \/ FinishProcess \/ CollectEnd

\* the collector starts among processes that have already run
Init ==
    /\ \E owner \in [Pids -> Uids], ran \in [Pids -> 0..MaxCpu] :
          proc = [p \in Pids |->
                    [NewProc(owner[p], 0, 0, FALSE) EXCEPT
                       !.cpu = ran[p], !.cycles[MainSlot] = ran[p]]]
    /\ isEnabled = FALSE /\ isTimeInStateEnabled = FALSE
    /\ latestStats = EmptyFn /\ deltaStats = EmptyFn
    /\ pc = "idle" /\ pidTodo = {} /\ cur = NoCur /\ tidTodo = {}
    /\ scan = EmptyFn /\ lastResult = "none"

Next == KernelNext \/ CollectorNext

\* collect() runs to its end once called; the kernel need not do anything
Spec == Init /\ [][Next]_vars /\ WF_vars(CollectorNext)

(***************************************************************************)
(* Properties                                                              *)
(***************************************************************************)
\* a uid -> UidProcStats map; membership is tested field by field
IsSnapshot(snap) ==
    /\ DOMAIN snap \subseteq Uids
    /\ \A u \in DOMAIN snap :
         /\ DOMAIN snap[u].processStatsByPid \subseteq Pids
         /\ \A p \in DOMAIN snap[u].processStatsByPid :
              snap[u].processStatsByPid[p] \in ProcessStats
         /\ Restrict(snap[u], DOMAIN snap[u] \ {"processStatsByPid"})
              \in UidTotals

TypeOK ==
    /\ proc \in [Pids -> KProc]
    /\ isEnabled \in BOOLEAN /\ isTimeInStateEnabled \in BOOLEAN
    /\ IsSnapshot(latestStats) /\ IsSnapshot(deltaStats) /\ IsSnapshot(scan)
    /\ pc \in {"idle", "checked", "pid", "status", "taskdir", "tid"}
    /\ pidTodo \subseteq Pids /\ tidTodo \subseteq Slots
    /\ cur \in {NoCur} \cup [pid: Pids, uid: Uids \cup {None}, stats: ProcessStats]
    /\ lastResult \in {"none", "ok", "error"}

Plus(a, b) == a + b

\* Spec 8.3 and 8.5: after every collect() each counter of a process in
\* mDeltaStats is at most the same counter in mLatestStats, per process and
\* per tid. The kernel may meanwhile have reused a tid (its time_in_state
\* restarts) or a pid, so a counter can go down between two snapshots; the
\* code must then take the current value, never a wrapped difference.
DeltaBounded ==
    /\ DOMAIN deltaStats = DOMAIN latestStats
    /\ \A u \in DOMAIN deltaStats :
        LET d == deltaStats[u].processStatsByPid
            c == latestStats[u].processStatsByPid
        IN /\ DOMAIN d = DOMAIN c
           /\ \A p \in DOMAIN d :
                /\ d[p].cpuTimeMillis <= c[p].cpuTimeMillis
                /\ d[p].totalMajorFaults <= c[p].totalMajorFaults
                /\ d[p].totalCpuCycles <= c[p].totalCpuCycles
                /\ DOMAIN d[p].cpuCyclesByTid = DOMAIN c[p].cpuCyclesByTid
                /\ \A t \in DOMAIN d[p].cpuCyclesByTid :
                      d[p].cpuCyclesByTid[t] <= c[p].cpuCyclesByTid[t]

\* Spec 8.6: in both snapshots a process's totalCpuCycles is the saturating
\* sum of its cpuCyclesByTid. readProcessStatsLocked builds both per task;
\* collect() rebuilds the delta's total from the per-tid deltas.
CyclesMatchTids ==
    \A snap \in {latestStats, deltaStats} :
      \A u \in DOMAIN snap :
        \A p \in DOMAIN snap[u].processStatsByPid :
          LET ps == snap[u].processStatsByPid[p]
          IN ps.totalCpuCycles = FoldFunction(AddUint64, 0, ps.cpuCyclesByTid)

\* Spec 8.7: every uid aggregate of mLatestStats is the fold, with the
\* code's own additions, of the processes filed under it; in mDeltaStats
\* the counters fold the per-process deltas while the task counts are the
\* latest ones (they are instantaneous).
UidFoldConsistent ==
    /\ \A u \in DOMAIN latestStats :
         LET s == latestStats[u]
             procs == s.processStatsByPid
         IN /\ s.cpuTimeMillis = FoldField(AddWrap, procs, "cpuTimeMillis")
            /\ s.cpuCycles = FoldField(AddUint64, procs, "totalCpuCycles")
            /\ s.totalMajorFaults = FoldField(AddWrap, procs, "totalMajorFaults")
            /\ s.totalTasksCount = FoldField(Plus, procs, "totalTasksCount")
    /\ \A u \in DOMAIN deltaStats :
         LET s == deltaStats[u]
             procs == s.processStatsByPid
         IN /\ s.cpuTimeMillis = FoldField(AddWrap, procs, "cpuTimeMillis")
            /\ s.cpuCycles = FoldField(AddUint64, procs, "totalCpuCycles")
            /\ s.totalMajorFaults = FoldField(AddWrap, procs, "totalMajorFaults")
            /\ u \in DOMAIN latestStats
            /\ s.totalTasksCount = latestStats[u].totalTasksCount

CollectSucceeds == pc = "pid" /\ pc' = "idle" /\ lastResult' = "ok"

\* Spec 4.G, 8.4, S3, S4: when collect() succeeds, a pid found under the
\* same uid in the previous mLatestStats as the same incarnation gets the
\* increase of its cpu time and major faults since then; a pid new to the
\* uid, or reused by another process, gets its whole current value. The
\* incarnation is the ghost gen, so the property checks that the start-time
\* comparison of collect() tells incarnations apart across pid reuse, exits
\* between file reads and the uid recovery of readProcessStatsLocked.
DeltaIsIncrease ==
    [][CollectSucceeds =>
        \A u \in DOMAIN latestStats' :
          \A p \in DOMAIN latestStats'[u].processStatsByPid :
            LET c == latestStats'[u].processStatsByPid[p]
                d == deltaStats'[u].processStatsByPid[p]
            IN IF /\ u \in DOMAIN latestStats
                  /\ p \in DOMAIN latestStats[u].processStatsByPid
                  /\ latestStats[u].processStatsByPid[p].gen = c.gen
               THEN LET o == latestStats[u].processStatsByPid[p]
                    IN /\ d.cpuTimeMillis = c.cpuTimeMillis - o.cpuTimeMillis
                       /\ d.totalMajorFaults
                             = c.totalMajorFaults - o.totalMajorFaults
               ELSE /\ d.cpuTimeMillis = c.cpuTimeMillis
                    /\ d.totalMajorFaults = c.totalMajorFaults]_vars


\* collect() returns: once a scan has started it ends, with the snapshots
\* replaced or with an error, however the kernel churns meanwhile. The pid
\* and task listings are the entries readdir returns for the directory
\* opened, each entry is read once, and no step of the scan waits for the
\* kernel.
CollectReturns == (pc # "idle") ~> (pc = "idle")

\* Spec 4.H and 5: collect() returns an error when the collector is
\* disabled, and one mutex guards is_enabled for the whole of collect().
\* So a scan of /proc only runs while mIsEnabled is set, even when init()
\* runs again on another thread and its probe now fails.
ScanOnlyWhileEnabled == pc \in {"pid", "status", "taskdir", "tid"} => isEnabled

\* Spec 3, 4.E, 4.F and 8.2: ioBlockedTasksCount counts the tasks whose stat
\* showed state "D" among the tasks totalTasksCount counts, so per process
\* it never exceeds the task count; per uid it is the sum over the uid's
\* processes in mLatestStats, and collect() carries it into mDeltaStats
\* unchanged, as for the task count, while tasks block, unblock, start and
\* exit between the reads of one scan and between scans.
IoBlockedCounted ==
    /\ \A snap \in {latestStats, deltaStats} :
         \A u \in DOMAIN snap :
           /\ snap[u].ioBlockedTasksCount <= snap[u].totalTasksCount
           /\ \A p \in DOMAIN snap[u].processStatsByPid :
                LET ps == snap[u].processStatsByPid[p]
                IN ps.ioBlockedTasksCount <= ps.totalTasksCount
    /\ \A u \in DOMAIN latestStats :
         latestStats[u].ioBlockedTasksCount
            = FoldField(Plus, latestStats[u].processStatsByPid, "ioBlockedTasksCount")
    /\ \A u \in DOMAIN deltaStats :
         deltaStats[u].ioBlockedTasksCount = latestStats[u].ioBlockedTasksCount

\* Spec 3 and 5: collect() publishes nothing on an error and replaces both
\* snapshots together on success. readUidProcStatsLocked builds the new
\* snapshot into a local; collect() clears mDeltaStats only after that
\* returned without error, and swaps mLatestStats last. So every step of
\* the scan, an abort after some pids were folded, the disabled return and
\* init() are, to a reader of the snapshots, a failure or nothing at all.
Snapshots == INSTANCE CollectorSnapshots
    WITH Empty <- EmptyFn, Delta <- ComputeDelta,
         latest <- latestStats, delta <- deltaStats, result <- lastResult

PublishesAtomically == Snapshots!Spec
================================================================================
