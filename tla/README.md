# TLA+ models of the watchdog's UidProcStatsCollector

This directory holds TLA+ models of
`src/cpp/watchdog/server/src/UidProcStatsCollector.cpp` and the TLC
configurations that check them. The collector scans `/proc`. For every process
it reads `stat`, `status`, the task directory, each task's `stat` and
`time_in_state`. It folds the processes into per-uid aggregates, then computes
the delta against the previous snapshot. The other two files under `src/` are
not modelled; see the end of this file.

## The system and its parts

| Part (spec section) | Code | What it does |
|---|---|---|
| ProcStatLineParser (4.A) | `parsePidStatLine`, `readPidStatFile` 74-142 | one stat line -> comm, state, faults, cpu, start time; READ_WARNING if the file is gone, READ_ERROR if it does not parse |
| KeyValueFileReader (4.B) | `getLinesWithTags`, `readKeyValueFile`, `readPidStatusFile` 144-228 | uid and tgid from `status` |
| TimeInStateReader (4.C) | `readTimeInStateFile` 247-285 | saturating sum of freq x ticks, scaled to cycles |
| StatmReader (4.D) | `readPidStatmFile` 294-316 | rss and shared pages |
| ProcessAssembler (4.E) | `readProcessStatsLocked` 530-655 | one pid: stat, status (falling back to `mLatestStats`), memory, tasks |
| UidAggregator (4.F) | `readUidProcStatsLocked` 490-528 | readdir of `/proc`; skip on READ_WARNING, abort on READ_ERROR; fold per uid |
| DeltaComputer (4.G) | `collect` 436-487 | per uid, per pid with equal start time, per tid: guarded difference |
| Collector facade (4.H) | `init` 364-423, `collect` 425-435 | the capability probe, and the locked collection |

How they interact: `collect()` holds `mMutex` for the whole scan. Nothing else
in the collector runs concurrently with it. What runs concurrently is the
kernel. Between any two file reads of the scan, processes and threads run,
fault, exit and start, pids and tids are reused, and processes call setuid.
Every file read observes the kernel at a different moment. This is where the
interesting behaviour lives, so the model makes the kernel an environment
process whose steps interleave with every step of the scan.

## Modules

* `UidProcStatsCollector.tla` holds the kernel and the collector.
  * **Kernel state.** The kernel state is `proc`: per pid, whether it is alive, its
    uid, incarnation (`gen`), start time, cpu time, major faults, live threads,
    per-task time_in_state cycles, and whether its comm makes its stat lines
    unparsable (`garbled`).
  * **Kernel steps.** They are `Tick`, `MajorFault`, `ThreadStart`, `ThreadExit`,
    `Exit`, `Spawn` (pid reuse, with a later or, within one tick, the same start
    time) and `SetUid`.
  * **The collector.** It has `mIsEnabled`, `mIsTimeInStateEnabled`,
    `mLatestStats` and `mDeltaStats`. It also has the locals of a scan in
    progress: `pidTodo` is the readdir of `/proc`, `cur` is the process being
    assembled, `tidTodo` is the readdir of its task directory, and `scan` is
    `uidProcStatsByUid`.
  * **Collector actions.** There is one action per step of the code:
    * `InitCollector` is `init()`: the probe (`ProbeAccess`, `ProbeTimeInState`)
      and the flags written under `mMutex`. It may run again at any time the
      lock is free. With `AccessMayChange`, a later probe may find other
      outcomes.
    * `CollectDisabled` is the early return at 426.
    * `CollectCheck` is the unlocked read of `mIsEnabled` at 426.
    * `CollectBegin` is the lock and `opendir`. It does not read
      `mIsEnabled` again.
    * `ReadPidStat` is step 1.
    * `ReadPidStatus` is step 2, with the recovery from `mLatestStats` (`PidOwner`).
    * `OpenTaskDir` is step 4.
    * `ReadTid` is one task: its stat, then its time_in_state.
    * The `state` field of every stat read (`StateD`) is 0 or 1, read by read.
      With `MayBlock` a task may be in `D` at one read and not at the next.
      The model keeps no kernel state for it, since the code keeps nothing
      but the count. `ReadPidStat` seeds `ioBlockedTasksCount` from the main
      task, and `ReadTid` adds a non-main task's count with its task count.
    * `FinishProcess` is the fold at 512-525.
    * `CollectEnd` is the delta and the swap of the snapshots.
    * `Abort` is the READ_ERROR of an unparsable stat line, of the process or
      of a task. Three other error returns are not in the collector model:
      `opendir` of `/proc` failing (494-496), a status file READ_ERROR
      (546-548, reached by a tag in the name, shown by `PidStatus`), and a
      malformed time_in_state file (639-641, shown by `TimeInStateReader`).
      Each ends in the same abort, which the stat path already exercises.
    * `SkipPid` is every READ_WARNING path.

  The arithmetic keeps the code's widths. Counters live in `0..KMax`:
  `AddUint64` saturates, and `AddWrap` is the wrapping `+=` of 518-524 and
  478-481. The ghost field `gen` on each ProcessStats record names the
  incarnation the record was read from. No code reads it; properties use it.
* `CollectorAccounting.tla` extends the collector with a history variable,
  `credited`. It records, per pid incarnation, the cpu time that all published
  deltas together have handed out. This is what a consumer summing
  `mDeltaStats` (resource overuse) sees.
* `TimeInStateReader.tla` models `readTimeInStateFile` line by line. Each line is
  empty, a `cpuN` header, too short, unparsable, or an entry (freq, ticks). The
  module also has `mul` and `addUint64` at width `KMax`, and a RECURSIVE
  reference sum `ExactOneTenth` of the exact cycle count.
* `CollectorSnapshots.tla` is the abstract contract of `collect()` for the
  readers of the snapshots (spec 3, 5). A call either fails (`Fail`), leaving
  `latest` and `delta` as they were, or publishes (`Publish`): in one step, a
  new `latest` and the delta of it against the snapshot it replaces. The
  collector instantiates it with `latest <- latestStats`,
  `delta <- deltaStats`, `result <- lastResult` and `Delta <- ComputeDelta`.
  The scan run checks `PublishesAtomically` (the contract's `Spec`).
* `TimeInStateCall.tla` is the abstract contract of one `readTimeInStateFile`
  call, in one step. It returns READ_WARNING when the file cannot be read and
  READ_ERROR when any line is malformed. Otherwise it returns a value between
  the saturated exact count and the ceiling. `TimeInStateReader` instantiates it
  with `INSTANCE ... WITH`: `status <- result`, `value <- cycles`, and
  `Exact <- ExactCycles`. The run checks `RefinesCall` (the contract's `Spec`)
  as a property of the loop.
* `ProcStatLine.tla` models `readPidStatFile` and `parsePidStatLine` (74-142)
  on real text.
  * **Input.** The input is the stat file the kernel prints for a comm. Text is
    a sequence of one-character strings, and every numeric field `k` is the
    digit `FieldDigit(k)`, so a field read from the wrong column shows.
  * **Actions.** They are the line split (`ReadFile`), one turn of the comm loop
    (`CommField`), and the bracket, count and number checks with the reads at
    the offset (`ParseFields`). `Split` is `android::base::Split`, and
    `NumberValue` is `ParseInt`.
  * **Reference.** `Truth(name)` is what the file stands for.
* `PidStatus.tla` models `getLinesWithTags`, `readKeyValueFile` and
  `readPidStatusFile` (144-228).
  * **Input.** The input is the kernel's status file, with the Name line first.
    A line is its key and the words of its value, and a comm is a sequence of
    words. The word `Uid` stands for any comm containing that text.
  * **Actions.** `TagLine` is one turn of the tag search, `KeyLine` is one turn
    of the key/value loop, and `ReadFields` is the Uid/Tgid checks.
* `ProcessMemory.tla` models step 3 of `readProcessStatsLocked` (583-600) with
  `readSmapsRollup` (667-681) and the outcomes of `readPidStatmFile`
  (294-316).
  * **smaps_rollup.** `SmapsOrRollupFromFile` is a library call. It fails or
    returns a reading with uss <= pss <= rss.
  * **statm.** The statm file is gone, unparsable, or a reading with
    shared <= resident.
  * **UssKb.** `UssKb` is the uint64 subtraction with the code's guard.
* `MC_UidProcStatsCollector.tla` defines the symmetry set (uids, aux thread
  slots) for the collector runs.

## Runs

| Run | Config | Checks | Result |
|---|---|---|---|
| scan | `MC_Scan.cfg` | TypeOK, CyclesMatchTids, UidFoldConsistent, DeltaIsIncrease, PublishesAtomically | pass, 752,208 states, ~2 min |
| counter_drop | `MC_CounterDrop.cfg` | DeltaBounded, IoBlockedCounted, CollectReturns | pass, 772,456 states, ~2 min 20 s |
| time_in_state | `MC_TimeInState.cfg` | TypeOK, RefinesCall | pass, 27,374 states |
| proc_stat_line | `MC_ProcStatLine.cfg` | FaithfulUnlessParenSpace | pass, 2,488 states |
| pid_status | `MC_PidStatus.cfg` | NeverWrongOwner, ReadsUnlessTagInName | pass, 459 states |
| overreport_setuid | `MC_OverReportSetUid.cfg` | NoOverReport | violation |
| overreport_pid_reuse | `MC_OverReportPidReuse.cfg` | NoOverReport | violation |
| time_in_state_exact | `MC_TimeInStateExact.cfg` | ExactSaturation | violation |
| proc_stat_round_trip | `MC_ProcStatLineRoundTrip.cfg` | RoundTrip | violation |
| pid_status_tag_in_name | `MC_PidStatusTagInName.cfg` | ReadsOwner | violation |
| init_race | `MC_InitRace.cfg` | ScanOnlyWhileEnabled | violation |
| memory_one_reading | `MC_ProcessMemory.cfg` | OneReading | violation |

What the properties say:

* **CyclesMatchTids** (spec 8.6). In the latest snapshot and in the delta, a
  process's `totalCpuCycles` is the saturating sum of its `cpuCyclesByTid`. It
  catches a delta that forgets to reset the total before re-adding per-tid
  deltas.
* **UidFoldConsistent** (spec 8.7). Every uid aggregate of the latest snapshot
  is the code's fold of its processes. Every delta aggregate carries the current
  task count.
* **DeltaIsIncrease** (spec 3, 8.4, 8.5). This is an action property of every
  successful collection. For a process that was in the previous snapshot
  under the same uid with the same pid and the same incarnation, the delta is
  the increase. Otherwise it is the full current value. The process may have
  exited, respawned, changed uid, or had its thread set change while the scan
  was in progress.
* **PublishesAtomically** (spec 3, 5; refinement). Every step of the collector
  is, to a reader of `mLatestStats` and `mDeltaStats`, a failed call that
  changed neither or a successful one that replaced both. This covers scan
  steps, aborts after some pids were folded, the disabled return and
  `init()`. It catches a `collect()` that clears `mDeltaStats` when the scan
  starts, not after the scan succeeded.
* **DeltaBounded** (spec 8.3, 8.5). No delta counter, per process or per tid,
  exceeds its current absolute value. This holds even when counters went down
  through tid reuse or same-tick pid reuse.
* **CollectReturns** (liveness). A started `collect()` gets back to idle,
  however the kernel churns. `collect()` holds `mMutex` for the whole scan, so
  a scan that does not end blocks the collector for good.
* **IoBlockedCounted** (spec 3, 4.E-4.G, 8.2). Per process and per uid, the
  tasks counted in `D` never outnumber the tasks counted. A uid's count in the
  latest snapshot is the sum over its processes. The delta carries the current
  count, which is instantaneous like the task count. It catches a delta that
  leaves the count out of the fields it copies from the current snapshot.
* **NoOverReport** (spec 1, 3). Summed over all collections, the deltas never
  credit a process incarnation with more cpu time than it used. Both runs
  violate it. See the findings below.
* **RefinesCall** (spec 4.C). The line loop implements the one-step contract
  `TimeInStateCall`. A malformed line anywhere gives READ_ERROR, even after
  entries were summed, and the value is within the contract's range: never
  below the saturated exact count, so an overflowing file never wraps.
* **ExactSaturation** (spec 8.1). The read equals min(exact, 2^64-1). It is
  violated.
* **FaithfulUnlessParenSpace** (spec 4.A, S2). A comm that contains spaces, or
  `)` not followed by a space, is read back exactly. So are the fault count,
  user + system time and start time after it, scaled to milliseconds.
* **RoundTrip** (spec 8.2). Every comm without a newline round-trips. It is
  violated.
* **NeverWrongOwner.** Whatever a process calls itself, a successful status
  read returns the real uid (not the effective one) and the tgid.
* **ReadsUnlessTagInName** / **ReadsOwner** (spec 4.B, 4.E). A readable status
  file is read successfully if the comm holds no tag. `ReadsOwner` drops that
  condition and is violated.
* **OneReading** (spec 2, 4.E). A finished memory record is the
  smaps_rollup reading as a whole, or it has no pss and no swap pss. It is
  violated.
* **ScanOnlyWhileEnabled** (spec 4.H, 5). A scan of `/proc` runs only while
  `mIsEnabled` is set. The spec has one mutex guard `is_enabled` for the
  whole of `collect()`. It is violated.

Every property of a pass run has a mutant in `PROJECT.json`. The mutant is a
plausible bug in the code's definition, and TLC finds it under the run's own
configuration.

## Findings

1. **`mul` is off by one** (`UidProcStatsCollector.cpp:252`). `(kMaxUint64 / r) > l`
   saturates also when `l = floor(MAX / r)`, whose product fits. TLC finds
   entries 2x1 and 5x1 with a scale of 2, at width 15: the sum is 7 and
   `mul(7, 2)` is 15 instead of 14. Only values within `r` of the ceiling are
   affected.
2. **A uid change is credited twice** (`:438`). The delta looks up a pid only
   under its current uid. A process that changes uid between collections is
   credited its whole cpu time again.
3. **Pid reuse between the stat and status reads** (`:534`, `:545`). The old
   process's counters are filed under the new owner and credited again in full.
   The window is two file reads long, so this is rare.
4. **A comm containing `") "` shifts every field** (`:98`).
   * **The misparse.** The comm loop stops at the first field ending in `)`.
     For the comm `") "`, the line parses without error, and every field after
     the comm is read from the column before it. In TLC's trace (field `k`
     holds the digit `FieldDigit(k)`) the parse returns an empty comm, major
     faults 2 instead of 3, cpu 90 instead of 110, and start time 30 instead
     of 40.
   * **Which kernel fields.** Major faults come from `cminflt`, and cpu time
     from `cmajflt + utime`, so the system time is lost. The start time comes
     from `itrealvalue`, which current kernels print as 0.
   * **Effect on the delta.** A process can pick such a name with
     `prctl(PR_SET_NAME)`. Its cpu time then moves with its children's major
     faults and its own user time, not with its cpu use. Its start time is 0,
     so a reused pid whose new process also has such a name is diffed against
     the old one. The comm `")  "` (two spaces) shifts by two. Its start time
     is then `num_threads`, which changes with the thread count, and each time
     it does `collect()` credits the whole cpu time again.
5. **A tag in the process name makes every collection fail** (`:155`).
   * **The bug.** `getLinesWithTags` takes the first line that contains `Uid`
     or `Tgid` as a substring, and the Name line comes first.
   * **Why a collection fails.** A process named, say, `Tgid` hides its real
     Tgid line, and `readPidStatusFile` returns READ_ERROR (`:224`). This
     aborts `readUidProcStatsLocked` (`:505`), so no uid gets stats while the
     process lives.
6. **collect() scans after init() disabled the collector** (`:426`).
   `collect()` reads `mIsEnabled` before it takes `mMutex` and does not read
   it again. TLC's trace has four steps:
   1. `init()` enables the collector.
   2. `collect()` passes its check.
   3. A second `init()`, whose probe now fails, clears the flag under the lock.
   4. `collect()` takes the lock and scans `/proc` anyway.

   The unlocked read of a plain `bool` that another thread writes under the
   lock is also a data race.

7. **A rejected smaps_rollup reading leaks into the statm record** (`:676`,
   `:680`). `readSmapsRollup` writes all four memory fields before it rejects
   a reading with a zero pss, rss or uss. The statm fallback overwrites only
   rss and uss. TLC's trace: smaps_rollup reads rss 0 and swap pss 1, statm
   gives rss 4, and the record keeps swap pss 1. A rejected reading with
   pss > 0 (its uss is 0) keeps that pss beside a statm rss that may be
   smaller. Spec 4.E falls back to statm on the collaborator's failure, and
   spec 2 leaves unset fields at 0.

Observations, not runs. The run budget goes to the findings above.

* **No shared pages gives uss 0** (`:598`). `ProcessMemory` models the guard
  (`UssKb`). The guard `ussKb < rssKb` is false when shared is 0, so uss is 0
  instead of rss. The kernel prints shared <= resident, so the guard never sees
  a real wrap. A unit test of the statm fallback reaches this.
* **The time-in-state flag is not cleared on re-init** (`:395`). A later
  `init()` whose probe finds `time_in_state` gone leaves
  `mIsTimeInStateEnabled` set. Spec 4.H says to set it "accordingly".
  `InitCollector` models this with `AccessMayChange`. The only effect is that
  each task's read becomes a READ_WARNING, which step 5 skips.
* **The stat format comment leaves out `itrealvalue`** (`:74-84`). The
  comment lists `<num threads> <start time since boot>` next to each other.
  The code's indices (11, 13, 14 and 21 after the comm) are right for the
  kernel's format, which has `itrealvalue` between the two.

## Bounds

* **scan.** It has two pids, one of them churning; the other stays as an
  idle bystander that the recovery and fold paths must keep apart. It has two
  uids, one extra thread slot, cpu up to 1, one pid reuse, bad comms allowed,
  and setuid allowed. This is the smallest instance in which all of these
  happen between two collections and in the middle of one: a pid is reused
  under the other uid, a uid changes, a thread comes and goes, and a scan
  aborts.
* **counter_drop.** It has one pid, cpu up to 1, faults up to 1, same-tick
  reuse, and tasks that may read as `D` (`MayBlock`). A counter goes down when the pid is reused in the same tick after the
  old process ticked or faulted, and when the tid is reused. Uids and thread
  slots are singletons, so there is no symmetry. This keeps the liveness check
  sound and the run short.
* **time_in_state.** It covers all files of up to 3 lines over frequencies
  {0,2,3,5} and ticks {1,3,4}, at width 15 with a scale of 2. This includes
  products that overflow in `mul` (3x4, 5x4), sums that overflow after scaling,
  zero entries, and errors after accumulation.
* **proc_stat_line.** It covers every comm of up to 4 characters over
  `a`, `1`, space, `)` and newline, with 23 fields after the pid. That is one
  more than the last field read, so a shifted read is caught by the field
  count or by the digits.
* **pid_status.** It covers every comm of up to 3 words over `Uid`, `Tgid` and
  `x`, with the file readable or not.
* **init_race.** It has one pid, one uid, one thread slot and no reuse. The
  race needs only two `init()` calls and one `collect()`.
* **memory_one_reading.** It covers every smaps reading with fields up to 2 KiB,
  every statm reading up to 2 pages of 4 KiB, all three statm outcomes, and
  both flags. Uint64 is 0..15 here.
* `KMax` is 7 in the collector runs. The counters there stay below it.
  Saturation is checked in `TimeInStateReader`.

## Fairness

The kernel gets no fairness: processes need not do anything. The collector
gets weak fairness on its own steps. `collect()` is synchronous and holds
the lock, and the steps of a scan are file reads that complete (spec 5).
`CollectReturns` relies on this fairness and on nothing the kernel does. The
single-call modules (`TimeInStateReader`, `ProcStatLine`, `PidStatus`,
`ProcessMemory`) run with no fairness and no deadlock check. A call returns,
and then nothing more happens.

## Abstractions and what is not modelled

* **Collector abstractions.**
  * Clock-tick scaling is left out of the collector model. The `D` state is
    the outcome of a stat read, not a kernel variable (see `StateD`).
  * A comm there is abstracted to "parses" or "does not parse". How it is
    parsed is `ProcStatLine`; the misread of finding 4 is not fed back into the
    collector.
* **Memory.** The memory step is checked on its own in `ProcessMemory`. The
  collector model keeps memory profiling off, since no delta depends on the
  memory fields.
* **Status and statm files.** Lines without the `:\t` delimiter cannot occur
  in a kernel status file and are not enumerated. A statm file is modelled by
  its outcome.
* **Task reads.** A task's stat and time_in_state are read in one step. The
  stat read decides whether the task still exists.
* **Pids.** A pid under `/proc` is always a thread-group leader, so the
  `tgid != pid` skip only matters for the recovery path, which sets
  tgid = pid.
* **readdir.** Entries created after `opendir` are not returned by readdir.
  POSIX leaves this open, and `CollectReturns` depends on it.
* **Bystander pids.** The idle bystander pids do not change.
* **Probe outcomes.** The probe outcomes change only in `init_race`
  (`AccessMayChange`). The pass runs keep them fixed. There, a repeated
  `init()` that flips the flags could starve a waiting `collect()` under weak
  fairness on the collector as a whole. The non-FIFO `mMutex` would in
  principle allow this too, but `init()` is a one-off call.
* **Other files.**
  * `fuzzer.cpp` (power policy) is a fuzzer entry point for a server that is
    not in the repository.
  * `MockResourceOveruseListener.h` is a test double.

  Neither has state to model.

## Plan for the next steps

1. Feed the stat-line misread of finding 4 into the collector, so that a
   process with a `")  "` comm gets a start time equal to its thread count.
   This needs a free run, or one to be retired.
2. A second abstract delta specification, with latest and delta as
   functions of two kernel observations. The collector would be shown to
   refine it under the conditions where findings 2-3 do not occur.
   `CollectorSnapshots` already fixes when the snapshots change, but not what
   the new `latest` is.
