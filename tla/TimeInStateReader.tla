---------------------------- MODULE TimeInStateReader ----------------------------
(***************************************************************************)
(* readTimeInStateFile (UidProcStatsCollector.cpp): the CPU cycles of one  *)
(* task from /proc/<pid>/task/<tid>/time_in_state. The file is a list of   *)
(* "cpuN" policy headers, each followed by "<freq kHz> <clock ticks>"      *)
(* lines. The reader sums freq * ticks with saturating uint64 arithmetic   *)
(* and scales the sum by cyclesPerKHzClockTicks = 1000 / _SC_CLK_TCK.      *)
(*                                                                         *)
(* A line is abstracted to what the loop tells apart: empty, a header, a   *)
(* line with fewer than two fields, a line whose numbers do not parse, or  *)
(* an entry with its two numbers. The width of uint64 is KMax.             *)
(***************************************************************************)
EXTENDS Naturals, Sequences

CONSTANTS
    KMax,                   \* stands for kMaxUint64
    Freqs,                  \* frequencies (kHz) an entry may carry
    Ticks,                  \* clock ticks an entry may carry
    MaxLines,               \* bound on the length of a file
    CyclesPerKHzClockTicks  \* 1000 / sysconf(_SC_CLK_TCK)

ASSUME KMax \in Nat \ {0} /\ Freqs \subseteq Nat /\ Ticks \subseteq Nat
ASSUME MaxLines \in Nat /\ CyclesPerKHzClockTicks \in Nat

Entries == [kind: {"entry"}, freq: Freqs, ticks: Ticks]
Line == [kind: {"empty", "header", "short", "unparsable"}] \cup Entries

\* the lines of the file as Split(buffer, "\n") returns them
Files == UNION {[1..n -> Line] : n \in 0..MaxLines}

VARIABLES
    readable,           \* ReadFileToString succeeds
    file,               \* the input
    i,                  \* the line the loop is at
    oneTenthCpuCycles,  \* the accumulator
    result,             \* "pending", "warning", "error" or "ok"
    cycles              \* the value returned with "ok"

vars == <<readable, file, i, oneTenthCpuCycles, result, cycles>>

(***************************************************************************)
(* uint64 arithmetic of the code.                                          *)
(***************************************************************************)
\* addUint64
AddUint64(l, r) == IF (KMax - l) > r THEN l + r ELSE KMax

\* mutant: the product taken without the overflow check
MulUnchecked(l, r) == l * r

\* the lambda `mul' of readTimeInStateFile
Mul(l, r) ==
    IF l = 0 \/ r = 0 THEN 0
    ELSE IF (KMax \div r) > l THEN l * r ELSE KMax

(***************************************************************************)
(* Reference: the exact number of cycles, and the saturated value the      *)
(* spec asks for (min(true value, 2^64 - 1)).                              *)
(***************************************************************************)
RECURSIVE ExactOneTenth(_)
ExactOneTenth(lines) ==
    IF lines = <<>> THEN 0
    ELSE (IF Head(lines).kind = "entry"
          THEN Head(lines).freq * Head(lines).ticks ELSE 0)
         + ExactOneTenth(Tail(lines))

Saturated(n) == IF n > KMax THEN KMax ELSE n

ExactCycles(lines) ==
    Saturated(ExactOneTenth(lines) * CyclesPerKHzClockTicks)

(***************************************************************************)
(* The loop.                                                               *)
(***************************************************************************)
Init ==
    /\ readable \in BOOLEAN /\ file \in Files
    /\ i = 1 /\ oneTenthCpuCycles = 0 /\ result = "pending" /\ cycles = 0

\* ReadFileToString fails: READ_WARNING
ReadFails ==
    /\ result = "pending" /\ ~readable
    /\ result' = "warning"
    /\ UNCHANGED <<readable, file, i, oneTenthCpuCycles, cycles>>

\* mutant: a line with fewer than two fields is skipped like a header
SkipLineLenient ==
    /\ result = "pending" /\ readable /\ i <= Len(file)
    /\ file[i].kind \in {"empty", "header", "short"}
    /\ i' = i + 1
    /\ UNCHANGED <<readable, file, oneTenthCpuCycles, result, cycles>>

\* empty lines and "cpu" headers are skipped
SkipLine ==
    /\ result = "pending" /\ readable /\ i <= Len(file)
    /\ file[i].kind \in {"empty", "header"}
    /\ i' = i + 1
    /\ UNCHANGED <<readable, file, oneTenthCpuCycles, result, cycles>>

\* fewer than two fields, or a field that is not a uint64: READ_ERROR
RejectLine ==
    /\ result = "pending" /\ readable /\ i <= Len(file)
    /\ file[i].kind \in {"short", "unparsable"}
    /\ result' = "error"
    /\ UNCHANGED <<readable, file, i, oneTenthCpuCycles, cycles>>

AccumulateLine ==
    /\ result = "pending" /\ readable /\ i <= Len(file)
    /\ file[i].kind = "entry"
    /\ oneTenthCpuCycles' = AddUint64(oneTenthCpuCycles,
                                      Mul(file[i].freq, file[i].ticks))
    /\ i' = i + 1
    /\ UNCHANGED <<readable, file, result, cycles>>

\* all lines read: scale to cycles
Finish ==
    /\ result = "pending" /\ readable /\ i > Len(file)
    /\ result' = "ok"
    /\ cycles' = Mul(oneTenthCpuCycles, CyclesPerKHzClockTicks)
    /\ UNCHANGED <<readable, file, i, oneTenthCpuCycles>>

Next == ReadFails \/ SkipLine \/ RejectLine \/ AccumulateLine \/ Finish

\* one call; it returns after at most MaxLines + 1 steps
Spec == Init /\ [][Next]_vars

(***************************************************************************)
(* Properties                                                              *)
(***************************************************************************)
TypeOK ==
    /\ readable \in BOOLEAN /\ file \in Files
    /\ i \in 1..(MaxLines + 1)
    /\ oneTenthCpuCycles \in 0..KMax
    /\ result \in {"pending", "warning", "error", "ok"}
    /\ cycles \in 0..KMax

\* Spec 8.1: a successful read is exactly min(true value, 2^64 - 1).
ExactSaturation ==
    result = "ok" => cycles = ExactCycles(file)

\* The loop keeps the promise of TimeInStateCall: the intermediate steps
\* are invisible to the caller (they change neither the result nor the
\* cycles) and the step that returns is one the contract allows. Above all
\* a malformed line anywhere in the file is a READ_ERROR, even after
\* entries were summed, and no malformed line is ever skipped.
Call == INSTANCE TimeInStateCall WITH
            Files <- Files, Exact <- ExactCycles,
            status <- result, value <- cycles

RefinesCall == Call!Spec
================================================================================
