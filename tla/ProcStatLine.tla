------------------------------- MODULE ProcStatLine -------------------------------
(***************************************************************************)
(* readPidStatFile and parsePidStatLine (UidProcStatsCollector.cpp): one   *)
(* /proc/<pid>/stat file, as the kernel prints it for a process whose comm *)
(* is any short string, read back into a PidStat.                          *)
(*                                                                         *)
(* Text is a sequence of one-character strings. The kernel line is         *)
(* "<pid> (<comm>) S f3 f4 ... fN\n"; every numeric field k >= 3 is the    *)
(* single digit FieldDigit(k), chosen so that neighbouring fields differ   *)
(* and a field read from the wrong column shows.                           *)
(***************************************************************************)
EXTENDS Naturals, Sequences, FiniteSets

CONSTANTS
    CommChars,          \* characters a comm may contain
    MaxComm,            \* longest comm
    NumFields,          \* fields printed after the comm (the kernel prints 52)
    MillisPerClockTick  \* 1000 / sysconf(_SC_CLK_TCK)

ASSUME MaxComm \in Nat /\ NumFields >= 22 /\ MillisPerClockTick \in Nat

Digits == <<"1", "2", "3", "4", "5", "6", "7", "8", "9">>
DigitChars == {Digits[d] : d \in DOMAIN Digits}

Comms == UNION {[1..n -> CommChars] : n \in 0..MaxComm}

\* the value the kernel prints in field k (0-based, as the code counts)
FieldDigit(k) == (k % 9) + 1

(***************************************************************************)
(* The file the kernel produces, and the PidStat it stands for.           *)
(***************************************************************************)
RECURSIVE TailText(_)
TailText(k) ==
    IF k > NumFields THEN <<>>
    ELSE <<" ", Digits[FieldDigit(k)]>> \o TailText(k + 1)

StatFile(name) ==
    <<"7", " ", "(">> \o name \o <<")", " ", "S">> \o TailText(3) \o <<"\n">>

Truth(name) ==
    [comm |-> name,
     majorFaults |-> FieldDigit(11),
     cpuTimeMillis |-> (FieldDigit(13) + FieldDigit(14)) * MillisPerClockTick,
     startTimeMillis |-> FieldDigit(21) * MillisPerClockTick]

(***************************************************************************)
(* Library calls, by what they do.                                         *)
(***************************************************************************)
\* android::base::Split: the pieces between separators, empty ones kept
Split(s, sep) ==
    LET at == {j \in DOMAIN s : s[j] = sep}
        n == Cardinality(at)
        \* the k-th separator, with 0 and Len(s) + 1 as the ends
        Sep(k) == IF k = 0 THEN 0
                  ELSE IF k > n THEN Len(s) + 1
                  ELSE CHOOSE j \in at : Cardinality({m \in at : m < j}) = k - 1
    IN [k \in 1..(n + 1) |-> SubSeq(s, Sep(k - 1) + 1, Sep(k) - 1)]

EndsWithParen(f) == f # <<>> /\ f[Len(f)] = ")"

\* ParseInt / ParseUint on a field: a non-empty run of digits
IsNumber(f) == f # <<>> /\ \A j \in DOMAIN f : f[j] \in DigitChars

Front(s) == SubSeq(s, 1, Len(s) - 1)

RECURSIVE NumberValue(_)
NumberValue(f) ==
    IF f = <<>> THEN 0
    ELSE NumberValue(Front(f)) * 10
         + CHOOSE d \in DOMAIN Digits : Digits[d] = f[Len(f)]

(***************************************************************************)
(* The reader.                                                             *)
(***************************************************************************)
VARIABLES
    name,           \* the comm of the process (input)
    fields,         \* Split(line, " ")
    i,              \* the loop index over fields (1-based)
    comm,           \* pidStat->comm as the loop builds it
    commEndOffset,
    pc,             \* "read", "comm", "fields", "done"
    status,         \* "pending", "error" or "ok"
    parsed          \* the PidStat returned with "ok"

vars == <<name, fields, i, comm, commEndOffset, pc, status, parsed>>

NoStat == [comm |-> <<>>, majorFaults |-> 0, cpuTimeMillis |-> 0,
           startTimeMillis |-> 0]

\* commEndOffset = i - 1, for the loop's 0-based i
CommEndOffset(j) == j - 2

\* mutant: the system time is not added to the user time
CpuTicksUserOnly(fs, off) == NumberValue(fs[14 + off])

\* utime + stime, fields 13 and 14 after the comm
CpuTicks(fs, off) == NumberValue(fs[14 + off]) + NumberValue(fs[15 + off])

\* fields 11, 13 + 14 and 21 after the comm, scaled to milliseconds
PidStatOf(fs, off) ==
    [comm |-> SubSeq(comm, 2, Len(comm) - 1),
     majorFaults |-> NumberValue(fs[12 + off]),
     cpuTimeMillis |-> CpuTicks(fs, off) * MillisPerClockTick,
     startTimeMillis |-> NumberValue(fs[22 + off]) * MillisPerClockTick]

Init ==
    /\ name \in Comms
    /\ fields = <<>> /\ i = 2 /\ comm = <<>> /\ commEndOffset = 0
    /\ pc = "read" /\ status = "pending" /\ parsed = NoStat

\* readPidStatFile: one line, or two with an empty second, else READ_ERROR
ReadFile ==
    /\ pc = "read"
    /\ LET lines == Split(StatFile(name), "\n")
       IN IF Len(lines) # 1 /\ (Len(lines) # 2 \/ lines[2] # <<>>)
          THEN /\ pc' = "done" /\ status' = "error"
               /\ UNCHANGED <<fields, i>>
          ELSE /\ fields' = Split(lines[1], " ")
               /\ i' = 2 /\ pc' = "comm"
               /\ UNCHANGED status
    /\ UNCHANGED <<name, comm, commEndOffset, parsed>>

\* one turn of the loop gathering the comm up to a field ending in ')'.
\* A line the kernel prints always has such a field (the one closing the
\* comm), so the loop never runs out.
CommField ==
    /\ pc = "comm" /\ i <= Len(fields)
    /\ IF EndsWithParen(fields[i])
       THEN /\ comm' = comm \o fields[i]
            /\ commEndOffset' = CommEndOffset(i)
            /\ pc' = "fields"
            /\ UNCHANGED i
       ELSE /\ comm' = comm \o fields[i] \o <<" ">>
            /\ i' = i + 1
            /\ UNCHANGED <<commEndOffset, pc>>
    /\ UNCHANGED <<name, fields, status, parsed>>

\* brackets, field count and numbers checked; values read at the offset
ParseFields ==
    /\ pc = "fields"
    /\ LET off == commEndOffset
           ok == /\ comm # <<>> /\ comm[1] = "(" /\ comm[Len(comm)] = ")"
                 /\ Len(fields) >= 22 + off
                 /\ \A k \in {12, 14, 15, 22} : IsNumber(fields[k + off])
       IN IF ok THEN status' = "ok" /\ parsed' = PidStatOf(fields, off)
                ELSE status' = "error" /\ UNCHANGED parsed
    /\ pc' = "done"
    /\ UNCHANGED <<name, fields, i, comm, commEndOffset>>

Next == ReadFile \/ CommField \/ ParseFields

\* one call per comm; it returns after at most MaxComm + 3 steps
Spec == Init /\ [][Next]_vars

(***************************************************************************)
(* Properties                                                              *)
(***************************************************************************)
HasNewline(s) == \E j \in DOMAIN s : s[j] = "\n"
HasParenSpace(s) == \E j \in 1..(Len(s) - 1) : s[j] = ")" /\ s[j + 1] = " "

\* parsePidStatLine: a comm with spaces (spec S2) and with ')' that is not
\* followed by a space is read back exactly, and so are the fault count,
\* the cpu time (user + system) and the start time after it.
FaithfulUnlessParenSpace ==
    (pc = "done" /\ ~HasNewline(name) /\ ~HasParenSpace(name))
        => status = "ok" /\ parsed = Truth(name)

\* Spec 8.2: any comm without a line break, ')' and spaces included,
\* round-trips through the stat line.
RoundTrip ==
    (pc = "done" /\ ~HasNewline(name)) => status = "ok" /\ parsed = Truth(name)
================================================================================
