-------------------------------- MODULE PidStatus --------------------------------
(***************************************************************************)
(* readPidStatusFile with readKeyValueFile and getLinesWithTags            *)
(* (UidProcStatsCollector.cpp): the uid and tgid of a process from         *)
(* /proc/<pid>/status.                                                     *)
(*                                                                         *)
(* A line is its key and the words of its value ("Uid:\t10\t11\t11\t11"    *)
(* is key "Uid", words <<"10", "11", "11", "11">>). The kernel prints the  *)
(* keys in a fixed order, Name first; the Name value is the comm, which   *)
(* the process chooses. A comm is a sequence of words; a word stands for   *)
(* any text that contains it, so the word "Uid" stands for "MyUidApp".    *)
(***************************************************************************)
EXTENDS Naturals, Sequences, FiniteSets, TLC

CONSTANTS
    NameWords,      \* words a comm may contain
    MaxWords        \* longest comm, in words

Tags == <<"Uid", "Tgid">>   \* the tags readPidStatusFile asks for

\* numbers, as ParseInt reads them: real uid 10, effective uid 11, tgid 7
Numbers == {"7", "10", "11"}
RealUid == "10"
Tgid == "7"

Comms == UNION {[1..n -> NameWords] : n \in 0..MaxWords}

StatusFile(name) ==
    << [key |-> "Name", words |-> name],
       [key |-> "Umask", words |-> <<"0077">>],
       [key |-> "State", words |-> <<"S">>],
       [key |-> "Tgid", words |-> <<Tgid>>],
       [key |-> "Ngid", words |-> <<"0">>],
       [key |-> "Pid", words |-> <<Tgid>>],
       [key |-> "PPid", words |-> <<"1">>],
       [key |-> "TracerPid", words |-> <<"0">>],
       [key |-> "Uid", words |-> <<RealUid, "11", "11", "11">>],
       [key |-> "Gid", words |-> <<"10", "10", "10", "10">>] >>

\* sub.find(tag) != npos on the text "<key>:\t<value>"
LineHasTag(line, tag) ==
    tag = line.key \/ \E w \in DOMAIN line.words : line.words[w] = tag

Range(f) == {f[x] : x \in DOMAIN f}

VARIABLES
    name,           \* the comm (input)
    readable,       \* ReadFileToString succeeds
    pc,             \* "tags", "keys", "done"
    base,           \* the line getLinesWithTags is at
    notFoundTags,
    tagged,         \* the lines getLinesWithTags returns
    k,              \* the line readKeyValueFile is at
    contents,       \* key -> words
    status,         \* "pending", "warning", "error", "ok"
    owner           \* <<uid, tgid>> returned with "ok"

vars == <<name, readable, pc, base, notFoundTags, tagged, k, contents,
          status, owner>>

\* mutant: the effective uid (second word) is read instead of the real one
UidWordEffective(words) == words[2]

\* ParseInt(Split(contents["Uid"], "\t")[0])
UidWord(words) == words[1]

\* mutant: the value is taken after the key only, keeping the delimiter
ValueKeepingDelimiter(line) == <<":">> \o line.words

\* Trim(lines[i].substr(key.length() + delimiter.length()))
ValueOf(line) == line.words

Init ==
    /\ name \in Comms /\ readable \in BOOLEAN
    /\ pc = "tags" /\ base = 1 /\ notFoundTags = Range(Tags) /\ tagged = <<>>
    /\ k = 1 /\ contents = [x \in {} |-> <<>>]
    /\ status = "pending" /\ owner = <<>>

\* ReadFileToString fails: READ_WARNING
ReadFails ==
    /\ pc = "tags" /\ ~readable
    /\ pc' = "done" /\ status' = "warning"
    /\ UNCHANGED <<name, readable, base, notFoundTags, tagged, k, contents, owner>>

\* getLinesWithTags: a line is kept when it holds a tag not found yet; the
\* tags it holds are found
TagLine ==
    /\ pc = "tags" /\ readable
    /\ notFoundTags # {} /\ base <= Len(StatusFile(name))
    /\ LET line == StatusFile(name)[base]
           hits == {t \in notFoundTags : LineHasTag(line, t)}
       IN /\ notFoundTags' = notFoundTags \ hits
          /\ tagged' = IF hits # {} THEN Append(tagged, line) ELSE tagged
    /\ base' = base + 1
    /\ UNCHANGED <<name, readable, pc, k, contents, status, owner>>

TagsDone ==
    /\ pc = "tags" /\ readable
    /\ notFoundTags = {} \/ base > Len(StatusFile(name))
    /\ pc' = "keys"
    /\ UNCHANGED <<name, readable, base, notFoundTags, tagged, k, contents,
                   status, owner>>

\* readKeyValueFile: a repeated key is a READ_ERROR
KeyLine ==
    /\ pc = "keys" /\ k <= Len(tagged)
    /\ LET line == tagged[k]
       IN IF line.key \in DOMAIN contents
          THEN pc' = "done" /\ status' = "error" /\ UNCHANGED contents
          ELSE /\ contents' = (line.key :> ValueOf(line)) @@ contents
               /\ UNCHANGED <<pc, status>>
    /\ k' = k + 1
    /\ UNCHANGED <<name, readable, base, notFoundTags, tagged, owner>>

IsNumber(words) == words # <<>> /\ words[1] \in Numbers

\* readPidStatusFile: "Uid" and "Tgid" must both be there and parse
ReadFields ==
    /\ pc = "keys" /\ k > Len(tagged)
    /\ IF /\ contents # [x \in {} |-> <<>>]
          /\ "Uid" \in DOMAIN contents /\ IsNumber(contents["Uid"])
          /\ "Tgid" \in DOMAIN contents /\ IsNumber(contents["Tgid"])
       THEN status' = "ok"
            /\ owner' = <<UidWord(contents["Uid"]), contents["Tgid"][1]>>
       ELSE status' = "error" /\ UNCHANGED owner
    /\ pc' = "done"
    /\ UNCHANGED <<name, readable, base, notFoundTags, tagged, k, contents>>

Next == ReadFails \/ TagLine \/ TagsDone \/ KeyLine \/ ReadFields

\* one call per comm; it returns after at most 13 steps
Spec == Init /\ [][Next]_vars

(***************************************************************************)
(* Properties                                                              *)
(***************************************************************************)
HasTagWord(s) == \E w \in DOMAIN s : s[w] \in Range(Tags)

\* Whatever name a process gives itself, the status reader never files it
\* under a wrong owner: a read that succeeds returns the real uid (not the
\* effective one a setuid program runs with) and the tgid.
NeverWrongOwner ==
    status = "ok" => owner = <<RealUid, Tgid>>

\* A readable status file of a process whose name holds neither tag is
\* read successfully.
ReadsUnlessTagInName ==
    (pc = "done" /\ readable /\ ~HasTagWord(name)) => status = "ok"

\* Spec 4.B and 4.E: the reader returns the uid and tgid of every process
\* whose status file is readable.
ReadsOwner ==
    (pc = "done" /\ readable) => status = "ok"
================================================================================
