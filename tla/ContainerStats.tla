--------------------------- MODULE ContainerStats ---------------------------
(***************************************************************************)
(* LinuxContainer.Info: the statistics of a container, read from the       *)
(* cgroup files memory.stat, cpuacct.usage and cpuacct.stat, from the      *)
(* quota manager and from the bandwidth manager, with the parsers          *)
(* parseMemoryStat and parseCPUStat.                                       *)
(*                                                                         *)
(* Model simplifications:                                                  *)
(*  - the contents of a file are the sequence of its words, which is what  *)
(*    bufio.ScanWords hands to the parsers;                                *)
(*  - strconv.ParseUint is the function ParseUint, defined on the words    *)
(*    that are numbers; strings.Trim(_, "\n") is the function Trim;        *)
(*  - a stat structure is a function from the names of its fields as they  *)
(*    are written in the file;                                             *)
(*  - the fields of the answer that are copied from the container (state,  *)
(*    events, properties, mapped ports, processes) are left out.           *)
(***************************************************************************)
EXTENDS Naturals, Sequences, FiniteSetsExt, SequencesExt

CONSTANTS
  Words,          \* the words that occur in memory.stat and cpuacct.stat
  Usages,         \* the contents that occur in cpuacct.usage
  ParseUint,      \* ParseUint[w]: the number a word stands for
  Trim,           \* Trim[u]: u without the newlines at its ends
  MaxMemoryWords, \* bound on the number of words of memory.stat
  MaxCPUWords,    \* bound on the number of words of cpuacct.stat
  DiskStats,      \* what the quota manager may answer
  BandwidthStats  \* what the bandwidth manager may answer

VARIABLES
  memoryStat,     \* the contents of memory.stat
  cpuUsage,       \* the contents of cpuacct.usage
  cpuStat,        \* the contents of cpuacct.stat
  ret             \* the last return of Info

vars == <<memoryStat, cpuUsage, cpuStat, ret>>

-----------------------------------------------------------------------------
(* Values *)

\* The fields of api.ContainerMemoryStat, by their names in memory.stat.
CounterNames ==
  { "cache", "rss", "mapped_file", "pgpgin", "pgpgout", "swap", "pgfault",
    "pgmajfault", "inactive_anon", "active_anon", "inactive_file",
    "active_file", "unevictable" }

MemoryFields ==
  CounterNames \cup {"hierarchical_memory_limit", "hierarchical_memsw_limit"}
    \cup { "total_" \o name : name \in CounterNames }

\* The fields of api.ContainerCPUStat that cpuacct.stat fills.
CPUFields == {"user", "system"}

\* The zero value of a stat structure.
Zero(fields) == [f \in fields |-> 0]

Sources == {"memory.stat", "cpuacct.usage", "cpuacct.stat", "GetUsage", "GetLimits"}

OK == "ok"

ASSUME /\ DOMAIN ParseUint \subseteq Words \cup { Trim[u] : u \in Usages }
       /\ \A w \in DOMAIN ParseUint : ParseUint[w] \in Nat
       /\ DOMAIN Trim = Usages
       /\ MaxMemoryWords \in Nat /\ MaxCPUWords \in Nat

-----------------------------------------------------------------------------
(* The parsers *)

Parses(text) == text \in DOMAIN ParseUint

\* Seeded fault: a value that is no number ends the scan (break for
\* continue).
RECURSIVE scanUntilBadValue(_, _, _)
scanUntilBadValue(words, fields, stat) ==
  IF Len(words) < 2 \/ ~Parses(words[2]) THEN stat
  ELSE scanUntilBadValue(SubSeq(words, 3, Len(words)), fields,
                         IF words[1] \in fields
                         THEN [stat EXCEPT ![words[1]] = ParseUint[words[2]]]
                         ELSE stat)

\* The loop of both parsers: take a field and a value, stop when either is
\* missing, skip the pair when the value is no number, store the value when
\* the field is one of the structure.
RECURSIVE scan(_, _, _)
scan(words, fields, stat) ==
  IF Len(words) < 2 THEN stat
  ELSE scan(SubSeq(words, 3, Len(words)), fields,
            IF Parses(words[2]) /\ words[1] \in fields
            THEN [stat EXCEPT ![words[1]] = ParseUint[words[2]]]
            ELSE stat)

\* parseMemoryStat(contents)
parseMemoryStat(contents) == scan(contents, MemoryFields, Zero(MemoryFields))

\* Seeded fault: the usage is parsed as it was read, newline included.
parseCPUStatUntrimmed(usage, statContents) ==
  IF ~Parses(usage) THEN Zero(CPUFields \cup {"usage"})
  ELSE scan(statContents, CPUFields,
            [Zero(CPUFields \cup {"usage"}) EXCEPT !["usage"] = ParseUint[usage]])

\* parseCPUStat(usage, statContents): nothing is reported when the usage is
\* no number.
parseCPUStat(usage, statContents) ==
  IF ~Parses(Trim[usage]) THEN Zero(CPUFields \cup {"usage"})
  ELSE scan(statContents, CPUFields,
            [Zero(CPUFields \cup {"usage"}) EXCEPT !["usage"] = ParseUint[Trim[usage]]])

-----------------------------------------------------------------------------
(* Operations *)

\* The files hold whatever the kernel wrote; Info does not change them.
Init ==
  /\ memoryStat \in BoundedSeq(Words, MaxMemoryWords)
  /\ cpuUsage \in Usages
  /\ cpuStat \in BoundedSeq(Words, MaxCPUWords)
  /\ ret = [op |-> "New", err |-> OK]

\* c.Info(), one of its five reads failing
InfoFailed(source) ==
  /\ ret' = [op |-> "Info", err |-> source]
  /\ UNCHANGED <<memoryStat, cpuUsage, cpuStat>>

\* c.Info(), every read succeeding
Info(diskStat, bandwidthStat) ==
  /\ ret' = [op |-> "Info", err |-> OK,
             info |-> [MemoryStat |-> parseMemoryStat(memoryStat),
                       CPUStat |-> parseCPUStat(cpuUsage, cpuStat),
                       DiskStat |-> diskStat,
                       BandwidthStat |-> bandwidthStat]]
  /\ UNCHANGED <<memoryStat, cpuUsage, cpuStat>>

Next ==
  \/ \E source \in Sources : InfoFailed(source)
  \/ \E d \in DiskStats, b \in BandwidthStats : Info(d, b)

Spec == Init /\ [][Next]_vars

-----------------------------------------------------------------------------
(* Properties *)

\* The value a file of "field value" pairs gives a field: the number of the
\* last pair that names the field and has a number, 0 when there is none.
LastValue(words, field) ==
  LET pairs == { i \in 1 .. (Len(words) \div 2) :
                   words[2 * i - 1] = field /\ Parses(words[2 * i]) }
  IN  IF pairs = {} THEN 0 ELSE ParseUint[words[2 * Max(pairs)]]

Answered == ret.op = "Info" /\ ret.err = OK

\* Info reports for every field of memory.stat the last number the file
\* gives it: parseMemoryStat goes on after a pair whose value is no number
\* or whose field it does not know, stops at a field without a value, and
\* leaves a field the file does not give at 0.
MemoryStatIsLastValues ==
  Answered =>
    \A f \in MemoryFields : ret.info.MemoryStat[f] = LastValue(memoryStat, f)

\* Info reports the CPU statistics whole or not at all: parseCPUStat gives
\* the usage without its newline and the last user and system numbers of
\* cpuacct.stat, and gives three zeros when the usage is no number, whatever
\* cpuacct.stat holds.
CPUStatWholeOrZero ==
  Answered =>
    ret.info.CPUStat =
      IF Parses(Trim[cpuUsage])
      THEN [f \in CPUFields \cup {"usage"} |->
              IF f = "usage" THEN ParseUint[Trim[cpuUsage]]
                             ELSE LastValue(cpuStat, f)]
      ELSE Zero(CPUFields \cup {"usage"})

=============================================================================
