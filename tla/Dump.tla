-------------------------------- MODULE Dump ---------------------------------
(***************************************************************************)
(* Raw dumps (libcpuid/cpuid_main.c): cpuid_serialize_raw_data and         *)
(* cpuid_serialize_all_raw_data write a text file, cpuid_deserialize_...   *)
(* read such a file, or a dump of AIDA64, back line by line.               *)
(*                                                                         *)
(* A record (cpu_raw_data_t) maps fields to values, 0 being the value the  *)
(* constructor leaves.  A line of a file is                                *)
(*   [kind, n, fields, value]                                              *)
(*   "version"       the first line of a libcpuid dump                     *)
(*   "cpu"           "____ Logical CPU #n ____"                            *)
(*   "reg"           one register of one record: fields has one member     *)
(*   "aidaStart"     "------[ Versions ]------"                            *)
(*   "aidaCpu"       "------[ Logical CPU #n ]------" and its variants     *)
(*   "aidaRegisters" "CPUID Registers (CPU #n):", numbered from 1          *)
(*   "aidaReg"       a CPUID line of AIDA64: fields are the registers it   *)
(*                   sets (a leaf, a sub-leaf, or both for sub-leaf 0)     *)
(*   "regPast"     an ARM register with an index past its array            *)
(*   "aidaPast"    a sub-leaf of AIDA64 with an index past its array       *)
(*   "dashes"        the end of the dump and the begin of test results     *)
(*   "other"         anything that is not understood                       *)
(* Only the x86 lines of libcpuid and the leaves of AIDA64 have their      *)
(* index checked: out of bounds they are lines that are not understood.    *)
(***************************************************************************)
EXTENDS Integers, Sequences, FiniteSets

CONSTANTS
  X86Fields,    \* sequence of the fields of an x86 record, as written
  ArmFields,    \* the same for ARM
  BasicFields,  \* the fields of basic_cpuid
  Values,       \* register contents
  Cut,          \* what is read from a line that was cut inside a register
  CpuMod,       \* number of values of logical_cpu_t (65536)
  Sources,      \* arrays (or records, of length 1) that may be serialized
  Foreign,      \* files that libcpuid did not write
  MemoryMayFail \* whether realloc may return NULL

Elements(q) == {q[i] : i \in DOMAIN q}
Fields == Elements(X86Fields) \union Elements(ArmFields)

Record == [Fields -> Values \union {Cut}]
Blank  == [f \in Fields |-> 0]

Line == [kind : {"version", "cpu", "reg", "aidaStart", "aidaCpu",
                 "aidaRegisters", "aidaReg", "regPast", "aidaPast", "dashes",
                 "other"},
         n : Int, fields : SUBSET Fields, value : Values \union {Cut}]

ASSUME ConstantsAssumption ==
  /\ 0 \in Values /\ Cut \notin Values
  /\ X86Fields # <<>> /\ X86Fields[1] \in BasicFields
  /\ ArmFields # <<>>
  /\ X86Fields \in Seq(Elements(X86Fields)) /\ ArmFields \in Seq(Elements(ArmFields))
  /\ BasicFields \subseteq Elements(X86Fields)
  /\ Elements(X86Fields) \intersect Elements(ArmFields) = {}
  /\ CpuMod \in Nat /\ CpuMod > 1
  /\ \A s \in Sources : s \in Seq([Fields -> Values]) /\ Len(s) < CpuMod
  /\ Foreign \subseteq Seq(Line)
  /\ MemoryMayFail \in BOOLEAN

VARIABLES
  file,          \* the lines on disk
  origin,        \* what was serialized: mode, recs, whether all was written
  into,          \* what is deserialized into: "one" record or "all"
  position,      \* number of lines read
  isHeader,      \* is_header
  format,        \* "libcpuid" (is_libcpuid_dump) or "aida64"
  offset,        \* logical_cpu_offset
  rawPtr,        \* raw_ptr: index of the record that is filled, 0 is NULL
  raw,           \* raw_array->raw; one record when into is "one"
  withAffinity,  \* raw_array->with_affinity
  phase,         \* "start", "written", "reading", "done", "failed", "ub"
  result,        \* what the last function returned
  noMemory       \* a realloc has failed

vars == <<file, origin, into, position, isHeader, format, offset, rawPtr, raw,
          withAffinity, phase, result, noMemory>>

reader == <<into, position, isHeader, format, offset, rawPtr, raw,
            withAffinity, noMemory>>
-----------------------------------------------------------------------------
(* What a dump looks like. *)

(* cpuid_architecture_identify *)
Architecture(rec) ==
  CASE rec[X86Fields[1]] # 0                           -> "x86"
    [] rec[X86Fields[1]] = 0 /\ rec[ArmFields[1]] # 0  -> "arm"
    [] OTHER                                           -> "unknown"

(* Written for the architecture of the first record, whatever the others.  *)
FieldsOf(arch) == CASE arch = "x86" -> X86Fields
                    [] arch = "arm" -> ArmFields
                    [] OTHER        -> <<>>

VersionLine == [kind |-> "version", n |-> 0, fields |-> {}, value |-> 0]

(* The number is printed as a signed 16-bit number (PRIi16).               *)
CpuLine(c) == [kind |-> "cpu", n |-> IF 2 * c < CpuMod THEN c ELSE c - CpuMod,
               fields |-> {}, value |-> 0]

(* Mutant: registers that are zero are not written. *)
RegLineNonzero(f, value) ==
  [kind |-> IF value = 0 THEN "other" ELSE "reg", n |-> 0, fields |-> {f},
   value |-> value]

RegLine(f, value) == [kind |-> "reg", n |-> 0, fields |-> {f}, value |-> value]

DumpOne(rec) ==
  LET fields == FieldsOf(Architecture(rec))
  IN  <<VersionLine>> \o [i \in DOMAIN fields |-> RegLine(fields[i], rec[fields[i]])]

(* A block per CPU: its number, then its registers. *)
DumpAll(recs) ==
  LET fields == FieldsOf(Architecture(recs[1]))
      block  == Len(fields) + 1
      At(p)  == LET c == (p - 1) \div block
                    i == (p - 1) % block
                IN  IF i = 0 THEN CpuLine(c)
                             ELSE RegLine(fields[i], recs[c + 1][fields[i]])
  IN  <<VersionLine>> \o [p \in 1 .. Len(recs) * block |-> At(p)]

DumpOf(mode, recs) == IF mode = "one" THEN DumpOne(recs[1]) ELSE DumpAll(recs)

(* What a full disk leaves of a line that is not written to its end:       *)
(* nothing that is understood, or a register with a wrong value.           *)
Remains(line) ==
  {<<>>} \union (IF line.kind = "reg" THEN {<<[line EXCEPT !.value = Cut]>>} ELSE {})

-----------------------------------------------------------------------------
Init ==
  /\ file \in {<<>>} \union Foreign
  /\ origin = [mode |-> "foreign", recs |-> <<>>, intact |-> TRUE]
  /\ into = "all" /\ position = 0
  /\ isHeader = TRUE /\ format = "libcpuid" /\ offset = 0
  /\ rawPtr = 0 /\ raw = <<>> /\ withAffinity = FALSE
  /\ phase = (IF file = <<>> THEN "start" ELSE "written")
  /\ result = "ERR_OK" /\ noMemory = FALSE

(* cpuid_serialize_all_raw_data of an array without records follows the    *)
(* NULL pointer it passes as single_raw.                                   *)
SerializeNothing(recs) ==
  /\ phase = "start" /\ recs = <<>>
  /\ origin' = [mode |-> "all", recs |-> recs, intact |-> FALSE]
  /\ phase' = "ub"
  /\ UNCHANGED <<file, result>> /\ UNCHANGED reader

(* Results of fprintf and fclose are not looked at: when the disk is full  *)
(* after k lines the function returns as if all had been written.          *)
Serialize(mode, recs) ==
  /\ phase = "start" /\ recs # <<>>
  /\ mode = "one" => Len(recs) = 1
  /\ LET lines == DumpOf(mode, recs)
     IN  \/ /\ file' = lines
            /\ origin' = [mode |-> mode, recs |-> recs, intact |-> TRUE]
         \/ /\ \E k \in 0 .. Len(lines) - 1 : \E rest \in Remains(lines[k + 1]) :
                 file' = SubSeq(lines, 1, k) \o rest
            /\ origin' = [mode |-> mode, recs |-> recs, intact |-> FALSE]
  /\ result' = "ERR_OK" /\ phase' = "written"
  /\ UNCHANGED reader

(* The constructors, of the record before and of the array after fopen.    *)
Deserialize(target) ==
  /\ phase = "written"
  /\ into' = target
  /\ raw' = IF target = "one" THEN <<Blank>> ELSE <<>>
  /\ rawPtr' = IF target = "one" THEN 1 ELSE 0
  /\ withAffinity' = FALSE
  /\ position' = 0 /\ isHeader' = TRUE /\ format' = "libcpuid" /\ offset' = 0
  /\ phase' = "reading"
  /\ UNCHANGED <<file, origin, result, noMemory>>

(* fopen fails, for writing or for reading. *)
OpenFails ==
  /\ phase \in {"start", "written"}
  /\ result' = "ERR_OPEN" /\ phase' = "failed"
  /\ UNCHANGED <<file, origin>> /\ UNCHANGED reader

-----------------------------------------------------------------------------
(* The loop over the lines. *)

ThisLine == file[position + 1]
MoreLines == phase = "reading" /\ position < Len(file) /\ ThisLine.kind # "dashes"
NextLine == position' = position + 1 /\ UNCHANGED <<file, origin, into, phase, result>>

(* Mutant: the new records are copies of the last one. *)
GrownCopies(n) ==
  [i \in 1 .. (IF n < Len(raw) THEN Len(raw) ELSE n) |->
     IF i <= Len(raw) THEN raw[i] ELSE IF raw = <<>> THEN Blank ELSE raw[Len(raw)]]

(* cpuid_grow_raw_data_array: never shrinks, new records are blank.        *)
Grown(n) ==
  [i \in 1 .. (IF n < Len(raw) THEN Len(raw) ELSE n) |->
     IF i <= Len(raw) THEN raw[i] ELSE Blank]

(* The array after growing to n records, or not growing for lack of memory. *)
Grow(n) ==
  \/ raw' = Grown(n) /\ UNCHANGED noMemory
  \/ /\ MemoryMayFail /\ n >= 1 /\ n >= Len(raw)
     /\ noMemory' = TRUE /\ UNCHANGED raw

(* logical_cpu + 1 as a parameter of type logical_cpu_t. *)
LengthFor(cpu) == (cpu + 1) % CpuMod

(* What ends the header: a basic_cpuid line or a line only AIDA64 writes.  *)
StartsSingle(line) == line.kind = "reg" /\ line.fields \subseteq BasicFields
StartsAida(line) == \/ line.kind = "aidaStart"
                    \/ line.kind = "aidaCpu" /\ line.n = 0
                    \/ line.kind = "aidaRegisters" /\ line.n = 1

(* is_libcpuid_dump and is_aida64_dump when the line is dispatched. *)
FormatOf(line) == IF isHeader /\ StartsAida(line) THEN "aida64" ELSE format

SelectsCpu(line) ==
  into = "all" /\ FormatOf(line) = "libcpuid" /\ line.kind = "cpu"
SelectsAidaCpu(line) ==
  into = "all" /\ FormatOf(line) = "aida64" /\ line.kind \in {"aidaCpu", "aidaRegisters"}
SetsRegister(line) ==
  \/ FormatOf(line) = "libcpuid" /\ line.kind = "reg"
  \/ FormatOf(line) = "aida64" /\ line.kind = "aidaReg"

(* A register that the code stores past the end of its array.              *)
Strays(line) == \/ FormatOf(line) = "libcpuid" /\ line.kind = "regPast"
                \/ FormatOf(line) = "aida64" /\ line.kind = "aidaPast"

(* Mutant: the number is kept as it was printed, with its sign cut off. *)
NumberReadUnsigned(line) == IF line.n < 0 THEN 0 ELSE line.n

(* sscanf with SCNu16. *)
NumberRead(line) == line.n % CpuMod

SelectCpu ==
  /\ MoreLines /\ SelectsCpu(ThisLine)
  /\ LET cpu == NumberRead(ThisLine)
     IN  Grow(LengthFor(cpu)) /\ rawPtr' = cpu + 1
  /\ withAffinity' = TRUE /\ isHeader' = FALSE
  /\ NextLine /\ UNCHANGED <<format, offset>>

(* Mutant: an offset of one, whatever the first number. *)
OffsetAfterOne(number) == IF raw = <<>> /\ number >= 1 THEN 1 ELSE offset

(* "Some raw dumps start core count from 1, we need to start from 0".      *)
OffsetAfter(number) == IF raw = <<>> /\ number >= 1 THEN number ELSE offset

SelectAidaCpu ==
  /\ MoreLines /\ SelectsAidaCpu(ThisLine)
  /\ LET number == NumberRead(ThisLine)
         cpu    == (number - OffsetAfter(number)) % CpuMod
     IN  /\ offset' = OffsetAfter(number)
         /\ Grow(LengthFor(cpu)) /\ rawPtr' = cpu + 1
  /\ withAffinity' = TRUE /\ isHeader' = FALSE /\ format' = "aida64"
  /\ NextLine

(* RAW_ASSIGN_LINE *)
Assigned(array, ptr, line) ==
  [array EXCEPT ![ptr] = [f \in Fields |->
                            IF f \in line.fields THEN line.value ELSE @[f]]]

(* Mutant: a single dump is not recognised in the header. *)
BeginsSingleNever(line) == FALSE

(* A basic_cpuid line in the header starts a single record in the array.   *)
BeginsSingle(line) == into = "all" /\ isHeader /\ StartsSingle(line)

(* "Parsing raw dump for a single CPU dump", and the register is stored.   *)
BeginSingle ==
  /\ MoreLines /\ BeginsSingle(ThisLine)
  /\ raw' = Assigned(Grown(1), 1, ThisLine) /\ rawPtr' = 1
  /\ withAffinity' = FALSE /\ isHeader' = FALSE /\ format' = "libcpuid"
  /\ NextLine /\ UNCHANGED <<offset, noMemory>>

(* A register goes to the record that raw_ptr points to. *)
AssignRegister ==
  /\ MoreLines /\ SetsRegister(ThisLine) /\ ~BeginsSingle(ThisLine)
  /\ rawPtr \in DOMAIN raw
  /\ raw' = Assigned(raw, rawPtr, ThisLine)
  /\ isHeader' = (isHeader /\ ~StartsSingle(ThisLine))
  /\ NextLine /\ UNCHANGED <<format, offset, rawPtr, withAffinity, noMemory>>

(* raw_ptr is NULL or points past the array, or the register lies past its *)
(* array in the record.                                                    *)
Overrun ==
  /\ MoreLines
  /\ \/ /\ SetsRegister(ThisLine) /\ ~BeginsSingle(ThisLine)
        /\ rawPtr \notin DOMAIN raw /\ UNCHANGED noMemory
     \/ /\ SetsRegister(ThisLine) /\ BeginsSingle(ThisLine)
        /\ MemoryMayFail /\ noMemory' = TRUE
     \/ Strays(ThisLine) /\ UNCHANGED noMemory
  /\ phase' = "ub"
  /\ UNCHANGED <<file, origin, into, position, isHeader, format, offset, rawPtr,
                 raw, withAffinity, result>>

(* Lines that set nothing; some of them end the header. *)
SkipLine ==
  /\ MoreLines
  /\ ~SelectsCpu(ThisLine) /\ ~SelectsAidaCpu(ThisLine)
  /\ ~SetsRegister(ThisLine) /\ ~Strays(ThisLine)
  /\ isHeader' = (isHeader /\ ~StartsAida(ThisLine))
  /\ format' = FormatOf(ThisLine)
  /\ NextLine /\ UNCHANGED <<offset, rawPtr, raw, withAffinity, noMemory>>

(* The end of the file or of the dump in it. *)
EndOfDump ==
  /\ phase = "reading" /\ ~MoreLines
  /\ result' = IF into = "all" /\ raw = <<>> THEN "ERR_BADFMT" ELSE "ERR_OK"
  /\ phase' = "done"
  /\ UNCHANGED <<file, origin>> /\ UNCHANGED reader

ReadLine == \/ SelectCpu \/ SelectAidaCpu \/ BeginSingle \/ AssignRegister
            \/ Overrun \/ SkipLine

Next == \/ \E s \in Sources : SerializeNothing(s)
        \/ \E mode \in {"one", "all"}, s \in Sources : Serialize(mode, s)
        \/ \E target \in {"one", "all"} : Deserialize(target)
        \/ OpenFails \/ ReadLine \/ EndOfDump

Spec == Init /\ [][Next]_vars
-----------------------------------------------------------------------------
(* Properties. *)

(* Everything in the array is written: the first record decides which      *)
(* registers a dump has.                                                   *)
Writable(recs) ==
  \A i \in DOMAIN recs : \A f \in Fields :
    recs[i][f] # 0 => f \in Elements(FieldsOf(Architecture(recs[1])))

Reread(mode, target) ==
  /\ phase = "done" /\ ~noMemory
  /\ origin.mode = mode /\ origin.intact /\ into = target /\ Writable(origin.recs)

(* A dump read back is what was written, with as many records, each at its *)
(* own index, for every number of CPUs that logical_cpu_t can count.       *)
RoundTrip ==
  /\ Reread("one", "one") => raw = origin.recs
  /\ Reread("all", "all") =>
       raw = origin.recs /\ withAffinity /\ result = "ERR_OK"

(* A dump of all CPUs read into one record is one CPU, never a mixture.    *)
OneOfManyIsOneCpu ==
  Reread("all", "one") => \E i \in DOMAIN origin.recs : raw = <<origin.recs[i]>>

(* However little of a dump reached the disk, the records read so far are  *)
(* the CPUs' own: all but the last are complete, the last has registers of *)
(* that CPU or none, but for the one that was cut.                         *)
TruncationIsClean ==
  origin.mode = "all" /\ into = "all" /\ phase \in {"reading", "done"}
    /\ ~noMemory /\ Writable(origin.recs) =>
    /\ Len(raw) <= Len(origin.recs)
    /\ \A i \in 1 .. Len(raw) - 1 : raw[i] = origin.recs[i]
    /\ \A i \in DOMAIN raw, f \in Fields :
         \/ raw[i][f] \in {0, origin.recs[i][f]}
         \/ raw[i][f] = Cut /\ ~origin.intact /\ position = Len(file)

(* AIDA64 dumps: the lines before the test results, the CPUs they name and *)
(* the lines between one name and the next.                                *)
Body == {p \in DOMAIN file : \A q \in 1 .. p : file[q].kind # "dashes"}
CpuLines == {p \in Body : file[p].kind \in {"aidaCpu", "aidaRegisters"}}
LinesOf(p) == {q \in Body : q > p /\ \A c \in CpuLines : c <= p \/ c > q}
First == CHOOSE p \in CpuLines : \A q \in CpuLines : p <= q

Ascending == \A p \in CpuLines :
  file[p].n = file[First].n + Cardinality({q \in CpuLines : q < p})

(* What the lines S leave in field f. *)
ValueIn(S, f) ==
  LET setting == {q \in S : file[q].kind = "aidaReg" /\ f \in file[q].fields}
  IN  IF setting = {} THEN 0
      ELSE file[CHOOSE q \in setting : \A r \in setting : r <= q].value

(* No CPU is named before the line that tells an AIDA64 dump.              *)
Recognised == \E p \in DOMAIN file : StartsAida(file[p]) /\ \A c \in CpuLines : p <= c

(* AIDA64 counts CPUs from 0 or from 1, or leaves some out at the start:   *)
(* the records are those of its CPUs in order, counted from 0.             *)
AidaNumbering ==
  phase = "done" /\ into = "all" /\ ~noMemory /\ format = "aida64"
    /\ CpuLines # {} /\ Ascending /\ Recognised /\ Cardinality(CpuLines) < CpuMod =>
    /\ withAffinity /\ Len(raw) = Cardinality(CpuLines)
    /\ \A p \in CpuLines, f \in Fields :
         raw[file[p].n - file[First].n + 1][f] = ValueIn(LinesOf(p), f)

(* The functions write or read outside their arrays only when an empty     *)
(* array is written, memory is short, a dump that does not begin with      *)
(* basic_cpuid names no CPU before its registers (one of libcpuid has no   *)
(* such line, one of AIDA64 none that is its own), a number is the last of *)
(* logical_cpu_t (or, less the offset, below the first one), or a file     *)
(* that libcpuid did not write has an unchecked index past its array.      *)
OverrunExplained ==
  phase = "ub" =>
    \/ file = <<>> /\ origin.recs = <<>>
    \/ noMemory
    \/ /\ into = "all" /\ rawPtr = 0 /\ ~StartsSingle(ThisLine)
       /\ format = "libcpuid" =>
            \A p \in 1 .. position : file[p].kind \notin {"cpu", "reg"}
    \/ into = "all" /\ rawPtr = CpuMod
       /\ \E p \in 1 .. position : file[p].kind \in {"cpu", "aidaCpu", "aidaRegisters"}
            /\ (NumberRead(file[p]) - offset) % CpuMod = CpuMod - 1
    \/ origin.mode = "foreign" /\ ThisLine.kind \in {"regPast", "aidaPast"}
=============================================================================
