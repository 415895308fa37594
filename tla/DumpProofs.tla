----------------------------- MODULE DumpProofs ------------------------------
(***************************************************************************)
(* Proofs about Dump for records with any number of fields, arrays of any  *)
(* length, dumps cut at any place and any files of others.  The first part *)
(* says where the lines of a dump are, the second what a reader holds      *)
(* after each of them, the third what it holds of a dump of AIDA64.        *)
(***************************************************************************)
EXTENDS Dump, SequenceTheorems, FiniteSetTheorems, TLAPS

(* Multiplication, for the positions of the blocks of a dump. *)
LEMMA Multiples ==
  ASSUME NEW a \in Nat, NEW b \in Nat, NEW m \in Nat, a <= b
  PROVE  a * m \in Nat /\ a * m <= b * m
<1>1. b * m - a * m = (b - a) * m
  OBVIOUS
<1>2. b - a \in Nat
  OBVIOUS
<1>3. (b - a) * m \in Nat /\ a * m \in Nat /\ b * m \in Nat
  BY <1>2
<1> QED BY <1>1, <1>3

(* A position in a dump of blocks of m lines has one block and one place.  *)
LEMMA Places ==
  ASSUME NEW m \in Nat \ {0}, NEW c \in Nat, NEW i \in 0 .. m - 1
  PROVE  (c * m + i) \div m = c /\ (c * m + i) % m = i
<1> DEFINE a == c * m + i
           q == a \div m
           r == a % m
<1>1. c * m \in Nat /\ a \in Nat
  OBVIOUS
<1>2. q \in Nat /\ r \in 0 .. m - 1 /\ a = q * m + r
  BY <1>1
<1> HIDE DEF a, q, r
<1>3. c * m + i = q * m + r
  BY <1>2 DEF a
<1>4. q * m \in Nat
  BY <1>2
<1>5. ~(q < c)
  <2>1. SUFFICES ASSUME q < c PROVE FALSE
    OBVIOUS
  <2>2. (q + 1) * m <= c * m
    BY <1>2, <2>1, Multiples
  <2>3. (q + 1) * m = q * m + m
    BY <1>2
  <2> QED BY <1>1, <1>2, <1>3, <1>4, <2>2, <2>3
<1>6. ~(c < q)
  <2>1. SUFFICES ASSUME c < q PROVE FALSE
    OBVIOUS
  <2>2. (c + 1) * m <= q * m
    BY <1>2, <2>1, Multiples
  <2>3. (c + 1) * m = c * m + m
    OBVIOUS
  <2> QED BY <1>1, <1>2, <1>3, <1>4, <2>2, <2>3
<1>7. q = c
  BY <1>2, <1>5, <1>6
<1>8. r = i
  BY <1>1, <1>2, <1>3, <1>7
<1> QED BY <1>7, <1>8 DEF q, r, a

(* Every line of the blocks has its place. *)
LEMMA PlaceOf ==
  ASSUME NEW m \in Nat \ {0}, NEW n \in Nat, NEW a \in 0 .. n * m - 1
  PROVE  \E c \in 0 .. n - 1, i \in 0 .. m - 1 :
           a = c * m + i /\ a \div m = c /\ a % m = i
<1>1. n * m \in Nat
  OBVIOUS
<1> DEFINE c == a \div m
           i == a % m
<1>2. c \in Nat /\ i \in 0 .. m - 1 /\ a = c * m + i
  BY <1>1
<1>3. c < n
  <2>1. SUFFICES ASSUME n <= c PROVE FALSE
    BY <1>2
  <2>2. n * m <= c * m
    BY <1>2, <2>1, Multiples
  <2> HIDE DEF c, i
  <2> QED BY <1>1, <1>2, <2>2
<1> QED BY <1>2, <1>3

----------------------------------------------------------------------------
(* The lines of a dump. *)

Written(recs) == FieldsOf(Architecture(recs[1]))
Block(recs)   == Len(Written(recs)) + 1

LEMMA WrittenFields ==
  ASSUME NEW rec
  PROVE  /\ FieldsOf(Architecture(rec)) \in Seq(Fields)
         /\ Elements(FieldsOf(Architecture(rec))) \subseteq Fields
<1>1. X86Fields \in Seq(Fields) /\ ArmFields \in Seq(Fields)
  BY ConstantsAssumption, SeqMonotonic DEF Fields
<1>2. FieldsOf(Architecture(rec)) \in {X86Fields, ArmFields, <<>>}
  BY DEF FieldsOf
<1>3. <<>> \in Seq(Fields)
  BY EmptySeq
<1>4. FieldsOf(Architecture(rec)) \in Seq(Fields)
  BY <1>1, <1>2, <1>3
<1>5. \A q \in Seq(Fields) : Elements(q) \subseteq Fields
  BY LenProperties, ElementOfSeq DEF Elements
<1> QED BY <1>4, <1>5

LEMMA SourceRecords ==
  ASSUME NEW recs \in Sources, recs # <<>>
  PROVE  /\ Len(recs) \in Nat \ {0} /\ Len(recs) < CpuMod /\ DOMAIN recs = 1 .. Len(recs)
         /\ \A i \in 1 .. Len(recs) : recs[i] \in [Fields -> Values]
         /\ Written(recs) \in Seq(Fields) /\ Len(Written(recs)) \in Nat
         /\ Block(recs) \in Nat \ {0}
         /\ \A i \in 1 .. Len(Written(recs)) : Written(recs)[i] \in Fields
<1>1. recs \in Seq([Fields -> Values]) /\ Len(recs) < CpuMod
  BY ConstantsAssumption
<1>2. Written(recs) \in Seq(Fields)
  BY WrittenFields DEF Written
<1> QED BY <1>1, <1>2, EmptySeq, LenProperties, ElementOfSeq DEF Block

(* The lines a dump consists of are lines. *)
LEMMA LineTypes ==
  /\ VersionLine \in Line
  /\ \A c \in Nat : CpuLine(c) \in Line
  /\ \A f \in Fields, v \in Values \union {Cut} : RegLine(f, v) \in Line
BY ConstantsAssumption DEF VersionLine, CpuLine, RegLine, Line

(* A dump of all records: the version, then for every record its number    *)
(* and its fields.                                                         *)
LEMMA LinesOfAll ==
  ASSUME NEW recs \in Sources, recs # <<>>
  PROVE  /\ DumpAll(recs) \in Seq(Line)
         /\ Len(DumpAll(recs)) = 1 + Len(recs) * Block(recs)
         /\ DumpAll(recs)[1] = VersionLine
         /\ \A c \in 0 .. Len(recs) - 1, i \in 0 .. Len(Written(recs)) :
              DumpAll(recs)[2 + (c * Block(recs) + i)] =
                IF i = 0 THEN CpuLine(c) ELSE RegLine(Written(recs)[i], recs[c + 1][Written(recs)[i]])
<1> DEFINE fields == FieldsOf(Architecture(recs[1]))
           block  == Len(fields) + 1
           n      == Len(recs) * block
           At(p)  == LET c == (p - 1) \div block
                         i == (p - 1) % block
                     IN  IF i = 0 THEN CpuLine(c) ELSE RegLine(fields[i], recs[c + 1][fields[i]])
           blocks == [p \in 1 .. n |-> At(p)]
<1>1. DumpAll(recs) = <<VersionLine>> \o blocks
  BY DEF DumpAll
<1>2. fields = Written(recs) /\ block = Block(recs)
  BY DEF Written, Block
<1>3. block \in Nat \ {0} /\ Len(recs) \in Nat \ {0} /\ Len(fields) \in Nat
  BY <1>2, SourceRecords
<1>4. n \in Nat
  BY <1>3
<1> HIDE DEF block, n
<1>5. \A c \in 0 .. Len(recs) - 1, i \in 0 .. Len(fields) :
        /\ c * block + i + 1 \in 1 .. n
        /\ At(c * block + i + 1) =
             IF i = 0 THEN CpuLine(c) ELSE RegLine(fields[i], recs[c + 1][fields[i]])
        /\ At(c * block + i + 1) \in Line
  <2> TAKE c \in 0 .. Len(recs) - 1, i \in 0 .. Len(fields)
  <2>1. i \in 0 .. block - 1
    BY <1>3 DEF block
  <2>2. c * block \in Nat
    BY <1>3
  <2>3. (c * block + i) \div block = c /\ (c * block + i) % block = i
    <3> HIDE DEF fields, At
    <3>1. c \in Nat
      BY <1>3
    <3> QED BY <1>3, <2>1, <3>1, Places
  <2>4. (c + 1) * block <= n
    BY <1>3, Multiples DEF n
  <2>5. (c + 1) * block = c * block + block
    BY <1>3
  <2>6. c * block + i + 1 \in 1 .. n
    BY <1>3, <1>4, <2>1, <2>2, <2>4, <2>5
  <2>7. (c * block + i + 1) - 1 = c * block + i
    BY <2>2
  <2>8. At(c * block + i + 1) =
          IF i = 0 THEN CpuLine(c) ELSE RegLine(fields[i], recs[c + 1][fields[i]])
    BY <2>3, <2>7
  <2>9. CpuLine(c) \in Line
    BY LineTypes
  <2>10. i # 0 => RegLine(fields[i], recs[c + 1][fields[i]]) \in Line
    <3>1. SUFFICES ASSUME i # 0 PROVE RegLine(fields[i], recs[c + 1][fields[i]]) \in Line
      OBVIOUS
    <3>2. fields[i] \in Fields /\ recs[c + 1] \in [Fields -> Values]
      BY <1>2, <1>3, <3>1, SourceRecords
    <3> QED BY <3>2, LineTypes
  <2> QED BY <2>6, <2>8, <2>9, <2>10
<1>6. \A p \in 1 .. n : At(p) \in Line
  <2> TAKE p \in 1 .. n
  <2>1. p - 1 \in 0 .. Len(recs) * block - 1
    BY <1>4 DEF n
  <2>2. PICK c \in 0 .. Len(recs) - 1, i \in 0 .. block - 1 : p - 1 = c * block + i
    <3> DEFINE count == Len(recs)
               a     == p - 1
    <3> HIDE DEF fields, At
    <3>1. count \in Nat /\ a \in 0 .. count * block - 1
      BY <1>3, <2>1
    <3> HIDE DEF count, a
    <3>2. block \in Nat \ {0}
      BY <1>3
    <3>3. \E c \in 0 .. count - 1, i \in 0 .. block - 1 :
            a = c * block + i /\ a \div block = c /\ a % block = i
      BY ONLY <3>1, <3>2, PlaceOf
    <3> QED BY <3>3 DEF count, a
  <2> HIDE DEF At
  <2>3. i \in 0 .. Len(fields) /\ p = c * block + i + 1
    <3>1. c * block \in Nat
      BY <1>3
    <3> QED BY <1>3, <2>2, <3>1 DEF block
  <2> QED BY <1>5, <2>3
<1>7. blocks \in Seq(Line) /\ Len(blocks) = n /\ \A p \in 1 .. n : blocks[p] = At(p)
  <2> HIDE DEF At
  <2>1. blocks \in [1 .. n -> Line]
    BY <1>6
  <2> QED BY <1>4, <2>1
<1>8. <<VersionLine>> \in Seq(Line) /\ Len(<<VersionLine>>) = 1
  BY LineTypes
<1>9. /\ DumpAll(recs) \in Seq(Line) /\ Len(DumpAll(recs)) = 1 + n
      /\ \A p \in 1 .. 1 + n :
           DumpAll(recs)[p] = IF p <= 1 THEN <<VersionLine>>[p] ELSE blocks[p - 1]
  <2> HIDE DEF blocks
  <2> QED BY <1>1, <1>4, <1>7, <1>8, ConcatProperties
<1>10. ASSUME NEW c \in 0 .. Len(recs) - 1, NEW i \in 0 .. Len(fields)
       PROVE  DumpAll(recs)[2 + (c * block + i)] =
                IF i = 0 THEN CpuLine(c) ELSE RegLine(fields[i], recs[c + 1][fields[i]])
  <2> HIDE DEF blocks, At, fields
  <2>1. c * block \in Nat
    BY <1>3
  <2>2. c * block + i + 1 \in 1 .. n
    BY <1>5
  <2> DEFINE p == c * block + i + 1
  <2>p. p \in 1 .. n /\ 2 + (c * block + i) = 1 + p
    BY <2>1, <2>2
  <2>3. DumpAll(recs)[2 + (c * block + i)] = blocks[c * block + i + 1]
    <3> HIDE DEF p, n
    <3>1. \A q \in 1 .. 1 + n : ~(q <= 1) => DumpAll(recs)[q] = blocks[q - 1]
      BY ONLY <1>9, Zenon
    <3>2. 1 + p \in 1 .. 1 + n /\ ~(1 + p <= 1) /\ 1 + p - 1 = p
      BY <1>4, <2>p
    <3>3. DumpAll(recs)[1 + p] = blocks[1 + p - 1]
      BY ONLY <3>1, <3>2, <2>p, <1>4
    <3>4. DumpAll(recs)[1 + p] = blocks[p]
      BY ONLY <3>2, <3>3
    <3> QED BY <2>p, <3>4 DEF p
  <2>4. blocks[c * block + i + 1] = At(c * block + i + 1)
    BY <1>7, <2>2
  <2>5. At(c * block + i + 1) =
          IF i = 0 THEN CpuLine(c) ELSE RegLine(fields[i], recs[c + 1][fields[i]])
    BY <1>5
  <2> QED BY <2>3, <2>4, <2>5, Zenon
<1>11. DumpAll(recs)[1] = VersionLine
  <2> HIDE DEF fields, blocks
  <2> QED BY <1>4, <1>9
<1> QED BY <1>2, <1>9, <1>10, <1>11 DEF n

(* A dump of one record: the version, then its fields. *)
LEMMA LinesOfOne ==
  ASSUME NEW recs \in Sources, recs # <<>>
  PROVE  /\ DumpOne(recs[1]) \in Seq(Line)
         /\ Len(DumpOne(recs[1])) = Block(recs)
         /\ DumpOne(recs[1])[1] = VersionLine
         /\ \A i \in 1 .. Len(Written(recs)) :
              DumpOne(recs[1])[1 + i] = RegLine(Written(recs)[i], recs[1][Written(recs)[i]])
<1> DEFINE fields == FieldsOf(Architecture(recs[1]))
           lines  == [i \in DOMAIN fields |-> RegLine(fields[i], recs[1][fields[i]])]
<1>1. fields = Written(recs) /\ DumpOne(recs[1]) = <<VersionLine>> \o lines
  BY DEF Written, DumpOne
<1>2. DOMAIN fields = 1 .. Len(fields) /\ Len(fields) \in Nat /\ Block(recs) = Len(fields) + 1
  BY <1>1, SourceRecords, LenProperties DEF Block
<1>3. \A i \in DOMAIN fields : lines[i] \in Line
  BY <1>1, <1>2, SourceRecords, LineTypes
<1>4. lines \in Seq(Line) /\ Len(lines) = Len(fields)
  <2>1. lines \in [1 .. Len(fields) -> Line]
    BY <1>2, <1>3
  <2> QED BY <1>2, <2>1
<1>5. <<VersionLine>> \in Seq(Line) /\ Len(<<VersionLine>>) = 1
  BY LineTypes
<1>6. /\ DumpOne(recs[1]) \in Seq(Line) /\ Len(DumpOne(recs[1])) = 1 + Len(fields)
      /\ \A p \in 1 .. 1 + Len(fields) :
           DumpOne(recs[1])[p] = IF p <= 1 THEN <<VersionLine>>[p] ELSE lines[p - 1]
  <2> HIDE DEF lines, fields
  <2> QED BY <1>1, <1>2, <1>4, <1>5, ConcatProperties
<1> QED BY <1>1, <1>2, <1>6

LEMMA LinesOfDump ==
  ASSUME NEW recs \in Sources, recs # <<>>, NEW mode
  PROVE  DumpOf(mode, recs) \in Seq(Line) /\ Len(DumpOf(mode, recs)) \in Nat
BY LinesOfAll, LinesOfOne, LenProperties DEF DumpOf

(* The number of a CPU comes back although it was printed with a sign.     *)
LEMMA NumberComesBack ==
  ASSUME NEW c \in 0 .. CpuMod - 1
  PROVE  NumberRead(CpuLine(c)) = c
<1>1. CpuMod \in Nat \ {0}
  BY ConstantsAssumption
<1>2. c % CpuMod = c
  BY <1>1
<1>3. (c - CpuMod) % CpuMod = c
  BY <1>1
<1> QED BY <1>2, <1>3 DEF NumberRead, CpuLine

LEMMA Numbers ==
  /\ CpuMod \in Nat /\ CpuMod > 1
  /\ \A x \in Int : x % CpuMod \in 0 .. CpuMod - 1
  /\ \A c \in 0 .. CpuMod - 1 : LengthFor(c) = IF c + 1 < CpuMod THEN c + 1 ELSE 0
<1>1. CpuMod \in Nat /\ CpuMod > 1
  BY ConstantsAssumption
<1>2. \A x \in Int : x % CpuMod \in 0 .. CpuMod - 1
  BY <1>1
<1>3. ASSUME NEW c \in 0 .. CpuMod - 1
      PROVE  LengthFor(c) = IF c + 1 < CpuMod THEN c + 1 ELSE 0
  <2>1. c + 1 < CpuMod => (c + 1) % CpuMod = c + 1
    BY <1>1
  <2>2. ~(c + 1 < CpuMod) => c + 1 = CpuMod
    BY <1>1
  <2>3. CpuMod % CpuMod = 0
    BY <1>1
  <2> QED BY <2>1, <2>2, <2>3 DEF LengthFor
<1> QED BY <1>1, <1>2, <1>3

----------------------------------------------------------------------------
(* The file, and the types of everything. *)

TypeOK ==
  /\ file \in Seq(Line)
  /\ origin.recs \in {<<>>} \union Sources
  /\ into \in {"one", "all"}
  /\ position \in 0 .. Len(file)
  /\ isHeader \in BOOLEAN
  /\ format \in {"libcpuid", "aida64"}
  /\ offset \in 0 .. CpuMod - 1
  /\ rawPtr \in 0 .. CpuMod
  /\ raw \in Seq(Record) /\ Len(raw) < CpuMod

(* The file is a part of what was to be written, its last line perhaps cut. *)
LineIs(lines, p) ==
  \/ file[p] = lines[p]
  \/ /\ ~origin.intact /\ p = Len(file)
     /\ lines[p].kind = "reg" /\ file[p] = [lines[p] EXCEPT !.value = Cut]

FileIsDump ==
  LET lines == DumpOf(origin.mode, origin.recs)
  IN  /\ origin.mode \in {"one", "all"}
      /\ Len(file) <= Len(lines)
      /\ \A p \in 1 .. Len(file) : LineIs(lines, p)
      /\ origin.intact => Len(file) = Len(lines)

FileInv ==
  /\ phase = "start" => file = <<>> /\ origin.mode = "foreign"
  /\ origin.mode = "foreign" => origin.recs = <<>>
  /\ origin.mode # "foreign" /\ origin.recs = <<>> => phase = "ub" /\ file = <<>>
  /\ origin.recs # <<>> => FileIsDump

LEMMA SerializeWritesDump ==
  ASSUME NEW recs \in Sources, NEW mode \in {"one", "all"}, Serialize(mode, recs)
  PROVE  file' \in Seq(Line) /\ FileIsDump' /\ origin'.recs = recs /\ origin'.mode = mode
<1> DEFINE lines == DumpOf(mode, recs)
<1>1. lines \in Seq(Line) /\ Len(lines) \in Nat
  BY LinesOfDump DEF Serialize
<1>2. origin'.recs = recs /\ origin'.mode = mode
  BY DEF Serialize
<1>3. CASE file' = lines /\ origin' = [mode |-> mode, recs |-> recs, intact |-> TRUE]
  <2> HIDE DEF lines
  <2>1. \A p \in 1 .. Len(file') : file'[p] = lines[p]
    BY <1>3
  <2>2. lines = DumpOf(origin'.mode, origin'.recs)
    BY <1>3 DEF lines
  <2> QED BY <1>1, <1>2, <1>3, <2>1, <2>2 DEF FileIsDump, LineIs
<1>4. ASSUME NEW k \in 0 .. Len(lines) - 1, NEW rest \in Remains(lines[k + 1]),
             file' = SubSeq(lines, 1, k) \o rest,
             origin' = [mode |-> mode, recs |-> recs, intact |-> FALSE]
      PROVE  file' \in Seq(Line) /\ FileIsDump'
  <2> DEFINE part == SubSeq(lines, 1, k)
  <2>0. lines = DumpOf(origin'.mode, origin'.recs) /\ ~origin'.intact
    BY <1>4
  <2> HIDE DEF lines
  <2>1. lines[k + 1] \in Line /\ \A p \in 1 .. Len(lines) : lines[p] \in Line
    BY <1>1, ElementOfSeq
  <2>2. part \in Seq(Line) /\ Len(part) = k /\ \A p \in 1 .. k : part[p] = lines[p]
    <3>1. \A p \in 1 .. k : lines[p] \in Line
      BY <1>1, <2>1
    <3> QED BY <1>1, <3>1, SubSeqProperties
  <2> HIDE DEF part
  <2>3. CASE rest = <<>>
    <3>1. file' = part
      BY <1>4, <2>2, <2>3, ConcatEmptySeq DEF part
    <3> QED BY <1>1, <1>2, <2>0, <2>2, <3>1 DEF FileIsDump, LineIs
  <2>4. CASE rest # <<>>
    <3> DEFINE cut == [lines[k + 1] EXCEPT !.value = Cut]
    <3>1. rest = <<cut>> /\ lines[k + 1].kind = "reg"
      BY <2>4 DEF Remains
    <3>2. cut \in Line
      BY <2>1 DEF Line
    <3> HIDE DEF cut
    <3>3. rest \in Seq(Line) /\ Len(rest) = 1 /\ rest[1] = cut
      BY <3>1, <3>2
    <3>4. /\ file' \in Seq(Line) /\ Len(file') = k + 1
          /\ \A p \in 1 .. k + 1 : file'[p] = IF p <= k THEN part[p] ELSE rest[p - k]
      <4>1. file' = part \o rest
        BY <1>4 DEF part
      <4>2. /\ part \o rest \in Seq(Line) /\ Len(part \o rest) = Len(part) + Len(rest)
            /\ \A p \in 1 .. Len(part) + Len(rest) :
                 (part \o rest)[p] = IF p <= Len(part) THEN part[p] ELSE rest[p - Len(part)]
        BY <2>2, <3>3, ConcatProperties
      <4> QED BY <2>2, <3>3, <4>1, <4>2
    <3>5. \A p \in 1 .. k : file'[p] = lines[p]
      BY <2>2, <3>4
    <3>6. file'[k + 1] = cut
      BY <3>3, <3>4
    <3>7. \A p \in 1 .. Len(file') : LineIs(lines, p)'
      BY <2>0, <3>1, <3>4, <3>5, <3>6 DEF LineIs, cut
    <3> QED BY <1>1, <1>2, <2>0, <3>4, <3>7 DEF FileIsDump
  <2> QED BY <2>3, <2>4
<1> QED BY <1>1, <1>2, <1>3, <1>4 DEF Serialize

----------------------------------------------------------------------------
(* The array of records. *)

LEMMA BlankIsRecord == Blank \in Record
BY ConstantsAssumption DEF Blank, Record

LEMMA GrownIs ==
  ASSUME raw \in Seq(Record), NEW n \in Nat
  PROVE  /\ Grown(n) \in Seq(Record)
         /\ Len(Grown(n)) \in {n, Len(raw)}
         /\ n <= Len(Grown(n)) /\ Len(raw) <= Len(Grown(n))
         /\ \A i \in 1 .. Len(Grown(n)) : Grown(n)[i] = IF i <= Len(raw) THEN raw[i] ELSE Blank
<1> DEFINE length == IF n < Len(raw) THEN Len(raw) ELSE n
<1>1. length \in Nat /\ Len(raw) \in Nat
  BY LenProperties
<1>2. \A i \in 1 .. length : (IF i <= Len(raw) THEN raw[i] ELSE Blank) \in Record
  BY <1>1, ElementOfSeq, BlankIsRecord
<1>3. Grown(n) = [i \in 1 .. length |-> IF i <= Len(raw) THEN raw[i] ELSE Blank]
  BY DEF Grown
<1> HIDE DEF length
<1>4. Grown(n) \in [1 .. length -> Record]
  BY <1>2, <1>3
<1>5. Grown(n) \in Seq(Record) /\ Len(Grown(n)) = length
  BY <1>1, <1>4
<1>6. length \in {n, Len(raw)} /\ n <= length /\ Len(raw) <= length
  BY <1>1 DEF length
<1> QED BY <1>3, <1>5, <1>6

LEMMA AssignedIs ==
  ASSUME NEW array \in Seq(Record), NEW ptr \in 1 .. Len(array), NEW line \in Line
  PROVE  /\ Assigned(array, ptr, line) \in Seq(Record)
         /\ Len(Assigned(array, ptr, line)) = Len(array)
         /\ \A j \in 1 .. Len(array) : j # ptr => Assigned(array, ptr, line)[j] = array[j]
         /\ \A f \in Fields : Assigned(array, ptr, line)[ptr][f] =
                                IF f \in line.fields THEN line.value ELSE array[ptr][f]
<1> DEFINE rec == [f \in Fields |-> IF f \in line.fields THEN line.value ELSE array[ptr][f]]
<1>1. array[ptr] \in Record /\ line.value \in Values \union {Cut}
  BY ElementOfSeq DEF Line
<1>2. rec \in Record
  BY <1>1 DEF Record
<1>3. Assigned(array, ptr, line) = [array EXCEPT ![ptr] = rec]
  BY DEF Assigned
<1>4. \A f \in Fields : rec[f] = IF f \in line.fields THEN line.value ELSE array[ptr][f]
  OBVIOUS
<1> HIDE DEF rec
<1> QED BY <1>2, <1>3, <1>4, ExceptSeq

LEMMA ThisLineIs ==
  ASSUME TypeOK, MoreLines
  PROVE  /\ ThisLine \in Line /\ position + 1 \in 1 .. Len(file) /\ Len(file) \in Nat
         /\ ThisLine = file[position + 1] /\ position \in Nat
<1>1. Len(file) \in Nat /\ position + 1 \in 1 .. Len(file) /\ position \in Nat
  BY LenProperties DEF TypeOK, MoreLines
<1> QED BY <1>1, ElementOfSeq DEF TypeOK, ThisLine

LEMMA CpuOfLine ==
  ASSUME NEW line \in Line
  PROVE  NumberRead(line) \in 0 .. CpuMod - 1
BY Numbers DEF NumberRead, Line

LEMMA GrowIs ==
  ASSUME TypeOK, NEW cpu \in 0 .. CpuMod - 1, Grow(LengthFor(cpu))
  PROVE  /\ raw' \in Seq(Record) /\ Len(raw') < CpuMod
         /\ Len(raw) <= Len(raw')
         /\ ~noMemory' => ~noMemory /\ raw' = Grown(LengthFor(cpu))
         /\ ~noMemory' => cpu + 1 <= Len(raw') \/ cpu + 1 = CpuMod
<1>1. LengthFor(cpu) \in Nat /\ LengthFor(cpu) < CpuMod
      /\ (LengthFor(cpu) = cpu + 1 \/ cpu + 1 = CpuMod)
  BY Numbers
<1>2. raw \in Seq(Record) /\ Len(raw) < CpuMod /\ Len(raw) \in Nat
  BY LenProperties DEF TypeOK
<1>3. CASE raw' = Grown(LengthFor(cpu)) /\ UNCHANGED noMemory
  <2> DEFINE n == LengthFor(cpu)
  <2>1. n \in Nat /\ n < CpuMod /\ (n = cpu + 1 \/ cpu + 1 = CpuMod) /\ raw' = Grown(n)
    BY <1>1, <1>3
  <2> HIDE DEF n
  <2>2. /\ Grown(n) \in Seq(Record)
        /\ Len(Grown(n)) \in {n, Len(raw)}
        /\ n <= Len(Grown(n)) /\ Len(raw) <= Len(Grown(n))
    BY <1>2, <2>1, GrownIs
  <2>3. raw' = Grown(LengthFor(cpu))
    BY <1>3
  <2> QED BY <1>2, <1>3, <2>1, <2>2, <2>3
<1>4. CASE noMemory' = TRUE /\ UNCHANGED raw
  BY <1>2, <1>4
<1> QED BY <1>3, <1>4 DEF Grow

LEMMA TypeInit == Init => TypeOK /\ FileInv
<1> SUFFICES ASSUME Init PROVE TypeOK /\ FileInv
  OBVIOUS
<1>1. file \in Seq(Line) /\ Len(file) \in Nat
  BY ConstantsAssumption, EmptySeq, LenProperties DEF Init
<1>2. <<>> \in Seq(Record) /\ Len(<<>>) = 0 /\ CpuMod \in Nat /\ CpuMod > 1
  BY EmptySeq, Numbers
<1>3. TypeOK
  BY <1>1, <1>2 DEF Init, TypeOK
<1> QED BY <1>3 DEF Init, FileInv

LEMMA TypeStep == TypeOK /\ FileInv /\ [Next]_vars => TypeOK'
<1> SUFFICES ASSUME TypeOK, FileInv, [Next]_vars PROVE TypeOK'
  OBVIOUS
<1>n. CpuMod \in Nat /\ CpuMod > 1 /\ Len(file) \in Nat /\ Len(raw) \in Nat
  BY Numbers, LenProperties DEF TypeOK
<1>1. ASSUME NEW s \in Sources, SerializeNothing(s) PROVE TypeOK'
  BY <1>1 DEF SerializeNothing, TypeOK, reader
<1>2. ASSUME NEW mode \in {"one", "all"}, NEW s \in Sources, Serialize(mode, s) PROVE TypeOK'
  <2>1. file' \in Seq(Line) /\ origin'.recs = s
    BY <1>2, SerializeWritesDump
  <2>2. position' = 0 /\ Len(file') \in Nat
    <3>1. file = <<>> /\ Len(<<>>) = 0
      BY <1>2, EmptySeq DEF FileInv, Serialize
    <3> QED BY <1>2, <2>1, <3>1, LenProperties DEF TypeOK, Serialize, reader
  <2> QED BY <1>2, <2>1, <2>2 DEF Serialize, TypeOK, reader
<1>3. ASSUME NEW target \in {"one", "all"}, Deserialize(target) PROVE TypeOK'
  <2>1. <<Blank>> \in Seq(Record) /\ Len(<<Blank>>) = 1 /\ <<>> \in Seq(Record) /\ Len(<<>>) = 0
    BY BlankIsRecord, EmptySeq
  <2>2. raw' \in Seq(Record) /\ Len(raw') < CpuMod /\ rawPtr' \in 0 .. CpuMod
    BY <1>n, <1>3, <2>1 DEF Deserialize
  <2> QED BY <1>n, <1>3, <2>2 DEF Deserialize, TypeOK
<1>4. CASE OpenFails
  BY <1>4 DEF OpenFails, TypeOK, reader
<1>5. CASE SelectCpu
  <2> DEFINE cpu == NumberRead(ThisLine)
  <2>1. cpu \in 0 .. CpuMod - 1 /\ position + 1 \in 0 .. Len(file)
    BY <1>5, ThisLineIs, CpuOfLine DEF SelectCpu
  <2>3. Grow(LengthFor(cpu)) /\ rawPtr' = cpu + 1
    BY <1>5 DEF SelectCpu
  <2> HIDE DEF cpu
  <2>2. raw' \in Seq(Record) /\ Len(raw') < CpuMod /\ rawPtr' \in 0 .. CpuMod
    BY <1>n, <2>1, <2>3, GrowIs
  <2> QED BY <1>n, <1>5, <2>1, <2>2 DEF SelectCpu, NextLine, TypeOK
<1>6. CASE SelectAidaCpu
  <2> DEFINE number == NumberRead(ThisLine)
             cpu    == (number - OffsetAfter(number)) % CpuMod
  <2>1. number \in 0 .. CpuMod - 1 /\ position + 1 \in 0 .. Len(file)
    BY <1>6, ThisLineIs, CpuOfLine DEF SelectAidaCpu
  <2>2. OffsetAfter(number) \in 0 .. CpuMod - 1
    BY <2>1 DEF OffsetAfter, TypeOK
  <2>3. cpu \in 0 .. CpuMod - 1
    <3>1. number - OffsetAfter(number) \in Int
      BY <1>n, <2>1, <2>2
    <3> HIDE DEF number
    <3> QED BY <3>1, Numbers
  <2>4. Grow(LengthFor(cpu)) /\ rawPtr' = cpu + 1 /\ offset' = OffsetAfter(number)
    BY <1>6 DEF SelectAidaCpu
  <2> HIDE DEF cpu, number
  <2>5. raw' \in Seq(Record) /\ Len(raw') < CpuMod /\ rawPtr' \in 0 .. CpuMod
    BY <1>n, <2>3, <2>4, GrowIs
  <2> QED BY <1>6, <2>1, <2>2, <2>4, <2>5 DEF SelectAidaCpu, NextLine, TypeOK
<1>7. CASE BeginSingle
  <2>1. ThisLine \in Line /\ position + 1 \in 0 .. Len(file)
    BY <1>7, ThisLineIs DEF BeginSingle
  <2>2. Grown(1) \in Seq(Record) /\ 1 \in 1 .. Len(Grown(1)) /\ Len(Grown(1)) < CpuMod
    <3>1. raw \in Seq(Record) /\ Len(raw) < CpuMod
      BY DEF TypeOK
    <3>2. /\ Grown(1) \in Seq(Record) /\ Len(Grown(1)) \in {1, Len(raw)}
          /\ 1 <= Len(Grown(1))
      BY <3>1, GrownIs
    <3>3. Len(Grown(1)) \in Nat
      BY <3>2, LenProperties
    <3>4. Len(Grown(1)) < CpuMod
      BY <1>n, <3>1, <3>2
    <3> QED BY <3>2, <3>3, <3>4
  <2>3. raw' \in Seq(Record) /\ Len(raw') < CpuMod
    BY <1>7, <2>1, <2>2, AssignedIs DEF BeginSingle
  <2>4. /\ position' = position + 1 /\ rawPtr' = 1 /\ isHeader' = FALSE /\ format' = "libcpuid"
        /\ UNCHANGED <<file, origin, into, offset>>
    BY <1>7 DEF BeginSingle, NextLine
  <2>5. rawPtr' \in 0 .. CpuMod
    BY <1>n, <2>4
  <2> QED BY <2>1, <2>3, <2>4, <2>5 DEF TypeOK
<1>8. CASE AssignRegister
  <2>1. ThisLine \in Line /\ position + 1 \in 0 .. Len(file)
    BY <1>8, ThisLineIs DEF AssignRegister
  <2>2. raw \in Seq(Record) /\ rawPtr \in 1 .. Len(raw)
    BY <1>8, LenProperties DEF AssignRegister, TypeOK
  <2>3. raw' \in Seq(Record) /\ Len(raw') < CpuMod
    BY <1>8, <2>1, <2>2, AssignedIs DEF AssignRegister, TypeOK
  <2>4. isHeader' \in BOOLEAN
    BY <1>8 DEF AssignRegister
  <2> QED BY <1>8, <2>1, <2>3, <2>4 DEF AssignRegister, NextLine, TypeOK
<1>9. CASE Overrun
  BY <1>9 DEF Overrun, TypeOK
<1>10. CASE SkipLine
  <2>1. position + 1 \in 0 .. Len(file)
    BY <1>10, ThisLineIs DEF SkipLine
  <2>2. isHeader' \in BOOLEAN /\ format' \in {"libcpuid", "aida64"}
    BY <1>10 DEF SkipLine, FormatOf, TypeOK
  <2> QED BY <1>10, <2>1, <2>2 DEF SkipLine, NextLine, TypeOK
<1>11. CASE EndOfDump
  BY <1>11 DEF EndOfDump, TypeOK, reader
<1>12. CASE UNCHANGED vars
  BY <1>12 DEF vars, TypeOK
<1> QED
  BY <1>1, <1>2, <1>3, <1>4, <1>5, <1>6, <1>7, <1>8, <1>9, <1>10, <1>11, <1>12
  DEF Next, ReadLine

LEMMA FileStep == TypeOK /\ FileInv /\ [Next]_vars => FileInv'
<1> SUFFICES ASSUME TypeOK, FileInv, [Next]_vars PROVE FileInv'
  OBVIOUS
<1>1. ASSUME NEW s \in Sources, SerializeNothing(s) PROVE FileInv'
  BY <1>1 DEF SerializeNothing, FileInv
<1>2. ASSUME NEW mode \in {"one", "all"}, NEW s \in Sources, Serialize(mode, s) PROVE FileInv'
  <2>1. FileIsDump' /\ origin'.recs = s /\ origin'.mode = mode
    BY <1>2, SerializeWritesDump
  <2>2. s # <<>> /\ phase' = "written"
    BY <1>2 DEF Serialize
  <2> QED BY <2>1, <2>2 DEF FileInv
<1>3. CASE UNCHANGED <<file, origin>> /\ phase' # "start" /\ (phase = "ub" => phase' = "ub")
  BY <1>3 DEF FileInv, FileIsDump, LineIs
<1>4. ASSUME NEW target \in {"one", "all"}, Deserialize(target) PROVE FileInv'
  BY <1>3, <1>4 DEF Deserialize
<1>5. CASE OpenFails
  BY <1>3, <1>5 DEF OpenFails
<1>6. CASE ReadLine
  BY <1>3, <1>6 DEF ReadLine, SelectCpu, SelectAidaCpu, BeginSingle, AssignRegister, Overrun,
                    SkipLine, NextLine, MoreLines
<1>7. CASE EndOfDump
  BY <1>3, <1>7 DEF EndOfDump
<1>8. CASE UNCHANGED vars
  BY <1>8 DEF vars, FileInv, FileIsDump, LineIs
<1> QED BY <1>1, <1>2, <1>4, <1>5, <1>6, <1>7, <1>8 DEF Next

----------------------------------------------------------------------------
(* Where raw_ptr points.  In a libcpuid dump it is NULL only in the header, *)
(* and it points past the array only after the last number of logical_cpu_t. *)
LastNumber ==
  /\ rawPtr = CpuMod
  /\ \E p \in 1 .. position : file[p].kind \in {"cpu", "aidaCpu", "aidaRegisters"}
       /\ (NumberRead(file[p]) - offset) % CpuMod = CpuMod - 1

Pointer ==
  /\ format = "libcpuid" => offset = 0
  /\ format = "aida64" => ~isHeader
  /\ rawPtr = 0 /\ format = "libcpuid" =>
       isHeader /\ \A p \in 1 .. position : file[p].kind \notin {"cpu", "reg"}
  /\ rawPtr = 0 \/ rawPtr <= Len(raw) \/ noMemory \/ LastNumber

PointerInv ==
  /\ into = "one" => rawPtr = 1 /\ Len(raw) = 1
  /\ into = "all" => Pointer

LEMMA LibcpuidStays ==
  ASSUME FormatOf(ThisLine) = "libcpuid"
  PROVE  format = "libcpuid" /\ (isHeader => ~StartsAida(ThisLine))
BY DEF FormatOf

LEMMA PointerStep == TypeOK /\ FileInv /\ PointerInv /\ [Next]_vars => PointerInv'
<1> SUFFICES ASSUME TypeOK, FileInv, PointerInv, [Next]_vars PROVE PointerInv'
  OBVIOUS
<1>n. CpuMod \in Nat /\ CpuMod > 1 /\ Len(file) \in Nat /\ Len(raw) \in Nat /\ position \in Nat
      /\ rawPtr \in Nat
  BY Numbers, LenProperties DEF TypeOK
<1>1. CASE UNCHANGED <<file, into, position, isHeader, format, offset, rawPtr, raw>>
           /\ (noMemory => noMemory')
  BY <1>1 DEF PointerInv, Pointer, LastNumber, NumberRead
<1>2. CASE file = <<>> /\ position = 0 /\ UNCHANGED reader
  BY <1>2 DEF PointerInv, Pointer, LastNumber, NumberRead, reader
<1>3. ASSUME NEW mode \in {"one", "all"}, NEW s \in Sources, Serialize(mode, s) PROVE PointerInv'
  <2>1. file = <<>> /\ Len(<<>>) = 0
    BY <1>3, EmptySeq DEF FileInv, Serialize
  <2>2. position = 0
    BY <2>1 DEF TypeOK
  <2> QED BY <1>2, <1>3, <2>1, <2>2 DEF Serialize
<1>4. ASSUME NEW target \in {"one", "all"}, Deserialize(target) PROVE PointerInv'
  BY <1>4 DEF Deserialize, PointerInv, Pointer
<1>5. CASE SelectCpu
  <2> DEFINE cpu == NumberRead(ThisLine)
  <2>1. /\ cpu \in 0 .. CpuMod - 1 /\ position' = position + 1 /\ position + 1 \in 1 .. position'
        /\ ThisLine = file[position + 1] /\ ThisLine.kind = "cpu" /\ into = "all" /\ into' = into
        /\ format = "libcpuid" /\ format' = format /\ offset' = offset /\ file' = file
    BY <1>n, <1>5, ThisLineIs, CpuOfLine, LibcpuidStays DEF SelectCpu, SelectsCpu, NextLine
  <2>2. Grow(LengthFor(cpu)) /\ rawPtr' = cpu + 1
    BY <1>5 DEF SelectCpu
  <2>3. offset = 0
    BY <2>1 DEF PointerInv, Pointer
  <2>4. cpu + 1 = CpuMod => (cpu - offset) % CpuMod = CpuMod - 1
    <3> HIDE DEF cpu
    <3>1. cpu + 1 = CpuMod => cpu - offset = CpuMod - 1
      BY <1>n, <2>1, <2>3
    <3>2. (CpuMod - 1) % CpuMod = CpuMod - 1
      BY <1>n
    <3> QED BY <3>1, <3>2
  <2>5. cpu + 1 = CpuMod => LastNumber'
    BY <2>1, <2>2, <2>4 DEF LastNumber, NumberRead
  <2>6. ~noMemory' => cpu + 1 <= Len(raw') \/ cpu + 1 = CpuMod
    <3> HIDE DEF cpu
    <3> QED BY <2>1, <2>2, GrowIs
  <2>7. rawPtr' # 0
    BY <1>n, <2>1, <2>2
  <2> HIDE DEF cpu
  <2> QED BY <2>1, <2>2, <2>3, <2>5, <2>6, <2>7 DEF PointerInv, Pointer
<1>6. CASE SelectAidaCpu
  <2> DEFINE number == NumberRead(ThisLine)
             cpu    == (number - OffsetAfter(number)) % CpuMod
  <2>1. /\ number \in 0 .. CpuMod - 1 /\ position' = position + 1 /\ position + 1 \in 1 .. position'
        /\ ThisLine = file[position + 1] /\ ThisLine.kind \in {"aidaCpu", "aidaRegisters"}
        /\ into = "all" /\ into' = into /\ format' = "aida64" /\ isHeader' = FALSE /\ file' = file
    BY <1>n, <1>6, ThisLineIs, CpuOfLine DEF SelectAidaCpu, SelectsAidaCpu, NextLine
  <2>2. number - OffsetAfter(number) \in Int
    <3>1. OffsetAfter(number) \in 0 .. CpuMod - 1
      BY <2>1 DEF OffsetAfter, TypeOK
    <3> QED BY <1>n, <2>1, <3>1
  <2>3. cpu \in 0 .. CpuMod - 1
    <3> HIDE DEF number
    <3> QED BY <2>2, Numbers
  <2>4. Grow(LengthFor(cpu)) /\ rawPtr' = cpu + 1 /\ offset' = OffsetAfter(number)
    BY <1>6 DEF SelectAidaCpu
  <2>5. cpu + 1 = CpuMod => cpu = CpuMod - 1
    <3> HIDE DEF cpu, number
    <3> QED BY <1>n, <2>3
  <2>6. cpu + 1 = CpuMod => LastNumber'
    BY <2>1, <2>4, <2>5 DEF LastNumber, NumberRead
  <2> HIDE DEF cpu, number
  <2>7. ~noMemory' => cpu + 1 <= Len(raw') \/ cpu + 1 = CpuMod
    BY <2>3, <2>4, GrowIs
  <2>8. rawPtr' # 0
    BY <1>n, <2>3, <2>4
  <2> QED BY <2>1, <2>4, <2>6, <2>7, <2>8 DEF PointerInv, Pointer
<1>7. CASE BeginSingle
  <2>1. /\ into = "all" /\ into' = into /\ isHeader /\ rawPtr' = 1 /\ format' = "libcpuid"
        /\ isHeader' = FALSE /\ offset' = offset
    BY <1>7 DEF BeginSingle, BeginsSingle, NextLine
  <2>2. offset = 0
    BY <2>1 DEF PointerInv, Pointer, TypeOK
  <2>3. 1 <= Len(raw')
    <3>1. Grown(1) \in Seq(Record) /\ 1 <= Len(Grown(1)) /\ Len(Grown(1)) \in Nat
      BY GrownIs, LenProperties DEF TypeOK
    <3>2. 1 \in 1 .. Len(Grown(1))
      BY <3>1
    <3>3. ThisLine \in Line
      BY <1>7, ThisLineIs DEF BeginSingle
    <3>4. Len(Assigned(Grown(1), 1, ThisLine)) = Len(Grown(1))
      BY <3>1, <3>2, <3>3, AssignedIs
    <3> QED BY <1>7, <3>1, <3>4 DEF BeginSingle
  <2> QED BY <2>1, <2>2, <2>3 DEF PointerInv, Pointer
<1>8. CASE AssignRegister
  <2>1. ThisLine \in Line
    BY <1>8, ThisLineIs DEF AssignRegister
  <2>2. raw \in Seq(Record) /\ rawPtr \in 1 .. Len(raw)
    BY <1>8, LenProperties DEF AssignRegister, TypeOK
  <2>3. Len(raw') = Len(raw)
    BY <1>8, <2>1, <2>2, AssignedIs DEF AssignRegister
  <2>4. /\ into' = into /\ rawPtr' = rawPtr /\ offset' = offset /\ format' = format
        /\ isHeader' => isHeader
    BY <1>8 DEF AssignRegister, NextLine
  <2>5. rawPtr' # 0 /\ rawPtr' <= Len(raw')
    BY <1>n, <2>2, <2>3, <2>4
  <2> QED BY <2>3, <2>4, <2>5 DEF PointerInv, Pointer
<1>9. CASE SkipLine
  <2>1. /\ ~SelectsCpu(ThisLine) /\ ~SelectsAidaCpu(ThisLine) /\ ~SetsRegister(ThisLine)
        /\ isHeader' = (isHeader /\ ~StartsAida(ThisLine))
        /\ format' = FormatOf(ThisLine) /\ position' = position + 1
        /\ UNCHANGED <<file, into, offset, rawPtr, raw, noMemory>>
        /\ ThisLine = file[position + 1]
    BY <1>9, ThisLineIs DEF SkipLine, NextLine
  <2>2. CASE into = "one"
    BY <2>1, <2>2 DEF PointerInv
  <2>3. CASE into = "all"
    <3>1. format' = "libcpuid" => offset' = 0
      BY <2>1, <2>3, LibcpuidStays DEF PointerInv, Pointer
    <3>2. format' = "aida64" => ~isHeader'
      BY <2>1, <2>3 DEF PointerInv, Pointer, FormatOf
    <3>3. ASSUME rawPtr' = 0, format' = "libcpuid"
          PROVE  isHeader' /\ \A p \in 1 .. position' : file'[p].kind \notin {"cpu", "reg"}
      <4>1. format = "libcpuid" /\ (isHeader => ~StartsAida(ThisLine))
        BY <2>1, <3>3, LibcpuidStays
      <4>2. isHeader /\ \A p \in 1 .. position : file[p].kind \notin {"cpu", "reg"}
        BY <2>1, <2>3, <3>3, <4>1 DEF PointerInv, Pointer
      <4>3. ThisLine.kind \notin {"cpu", "reg"}
        BY <2>1, <2>3, <3>3 DEF SelectsCpu, SetsRegister
      <4>4. \A p \in 1 .. position + 1 : p \in 1 .. position \/ p = position + 1
        BY <1>n
      <4> QED BY <2>1, <4>1, <4>2, <4>3, <4>4
    <3>4. LastNumber => LastNumber'
      <4>1. \A p \in 1 .. position : p \in 1 .. position'
        BY <1>n, <2>1
      <4> QED BY <2>1, <4>1 DEF LastNumber, NumberRead
    <3>5. rawPtr' = 0 \/ rawPtr' <= Len(raw') \/ noMemory' \/ LastNumber'
      BY <2>1, <2>3, <3>4 DEF PointerInv, Pointer
    <3> QED BY <2>1, <2>3, <3>1, <3>2, <3>3, <3>5 DEF PointerInv, Pointer
  <2> QED BY <2>2, <2>3 DEF TypeOK
<1>10. CASE Overrun
  BY <1>1, <1>10 DEF Overrun
<1>11. ASSUME NEW s \in Sources, SerializeNothing(s) PROVE PointerInv'
  BY <1>1, <1>11 DEF SerializeNothing, reader
<1>12. CASE OpenFails \/ EndOfDump \/ UNCHANGED vars
  BY <1>1, <1>12 DEF OpenFails, EndOfDump, vars, reader
<1> QED
  BY <1>3, <1>4, <1>5, <1>6, <1>7, <1>8, <1>9, <1>10, <1>11, <1>12 DEF Next, ReadLine

----------------------------------------------------------------------------
(* What a reader holds after each line of a dump.  The line of field i of  *)
(* CPU c, or of its number when i is 0, is also the number of lines read   *)
(* when it has been read.                                                  *)

LineOf(recs, c, i) == 2 + (c * Block(recs) + i)
Count(recs)        == Len(Written(recs))

(* A record into which the first i fields of rec were read, over those of  *)
(* prev; a field may have one of the spoiled values.                       *)
Holds(recs, r, prev, rec, i, spoiled) ==
  \A f \in Fields :
    \/ r[f] = IF \E j \in 1 .. i : Written(recs)[j] = f THEN rec[f] ELSE prev[f]
    \/ r[f] \in spoiled

Kept(recs, rec) == [f \in Fields |-> IF f \in Elements(Written(recs)) THEN rec[f] ELSE 0]

(* What a cut line, which is the last of the file, may leave. *)
Spoiled == IF ~origin.intact /\ position = Len(file) THEN {Cut} ELSE {}

ArrayOfAll ==
  LET recs == origin.recs
  IN  \/ position <= 1 /\ raw = <<>>
      \/ \E c \in 0 .. Len(recs) - 1, i \in 0 .. Count(recs) :
           /\ position = LineOf(recs, c, i)
           /\ Len(raw) = c + 1 /\ rawPtr = c + 1 /\ ~isHeader /\ withAffinity
           /\ \A j \in 1 .. c : raw[j] = Kept(recs, recs[j])
           /\ Holds(recs, raw[c + 1], Blank, recs[c + 1], i, Spoiled)

RecordBefore(recs, c) == IF c = 0 THEN Blank ELSE Kept(recs, recs[c])

RecordOfAll ==
  LET recs == origin.recs
  IN  \/ position <= 1 /\ raw = <<Blank>>
      \/ \E c \in 0 .. Len(recs) - 1, i \in 0 .. Count(recs) :
           /\ position = LineOf(recs, c, i)
           /\ Holds(recs, raw[1], RecordBefore(recs, c), recs[c + 1], i, Spoiled)

RecordOfOne ==
  LET recs == origin.recs
  IN  \/ position = 0 /\ raw = <<Blank>>
      \/ \E i \in 0 .. Count(recs) :
           position = 1 + i /\ Holds(recs, raw[1], Blank, recs[1], i, Spoiled)

ReadingInv ==
  /\ origin.mode = "one" => Len(origin.recs) = 1
  /\ phase \in {"reading", "done"} /\ origin.recs # <<>> =>
       /\ format = "libcpuid"
       /\ origin.mode = "all" /\ into = "all" /\ ~noMemory => ArrayOfAll
       /\ origin.mode = "all" /\ into = "one" => RecordOfAll
       /\ origin.mode = "one" /\ into = "one" => RecordOfOne
       /\ phase = "done" => position = Len(file) /\ (raw # <<>> => result = "ERR_OK")

(* One more field is read; all of them are. *)
LEMMA HoldsOneMore ==
  ASSUME NEW recs, NEW r, NEW s, NEW prev, NEW rec, NEW i \in 0 .. Count(recs) - 1, Count(recs) \in Nat, NEW v, NEW spoiled,
         Holds(recs, r, prev, rec, i, {}),
         v = rec[Written(recs)[i + 1]] \/ v \in spoiled,
         \A f \in Fields : s[f] = IF f = Written(recs)[i + 1] THEN v ELSE r[f]
  PROVE  Holds(recs, s, prev, rec, i + 1, spoiled)
<1> DEFINE W == Written(recs)
<1> SUFFICES ASSUME NEW f \in Fields
             PROVE  \/ s[f] = IF \E j \in 1 .. i + 1 : W[j] = f THEN rec[f] ELSE prev[f]
                    \/ s[f] \in spoiled
  BY DEF Holds
<1>1. r[f] = IF \E j \in 1 .. i : W[j] = f THEN rec[f] ELSE prev[f]
  BY DEF Holds
<1>2. (\E j \in 1 .. i + 1 : W[j] = f) <=> (\E j \in 1 .. i : W[j] = f) \/ W[i + 1] = f
  OBVIOUS
<1> HIDE DEF W
<1>3. CASE W[i + 1] = f
  BY <1>2, <1>3 DEF W
<1>4. CASE W[i + 1] # f
  BY <1>1, <1>2, <1>4 DEF W
<1> QED BY <1>3, <1>4

LEMMA HoldsAll ==
  ASSUME NEW recs, NEW r \in Record, NEW prev, NEW rec, Holds(recs, r, prev, rec, Count(recs), {}),
         \A f \in Fields : f \notin Elements(Written(recs)) => prev[f] = 0,
         Written(recs) \in Seq(Fields)
  PROVE  r = Kept(recs, rec)
<1>1. \A f \in Fields : f \in Elements(Written(recs))
                          <=> \E j \in 1 .. Count(recs) : Written(recs)[j] = f
  BY LenProperties DEF Elements, Count
<1>2. \A f \in Fields : r[f] = Kept(recs, rec)[f]
  BY <1>1 DEF Holds, Kept
<1>3. r \in [Fields -> Values \union {Cut}]
  BY DEF Record
<1> QED BY <1>2, <1>3 DEF Kept

LEMMA HoldsNone ==
  ASSUME NEW recs, NEW r, NEW rec, NEW spoiled
  PROVE  Holds(recs, r, r, rec, 0, spoiled)
BY DEF Holds

LEMMA CutLine ==
  ASSUME NEW f, NEW v
  PROVE  [RegLine(f, v) EXCEPT !.value = Cut] = RegLine(f, Cut)
<1>1. [RegLine(f, v) EXCEPT !.value = Cut] \in [kind : {"reg"}, n : {0}, fields : {{f}}, value : {Cut}]
  BY DEF RegLine
<1>2. \A l \in [kind : {"reg"}, n : {0}, fields : {{f}}, value : {Cut}] : l = RegLine(f, Cut)
  BY DEF RegLine
<1> QED BY <1>1, <1>2

(* The next line of a dump of all records. *)
LEMMA NextOfAll ==
  ASSUME TypeOK, FileInv, position < Len(file), origin.recs # <<>>, origin.mode = "all"
  PROVE  /\ position = 0 => ThisLine = VersionLine
         /\ position = 1 => ThisLine = CpuLine(0) /\ position + 1 = LineOf(origin.recs, 0, 0)
                            /\ 0 \in 0 .. Len(origin.recs) - 1
         /\ \A c \in 0 .. Len(origin.recs) - 1, i \in 0 .. Count(origin.recs) : position = LineOf(origin.recs, c, i) =>
              /\ i # Count(origin.recs) =>
                   /\ position + 1 = LineOf(origin.recs, c, i + 1)
                   /\ \E v : /\ ThisLine = RegLine(Written(origin.recs)[i + 1], v)
                             /\ \/ v = origin.recs[c + 1][Written(origin.recs)[i + 1]]
                                \/ v = Cut /\ ~origin.intact /\ position + 1 = Len(file)
              /\ i = Count(origin.recs) =>
                   /\ c + 1 \in 0 .. Len(origin.recs) - 1
                   /\ position + 1 = LineOf(origin.recs, c + 1, 0) /\ ThisLine = CpuLine(c + 1)
<1> DEFINE recs  == origin.recs
           lines == DumpAll(recs)
           m     == Block(recs)
<1>1. recs \in Sources /\ recs # <<>>
  BY DEF TypeOK
<1>2. /\ Len(recs) \in Nat \ {0} /\ Count(recs) \in Nat /\ m = Count(recs) + 1
  BY <1>1, SourceRecords DEF Count, Block
<1>3. position \in Nat /\ position + 1 \in 1 .. Len(file) /\ ThisLine = file[position + 1] /\ Len(file) \in Nat
  BY LenProperties DEF TypeOK, ThisLine
<1>4. /\ Len(file) <= 1 + Len(recs) * m
      /\ LineIs(lines, position + 1)
  <2>1. FileIsDump /\ DumpOf(origin.mode, origin.recs) = lines
    BY DEF FileInv, DumpOf
  <2>2. Len(lines) = 1 + Len(recs) * m
    BY <1>1, LinesOfAll
  <2> QED BY <1>3, <2>1, <2>2 DEF FileIsDump
<1>5. /\ lines[1] = VersionLine
      /\ \A c \in 0 .. Len(recs) - 1, i \in 0 .. Count(recs) :
           lines[LineOf(recs, c, i)] =
             IF i = 0 THEN CpuLine(c) ELSE RegLine(Written(recs)[i], recs[c + 1][Written(recs)[i]])
  BY <1>1, LinesOfAll DEF LineOf, Count
<1>6. lines[position + 1].kind # "reg" => ThisLine = lines[position + 1]
  BY <1>3, <1>4 DEF LineIs
<1> HIDE DEF recs, lines, m
<1>7. position = 0 => ThisLine = VersionLine
  BY <1>5, <1>6 DEF VersionLine
<1>8. LineOf(recs, 0, 0) = 2 /\ 0 \in 0 .. Len(recs) - 1
  <2>1. 0 * m = 0
    BY <1>2
  <2> QED BY <1>2, <2>1 DEF LineOf, m, recs
<1>9. position = 1 => ThisLine = CpuLine(0) /\ position + 1 = LineOf(recs, 0, 0)
  <2>1. SUFFICES ASSUME position = 1 PROVE ThisLine = CpuLine(0) /\ position + 1 = LineOf(recs, 0, 0)
    OBVIOUS
  <2>2. position + 1 = LineOf(recs, 0, 0)
    BY <1>8, <2>1
  <2>3. lines[LineOf(recs, 0, 0)] = CpuLine(0)
    BY <1>2, <1>5, <1>8
  <2> QED BY <1>6, <2>2, <2>3 DEF CpuLine
<1>10. ASSUME NEW c \in 0 .. Len(recs) - 1, NEW i \in 0 .. Count(recs), position = LineOf(recs, c, i), i # Count(recs)
       PROVE  /\ position + 1 = LineOf(recs, c, i + 1)
              /\ \E v : /\ ThisLine = RegLine(Written(recs)[i + 1], v)
                        /\ \/ v = recs[c + 1][Written(recs)[i + 1]]
                           \/ v = Cut /\ ~origin.intact /\ position + 1 = Len(file)
  <2>1. i + 1 \in 0 .. Count(recs) /\ i + 1 # 0
    BY <1>2, <1>10
  <2>2. position + 1 = LineOf(recs, c, i + 1)
    <3>1. c * m \in Nat
      BY <1>2
    <3> QED BY <1>2, <1>10, <3>1 DEF LineOf, m, recs
  <2> DEFINE f == Written(recs)[i + 1]
             v == recs[c + 1][f]
  <2>3. lines[position + 1] = RegLine(f, v)
    BY <1>5, <2>1, <2>2
  <2> HIDE DEF f, v
  <2>4. CASE file[position + 1] = lines[position + 1]
    BY <1>3, <2>2, <2>3, <2>4 DEF f, v
  <2>5. CASE /\ ~origin.intact /\ position + 1 = Len(file)
             /\ file[position + 1] = [lines[position + 1] EXCEPT !.value = Cut]
    <3>1. [RegLine(f, v) EXCEPT !.value = Cut] = RegLine(f, Cut)
      BY CutLine
    <3>2. ThisLine = RegLine(f, Cut)
      BY <1>3, <2>3, <2>5, <3>1
    <3> QED BY <2>2, <2>5, <3>2 DEF f
  <2> QED BY <1>4, <2>4, <2>5 DEF LineIs
<1>11. ASSUME NEW c \in 0 .. Len(recs) - 1, position = LineOf(recs, c, Count(recs))
       PROVE  /\ c + 1 \in 0 .. Len(recs) - 1
              /\ position + 1 = LineOf(recs, c + 1, 0) /\ ThisLine = CpuLine(c + 1)
  <2>1. c * m \in Nat /\ (c + 1) * m = c * m + m
    BY <1>2
  <2>2. position + 1 = LineOf(recs, c + 1, 0) /\ position + 1 = 2 + (c + 1) * m
    BY <1>2, <1>11, <2>1 DEF LineOf, m, recs
  <2>3. c + 1 # Len(recs)
    <3>1. SUFFICES ASSUME c + 1 = Len(recs) PROVE FALSE
      OBVIOUS
    <3>2. (c + 1) * m = Len(recs) * m /\ Len(recs) * m \in Nat
      BY <1>2, <3>1
    <3> QED BY <1>3, <1>4, <2>2, <3>2
  <2>4. c + 1 \in 0 .. Len(recs) - 1 /\ 0 \in 0 .. Count(recs)
    BY <1>2, <2>3
  <2>5. lines[position + 1] = CpuLine(c + 1)
    BY <1>5, <2>2, <2>4
  <2> QED BY <1>6, <2>2, <2>4, <2>5 DEF CpuLine
<1> QED BY <1>7, <1>8, <1>9, <1>10, <1>11 DEF recs

(* The next line of a dump of one record. *)
LEMMA NextOfOne ==
  ASSUME TypeOK, FileInv, position < Len(file), origin.recs # <<>>, origin.mode = "one"
  PROVE  /\ position = 0 => ThisLine = VersionLine
         /\ \A i \in 0 .. Count(origin.recs) : position = 1 + i =>
              /\ i # Count(origin.recs)
              /\ \E v : /\ ThisLine = RegLine(Written(origin.recs)[i + 1], v)
                        /\ \/ v = origin.recs[1][Written(origin.recs)[i + 1]]
                           \/ v = Cut /\ ~origin.intact /\ position + 1 = Len(file)
<1> DEFINE recs  == origin.recs
           lines == DumpOne(recs[1])
<1>1. recs \in Sources /\ recs # <<>>
  BY DEF TypeOK
<1>2. Count(recs) \in Nat /\ Len(lines) = Count(recs) + 1
  BY <1>1, SourceRecords, LinesOfOne DEF Count, Block
<1>3. position \in Nat /\ position + 1 \in 1 .. Len(file) /\ ThisLine = file[position + 1] /\ Len(file) \in Nat
  BY LenProperties DEF TypeOK, ThisLine
<1>4. Len(file) <= Count(recs) + 1 /\ LineIs(lines, position + 1)
  <2>1. FileIsDump /\ DumpOf(origin.mode, origin.recs) = lines
    BY DEF FileInv, DumpOf
  <2> QED BY <1>2, <1>3, <2>1 DEF FileIsDump
<1>5. /\ lines[1] = VersionLine
      /\ \A i \in 1 .. Count(recs) : lines[1 + i] = RegLine(Written(recs)[i], recs[1][Written(recs)[i]])
  BY <1>1, LinesOfOne DEF Count
<1> HIDE DEF recs, lines
<1>6. position = 0 => ThisLine = VersionLine
  BY <1>3, <1>4, <1>5 DEF LineIs, VersionLine
<1>7. ASSUME NEW i \in 0 .. Count(recs), position = 1 + i
      PROVE  /\ i # Count(recs)
             /\ \E v : /\ ThisLine = RegLine(Written(recs)[i + 1], v)
                       /\ \/ v = recs[1][Written(recs)[i + 1]]
                          \/ v = Cut /\ ~origin.intact /\ position + 1 = Len(file)
  <2>1. i # Count(recs) /\ i + 1 \in 1 .. Count(recs) /\ position + 1 = 1 + (i + 1)
    BY <1>2, <1>3, <1>4, <1>7
  <2> DEFINE f == Written(recs)[i + 1]
             v == recs[1][f]
  <2>2. lines[position + 1] = RegLine(f, v)
    BY <1>5, <2>1
  <2> HIDE DEF f, v
  <2>3. CASE file[position + 1] = lines[position + 1]
    BY <1>3, <2>1, <2>2, <2>3 DEF f, v
  <2>4. CASE /\ ~origin.intact /\ position + 1 = Len(file)
             /\ file[position + 1] = [lines[position + 1] EXCEPT !.value = Cut]
    <3>1. [RegLine(f, v) EXCEPT !.value = Cut] = RegLine(f, Cut)
      BY CutLine
    <3>2. ThisLine = RegLine(f, Cut)
      BY <1>3, <2>2, <2>4, <3>1
    <3> QED BY <2>1, <2>4, <3>2 DEF f
  <2> QED BY <1>4, <2>3, <2>4 DEF LineIs
<1> QED BY <1>6, <1>7 DEF recs

(* What the reader does with each kind of line of a dump. *)
Moves == position' = position + 1 /\ format' = format /\ UNCHANGED <<file, origin, into, phase, result>>

LEMMA OnVersion ==
  ASSUME ReadLine, phase' # "ub", ThisLine = VersionLine, format = "libcpuid"
  PROVE  Moves /\ UNCHANGED <<raw, rawPtr, noMemory>>
<1>1. /\ ThisLine.kind = "version" /\ ~StartsAida(ThisLine) /\ FormatOf(ThisLine) = "libcpuid"
  BY DEF VersionLine, StartsAida, FormatOf
<1>2. ~SelectsCpu(ThisLine) /\ ~SelectsAidaCpu(ThisLine) /\ ~SetsRegister(ThisLine)
      /\ ~BeginsSingle(ThisLine)
      /\ ~Strays(ThisLine)
  BY <1>1 DEF SelectsCpu, SelectsAidaCpu, SetsRegister, BeginsSingle, StartsSingle, Strays
<1>3. SkipLine
  BY <1>2 DEF ReadLine, SelectCpu, SelectAidaCpu, BeginSingle, AssignRegister, Overrun
<1> QED BY <1>1, <1>3 DEF SkipLine, NextLine, Moves

LEMMA OnCpu ==
  ASSUME ReadLine, phase' # "ub", NEW c \in 0 .. CpuMod - 1, ThisLine = CpuLine(c),
         format = "libcpuid"
  PROVE  /\ Moves
         /\ into = "all" => Grow(LengthFor(c)) /\ rawPtr' = c + 1 /\ withAffinity' /\ ~isHeader'
         /\ into # "all" => UNCHANGED <<raw, rawPtr, noMemory>>
<1>1. /\ ThisLine.kind = "cpu" /\ ~StartsAida(ThisLine) /\ FormatOf(ThisLine) = "libcpuid"
  BY DEF CpuLine, StartsAida, FormatOf
<1>2. ~SelectsAidaCpu(ThisLine) /\ ~SetsRegister(ThisLine) /\ ~BeginsSingle(ThisLine)
      /\ (SelectsCpu(ThisLine) <=> into = "all") /\ ~Strays(ThisLine)
  BY <1>1 DEF SelectsCpu, SelectsAidaCpu, SetsRegister, BeginsSingle, StartsSingle, Strays
<1>3. SkipLine \/ SelectCpu
  BY <1>2 DEF ReadLine, SelectAidaCpu, BeginSingle, AssignRegister, Overrun
<1>4. CASE SkipLine
  BY <1>1, <1>2, <1>4 DEF SkipLine, NextLine, Moves
<1>5. CASE SelectCpu
  BY <1>2, <1>5, NumberComesBack DEF SelectCpu, NextLine, Moves
<1> QED BY <1>3, <1>4, <1>5

LEMMA OnRegister ==
  ASSUME ReadLine, phase' # "ub", NEW f, NEW v, ThisLine = RegLine(f, v),
         format = "libcpuid", into = "all" => ~isHeader
  PROVE  /\ Moves
         /\ rawPtr \in DOMAIN raw /\ raw' = Assigned(raw, rawPtr, ThisLine)
         /\ (isHeader' => isHeader) /\ UNCHANGED <<rawPtr, withAffinity, noMemory>>
<1>1. /\ ThisLine.kind = "reg" /\ ~StartsAida(ThisLine) /\ FormatOf(ThisLine) = "libcpuid"
  BY DEF RegLine, StartsAida, FormatOf
<1>2. ~SelectsAidaCpu(ThisLine) /\ SetsRegister(ThisLine) /\ ~BeginsSingle(ThisLine)
      /\ ~SelectsCpu(ThisLine) /\ ~Strays(ThisLine)
  BY <1>1 DEF SelectsCpu, SelectsAidaCpu, SetsRegister, BeginsSingle, Strays
<1>3. AssignRegister
  BY <1>2 DEF ReadLine, SelectCpu, SelectAidaCpu, BeginSingle, SkipLine, Overrun
<1> QED BY <1>3 DEF AssignRegister, NextLine, Moves

(* The kinds of the lines of a dump. *)
DumpKind == {"version", "cpu", "reg"}

LEMMA DumpKinds ==
  ASSUME TypeOK, FileInv, origin.recs # <<>>, NEW p \in 1 .. Len(file)
  PROVE  file[p].kind \in DumpKind
<1> DEFINE recs  == origin.recs
           lines == DumpOf(origin.mode, recs)
           n     == Len(recs)
           m     == Block(recs)
<1>1. recs \in Sources /\ recs # <<>>
  BY DEF TypeOK
<1>2. Len(file) <= Len(lines) /\ LineIs(lines, p) /\ origin.mode \in {"one", "all"}
      /\ Len(file) \in Nat
  BY LenProperties DEF FileInv, FileIsDump, TypeOK
<1>3. n \in Nat /\ m \in Nat \ {0} /\ Len(Written(recs)) \in Nat /\ m = Len(Written(recs)) + 1
  BY <1>1, SourceRecords DEF Block
<1>4. \A f, v : RegLine(f, v).kind \in DumpKind
  BY DEF RegLine, DumpKind
<1>5. VersionLine.kind \in DumpKind /\ \A c : CpuLine(c).kind \in DumpKind
  BY DEF VersionLine, CpuLine, DumpKind
<1>9. lines[p] \in Line
  BY <1>1, <1>2, LinesOfDump, ElementOfSeq
<1> SUFFICES lines[p].kind \in DumpKind
  <2> HIDE DEF lines
  <2>1. [lines[p] EXCEPT !.value = Cut].kind = lines[p].kind
    BY <1>9 DEF Line
  <2> QED BY <1>2, <2>1 DEF LineIs
<1>6. CASE origin.mode = "one"
  <2>1. /\ lines = DumpOne(recs[1]) /\ Len(lines) = m /\ lines[1] = VersionLine
        /\ \A i \in 1 .. Len(Written(recs)) :
             lines[1 + i] = RegLine(Written(recs)[i], recs[1][Written(recs)[i]])
    BY <1>1, <1>6, LinesOfOne DEF DumpOf
  <2> HIDE DEF recs, lines, n, m
  <2>2. p = 1 \/ (p - 1 \in 1 .. Len(Written(recs)) /\ p = 1 + (p - 1))
    BY <1>2, <1>3, <2>1
  <2> QED BY <1>4, <1>5, <2>1, <2>2
<1>7. CASE origin.mode = "all"
  <2>1. /\ lines = DumpAll(recs) /\ Len(lines) = 1 + n * m /\ lines[1] = VersionLine
        /\ \A c \in 0 .. n - 1, i \in 0 .. Len(Written(recs)) :
             lines[2 + (c * m + i)] =
               IF i = 0 THEN CpuLine(c) ELSE RegLine(Written(recs)[i], recs[c + 1][Written(recs)[i]])
    BY <1>1, <1>7, LinesOfAll DEF DumpOf
  <2> HIDE DEF recs, lines, n, m
  <2>2. n * m \in Nat
    BY <1>3
  <2>3. CASE p # 1
    <3> DEFINE a == p - 2
    <3>1. a \in 0 .. n * m - 1 /\ p = 2 + a
      BY <1>2, <2>1, <2>2, <2>3
    <3> HIDE DEF a
    <3>2. \E c \in 0 .. n - 1, i \in 0 .. m - 1 : a = c * m + i /\ a \div m = c /\ a % m = i
      BY ONLY <1>3, <3>1, PlaceOf
    <3>3. PICK c \in 0 .. n - 1, i \in 0 .. m - 1 : a = c * m + i
      BY <3>2
    <3>4. i \in 0 .. Len(Written(recs)) /\ p = 2 + (c * m + i)
      BY <1>3, <3>1, <3>3
    <3> QED BY <1>4, <1>5, <2>1, <3>4
  <2> QED BY <1>5, <2>1, <2>3
<1> QED BY <1>2, <1>6, <1>7

LEMMA OverrunStep == TypeOK /\ FileInv /\ PointerInv /\ OverrunExplained /\ [Next]_vars => OverrunExplained'
<1> SUFFICES ASSUME TypeOK, FileInv, PointerInv, OverrunExplained, [Next]_vars, phase' = "ub"
             PROVE  OverrunExplained'
  BY DEF OverrunExplained
<1>n. Len(raw) \in Nat /\ rawPtr \in Nat /\ DOMAIN raw = 1 .. Len(raw)
  BY LenProperties DEF TypeOK
<1>1. ASSUME NEW s \in Sources, SerializeNothing(s) PROVE OverrunExplained'
  BY <1>1 DEF SerializeNothing, FileInv, OverrunExplained
<1>2. CASE Overrun
  <2>0. /\ MoreLines
        /\ UNCHANGED <<file, origin, into, position, isHeader, format, offset, rawPtr, raw>>
        /\ \/ /\ SetsRegister(ThisLine) /\ ~BeginsSingle(ThisLine)
              /\ rawPtr \notin DOMAIN raw /\ UNCHANGED noMemory
           \/ noMemory' = TRUE
           \/ Strays(ThisLine)
    BY <1>2 DEF Overrun
  <2>a. CASE Strays(ThisLine)
    <3>1. ThisLine.kind \in {"regPast", "aidaPast"}
      BY <2>a DEF Strays
    <3>2. phase = "reading" /\ position + 1 \in 1 .. Len(file) /\ ThisLine = file[position + 1]
      BY <2>0, LenProperties DEF MoreLines, ThisLine, TypeOK
    <3>3. origin.recs = <<>>
      BY <3>1, <3>2, DumpKinds DEF DumpKind
    <3>4. origin.mode = "foreign"
      BY <3>2, <3>3 DEF FileInv
    <3> QED BY <2>0, <3>1, <3>4 DEF OverrunExplained, ThisLine
  <2>2. SUFFICES ASSUME ~noMemory', ~Strays(ThisLine) PROVE OverrunExplained'
    BY <2>a DEF OverrunExplained
  <2>1. SetsRegister(ThisLine)
    BY <2>0, <2>2
  <2>3. ~BeginsSingle(ThisLine) /\ rawPtr \notin DOMAIN raw /\ ~noMemory
    BY <2>0, <2>2
  <2>4. into = "all"
    <3>1. into = "one" => rawPtr \in DOMAIN raw
      BY <1>n DEF PointerInv
    <3> QED BY <2>3, <3>1 DEF TypeOK
  <2>5. CASE rawPtr = 0
    <3>1. format = "libcpuid" => isHeader /\ \A p \in 1 .. position : file[p].kind \notin {"cpu", "reg"}
      BY <2>4, <2>5 DEF PointerInv, Pointer
    <3>2. format = "aida64" => ~StartsSingle(ThisLine)
      BY <2>1 DEF SetsRegister, StartsSingle, FormatOf
    <3>3. format = "libcpuid" => ~StartsSingle(ThisLine)
      BY <2>3, <2>4, <3>1 DEF BeginsSingle
    <3>4. ~StartsSingle(ThisLine)
      BY <3>2, <3>3 DEF TypeOK
    <3> QED BY <2>0, <2>4, <2>5, <3>1, <3>4 DEF OverrunExplained, ThisLine, StartsSingle
  <2>6. CASE rawPtr # 0
    <3>1. ~(rawPtr <= Len(raw))
      BY <1>n, <2>3, <2>6
    <3>2. LastNumber
      BY <2>3, <2>4, <2>6, <3>1 DEF PointerInv, Pointer
    <3> QED BY <2>0, <2>4, <3>2 DEF OverrunExplained, LastNumber, NumberRead
  <2> QED BY <2>5, <2>6
<1>3. ASSUME UNCHANGED vars PROVE OverrunExplained'
  BY <1>3 DEF vars, OverrunExplained, ThisLine, NumberRead, StartsSingle
<1> QED
  BY <1>1, <1>2, <1>3
  DEF Next, ReadLine, Serialize, Deserialize, OpenFails, SelectCpu, SelectAidaCpu, BeginSingle,
      AssignRegister, SkipLine, EndOfDump, NextLine, MoreLines

(* Whatever file is read and however many CPUs it names, an access outside *)
(* the arrays has one of the causes OverrunExplained lists: an index past  *)
(* its array is not among them for a dump that libcpuid wrote.             *)
THEOREM OverrunIsExplained == Spec => []OverrunExplained
<1> DEFINE Inv == TypeOK /\ FileInv /\ PointerInv /\ OverrunExplained
<1>1. Init => Inv
  <2>1. Init => PointerInv /\ OverrunExplained
    BY DEF Init, PointerInv, Pointer, OverrunExplained
  <2> QED BY <2>1, TypeInit
<1>2. Inv /\ [Next]_vars => Inv'
  BY TypeStep, FileStep, PointerStep, OverrunStep
<1>3. Inv => OverrunExplained
  OBVIOUS
<1> QED BY <1>1, <1>2, <1>3, PTL DEF Spec

(* The reader comes to the number of the next CPU. *)
LEMMA NewRecord ==
  ASSUME TypeOK, ReadLine, phase' # "ub", format = "libcpuid", into = "all", ~noMemory',
         NEW c \in Nat, c + 1 < CpuMod, Len(raw) = c, ThisLine = CpuLine(c)
  PROVE  /\ Moves /\ ~noMemory
         /\ Len(raw') = c + 1 /\ raw'[c + 1] = Blank /\ \A j \in 1 .. c : raw'[j] = raw[j]
         /\ rawPtr' = c + 1 /\ withAffinity' /\ ~isHeader'
<1>1. c \in 0 .. CpuMod - 1
  BY Numbers
<1>2. Moves /\ Grow(LengthFor(c)) /\ rawPtr' = c + 1 /\ withAffinity' /\ ~isHeader'
  BY <1>1, OnCpu
<1>3. LengthFor(c) = c + 1
  BY <1>1, Numbers
<1>4. ~noMemory /\ raw' = Grown(c + 1)
  BY <1>1, <1>2, <1>3, GrowIs
<1>5. raw \in Seq(Record)
  BY DEF TypeOK
<1> DEFINE n == c + 1
<1>6. n \in Nat /\ n = c + 1 /\ c < n
  OBVIOUS
<1> HIDE DEF n
<1>7. /\ Len(Grown(n)) \in {n, Len(raw)}
      /\ n <= Len(Grown(n))
      /\ \A i \in 1 .. Len(Grown(n)) : Grown(n)[i] = IF i <= Len(raw) THEN raw[i] ELSE Blank
  BY <1>5, <1>6, GrownIs
<1>8. Len(Grown(n)) = n
  BY <1>6, <1>7
<1>9. Grown(n)[n] = Blank /\ \A j \in 1 .. c : Grown(n)[j] = raw[j]
  BY <1>6, <1>7, <1>8
<1>10. raw' = Grown(n)
  BY <1>4, <1>6
<1> QED BY <1>2, <1>4, <1>6, <1>8, <1>9, <1>10

(* The reader stores one more field of a record. *)
LEMMA FieldRead ==
  ASSUME TypeOK, ReadLine, phase' # "ub", position < Len(file), format = "libcpuid",
         into = "all" => ~isHeader,
         NEW recs, Count(recs) \in Nat, NEW i \in 0 .. Count(recs) - 1, NEW v, NEW prev, NEW rec,
         ThisLine = RegLine(Written(recs)[i + 1], v),
         v = rec[Written(recs)[i + 1]] \/ (v = Cut /\ ~origin.intact /\ position + 1 = Len(file)),
         Holds(recs, raw[rawPtr], prev, rec, i, {})
  PROVE  /\ Moves /\ (isHeader' => isHeader) /\ UNCHANGED <<rawPtr, withAffinity, noMemory>>
         /\ Len(raw') = Len(raw)
         /\ \A j \in 1 .. Len(raw) : j # rawPtr => raw'[j] = raw[j]
         /\ Holds(recs, raw'[rawPtr], prev, rec, i + 1, Spoiled')
<1> DEFINE f == Written(recs)[i + 1]
<1>1. /\ Moves /\ (isHeader' => isHeader) /\ UNCHANGED <<rawPtr, withAffinity, noMemory>>
      /\ rawPtr \in DOMAIN raw /\ raw' = Assigned(raw, rawPtr, ThisLine)
  BY OnRegister
<1>2. raw \in Seq(Record) /\ rawPtr \in 1 .. Len(raw)
  BY <1>1, LenProperties DEF TypeOK
<1>3. position \in Nat /\ Len(file) \in Nat /\ ThisLine \in Line
  BY LenProperties, ElementOfSeq DEF TypeOK, ThisLine
<1>4. ThisLine.fields = {f} /\ ThisLine.value = v
  BY DEF RegLine
<1> HIDE DEF f
<1>5. /\ Len(raw') = Len(raw)
      /\ \A j \in 1 .. Len(raw) : j # rawPtr => raw'[j] = raw[j]
      /\ \A g \in Fields : raw'[rawPtr][g] = IF g = f THEN v ELSE raw[rawPtr][g]
  <2>1. /\ Len(Assigned(raw, rawPtr, ThisLine)) = Len(raw)
        /\ \A j \in 1 .. Len(raw) : j # rawPtr => Assigned(raw, rawPtr, ThisLine)[j] = raw[j]
        /\ \A g \in Fields : Assigned(raw, rawPtr, ThisLine)[rawPtr][g] =
                               IF g \in ThisLine.fields THEN ThisLine.value ELSE raw[rawPtr][g]
    BY ONLY <1>2, <1>3, AssignedIs
  <2> QED BY <1>1, <1>4, <2>1
<1> DEFINE r       == raw[rawPtr]
           s       == raw'[rawPtr]
           spoiled == Spoiled'
<1>6. v = rec[f] \/ v \in spoiled
  BY <1>1 DEF Spoiled, Moves, f
<1>7. /\ Holds(recs, r, prev, rec, i, {}) /\ i \in 0 .. Count(recs) - 1 /\ Count(recs) \in Nat
      /\ v = rec[Written(recs)[i + 1]] \/ v \in spoiled
      /\ \A g \in Fields : s[g] = IF g = Written(recs)[i + 1] THEN v ELSE r[g]
  BY <1>5, <1>6 DEF f
<1> HIDE DEF r, s, spoiled
<1>8. Holds(recs, s, prev, rec, i + 1, spoiled)
  BY ONLY <1>7, HoldsOneMore
<1> QED BY <1>1, <1>5, <1>8 DEF s, spoiled

LEMMA ArrayStep ==
  ASSUME TypeOK, FileInv, ReadLine, phase' # "ub", position < Len(file), format = "libcpuid",
         origin.recs # <<>>, origin.mode = "all", into = "all", ~noMemory',
         ~noMemory => ArrayOfAll
  PROVE  Moves /\ ArrayOfAll'
<1> DEFINE recs == origin.recs
<1>1. recs \in Sources /\ recs # <<>> /\ position \in Nat /\ Len(file) \in Nat
  BY LenProperties DEF TypeOK
<1>2. Len(recs) \in Nat \ {0} /\ Len(recs) < CpuMod /\ Count(recs) \in Nat
      /\ Written(recs) \in Seq(Fields) /\ CpuMod \in Nat
  BY <1>1, SourceRecords, Numbers DEF Count
<1>3. ~noMemory
  BY DEF ReadLine, SelectCpu, SelectAidaCpu, BeginSingle, AssignRegister, Overrun, SkipLine, Grow
<1>4. ArrayOfAll /\ raw \in Seq(Record)
  BY <1>3 DEF TypeOK
<1>5. ASSUME Moves, NEW c \in 0 .. Len(recs) - 1, NEW i \in 0 .. Count(recs),
             position + 1 = LineOf(recs, c, i),
             Len(raw') = c + 1, rawPtr' = c + 1, ~isHeader', withAffinity',
             \A j \in 1 .. c : raw'[j] = Kept(recs, recs[j]),
             Holds(recs, raw'[c + 1], Blank, recs[c + 1], i, Spoiled')
      PROVE  ArrayOfAll'
  <2>1. position' = position + 1 /\ origin' = origin
    BY <1>5 DEF Moves
  <2> QED BY <1>5, <2>1 DEF ArrayOfAll
<1>6. CASE position = 0 /\ raw = <<>>
  <2>1. ThisLine = VersionLine
    BY <1>6, NextOfAll
  <2>2. Moves /\ raw' = raw
    BY <2>1, OnVersion
  <2> QED BY <1>6, <2>2 DEF ArrayOfAll, Moves
<1>7. CASE position = 1 /\ raw = <<>>
  <2>1. ThisLine = CpuLine(0) /\ position + 1 = LineOf(recs, 0, 0) /\ 0 \in 0 .. Len(recs) - 1
    BY <1>7, NextOfAll
  <2>2. /\ Moves /\ Len(raw') = 0 + 1 /\ raw'[0 + 1] = Blank
        /\ rawPtr' = 0 + 1 /\ withAffinity' /\ ~isHeader'
    <3>1. 0 \in Nat /\ 0 + 1 < CpuMod /\ Len(raw) = 0
      BY <1>2, <1>7
    <3> QED BY <2>1, <3>1, NewRecord
  <2>3. Holds(recs, raw'[0 + 1], Blank, recs[0 + 1], 0, Spoiled')
    BY <2>2, HoldsNone
  <2> QED BY <1>2, <1>5, <2>1, <2>2, <2>3
<1>8. ASSUME NEW c \in 0 .. Len(recs) - 1, NEW i \in 0 .. Count(recs),
             position = LineOf(recs, c, i),
             Len(raw) = c + 1, rawPtr = c + 1, ~isHeader, withAffinity,
             \A j \in 1 .. c : raw[j] = Kept(recs, recs[j]),
             Holds(recs, raw[c + 1], Blank, recs[c + 1], i, Spoiled)
      PROVE  Moves /\ ArrayOfAll'
  <2>1. Spoiled = {}
    BY <1>1 DEF Spoiled
  <2>2. Holds(recs, raw[c + 1], Blank, recs[c + 1], i, {})
    BY <1>8, <2>1
  <2>3. CASE i # Count(recs)
    <3> DEFINE f == Written(recs)[i + 1]
    <3>1. PICK v : /\ ThisLine = RegLine(f, v)
                   /\ \/ v = recs[c + 1][f]
                      \/ v = Cut /\ ~origin.intact /\ position + 1 = Len(file)
      BY <1>8, <2>3, NextOfAll
    <3>2. position + 1 = LineOf(recs, c, i + 1) /\ i + 1 \in 0 .. Count(recs)
      BY <1>2, <1>8, <2>3, NextOfAll
    <3>3. /\ Moves /\ ~isHeader' /\ withAffinity' /\ rawPtr' = c + 1 /\ Len(raw') = c + 1
          /\ \A j \in 1 .. c : raw'[j] = raw[j]
          /\ Holds(recs, raw'[c + 1], Blank, recs[c + 1], i + 1, Spoiled')
      <4>1. i \in 0 .. Count(recs) - 1 /\ c + 1 \in 1 .. Len(raw)
            /\ \A j \in 1 .. c : j \in 1 .. Len(raw) /\ j # c + 1
        BY <1>2, <1>8, <2>3
      <4> DEFINE rec == recs[c + 1]
                 ptr == c + 1
      <4>2. /\ ThisLine = RegLine(Written(recs)[i + 1], v) /\ Holds(recs, raw[ptr], Blank, rec, i, {})
            /\ v = rec[Written(recs)[i + 1]] \/ (v = Cut /\ ~origin.intact /\ position + 1 = Len(file))
            /\ rawPtr = ptr
        BY <1>8, <2>2, <3>1
      <4> HIDE DEF recs, rec, ptr
      <4>3. /\ Moves /\ (isHeader' => isHeader) /\ withAffinity' = withAffinity
            /\ rawPtr' = ptr /\ Len(raw') = Len(raw)
            /\ \A j \in 1 .. Len(raw) : j # ptr => raw'[j] = raw[j]
            /\ Holds(recs, raw'[ptr], Blank, rec, i + 1, Spoiled')
        BY <1>2, <1>8, <4>1, <4>2, FieldRead
      <4> QED BY <1>8, <4>1, <4>3 DEF rec, ptr
    <3>4. \A j \in 1 .. c : raw'[j] = Kept(recs, recs[j])
      BY <1>8, <3>3
    <3> QED BY <1>5, <3>2, <3>3, <3>4
  <2>4. CASE i = Count(recs)
    <3>1. /\ c + 1 \in 0 .. Len(recs) - 1
          /\ position + 1 = LineOf(recs, c + 1, 0) /\ ThisLine = CpuLine(c + 1)
      BY <1>8, <2>4, NextOfAll
    <3>2. raw[c + 1] = Kept(recs, recs[c + 1])
      <4>1. raw[c + 1] \in Record
        BY <1>2, <1>4, <1>8, ElementOfSeq
      <4>2. \A f \in Fields : Blank[f] = 0
        BY DEF Blank
      <4>3. Holds(recs, raw[c + 1], Blank, recs[c + 1], Count(recs), {}) /\ Written(recs) \in Seq(Fields)
        BY <1>2, <2>2, <2>4
      <4> DEFINE r   == raw[c + 1]
                 rec == recs[c + 1]
      <4> HIDE DEF recs, r, rec
      <4>4. r \in Record /\ Holds(recs, r, Blank, rec, Count(recs), {}) /\ Written(recs) \in Seq(Fields)
        BY <4>1, <4>3 DEF r, rec
      <4>5. r = Kept(recs, rec)
        BY ONLY <4>2, <4>4, HoldsAll
      <4> QED BY <4>5 DEF r, rec
    <3>3. /\ Moves /\ Len(raw') = c + 1 + 1 /\ raw'[c + 1 + 1] = Blank
          /\ \A j \in 1 .. c + 1 : raw'[j] = raw[j]
          /\ rawPtr' = c + 1 + 1 /\ withAffinity' /\ ~isHeader'
      <4>1. c + 1 \in Nat /\ c + 1 + 1 < CpuMod
        BY <1>2, <3>1
      <4> QED BY <1>8, <3>1, <4>1, NewRecord
    <3>4. \A j \in 1 .. c + 1 : raw'[j] = Kept(recs, recs[j])
      <4>1. \A j \in 1 .. c + 1 : j \in 1 .. c \/ j = c + 1
        BY <1>2
      <4> QED BY <1>8, <3>2, <3>3, <4>1
    <3>5. Holds(recs, raw'[c + 1 + 1], Blank, recs[c + 1 + 1], 0, Spoiled')
      BY <3>3, HoldsNone
    <3> DEFINE d == c + 1
    <3>6. /\ Moves /\ d \in 0 .. Len(recs) - 1 /\ 0 \in 0 .. Count(recs)
          /\ position + 1 = LineOf(recs, d, 0)
          /\ Len(raw') = d + 1 /\ rawPtr' = d + 1 /\ ~isHeader' /\ withAffinity'
          /\ \A j \in 1 .. d : raw'[j] = Kept(recs, recs[j])
          /\ Holds(recs, raw'[d + 1], Blank, recs[d + 1], 0, Spoiled')
      BY <1>2, <3>1, <3>3, <3>4, <3>5
    <3> HIDE DEF d, recs
    <3> QED BY <1>5, <3>6
  <2> QED BY <2>3, <2>4
<1>9. position <= 1 => position = 0 \/ position = 1
  BY <1>1
<1> QED BY <1>4, <1>6, <1>7, <1>8, <1>9 DEF ArrayOfAll

LEMMA RecordStep ==
  ASSUME TypeOK, FileInv, PointerInv, ReadLine, phase' # "ub", position < Len(file),
         format = "libcpuid", origin.recs # <<>>, origin.mode = "all", into = "one", RecordOfAll
  PROVE  Moves /\ RecordOfAll'
<1> DEFINE recs == origin.recs
<1>1. recs \in Sources /\ recs # <<>> /\ position \in Nat /\ Len(file) \in Nat
  BY LenProperties DEF TypeOK
<1>2. Len(recs) \in Nat \ {0} /\ Len(recs) < CpuMod /\ Count(recs) \in Nat
      /\ Written(recs) \in Seq(Fields) /\ CpuMod \in Nat
  BY <1>1, SourceRecords, Numbers DEF Count
<1>3. rawPtr = 1 /\ raw[1] \in Record /\ into # "all"
  <2>1. rawPtr = 1 /\ Len(raw) = 1 /\ raw \in Seq(Record) /\ into # "all"
    BY DEF PointerInv, TypeOK
  <2> QED BY <2>1, ElementOfSeq
<1>4. ASSUME Moves, NEW c \in 0 .. Len(recs) - 1, NEW i \in 0 .. Count(recs),
             position + 1 = LineOf(recs, c, i),
             Holds(recs, raw'[1], RecordBefore(recs, c), recs[c + 1], i, Spoiled')
      PROVE  RecordOfAll'
  <2>1. position' = position + 1 /\ origin' = origin
    BY <1>4 DEF Moves
  <2> QED BY <1>4, <2>1 DEF RecordOfAll
<1>5. ASSUME NEW c \in 0 .. Len(recs) - 1, ThisLine = CpuLine(c),
             position + 1 = LineOf(recs, c, 0), raw[1] = RecordBefore(recs, c)
      PROVE  Moves /\ RecordOfAll'
  <2>1. c \in 0 .. CpuMod - 1 /\ 0 \in 0 .. Count(recs)
    BY <1>2
  <2>2. Moves /\ raw' = raw
    BY <1>3, <1>5, <2>1, OnCpu
  <2>3. Holds(recs, raw'[1], RecordBefore(recs, c), recs[c + 1], 0, Spoiled')
    BY <1>5, <2>2, HoldsNone
  <2> QED BY <1>4, <1>5, <2>1, <2>2, <2>3
<1>6. CASE position = 0 /\ raw = <<Blank>>
  <2>1. ThisLine = VersionLine
    BY <1>6, NextOfAll
  <2>2. Moves /\ raw' = raw
    BY <2>1, OnVersion
  <2> QED BY <1>6, <2>2 DEF RecordOfAll, Moves
<1>7. CASE position = 1 /\ raw = <<Blank>>
  <2>1. ThisLine = CpuLine(0) /\ position + 1 = LineOf(recs, 0, 0) /\ 0 \in 0 .. Len(recs) - 1
    BY <1>7, NextOfAll
  <2>2. raw[1] = RecordBefore(recs, 0)
    BY <1>7 DEF RecordBefore
  <2> QED BY <1>5, <2>1, <2>2
<1>8. ASSUME NEW c \in 0 .. Len(recs) - 1, NEW i \in 0 .. Count(recs),
             position = LineOf(recs, c, i),
             Holds(recs, raw[1], RecordBefore(recs, c), recs[c + 1], i, Spoiled)
      PROVE  Moves /\ RecordOfAll'
  <2>1. Spoiled = {}
    BY <1>1 DEF Spoiled
  <2>2. CASE i # Count(recs)
    <3>1. PICK v : /\ ThisLine = RegLine(Written(recs)[i + 1], v)
                   /\ \/ v = recs[c + 1][Written(recs)[i + 1]]
                      \/ v = Cut /\ ~origin.intact /\ position + 1 = Len(file)
      BY <1>8, <2>2, NextOfAll
    <3>2. /\ position + 1 = LineOf(recs, c, i + 1) /\ i + 1 \in 0 .. Count(recs)
          /\ i \in 0 .. Count(recs) - 1
      BY <1>2, <1>8, <2>2, NextOfAll
    <3> DEFINE rec  == recs[c + 1]
               prev == RecordBefore(recs, c)
    <3>3. /\ v = rec[Written(recs)[i + 1]] \/ (v = Cut /\ ~origin.intact /\ position + 1 = Len(file))
          /\ Holds(recs, raw[rawPtr], prev, rec, i, {})
      BY <1>3, <1>8, <2>1, <3>1
    <3> HIDE DEF recs, rec, prev
    <3>4. Moves /\ Holds(recs, raw'[rawPtr], prev, rec, i + 1, Spoiled')
      BY <1>2, <1>3, <3>1, <3>2, <3>3, FieldRead
    <3> QED BY <1>3, <1>4, <3>2, <3>4 DEF rec, prev
  <2>3. CASE i = Count(recs)
    <3>1. /\ c + 1 \in 0 .. Len(recs) - 1
          /\ position + 1 = LineOf(recs, c + 1, 0) /\ ThisLine = CpuLine(c + 1)
      BY <1>8, <2>3, NextOfAll
    <3> DEFINE r    == raw[1]
               rec  == recs[c + 1]
               prev == RecordBefore(recs, c)
    <3>2. \A f \in Fields : f \notin Elements(Written(recs)) => prev[f] = 0
      BY DEF RecordBefore, Blank, Kept
    <3>3. r \in Record /\ Holds(recs, r, prev, rec, Count(recs), {}) /\ Written(recs) \in Seq(Fields)
      BY <1>2, <1>3, <1>8, <2>1, <2>3
    <3>4. RecordBefore(recs, c + 1) = Kept(recs, rec)
      BY <1>2 DEF RecordBefore
    <3> HIDE DEF recs, r, rec, prev
    <3>5. r = Kept(recs, rec)
      BY ONLY <3>2, <3>3, HoldsAll
    <3>6. raw[1] = RecordBefore(recs, c + 1)
      BY <3>4, <3>5 DEF r
    <3> QED BY <1>5, <3>1, <3>6
  <2> QED BY <2>2, <2>3
<1>9. position <= 1 => position = 0 \/ position = 1
  BY <1>1
<1> QED BY <1>6, <1>7, <1>8, <1>9 DEF RecordOfAll

LEMMA OneStep ==
  ASSUME TypeOK, FileInv, PointerInv, ReadLine, phase' # "ub", position < Len(file),
         format = "libcpuid", origin.recs # <<>>, origin.mode = "one", into = "one", RecordOfOne
  PROVE  Moves /\ RecordOfOne'
<1> DEFINE recs == origin.recs
<1>1. recs \in Sources /\ recs # <<>> /\ position \in Nat /\ Len(file) \in Nat
  BY LenProperties DEF TypeOK
<1>2. Count(recs) \in Nat /\ rawPtr = 1 /\ into # "all"
  BY <1>1, SourceRecords DEF Count, PointerInv
<1>3. ASSUME Moves, NEW i \in 0 .. Count(recs), position + 1 = 1 + i,
             Holds(recs, raw'[1], Blank, recs[1], i, Spoiled')
      PROVE  RecordOfOne'
  <2>1. position' = position + 1 /\ origin' = origin
    BY <1>3 DEF Moves
  <2> QED BY <1>3, <2>1 DEF RecordOfOne
<1>4. CASE position = 0 /\ raw = <<Blank>>
  <2>1. ThisLine = VersionLine
    BY <1>4, NextOfOne
  <2>2. Moves /\ raw' = raw
    BY <2>1, OnVersion
  <2>3. Holds(recs, raw'[1], Blank, recs[1], 0, Spoiled')
    BY <1>4, <2>2, HoldsNone
  <2>4. 0 \in 0 .. Count(recs) /\ position + 1 = 1 + 0
    BY <1>2, <1>4
  <2> QED BY <1>3, <2>2, <2>3, <2>4
<1>5. ASSUME NEW i \in 0 .. Count(recs), position = 1 + i,
             Holds(recs, raw[1], Blank, recs[1], i, Spoiled)
      PROVE  Moves /\ RecordOfOne'
  <2>1. Spoiled = {}
    BY <1>1 DEF Spoiled
  <2>2. PICK v : /\ ThisLine = RegLine(Written(recs)[i + 1], v)
                 /\ \/ v = recs[1][Written(recs)[i + 1]]
                    \/ v = Cut /\ ~origin.intact /\ position + 1 = Len(file)
    BY <1>5, NextOfOne
  <2>3. /\ position + 1 = 1 + (i + 1) /\ i + 1 \in 0 .. Count(recs) /\ i \in 0 .. Count(recs) - 1
    BY <1>2, <1>5, NextOfOne
  <2> DEFINE rec == recs[1]
  <2>4. /\ v = rec[Written(recs)[i + 1]] \/ (v = Cut /\ ~origin.intact /\ position + 1 = Len(file))
        /\ Holds(recs, raw[rawPtr], Blank, rec, i, {})
    BY <1>2, <1>5, <2>1, <2>2
  <2> HIDE DEF recs, rec
  <2>5. Moves /\ Holds(recs, raw'[rawPtr], Blank, rec, i + 1, Spoiled')
    BY <1>2, <2>2, <2>3, <2>4, FieldRead
  <2> QED BY <1>2, <1>3, <2>3, <2>5 DEF rec
<1> QED BY <1>4, <1>5 DEF RecordOfOne

LEMMA ReadingStep ==
  TypeOK /\ FileInv /\ PointerInv /\ ReadingInv /\ [Next]_vars => ReadingInv'
<1> SUFFICES ASSUME TypeOK, FileInv, PointerInv, ReadingInv, [Next]_vars PROVE ReadingInv'
  OBVIOUS
<1>n. position \in Nat /\ Len(file) \in Nat /\ position <= Len(file)
  BY LenProperties DEF TypeOK
<1>1. ASSUME NEW s \in Sources, SerializeNothing(s) PROVE ReadingInv'
  BY <1>1 DEF SerializeNothing, ReadingInv
<1>2. ASSUME NEW mode \in {"one", "all"}, NEW s \in Sources, Serialize(mode, s) PROVE ReadingInv'
  <2>1. origin'.mode = mode /\ origin'.recs = s /\ phase' = "written" /\ (mode = "one" => Len(s) = 1)
    BY <1>2 DEF Serialize
  <2> QED BY <2>1 DEF ReadingInv
<1>3. ASSUME NEW target \in {"one", "all"}, Deserialize(target) PROVE ReadingInv'
  <2>1. /\ position' = 0 /\ format' = "libcpuid" /\ phase' = "reading" /\ origin' = origin
        /\ into' = "one" => raw' = <<Blank>>
        /\ into' = "all" => raw' = <<>>
    BY <1>3 DEF Deserialize
  <2>2. /\ into' = "all" => ArrayOfAll'
        /\ into' = "one" => RecordOfAll' /\ RecordOfOne'
    BY <2>1 DEF ArrayOfAll, RecordOfAll, RecordOfOne
  <2> QED BY <2>1, <2>2 DEF ReadingInv
<1>4. CASE OpenFails
  BY <1>4 DEF OpenFails, ReadingInv
<1>5. CASE ReadLine
  <2>1. phase = "reading" /\ position < Len(file)
    BY <1>5 DEF ReadLine, SelectCpu, SelectAidaCpu, BeginSingle, AssignRegister, Overrun, SkipLine,
                MoreLines
  <2>2. /\ origin' = origin /\ into' = into /\ (phase' # "ub" => phase' = phase) /\ (noMemory => noMemory')
    BY <1>5 DEF ReadLine, SelectCpu, SelectAidaCpu, BeginSingle, AssignRegister, Overrun, SkipLine,
                NextLine, Grow
  <2>3. CASE phase' = "ub" \/ origin.recs = <<>>
    BY <2>2, <2>3 DEF ReadingInv
  <2>4. CASE phase' # "ub" /\ origin.recs # <<>>
    <3>1. /\ format = "libcpuid"
          /\ origin.mode = "all" /\ into = "all" /\ ~noMemory => ArrayOfAll
          /\ origin.mode = "all" /\ into = "one" => RecordOfAll
          /\ origin.mode = "one" /\ into = "one" => RecordOfOne
      BY <2>1, <2>4 DEF ReadingInv
    <3>2. origin.mode = "all" /\ into = "all" /\ ~noMemory' => ArrayOfAll'
      BY <1>5, <2>1, <2>4, <3>1, ArrayStep
    <3>3. origin.mode = "all" /\ into = "one" => RecordOfAll'
      BY <1>5, <2>1, <2>4, <3>1, RecordStep
    <3>4. origin.mode = "one" /\ into = "one" => RecordOfOne'
      BY <1>5, <2>1, <2>4, <3>1, OneStep
    <3>5. format' = "libcpuid"
      <4>1. ThisLine.kind \notin {"aidaStart", "aidaCpu", "aidaRegisters"}
        <5>1. position + 1 \in 1 .. Len(file) /\ ThisLine = file[position + 1]
          BY <1>n, <2>1 DEF ThisLine
        <5> QED BY <2>4, <5>1, DumpKinds DEF DumpKind
      <4> QED BY <1>5, <2>4, <3>1, <4>1
          DEF ReadLine, SelectCpu, SelectAidaCpu, BeginSingle, AssignRegister, Overrun, SkipLine,
              SelectsAidaCpu, FormatOf, StartsAida
    <3> QED BY <2>1, <2>2, <2>4, <3>2, <3>3, <3>4, <3>5 DEF ReadingInv
  <2> QED BY <2>3, <2>4
<1>6. CASE EndOfDump
  <2>1. /\ phase = "reading" /\ ~MoreLines /\ phase' = "done"
        /\ result' = IF into = "all" /\ raw = <<>> THEN "ERR_BADFMT" ELSE "ERR_OK"
        /\ UNCHANGED <<file, origin>> /\ UNCHANGED reader
    BY <1>6 DEF EndOfDump
  <2>2. origin.recs # <<>> => position = Len(file)
    <3>1. SUFFICES ASSUME origin.recs # <<>>, position < Len(file) PROVE FALSE
      BY <1>n
    <3>2. position + 1 \in 1 .. Len(file) /\ ThisLine = file[position + 1]
      BY <1>n, <3>1 DEF ThisLine
    <3>3. ThisLine.kind # "dashes"
      BY <3>1, <3>2, DumpKinds DEF DumpKind
    <3> QED BY <2>1, <3>1, <3>3 DEF MoreLines
  <2>3. /\ ArrayOfAll => ArrayOfAll'
        /\ RecordOfAll => RecordOfAll'
        /\ RecordOfOne => RecordOfOne'
    BY <2>1 DEF ArrayOfAll, RecordOfAll, RecordOfOne, Spoiled, reader
  <2> QED BY <2>1, <2>2, <2>3 DEF ReadingInv, reader
<1>7. CASE UNCHANGED vars
  <2>1. /\ ArrayOfAll => ArrayOfAll'
        /\ RecordOfAll => RecordOfAll'
        /\ RecordOfOne => RecordOfOne'
    BY <1>7 DEF ArrayOfAll, RecordOfAll, RecordOfOne, Spoiled, vars
  <2> QED BY <1>7, <2>1 DEF ReadingInv, vars
<1> QED BY <1>1, <1>2, <1>3, <1>4, <1>5, <1>6, <1>7 DEF Next

----------------------------------------------------------------------------
(* What has been read at the end. *)

LEMMA LastOfAll ==
  ASSUME TypeOK, FileInv, origin.recs # <<>>, origin.mode = "all", origin.intact,
         position = Len(file)
  PROVE  /\ ~(position <= 1)
         /\ \A c \in 0 .. Len(origin.recs) - 1, i \in 0 .. Count(origin.recs) :
              position = LineOf(origin.recs, c, i) =>
                c = Len(origin.recs) - 1 /\ i = Count(origin.recs)
<1> DEFINE recs == origin.recs
           n    == Len(recs)
           m    == Block(recs)
<1>1. recs \in Sources /\ recs # <<>>
  BY DEF TypeOK
<1>2. n \in Nat \ {0} /\ m \in Nat \ {0} /\ Count(recs) = m - 1
  BY <1>1, SourceRecords DEF Count, Block
<1>3. position = 1 + n * m
  BY <1>1, LinesOfAll DEF FileInv, FileIsDump, DumpOf
<1>4. n * m \in Nat /\ m <= n * m
  <2> HIDE DEF n, m
  <2>1. n * m \in Nat
    BY <1>2
  <2>2. 1 \in Nat /\ n \in Nat /\ 1 <= n /\ m \in Nat
    BY <1>2
  <2>3. 1 * m <= n * m
    BY ONLY <2>2, Multiples
  <2> QED BY <1>2, <2>1, <2>3
<1>5. ASSUME NEW c \in 0 .. n - 1, NEW i \in 0 .. Count(recs), position = LineOf(recs, c, i)
      PROVE  c = n - 1 /\ i = Count(recs)
  <2>1. position = 2 + (c * m + i)
    BY <1>5 DEF LineOf
  <2> HIDE DEF n, m
  <2>2. c \in Nat /\ c * m \in Nat /\ (c + 1) * m = c * m + m
    BY <1>2
  <2>3. c + 1 = n
    <3>1. SUFFICES ASSUME c + 2 <= n PROVE FALSE
      BY <1>2, <2>2
    <3> DEFINE d == c + 2
    <3>2. d \in Nat /\ n \in Nat /\ d <= n /\ m \in Nat
      BY <1>2, <2>2, <3>1
    <3>3. d * m = c * m + m + m
      BY <1>2, <2>2
    <3> HIDE DEF d
    <3>4. d * m <= n * m
      BY ONLY <3>2, Multiples
    <3>5. i <= m - 1 /\ i \in Nat
      BY <1>2
    <3> QED BY <1>2, <1>3, <1>4, <2>1, <2>2, <3>3, <3>4, <3>5
  <2>4. n * m = c * m + m
    BY <2>2, <2>3
  <2> QED BY <1>2, <1>3, <1>4, <2>1, <2>2, <2>3, <2>4
<1>6. ~(position <= 1)
  <2> HIDE DEF n, m
  <2> QED BY <1>2, <1>3, <1>4
<1> QED BY <1>5, <1>6

LEMMA KeptIsAll ==
  ASSUME NEW recs \in Sources, recs # <<>>, Writable(recs), NEW j \in 1 .. Len(recs)
  PROVE  Kept(recs, recs[j]) = recs[j]
<1>1. recs[j] \in [Fields -> Values] /\ j \in DOMAIN recs
  BY SourceRecords
<1>2. \A f \in Fields : recs[j][f] # 0 => f \in Elements(Written(recs))
  BY <1>1 DEF Writable, Written
<1> QED BY <1>1, <1>2 DEF Kept

LEMMA SameSequence ==
  ASSUME NEW S, NEW T, NEW s \in Seq(S), NEW t \in Seq(T), Len(s) = Len(t),
         \A i \in 1 .. Len(s) : s[i] = t[i]
  PROVE  s = t
<1>1. /\ s = [i \in 1 .. Len(s) |-> s[i]]
      /\ t = [i \in 1 .. Len(t) |-> t[i]]
  BY LenProperties
<1> QED BY <1>1

LEMMA ReadIsDump ==
  ASSUME TypeOK, FileInv, PointerInv, ReadingInv
  PROVE  RoundTrip /\ OneOfManyIsOneCpu
<1> DEFINE recs == origin.recs
<1> SUFFICES ASSUME phase = "done", ~noMemory, origin.intact, Writable(origin.recs),
                    origin.mode \in {"one", "all"}
             PROVE  /\ origin.mode = "one" /\ into = "one" => raw = recs
                    /\ origin.mode = "all" /\ into = "all" =>
                         raw = recs /\ withAffinity /\ result = "ERR_OK"
                    /\ origin.mode = "all" /\ into = "one" =>
                         \E i \in DOMAIN recs : raw = <<recs[i]>>
  BY DEF RoundTrip, OneOfManyIsOneCpu, Reread
<1>1. recs # <<>> /\ recs \in Sources
  BY DEF FileInv, TypeOK
<1>2. /\ Len(recs) \in Nat \ {0} /\ Count(recs) \in Nat /\ Written(recs) \in Seq(Fields)
      /\ DOMAIN recs = 1 .. Len(recs) /\ recs \in Seq([Fields -> Values])
  BY <1>1, SourceRecords, ConstantsAssumption DEF Count
<1>3. position = Len(file) /\ (raw # <<>> => result = "ERR_OK") /\ raw \in Seq(Record)
  BY <1>1 DEF ReadingInv, TypeOK
<1>4. Spoiled = {}
  BY DEF Spoiled
<1>5. \A f \in Fields : Blank[f] = 0
  BY DEF Blank
<1>6. ASSUME NEW k \in 1 .. Len(raw), NEW j \in 1 .. Len(recs), NEW prev,
             \A f \in Fields : f \notin Elements(Written(recs)) => prev[f] = 0,
             Holds(recs, raw[k], prev, recs[j], Count(recs), Spoiled)
      PROVE  raw[k] = recs[j]
  <2> DEFINE r   == raw[k]
             rec == recs[j]
  <2>1. /\ r \in Record /\ Holds(recs, r, prev, rec, Count(recs), {}) /\ Written(recs) \in Seq(Fields)
        /\ \A f \in Fields : f \notin Elements(Written(recs)) => prev[f] = 0
    BY <1>2, <1>3, <1>4, <1>6, ElementOfSeq
  <2> HIDE DEF recs, r, rec
  <2>2. r = Kept(recs, rec)
    BY ONLY <2>1, HoldsAll
  <2>3. Kept(recs, recs[j]) = recs[j]
    BY <1>1, <1>6, KeptIsAll DEF recs
  <2> QED BY <2>2, <2>3 DEF r, rec
<1>7. ASSUME origin.mode = "one", into = "one" PROVE raw = recs
  <2>1. RecordOfOne /\ Len(recs) = 1 /\ Len(raw) = 1
    BY <1>1, <1>7 DEF ReadingInv, PointerInv
  <2>2. position = Count(recs) + 1
    BY <1>1, <1>3, <1>7, LinesOfOne DEF FileInv, FileIsDump, DumpOf, Count, Block
  <2>3. Holds(recs, raw[1], Blank, recs[1], Count(recs), Spoiled)
    BY <1>2, <2>1, <2>2 DEF RecordOfOne
  <2>4. raw[1] = recs[1]
    BY <1>5, <1>6, <2>1, <2>3
  <2> HIDE DEF recs
  <2> QED BY <1>2, <1>3, <2>1, <2>4, SameSequence
<1>8. ASSUME origin.mode = "all", into = "all"
      PROVE  raw = recs /\ withAffinity /\ result = "ERR_OK"
  <2>1. ArrayOfAll
    BY <1>1, <1>8 DEF ReadingInv
  <2>2. PICK c \in 0 .. Len(recs) - 1, i \in 0 .. Count(recs) :
           /\ position = LineOf(recs, c, i)
           /\ Len(raw) = c + 1 /\ rawPtr = c + 1 /\ ~isHeader /\ withAffinity
           /\ \A j \in 1 .. c : raw[j] = Kept(recs, recs[j])
           /\ Holds(recs, raw[c + 1], Blank, recs[c + 1], i, Spoiled)
    BY <1>1, <1>3, <1>8, <2>1, LastOfAll DEF ArrayOfAll
  <2>3. c = Len(recs) - 1 /\ i = Count(recs)
    BY <1>1, <1>3, <1>8, <2>2, LastOfAll
  <2>4. raw[c + 1] = recs[c + 1]
    <3>1. c + 1 \in 1 .. Len(raw) /\ c + 1 \in 1 .. Len(recs)
      BY <1>2, <2>2, <2>3
    <3> QED BY <1>5, <1>6, <2>2, <2>3, <3>1
  <2>5. Len(raw) = Len(recs) /\ \A j \in 1 .. Len(raw) : raw[j] = recs[j]
    <3>1. \A j \in 1 .. c : j \in 1 .. Len(recs)
      BY <1>2, <2>3
    <3>2. \A j \in 1 .. c : raw[j] = recs[j]
      BY <1>1, <2>2, <3>1, KeptIsAll
    <3>3. \A j \in 1 .. Len(raw) : j \in 1 .. c \/ j = c + 1
      BY <1>2, <2>2
    <3> QED BY <1>2, <2>2, <2>3, <2>4, <3>2, <3>3
  <2>6. raw = recs
    <3> HIDE DEF recs
    <3> QED BY <1>2, <1>3, <2>5, SameSequence
  <2> QED BY <1>1, <1>3, <2>2, <2>6
<1>9. ASSUME origin.mode = "all", into = "one"
      PROVE  \E i \in DOMAIN recs : raw = <<recs[i]>>
  <2>1. RecordOfAll /\ Len(raw) = 1
    BY <1>1, <1>9 DEF ReadingInv, PointerInv
  <2>2. PICK c \in 0 .. Len(recs) - 1, i \in 0 .. Count(recs) :
           /\ position = LineOf(recs, c, i)
           /\ Holds(recs, raw[1], RecordBefore(recs, c), recs[c + 1], i, Spoiled)
    BY <1>1, <1>3, <1>9, <2>1, LastOfAll DEF RecordOfAll
  <2>3. c = Len(recs) - 1 /\ i = Count(recs)
    BY <1>1, <1>3, <1>9, <2>2, LastOfAll
  <2>4. c + 1 \in DOMAIN recs /\ c + 1 \in 1 .. Len(recs) /\ 1 \in 1 .. Len(raw)
    BY <1>2, <2>1, <2>3
  <2>5. \A f \in Fields : f \notin Elements(Written(recs)) => RecordBefore(recs, c)[f] = 0
    BY <1>5 DEF RecordBefore, Kept
  <2>6. raw[1] = recs[c + 1]
    BY <1>6, <2>2, <2>3, <2>4, <2>5
  <2>7. raw = <<raw[1]>>
    BY <1>3, <2>1
  <2> QED BY <2>4, <2>6, <2>7
<1> QED BY <1>7, <1>8, <1>9

LEMMA ReadIsClean ==
  ASSUME TypeOK, FileInv, ReadingInv
  PROVE  TruncationIsClean
<1> DEFINE recs == origin.recs
<1> SUFFICES ASSUME origin.mode = "all", into = "all", phase \in {"reading", "done"}, ~noMemory,
                    Writable(origin.recs)
             PROVE  /\ Len(raw) <= Len(recs)
                    /\ \A i \in 1 .. Len(raw) - 1 : raw[i] = recs[i]
                    /\ \A i \in DOMAIN raw, f \in Fields :
                         \/ raw[i][f] \in {0, recs[i][f]}
                         \/ raw[i][f] = Cut /\ ~origin.intact /\ position = Len(file)
  BY DEF TruncationIsClean
<1>1. recs # <<>> /\ recs \in Sources
  BY DEF FileInv, TypeOK
<1>2. Len(recs) \in Nat \ {0} /\ DOMAIN raw = 1 .. Len(raw)
  BY <1>1, SourceRecords, LenProperties DEF TypeOK
<1>3. ArrayOfAll
  BY <1>1 DEF ReadingInv
<1>4. CASE raw = <<>>
  BY <1>2, <1>4
<1>5. ASSUME NEW c \in 0 .. Len(recs) - 1, NEW i \in 0 .. Count(recs), Len(raw) = c + 1,
             \A j \in 1 .. c : raw[j] = Kept(recs, recs[j]),
             Holds(recs, raw[c + 1], Blank, recs[c + 1], i, Spoiled)
      PROVE  /\ Len(raw) <= Len(recs)
             /\ \A j \in 1 .. Len(raw) - 1 : raw[j] = recs[j]
             /\ \A j \in DOMAIN raw, f \in Fields :
                  \/ raw[j][f] \in {0, recs[j][f]}
                  \/ raw[j][f] = Cut /\ ~origin.intact /\ position = Len(file)
  <2>1. \A j \in 1 .. c : j \in 1 .. Len(recs)
    BY <1>2
  <2>2. \A j \in 1 .. c : raw[j] = recs[j]
    BY <1>1, <1>5, <2>1, KeptIsAll
  <2>3. ASSUME NEW f \in Fields
        PROVE  \/ raw[c + 1][f] \in {0, recs[c + 1][f]}
               \/ raw[c + 1][f] = Cut /\ ~origin.intact /\ position = Len(file)
    BY <1>5 DEF Holds, Blank, Spoiled
  <2>4. /\ c + 1 <= Len(recs) /\ Len(raw) - 1 = c
        /\ \A j \in 1 .. Len(raw) : j \in 1 .. c \/ j = c + 1
    BY <1>2, <1>5
  <2> QED BY <1>2, <1>5, <2>2, <2>3, <2>4
<1> QED BY <1>3, <1>4, <1>5 DEF ArrayOfAll

(* What all the proofs about reading rest on. *)
ReaderInv == TypeOK /\ FileInv /\ PointerInv /\ ReadingInv

LEMMA ReaderInvHolds == Spec => []ReaderInv
<1>1. Init => ReaderInv
  <2>1. Init => PointerInv /\ ReadingInv
    BY DEF Init, PointerInv, Pointer, ReadingInv
  <2> QED BY <2>1, TypeInit DEF ReaderInv
<1>2. ReaderInv /\ [Next]_vars => ReaderInv'
  BY TypeStep, FileStep, PointerStep, ReadingStep DEF ReaderInv
<1> QED BY <1>1, <1>2, PTL DEF Spec

(* A dump read back is what was written, for records with any number of    *)
(* fields and for as many CPUs as logical_cpu_t can count.                 *)
THEOREM RoundTripHolds == Spec => []RoundTrip
<1>1. ReaderInv => RoundTrip
  BY ReadIsDump DEF ReaderInv
<1> QED BY <1>1, ReaderInvHolds, PTL

(* A dump of all CPUs read into one record gives one of the CPUs, although *)
(* every line of every CPU is stored into that record: each CPU's lines    *)
(* are the same fields and overwrite all of the one before.                *)
THEOREM OneOfManyHolds == Spec => []OneOfManyIsOneCpu
<1>1. ReaderInv => OneOfManyIsOneCpu
  BY ReadIsDump DEF ReaderInv
<1> QED BY <1>1, ReaderInvHolds, PTL

(* Wherever a dump was cut, no record mixes the registers of two CPUs, and *)
(* only the last record read is incomplete.                                *)
THEOREM TruncationHolds == Spec => []TruncationIsClean
<1>1. ReaderInv => TruncationIsClean
  BY ReadIsClean DEF ReaderInv
<1> QED BY <1>1, ReaderInvHolds, PTL

----------------------------------------------------------------------------
(* The dumps of AIDA64.  The CPUs named so far, how many are named before  *)
(* one of them, and the lines read of it.                                  *)

Seen    == {p \in CpuLines : p <= position}
Rank(p) == Cardinality({q \in CpuLines : q < p})
UpTo(p) == {q \in LinesOf(p) : q <= position}
(* What AidaNumbering asks of a file. *)
Numbered == Ascending /\ Recognised /\ Cardinality(CpuLines) < CpuMod

(* Up to the line that ends the header nothing has been read.              *)
HeaderInv ==
  /\ \A p \in 1 .. position : file[p].kind # "dashes"
  /\ phase = "start" => isHeader
  /\ isHeader =>
       raw = <<>> /\ rawPtr = 0 /\ format = "libcpuid" /\ \A p \in 1 .. position : ~StartsAida(file[p])
  /\ phase = "done" => position = Len(file) \/ file[position + 1].kind = "dashes"

(* After the first CPU the records are those of the CPUs named so far, in  *)
(* order; raw_ptr is the last of them.                                     *)
Begun ==
  Seen # {} =>
    /\ withAffinity /\ First \in Seen /\ offset = NumberRead(file[First])
    /\ \A c \in CpuLines : First <= c
InOrder ==
  /\ Len(raw) = Cardinality(Seen) /\ rawPtr = Cardinality(Seen)
  /\ Seen = {} => offset = 0
  /\ Begun
  /\ \A p \in Seen, f \in Fields : raw[Rank(p) + 1][f] = ValueIn(UpTo(p), f)

AidaInv ==
  into = "all" => HeaderInv /\ (format = "aida64" /\ Numbered /\ ~noMemory => InOrder)

LEMMA SameFile ==
  ASSUME file' = file
  PROVE  /\ Body' = Body /\ CpuLines' = CpuLines /\ First' = First /\ (Numbered' <=> Numbered)
         /\ \A p : Rank(p)' = Rank(p) /\ LinesOf(p)' = LinesOf(p)
         /\ \A S, f : ValueIn(S, f)' = ValueIn(S, f)
<1>1. Body' = Body
  BY DEF Body
<1>2. CpuLines' = CpuLines
  BY <1>1 DEF CpuLines
<1>3. First' = First
  BY <1>2 DEF First
<1>4. Ascending' <=> Ascending
  BY <1>2, <1>3 DEF Ascending
<1>5. Recognised' <=> Recognised
  BY <1>2 DEF Recognised, StartsAida
<1>6. Numbered' <=> Numbered
  BY <1>2, <1>4, <1>5, Zenon DEF Numbered
<1>7. \A p : Rank(p)' = Rank(p)
  BY <1>2 DEF Rank
<1>8. \A p : LinesOf(p)' = LinesOf(p)
  BY <1>1, <1>2 DEF LinesOf
<1>9. \A S, f : ValueIn(S, f)' = ValueIn(S, f)
  BY DEF ValueIn
<1>10. QED
  BY <1>1, <1>2, <1>3, <1>6, <1>7, <1>8, <1>9

LEMMA SeenIsFinite ==
  ASSUME TypeOK
  PROVE  /\ CpuLines \subseteq 1 .. Len(file) /\ IsFiniteSet(CpuLines)
         /\ Seen \subseteq CpuLines /\ IsFiniteSet(Seen) /\ Cardinality(Seen) \in Nat
         /\ \A p : IsFiniteSet({q \in CpuLines : q < p}) /\ Rank(p) \in Nat
<1>1. Len(file) \in Nat /\ CpuLines \subseteq 1 .. Len(file)
  BY LenProperties DEF TypeOK, CpuLines, Body
<1>2. IsFiniteSet(CpuLines)
  <2>1. IsFiniteSet(1 .. Len(file))
    BY <1>1, FS_Interval
  <2>2. QED
    BY ONLY <1>1, <2>1, FS_Subset
<1>3. Seen \subseteq CpuLines /\ IsFiniteSet(Seen)
  BY <1>2, FS_Subset DEF Seen
<1>4. \A p : IsFiniteSet({q \in CpuLines : q < p})
  <2>1. \A p : {q \in CpuLines : q < p} \in SUBSET CpuLines
    OBVIOUS
  <2>2. QED
    BY <1>2, <2>1, FS_Subset
<1>5. \A p : Rank(p) \in Nat
  BY <1>4, FS_CardinalityType DEF Rank
<1>6. Cardinality(Seen) \in Nat
  BY <1>3, FS_CardinalityType
<1>7. QED
  BY <1>1, <1>2, <1>3, <1>4, <1>5, <1>6

(* The rank of a CPU among those seen. *)
LEMMA RankIs ==
  ASSUME TypeOK, NEW p \in Seen
  PROVE  /\ Rank(p) + 1 \in 1 .. Cardinality(Seen)
         /\ Rank(p) + 1 = Cardinality(Seen) <=> \A c \in Seen : c <= p
<1> DEFINE before == {q \in CpuLines : q < p}
           upTo   == before \union {p}
<1>1. /\ Seen \subseteq CpuLines /\ CpuLines \subseteq Int /\ p \in Int
      /\ IsFiniteSet(before) /\ IsFiniteSet(Seen) /\ Cardinality(Seen) \in Nat /\ Rank(p) \in Nat
  <2>1. /\ Seen \subseteq CpuLines /\ CpuLines \subseteq 1 .. Len(file)
        /\ IsFiniteSet(Seen) /\ Cardinality(Seen) \in Nat
    BY SeenIsFinite
  <2>2. IsFiniteSet(before) /\ Rank(p) \in Nat
    BY SeenIsFinite
  <2> HIDE DEF before
  <2>3. QED
    BY <2>1, <2>2
<1>2. upTo \subseteq Seen
  <2>1. position \in Int
    BY DEF TypeOK
  <2>2. p <= position
    BY DEF Seen
  <2>3. \A q \in CpuLines : q < p => q \in Seen
    BY <1>1, <2>1, <2>2 DEF Seen
  <2>4. QED
    BY <2>3
<1>3. Cardinality(upTo) = Rank(p) + 1
  <2>1. p \notin before
    BY <1>1
  <2>2. QED
    BY <1>1, <2>1, FS_AddElement DEF Rank
<1>4. upTo = Seen <=> \A c \in Seen : c <= p
  <2>1. ASSUME upTo = Seen, NEW c \in Seen PROVE c <= p
    <3>1. c \in upTo
      BY <2>1
    <3>2. QED
      BY <1>1, <3>1
  <2>2. ASSUME \A c \in Seen : c <= p, NEW c \in Seen PROVE c \in upTo
    BY <1>1, <2>2
  <2>3. QED
    BY <1>2, <2>1, <2>2
<1> HIDE DEF upTo
<1>5. Cardinality(upTo) <= Cardinality(Seen) /\ (Cardinality(upTo) = Cardinality(Seen) <=> upTo = Seen)
  BY <1>1, <1>2, FS_Subset
<1>6. QED
  BY <1>1, <1>3, <1>4, <1>5

(* A line that names a CPU. *)
LEMMA OnName ==
  ASSUME TypeOK, HeaderInv, MoreLines, ThisLine.kind \in {"aidaCpu", "aidaRegisters"},
         position' = position + 1, file' = file, NEW P, P = position + 1
  PROVE  /\ P \in CpuLines /\ Seen' = Seen \union {P} /\ P \notin Seen
         /\ Rank(P) = Cardinality(Seen) /\ Cardinality(Seen') = Cardinality(Seen) + 1
         /\ \A p \in Seen : UpTo(p)' = UpTo(p) /\ Rank(p) < Cardinality(Seen)
         /\ UpTo(P)' = {}
<1>1. /\ P \in 1 .. Len(file) /\ Len(file) \in Nat /\ position \in Nat /\ ThisLine = file[P]
      /\ DOMAIN file = 1 .. Len(file) /\ ThisLine.kind # "dashes"
  BY ThisLineIs, LenProperties DEF TypeOK, MoreLines
<1>2. P \in CpuLines
  <2>1. \A q \in 1 .. P : q \in 1 .. position \/ q = P
    BY <1>1
  <2>2. \A q \in 1 .. P : file[q].kind # "dashes"
    BY <1>1, <2>1 DEF HeaderInv
  <2>3. QED
    BY <1>1, <2>2 DEF CpuLines, Body
<1>3. CpuLines \subseteq Int /\ IsFiniteSet(Seen) /\ CpuLines' = CpuLines
  BY SeenIsFinite, SameFile
<1>s. /\ \A q \in CpuLines : (q <= P <=> q <= position \/ q = P) /\ (q < P <=> q <= position)
      /\ ~(P <= position)
  BY <1>1, <1>3
<1>4. Seen' = Seen \union {P} /\ P \notin Seen
  <2>1. Seen' = {q \in CpuLines : q <= P}
    BY <1>3 DEF Seen
  <2>2. QED
    BY <1>2, <1>s, <2>1 DEF Seen
<1>5. {q \in CpuLines : q < P} = Seen
  <2>1. QED
    BY <1>s DEF Seen
<1>6. Rank(P) = Cardinality(Seen)
  BY <1>5 DEF Rank
<1>7. Cardinality(Seen') = Cardinality(Seen) + 1
  BY <1>3, <1>4, FS_AddElement
<1>8. ASSUME NEW p \in Seen PROVE UpTo(p)' = UpTo(p) /\ Rank(p) < Cardinality(Seen)
  <2>1. p \in CpuLines /\ p <= position /\ p < P
    BY <1>s DEF Seen
  <2>2. LinesOf(p)' = LinesOf(p) /\ \A q \in LinesOf(p) : q < P /\ q \in Int
    <3>1. LinesOf(p)' = LinesOf(p)
      BY SameFile
    <3>2. \A q \in LinesOf(p) : q \in Body /\ (P <= p \/ P > q)
      BY <1>2 DEF LinesOf
    <3>3. Body \subseteq Int
      BY <1>1 DEF Body
    <3>4. p \in Int /\ ~(P <= p)
      BY <1>1, <1>3, <2>1
    <3>5. QED
      BY <1>1, <3>1, <3>2, <3>3, <3>4
  <2>3. UpTo(p)' = UpTo(p)
    BY <1>1, <2>2 DEF UpTo
  <2>4. Rank(p) + 1 \in 1 .. Cardinality(Seen) /\ Rank(p) \in Nat
    BY RankIs, SeenIsFinite
  <2>5. QED
    BY <2>3, <2>4, SeenIsFinite
<1>9. UpTo(P)' = {}
  <2>1. LinesOf(P)' = LinesOf(P) /\ \A q \in LinesOf(P) : q > P /\ q \in Int
    <3>1. LinesOf(P)' = LinesOf(P)
      BY SameFile
    <3>2. \A q \in LinesOf(P) : q \in Body /\ q > P
      BY DEF LinesOf
    <3>3. Body \subseteq Int
      BY <1>1 DEF Body
    <3>4. QED
      BY <3>1, <3>2, <3>3
  <2>2. QED
    BY <1>1, <2>1 DEF UpTo
<1>10. QED
  BY <1>2, <1>4, <1>6, <1>7, <1>8, <1>9

(* Any other line belongs to the last CPU named. *)
LEMMA OnOther ==
  ASSUME TypeOK, HeaderInv, MoreLines, ThisLine.kind \notin {"aidaCpu", "aidaRegisters"},
         position' = position + 1, file' = file, NEW P, P = position + 1
  PROVE  /\ Seen' = Seen
         /\ \A p \in Seen :
              /\ Rank(p) + 1 = Cardinality(Seen) => UpTo(p)' = UpTo(p) \union {P}
              /\ Rank(p) + 1 # Cardinality(Seen) => UpTo(p)' = UpTo(p)
              /\ \A q \in UpTo(p) : q \in Int /\ q < P
<1>1. /\ P \in 1 .. Len(file) /\ Len(file) \in Nat /\ position \in Nat /\ ThisLine = file[P]
      /\ DOMAIN file = 1 .. Len(file) /\ ThisLine.kind # "dashes"
  BY ThisLineIs, LenProperties DEF TypeOK, MoreLines
<1>2. P \notin CpuLines /\ P \in Body
  <2>1. \A q \in 1 .. P : q \in 1 .. position \/ q = P
    BY <1>1
  <2>2. \A q \in 1 .. P : file[q].kind # "dashes"
    BY <1>1, <2>1 DEF HeaderInv
  <2>3. QED
    BY <1>1, <2>2 DEF CpuLines, Body
<1>3. CpuLines \subseteq Int /\ CpuLines' = CpuLines
  BY SeenIsFinite, SameFile
<1>s. \A q \in CpuLines : (q <= P <=> q <= position) /\ (q > P <=> ~(q <= position))
  BY <1>1, <1>2, <1>3
<1>4. Seen' = Seen
  <2>1. Seen' = {q \in CpuLines : q <= P}
    BY <1>3 DEF Seen
  <2>2. QED
    BY <1>s, <2>1 DEF Seen
<1>5. ASSUME NEW p \in Seen
      PROVE  /\ Rank(p) + 1 = Cardinality(Seen) => UpTo(p)' = UpTo(p) \union {P}
             /\ Rank(p) + 1 # Cardinality(Seen) => UpTo(p)' = UpTo(p)
             /\ \A q \in UpTo(p) : q \in Int /\ q < P
  <2>1. p \in CpuLines /\ p <= position /\ p < P /\ p \in Int
    BY <1>1, <1>3 DEF Seen
  <2>2. LinesOf(p)' = LinesOf(p) /\ LinesOf(p) \subseteq Int
    BY <1>1, SameFile DEF LinesOf, Body
  <2>3. P \in LinesOf(p) <=> \A c \in Seen : c <= p
    <3>1. P \in LinesOf(p) <=> \A c \in CpuLines : c <= p \/ c > P
      BY <1>2, <2>1 DEF LinesOf
    <3>2. \A c \in CpuLines : c \in Seen \/ c > P
      BY <1>s DEF Seen
    <3>3. \A c \in Seen : c \in CpuLines /\ ~(c > P)
      BY <1>s DEF Seen
    <3>4. QED
      BY <3>1, <3>2, <3>3
  <2>4. UpTo(p)' = UpTo(p) \union (IF P \in LinesOf(p) THEN {P} ELSE {})
    BY <1>1, <2>2 DEF UpTo
  <2>5. \A q \in UpTo(p) : q \in Int /\ q < P
    BY <1>1, <2>2 DEF UpTo
  <2>6. Rank(p) + 1 = Cardinality(Seen) <=> P \in LinesOf(p)
    BY <2>3, RankIs
  <2>7. QED
    BY <2>4, <2>5, <2>6
<1>6. QED
  BY <1>4, <1>5

(* The last line that sets a field counts. *)
LEMMA ValueNone ==
  ASSUME NEW f
  PROVE  ValueIn({}, f) = 0
BY DEF ValueIn

LEMMA ValueSet ==
  ASSUME NEW S, NEW f, NEW P \in Int, \A q \in S : q \in Int /\ q < P,
         file[P].kind = "aidaReg", f \in file[P].fields
  PROVE  ValueIn(S \union {P}, f) = file[P].value
<1> DEFINE setting == {q \in S \union {P} : file[q].kind = "aidaReg" /\ f \in file[q].fields}
           Last(q) == q \in setting /\ \A r \in setting : r <= q
<1>1. Last(P)
  OBVIOUS
<1>2. \A q : Last(q) => q = P
  OBVIOUS
<1>3. ValueIn(S \union {P}, f) = file[CHOOSE q \in setting : \A r \in setting : r <= q].value
  BY <1>1 DEF ValueIn
<1>4. (CHOOSE q \in setting : \A r \in setting : r <= q) = P
  <2>1. (CHOOSE q : Last(q)) = P
    <3> HIDE DEF Last
    <3>1. QED
      BY <1>1, <1>2
  <2>2. QED
    BY <2>1
<1>5. QED
  BY <1>3, <1>4

LEMMA ValueKept ==
  ASSUME NEW S, NEW f, NEW P, ~(file[P].kind = "aidaReg" /\ f \in file[P].fields)
  PROVE  ValueIn(S \union {P}, f) = ValueIn(S, f)
<1> DEFINE Setting(T) == {q \in T : file[q].kind = "aidaReg" /\ f \in file[q].fields}
<1>1. Setting(S \union {P}) = Setting(S)
  OBVIOUS
<1>2. \A T : ValueIn(T, f) = IF Setting(T) = {} THEN 0
                             ELSE file[CHOOSE q \in Setting(T) : \A r \in Setting(T) : r <= q].value
  BY DEF ValueIn
<1> HIDE DEF Setting
<1>3. QED
  BY <1>1, <1>2

LEMMA HeaderStep ==
  TypeOK /\ FileInv /\ PointerInv /\ (into = "all" => HeaderInv) /\ [Next]_vars
    => (into' = "all" => HeaderInv')
<1> SUFFICES ASSUME TypeOK, FileInv, PointerInv, into = "all" => HeaderInv, [Next]_vars, into' = "all"
             PROVE  HeaderInv'
  OBVIOUS
<1>n. position \in Nat /\ Len(file) \in Nat
  BY LenProperties DEF TypeOK
<1>1. CASE UNCHANGED <<file, into, position, isHeader, format, rawPtr, raw>> /\ phase' \notin {"start", "done"}
  BY <1>1 DEF HeaderInv, StartsAida
<1>2. ASSUME NEW mode \in {"one", "all"}, NEW s \in Sources, Serialize(mode, s) PROVE HeaderInv'
  <2>1. file = <<>> /\ Len(<<>>) = 0 /\ phase = "start"
    BY <1>2, EmptySeq DEF FileInv, Serialize
  <2>2. position = 0 /\ position' = 0
    BY <1>2, <2>1 DEF TypeOK, Serialize, reader
  <2>3. \A p : p \notin 1 .. position'
    BY <2>2
  <2>4. /\ phase' = "written" /\ UNCHANGED <<into, isHeader, format, rawPtr, raw>>
    BY <1>2 DEF Serialize, reader
  <2>5. QED
    BY <2>3, <2>4 DEF HeaderInv
<1>3. ASSUME NEW s \in Sources, SerializeNothing(s) PROVE HeaderInv'
  BY <1>1, <1>3 DEF SerializeNothing, reader
<1>4. ASSUME NEW target \in {"one", "all"}, Deserialize(target) PROVE HeaderInv'
  <2>1. position' = 0 /\ phase' = "reading" /\ isHeader' = TRUE /\ format' = "libcpuid"
        /\ raw' = <<>> /\ rawPtr' = 0
    BY <1>4 DEF Deserialize
  <2>2. \A p : p \notin 1 .. position'
    BY <2>1
  <2>3. QED
    BY <2>1, <2>2 DEF HeaderInv
<1>5. CASE OpenFails
  BY <1>1, <1>5 DEF OpenFails, reader
<1>6. CASE Overrun
  BY <1>1, <1>6 DEF Overrun
<1>7. ASSUME MoreLines, NextLine, isHeader' => /\ isHeader /\ raw' = raw /\ rawPtr' = rawPtr
                                               /\ format' = "libcpuid" /\ ~StartsAida(ThisLine)
      PROVE  HeaderInv'
  <2>1. /\ position' = position + 1 /\ file' = file /\ into' = into /\ phase' = phase /\ phase = "reading"
        /\ ThisLine.kind # "dashes" /\ ThisLine = file[position + 1]
    BY <1>7 DEF NextLine, MoreLines, ThisLine
  <2>2. \A p \in 1 .. position' : p \in 1 .. position \/ p = position + 1
    BY <1>n, <2>1
  <2>3. HeaderInv
    BY <2>1
  <2>4. \A p \in 1 .. position' : file'[p].kind # "dashes"
    BY <2>1, <2>2, <2>3 DEF HeaderInv
  <2>5. isHeader' => \A p \in 1 .. position' : ~StartsAida(file'[p])
    BY <1>7, <2>1, <2>2, <2>3 DEF HeaderInv
  <2>6. isHeader' => raw' = <<>> /\ rawPtr' = 0 /\ format' = "libcpuid"
    BY <1>7, <2>3 DEF HeaderInv
  <2>7. QED
    BY <2>1, <2>4, <2>5, <2>6 DEF HeaderInv, StartsAida
<1>8. CASE SelectCpu
  BY <1>7, <1>8 DEF SelectCpu
<1>9. CASE SelectAidaCpu
  BY <1>7, <1>9 DEF SelectAidaCpu
<1>10. CASE BeginSingle
  BY <1>7, <1>10 DEF BeginSingle
<1>11. CASE AssignRegister
  <2>1. rawPtr \in DOMAIN raw /\ into = "all" /\ DOMAIN raw = 1 .. Len(raw)
    BY <1>11, LenProperties DEF AssignRegister, NextLine, TypeOK
  <2>2. ~isHeader
    <3>1. isHeader => raw = <<>> /\ Len(raw) = 0
      BY <2>1, EmptySeq DEF HeaderInv
    <3>2. QED
      BY <2>1, <3>1
  <2>3. QED
    BY <1>7, <1>11, <2>2 DEF AssignRegister
<1>12. CASE SkipLine
  <2>1. isHeader' => isHeader /\ ~StartsAida(ThisLine)
    BY <1>12 DEF SkipLine
  <2>2. isHeader => format = "libcpuid"
    BY <1>12 DEF HeaderInv, SkipLine, NextLine
  <2>3. isHeader' => format' = "libcpuid"
    BY <1>12, <2>1, <2>2 DEF SkipLine, FormatOf
  <2>4. QED
    BY <1>7, <1>12, <2>1, <2>3 DEF SkipLine
<1>13. CASE EndOfDump
  <2>1. /\ UNCHANGED <<file, into, position, isHeader, format, rawPtr, raw>> /\ phase' = "done"
        /\ phase = "reading" /\ ~MoreLines
    BY <1>13 DEF EndOfDump, reader
  <2>2. position = Len(file) \/ file[position + 1].kind = "dashes"
    BY <1>n, <2>1 DEF MoreLines, ThisLine, TypeOK
  <2>3. QED
    BY <2>1, <2>2 DEF HeaderInv, StartsAida
<1>14. CASE UNCHANGED vars
  BY <1>14 DEF vars, HeaderInv, StartsAida
<1>15. QED
  BY <1>2, <1>3, <1>4, <1>5, <1>6, <1>8, <1>9, <1>10, <1>11, <1>12, <1>13, <1>14 DEF Next, ReadLine

(* Numbers. *)
LEMMA DivisionIs ==
  ASSUME NEW n \in Int, NEW w \in Nat \ {0}
  PROVE  n = w * (n \div w) + (n % w) /\ n \div w \in Int /\ n % w \in 0 .. w - 1
<1>1. n = w * (n \div w) + (n % w)
  OBVIOUS
<1>2. n \div w \in Int /\ n % w \in 0 .. w - 1
  OBVIOUS
<1>3. QED
  BY <1>1, <1>2

LEMMA Remainder ==
  ASSUME NEW w \in Nat \ {0}, NEW q \in Int, NEW d \in 0 .. w - 1
  PROVE  (w * q + d) % w = d
<1> DEFINE n == w * q + d
           p == n \div w
           r == n % w
<1>1. n \in Int
  OBVIOUS
<1>2. n = w * (n \div w) + (n % w) /\ n \div w \in Int /\ n % w \in 0 .. w - 1
  <2> HIDE DEF n
  <2>1. QED
    BY <1>1, DivisionIs
<1>3. w * p + r = w * q + d /\ p \in Int /\ r \in 0 .. w - 1
  BY <1>2
<1> HIDE DEF p, r, n
<1>4. w * (p - q) = d - r
  BY <1>3
<1>5. CASE p - q >= 1
  <2>1. w * (p - q) >= w
    BY <1>3, <1>5
  <2>2. QED
    BY <1>3, <1>4, <2>1
<1>6. CASE p - q <= -1
  <2>1. w * (p - q) <= -w
    BY <1>3, <1>6
  <2>2. QED
    BY <1>3, <1>4, <2>1
<1>7. CASE p - q = 0
  <2>1. r = d
    BY <1>3, <1>7
  <2>2. QED
    BY <2>1 DEF r, n
<1>8. QED
  BY <1>3, <1>5, <1>6, <1>7

(* The number of a CPU, less that of the first one, is its place. *)
LEMMA NumberIs ==
  ASSUME NEW first \in Int, NEW n \in 0 .. CpuMod - 1
  PROVE  (((first + n) % CpuMod) - (first % CpuMod)) % CpuMod = n
<1> DEFINE p == (first + n) \div CpuMod
           q == first \div CpuMod
           r == (first + n) % CpuMod
           s == first % CpuMod
<1>1. CpuMod \in Nat \ {0} /\ CpuMod \in Int /\ n \in Int /\ first + n \in Int
  BY Numbers
<1>2. first + n = CpuMod * p + r /\ p \in Int /\ r \in 0 .. CpuMod - 1
  BY <1>1, DivisionIs
<1>3. first = CpuMod * q + s /\ q \in Int /\ s \in 0 .. CpuMod - 1
  BY <1>1, DivisionIs
<1> HIDE DEF p, q, r, s
<1>4. r - s = CpuMod * (q - p) + n
  <2> DEFINE P == CpuMod * p
             Q == CpuMod * q
  <2>1. P \in Int /\ Q \in Int /\ CpuMod * (q - p) = Q - P
    BY <1>1, <1>2, <1>3
  <2>2. first + n = P + r /\ first = Q + s
    BY <1>2, <1>3
  <2> HIDE DEF P, Q
  <2>3. r - s = (Q - P) + n
    <3>1. r \in Int /\ s \in Int
      BY <1>1, <1>2, <1>3
    <3>2. QED
      BY <1>1, <2>1, <2>2, <3>1
  <2>4. QED
    BY <2>1, <2>3
<1>5. (CpuMod * (q - p) + n) % CpuMod = n
  <2>1. q - p \in Int
    BY <1>2, <1>3
  <2>2. QED
    BY <1>1, <2>1, Remainder
<1>6. (r - s) % CpuMod = n
  BY <1>4, <1>5
<1>7. QED
  BY <1>6 DEF r, s

(* Before the first line of AIDA64 no CPU is named. *)
LEMMA Fresh ==
  ASSUME TypeOK, HeaderInv, isHeader, Recognised
  PROVE  Seen = {} /\ raw = <<>> /\ rawPtr = 0
<1>1. raw = <<>> /\ rawPtr = 0 /\ \A p \in 1 .. position : ~StartsAida(file[p])
  BY DEF HeaderInv
<1>2. PICK p \in DOMAIN file : StartsAida(file[p]) /\ \A c \in CpuLines : p <= c
  BY DEF Recognised
<1>3. DOMAIN file = 1 .. Len(file) /\ Len(file) \in Nat /\ position \in Nat
  BY LenProperties DEF TypeOK
<1>4. p \notin 1 .. position
  BY <1>1, <1>2
<1>5. ASSUME NEW c \in Seen PROVE FALSE
  <2>1. c \in CpuLines /\ c <= position /\ p <= c /\ c \in Int
    BY <1>2, SeenIsFinite DEF Seen
  <2>2. QED
    BY <1>2, <1>3, <1>4, <2>1
<1>6. QED
  BY <1>1, <1>5

(* What has been read when a line of AIDA64 is dispatched. *)
LEMMA OrderNow ==
  ASSUME TypeOK, PointerInv, AidaInv, into = "all", FormatOf(ThisLine) = "aida64",
         Numbered, ~noMemory
  PROVE  HeaderInv /\ InOrder
<1>1. HeaderInv
  BY DEF AidaInv
<1>2. CASE format = "aida64"
  BY <1>1, <1>2 DEF AidaInv
<1>3. CASE format # "aida64"
  <2>1. isHeader /\ format = "libcpuid" /\ offset = 0
    BY <1>3 DEF FormatOf, TypeOK, PointerInv, Pointer
  <2>2. Seen = {} /\ raw = <<>> /\ rawPtr = 0
    BY <1>1, <2>1, Fresh DEF Numbered
  <2>3. Cardinality(Seen) = 0 /\ Len(raw) = 0
    BY <2>2, FS_EmptySet, EmptySeq
  <2>4. QED
    BY <1>1, <2>1, <2>2, <2>3 DEF InOrder, Begun
<1>4. QED
  BY <1>2, <1>3

(* The first CPU, when a line names one. *)
LEMMA FirstIs ==
  ASSUME TypeOK, HeaderInv, InOrder, MoreLines, ThisLine.kind \in {"aidaCpu", "aidaRegisters"},
         position' = position + 1, file' = file, NEW P, P = position + 1
  PROVE  /\ First \in Seen' /\ \A c \in CpuLines : First <= c
         /\ OffsetAfter(NumberRead(ThisLine)) = NumberRead(file[First])
<1>1. /\ P \in CpuLines /\ Seen' = Seen \union {P} /\ position \in Nat /\ ThisLine = file[P]
      /\ CpuLines \subseteq Int /\ ThisLine \in Line
  <2>1. P \in CpuLines /\ Seen' = Seen \union {P}
    BY OnName
  <2>2. position \in Nat /\ ThisLine = file[P] /\ CpuLines \subseteq Int /\ ThisLine \in Line
    BY ThisLineIs, SeenIsFinite
  <2>3. QED
    BY <2>1, <2>2
<1>2. CASE Seen = {}
  <2> DEFINE Least(p) == p \in CpuLines /\ \A q \in CpuLines : p <= q
  <2>1. \A c \in CpuLines : P <= c
    <3>1. \A c \in CpuLines : ~(c <= position)
      BY <1>2 DEF Seen
    <3>2. QED
      BY <1>1, <3>1
  <2>2. Least(P) /\ \A p : Least(p) => p = P
    <3>1. \A p \in CpuLines : P <= p /\ p <= P => p = P
      BY <1>1
    <3>2. QED
      BY <1>1, <2>1, <3>1
  <2>3. First = P
    <3>1. First = CHOOSE p : Least(p)
      BY DEF First
    <3> HIDE DEF Least
    <3>2. QED
      BY <2>2, <3>1
  <2>4. offset = 0 /\ raw = <<>>
    <3>1. offset = 0 /\ Len(raw) = 0
      BY <1>2, FS_EmptySet DEF InOrder
    <3>2. QED
      BY <3>1, EmptySeq DEF TypeOK
  <2>5. NumberRead(ThisLine) \in 0 .. CpuMod - 1
    BY <1>1, CpuOfLine
  <2>6. OffsetAfter(NumberRead(ThisLine)) = NumberRead(ThisLine)
    BY <2>4, <2>5, Numbers DEF OffsetAfter
  <2>7. QED
    BY <1>1, <2>1, <2>3, <2>6
<1>3. CASE Seen # {}
  <2>1. First \in Seen /\ offset = NumberRead(file[First]) /\ \A c \in CpuLines : First <= c
    BY <1>3 DEF InOrder, Begun
  <2>2. raw # <<>>
    <3>1. Cardinality(Seen) # 0
      BY <1>3, SeenIsFinite, FS_EmptySet
    <3>2. QED
      BY <3>1, EmptySeq DEF InOrder
  <2>3. QED
    BY <1>1, <2>1, <2>2 DEF OffsetAfter
<1>4. QED
  BY <1>2, <1>3

LEMMA ValueLater ==
  ASSUME file' = file, NEW p, NEW S, UpTo(p)' = S, NEW f
  PROVE  ValueIn(UpTo(p), f)' = ValueIn(S, f)
BY DEF ValueIn

(* A CPU is named: it gets the next record, a blank one. *)
LEMMA NameStep ==
  ASSUME TypeOK, PointerInv, AidaInv, SelectAidaCpu, Numbered, ~noMemory'
  PROVE  InOrder'
<1>p. PICK P : P = position + 1
  OBVIOUS
<1> DEFINE n == Cardinality(Seen)
           cpu == (NumberRead(ThisLine) - OffsetAfter(NumberRead(ThisLine))) % CpuMod
<1>1. /\ MoreLines /\ into = "all" /\ FormatOf(ThisLine) = "aida64"
      /\ ThisLine.kind \in {"aidaCpu", "aidaRegisters"}
      /\ position' = position + 1 /\ file' = file /\ withAffinity' = TRUE
      /\ offset' = OffsetAfter(NumberRead(ThisLine)) /\ Grow(LengthFor(cpu)) /\ rawPtr' = cpu + 1
  BY DEF SelectAidaCpu, SelectsAidaCpu, NextLine
<1>2. cpu \in 0 .. CpuMod - 1
  <2>1. NumberRead(ThisLine) \in 0 .. CpuMod - 1 /\ ThisLine \in Line
    BY <1>1, ThisLineIs, CpuOfLine
  <2>2. OffsetAfter(NumberRead(ThisLine)) \in 0 .. CpuMod - 1
    BY <2>1 DEF OffsetAfter, TypeOK
  <2>3. NumberRead(ThisLine) - OffsetAfter(NumberRead(ThisLine)) \in Int
    BY <2>1, <2>2, Numbers
  <2>4. QED
    BY <2>3, Numbers
<1>3. ~noMemory /\ raw' = Grown(LengthFor(cpu))
  <2> HIDE DEF cpu
  <2>1. QED
    BY <1>1, <1>2, GrowIs
<1>4. HeaderInv /\ InOrder
  BY <1>1, <1>3, OrderNow
<1>5. /\ P \in CpuLines /\ Seen' = Seen \union {P} /\ P \notin Seen
      /\ Rank(P) = n /\ Cardinality(Seen') = n + 1
      /\ \A p \in Seen : UpTo(p)' = UpTo(p)
      /\ UpTo(P)' = {}
  BY <1>p, <1>1, <1>4, OnName
<1>6. /\ First \in Seen' /\ \A c \in CpuLines : First <= c
      /\ offset' = NumberRead(file[First])
  BY <1>p, <1>1, <1>4, FirstIs
<1>7. n \in Nat /\ n + 1 < CpuMod /\ n \in 0 .. CpuMod - 1
  <2>1. /\ Seen \subseteq CpuLines /\ IsFiniteSet(CpuLines) /\ n \in Nat
    BY SeenIsFinite
  <2>2. Cardinality(Seen') <= Cardinality(CpuLines) /\ Cardinality(CpuLines) \in Nat
    <3>1. Seen' \subseteq CpuLines
      BY <1>5, <2>1
    <3>2. QED
      BY ONLY <2>1, <3>1, FS_Subset, FS_CardinalityType
  <2>3. Cardinality(CpuLines) < CpuMod
    BY DEF Numbered
  <2> HIDE DEF n
  <2>4. QED
    BY <1>5, <2>1, <2>2, <2>3, Numbers
<1>8. cpu = n
  <2>1. ThisLine = file[P] /\ ThisLine \in Line
    BY <1>p, <1>1, ThisLineIs
  <2>2. file[P].n = file[First].n + n
    BY <1>5 DEF Numbered, Ascending, Rank
  <2>3. file[First].n \in Int
    <3>1. First \in 1 .. Len(file)
      BY <1>5, <1>6, SeenIsFinite
    <3>2. file[First] \in Line
      BY <3>1, ElementOfSeq DEF TypeOK
    <3>3. QED
      BY <3>2 DEF Line
  <2>4. (((file[First].n + n) % CpuMod) - (file[First].n % CpuMod)) % CpuMod = n
    <3> HIDE DEF n
    <3>1. QED
      BY <1>7, <2>3, NumberIs
  <2>5. OffsetAfter(NumberRead(ThisLine)) = file[First].n % CpuMod
    BY <1>1, <1>6 DEF NumberRead
  <2>6. NumberRead(ThisLine) = (file[First].n + n) % CpuMod
    BY <2>1, <2>2 DEF NumberRead
  <2>7. QED
    BY <2>4, <2>5, <2>6
<1> HIDE DEF cpu
<1>9. /\ Len(raw) = n /\ Len(raw') = n + 1 /\ rawPtr' = n + 1
      /\ \A i \in 1 .. n : raw'[i] = raw[i]
      /\ raw'[n + 1] = Blank
  <2>1. Len(raw) = n /\ raw \in Seq(Record)
    BY <1>4 DEF InOrder, TypeOK
  <2>2. raw' = Grown(n + 1) /\ rawPtr' = n + 1
    BY <1>1, <1>3, <1>7, <1>8, Numbers
  <2>3. /\ Len(Grown(n + 1)) \in {n + 1, Len(raw)} /\ n + 1 <= Len(Grown(n + 1))
        /\ \A i \in 1 .. Len(Grown(n + 1)) : Grown(n + 1)[i] = IF i <= Len(raw) THEN raw[i] ELSE Blank
    <3>1. n + 1 \in Nat
      BY <1>7
    <3>2. QED
      BY <2>1, <3>1, GrownIs
  <2> HIDE DEF n
  <2>4. Len(Grown(n + 1)) = n + 1
    BY <1>7, <2>1, <2>3
  <2>5. QED
    BY <1>7, <2>1, <2>2, <2>3, <2>4
<1>10. CpuLines' = CpuLines /\ First' = First /\ \A p : Rank(p)' = Rank(p)
  BY <1>1, SameFile
<1>11. ASSUME NEW p \in Seen', NEW f \in Fields
       PROVE  raw'[Rank(p)' + 1][f] = ValueIn(UpTo(p), f)'
  <2>1. CASE p = P
    <3>1. raw'[Rank(p)' + 1] = Blank
      BY <1>5, <1>9, <1>10, <2>1
    <3>2. ValueIn(UpTo(p), f)' = ValueIn({}, f)
      BY <1>1, <1>5, <2>1, ValueLater
    <3>3. Blank[f] = 0
      BY DEF Blank
    <3>4. QED
      BY <3>1, <3>2, <3>3, ValueNone
  <2>2. CASE p \in Seen
    <3>1. Rank(p) + 1 \in 1 .. n
      BY <2>2, RankIs
    <3>2. raw'[Rank(p)' + 1] = raw[Rank(p) + 1]
      BY <1>9, <1>10, <3>1
    <3>3. raw[Rank(p) + 1][f] = ValueIn(UpTo(p), f)
      BY <1>4, <2>2 DEF InOrder
    <3>4. ValueIn(UpTo(p), f)' = ValueIn(UpTo(p), f)
      BY <1>1, <1>5, <2>2, ValueLater
    <3>5. QED
      BY <3>2, <3>3, <3>4
  <2>3. QED
    BY <1>5, <2>1, <2>2
<1>12. Begun'
  <2>1. NumberRead(file[First])' = NumberRead(file[First])
    BY <1>1, <1>10 DEF NumberRead
  <2>2. QED
    BY <1>1, <1>6, <1>10, <2>1 DEF Begun
<1>13. Seen' # {}
  BY <1>5
<1>14. QED
  BY <1>5, <1>9, <1>11, <1>12, <1>13 DEF InOrder

(* Any other line: at most the record of the last CPU changes. *)
LEMMA OtherStep ==
  ASSUME TypeOK, PointerInv, AidaInv, into = "all", Numbered, ~noMemory,
         FormatOf(ThisLine) = "aida64", MoreLines,
         ThisLine.kind \notin {"aidaCpu", "aidaRegisters"},
         position' = position + 1, UNCHANGED <<file, offset, withAffinity, rawPtr>>,
         \/ raw' = raw /\ ThisLine.kind # "aidaReg"
         \/ /\ raw' = Assigned(raw, rawPtr, ThisLine) /\ rawPtr \in DOMAIN raw
            /\ ThisLine.kind = "aidaReg"
  PROVE  InOrder'
<1>p. PICK P : P = position + 1
  OBVIOUS
<1> DEFINE n == Cardinality(Seen)
<1>1. HeaderInv /\ InOrder
  BY OrderNow
<1>2. /\ Seen' = Seen
      /\ \A p \in Seen :
           /\ Rank(p) + 1 = n => UpTo(p)' = UpTo(p) \union {P}
           /\ Rank(p) + 1 # n => UpTo(p)' = UpTo(p)
           /\ \A q \in UpTo(p) : q \in Int /\ q < P
  BY <1>p, <1>1, OnOther
<1>3. CpuLines' = CpuLines /\ First' = First /\ \A p : Rank(p)' = Rank(p)
  BY SameFile
<1>4. Len(raw) = n /\ rawPtr = n /\ raw \in Seq(Record)
  BY <1>1 DEF InOrder, TypeOK
<1>5. P \in Int /\ ThisLine = file[P] /\ ThisLine \in Line
  BY <1>p, ThisLineIs
<1>6. /\ Len(raw') = n
      /\ \A j \in 1 .. n : j # n => raw'[j] = raw[j]
      /\ \A f \in Fields : n \in 1 .. n =>
           raw'[n][f] = IF ThisLine.kind = "aidaReg" /\ f \in ThisLine.fields
                        THEN ThisLine.value ELSE raw[n][f]
  <2>1. CASE raw' = raw /\ ThisLine.kind # "aidaReg"
    BY <1>4, <2>1
  <2>2. CASE /\ raw' = Assigned(raw, rawPtr, ThisLine) /\ rawPtr \in DOMAIN raw
             /\ ThisLine.kind = "aidaReg"
    <3>1. rawPtr \in 1 .. Len(raw)
      BY <1>4, <2>2, LenProperties
    <3>2. /\ Len(raw') = Len(raw)
          /\ \A j \in 1 .. Len(raw) : j # rawPtr => raw'[j] = raw[j]
          /\ \A f \in Fields : raw'[rawPtr][f] = IF f \in ThisLine.fields THEN ThisLine.value
                                                 ELSE raw[rawPtr][f]
      BY <1>4, <1>5, <2>2, <3>1, AssignedIs
    <3>3. QED
      BY <1>4, <2>2, <3>2
  <2>3. QED
    BY <2>1, <2>2
<1>7. ASSUME NEW p \in Seen', NEW f \in Fields
      PROVE  raw'[Rank(p)' + 1][f] = ValueIn(UpTo(p), f)'
  <2>1. p \in Seen /\ Rank(p)' = Rank(p) /\ raw[Rank(p) + 1][f] = ValueIn(UpTo(p), f)
        /\ Rank(p) + 1 \in 1 .. n
    BY <1>1, <1>2, <1>3, RankIs DEF InOrder
  <2>2. CASE Rank(p) + 1 # n
    <3>1. ValueIn(UpTo(p), f)' = ValueIn(UpTo(p), f)
      BY <1>2, <2>1, <2>2, ValueLater
    <3>2. raw'[Rank(p) + 1] = raw[Rank(p) + 1]
      BY <1>6, <2>1, <2>2
    <3>3. QED
      BY <2>1, <3>1, <3>2
  <2>3. CASE Rank(p) + 1 = n
    <3>1. ValueIn(UpTo(p), f)' = ValueIn(UpTo(p) \union {P}, f)
      BY <1>2, <2>1, <2>3, ValueLater
    <3>2. raw'[n][f] = IF file[P].kind = "aidaReg" /\ f \in file[P].fields
                       THEN file[P].value ELSE raw[n][f]
      BY <1>5, <1>6, <2>1, <2>3
    <3>3. CASE file[P].kind = "aidaReg" /\ f \in file[P].fields
      <4>1. ValueIn(UpTo(p) \union {P}, f) = file[P].value
        BY <1>2, <1>5, <2>1, <3>3, ValueSet
      <4>2. QED
        BY <2>1, <2>3, <3>1, <3>2, <3>3, <4>1
    <3>4. CASE ~(file[P].kind = "aidaReg" /\ f \in file[P].fields)
      <4>1. ValueIn(UpTo(p) \union {P}, f) = ValueIn(UpTo(p), f)
        BY <3>4, ValueKept
      <4>2. QED
        BY <2>1, <2>3, <3>1, <3>2, <3>4, <4>1
    <3>5. QED
      BY <3>3, <3>4
  <2>4. QED
    BY <2>2, <2>3
<1>8. Begun'
  <2>1. NumberRead(file[First])' = NumberRead(file[First])
    BY <1>3 DEF NumberRead
  <2>2. QED
    BY <1>1, <1>2, <1>3, <2>1 DEF InOrder, Begun
<1>9. QED
  BY <1>1, <1>2, <1>4, <1>6, <1>7, <1>8 DEF InOrder

LEMMA AidaStep ==
  TypeOK /\ FileInv /\ PointerInv /\ AidaInv /\ [Next]_vars => AidaInv'
<1> SUFFICES ASSUME TypeOK, FileInv, PointerInv, AidaInv, [Next]_vars, into' = "all"
             PROVE  HeaderInv' /\ (format' = "aida64" /\ Numbered' /\ ~noMemory' => InOrder')
  BY Zenon DEF AidaInv
<1>h. HeaderInv'
  <2>1. into = "all" => HeaderInv
    BY DEF AidaInv
  <2>2. QED
    BY <2>1, HeaderStep
<1> SUFFICES ASSUME format' = "aida64", Numbered', ~noMemory' PROVE InOrder'
  BY <1>h
<1>1. CASE UNCHANGED <<file, into, position, format, offset, rawPtr, raw, withAffinity, noMemory>>
  <2>1. InOrder
    <3>1. Numbered
      BY <1>1, SameFile
    <3>2. QED
      BY <1>1, <3>1 DEF AidaInv
  <2>2. /\ CpuLines' = CpuLines /\ First' = First
        /\ \A p : Rank(p)' = Rank(p) /\ LinesOf(p)' = LinesOf(p)
    BY <1>1, SameFile
  <2>3. Seen' = Seen /\ \A p : UpTo(p)' = UpTo(p)
    BY <1>1, <2>2 DEF Seen, UpTo
  <2>4. \A p, f : ValueIn(UpTo(p), f)' = ValueIn(UpTo(p), f)
    BY <1>1, <2>3, ValueLater
  <2>5. NumberRead(file[First])' = NumberRead(file[First])
    BY <1>1, <2>2 DEF NumberRead
  <2>6. QED
    BY <1>1, <2>1, <2>2, <2>3, <2>4, <2>5 DEF InOrder, Begun
<1>2. ASSUME NEW mode \in {"one", "all"}, NEW s \in Sources, Serialize(mode, s) PROVE FALSE
  <2>1. phase = "start" /\ into = "all" /\ format = "aida64"
    BY <1>2 DEF Serialize, reader
  <2>2. QED
    BY <2>1 DEF AidaInv, HeaderInv
<1>3. ASSUME NEW s \in Sources, SerializeNothing(s) PROVE InOrder'
  BY <1>1, <1>3 DEF SerializeNothing, reader
<1>4. ASSUME NEW target \in {"one", "all"}, Deserialize(target) PROVE FALSE
  BY <1>4 DEF Deserialize
<1>5. CASE OpenFails
  BY <1>1, <1>5 DEF OpenFails, reader
<1>6. CASE Overrun
  <2>1. noMemory' = noMemory
    BY <1>6 DEF Overrun
  <2>2. QED
    BY <1>1, <1>6, <2>1 DEF Overrun
<1>7. CASE SelectCpu
  BY <1>7 DEF SelectCpu, SelectsCpu, FormatOf
<1>8. CASE SelectAidaCpu
  <2>1. Numbered
    BY <1>8, SameFile DEF SelectAidaCpu, NextLine
  <2>2. QED
    BY <1>8, <2>1, NameStep
<1>9. CASE BeginSingle
  BY <1>9 DEF BeginSingle
<1>10. CASE AssignRegister
  <2>1. /\ MoreLines /\ into = "all" /\ ~noMemory /\ rawPtr \in DOMAIN raw
        /\ raw' = Assigned(raw, rawPtr, ThisLine) /\ position' = position + 1
        /\ UNCHANGED <<file, offset, withAffinity, rawPtr>>
        /\ SetsRegister(ThisLine) /\ format = "aida64"
    BY <1>10 DEF AssignRegister, NextLine
  <2>2. FormatOf(ThisLine) = "aida64" /\ ThisLine.kind = "aidaReg"
    BY <2>1 DEF SetsRegister, FormatOf
  <2>3. Numbered
    BY <2>1, SameFile
  <2>4. QED
    BY <2>1, <2>2, <2>3, OtherStep
<1>11. CASE SkipLine
  <2>1. /\ MoreLines /\ into = "all" /\ ~noMemory /\ raw' = raw /\ position' = position + 1
        /\ UNCHANGED <<file, offset, withAffinity, rawPtr>>
        /\ ~SelectsAidaCpu(ThisLine) /\ ~SetsRegister(ThisLine) /\ FormatOf(ThisLine) = "aida64"
    BY <1>11 DEF SkipLine, NextLine
  <2>2. ThisLine.kind \notin {"aidaCpu", "aidaRegisters"} /\ ThisLine.kind # "aidaReg"
    BY <2>1 DEF SetsRegister, SelectsAidaCpu
  <2>3. Numbered
    BY <2>1, SameFile
  <2>4. QED
    BY <2>1, <2>2, <2>3, OtherStep
<1>12. CASE EndOfDump
  BY <1>1, <1>12 DEF EndOfDump, reader
<1>13. CASE UNCHANGED vars
  BY <1>1, <1>13 DEF vars
<1>14. QED
  BY <1>2, <1>3, <1>4, <1>5, <1>6, <1>7, <1>8, <1>9, <1>10, <1>11, <1>12, <1>13 DEF Next, ReadLine

LEMMA AidaInit == Init => AidaInv
<1> SUFFICES ASSUME Init PROVE AidaInv
  OBVIOUS
<1>1. \A p : p \notin 1 .. position
  BY DEF Init
<1>2. QED
  BY <1>1 DEF Init, AidaInv, HeaderInv

(* At the end of the dump everything before the test results was read. *)
LEMMA AidaRead ==
  ASSUME TypeOK, AidaInv
  PROVE  AidaNumbering
<1> SUFFICES ASSUME phase = "done", into = "all", ~noMemory, format = "aida64",
                    CpuLines # {}, Numbered
             PROVE  /\ withAffinity /\ Len(raw) = Cardinality(CpuLines)
                    /\ \A p \in CpuLines, f \in Fields :
                         raw[file[p].n - file[First].n + 1][f] = ValueIn(LinesOf(p), f)
  BY DEF AidaNumbering, Numbered
<1>1. HeaderInv /\ InOrder
  BY DEF AidaInv
<1>2. /\ position \in Nat /\ Len(file) \in Nat /\ position <= Len(file)
      /\ DOMAIN file = 1 .. Len(file)
  BY LenProperties DEF TypeOK
<1>3. ASSUME NEW p \in Body PROVE p \in Int /\ p <= position
  <2>1. p \in 1 .. Len(file) /\ \A q \in 1 .. p : file[q].kind # "dashes"
    BY <1>2 DEF Body
  <2>2. p \in Int /\ position \in Int /\ 1 <= p /\ p <= Len(file) /\ 0 <= position
        /\ Len(file) \in Int
    BY <1>2, <2>1
  <2>3. p > position => position + 1 \in 1 .. p
    BY <2>2
  <2>4. p > position => position # Len(file)
    BY <2>2
  <2>5. ~(p > position)
    BY <1>1, <2>1, <2>3, <2>4 DEF HeaderInv
  <2>6. QED
    BY <2>2, <2>5
<1>4. Seen = CpuLines /\ \A p : UpTo(p) = LinesOf(p)
  BY <1>3 DEF Seen, CpuLines, UpTo, LinesOf
<1>5. withAffinity /\ First \in CpuLines /\ Len(raw) = Cardinality(CpuLines)
  BY <1>1, <1>4 DEF InOrder, Begun
<1>6. ASSUME NEW p \in CpuLines, NEW f \in Fields
      PROVE  raw[file[p].n - file[First].n + 1][f] = ValueIn(LinesOf(p), f)
  <2>1. raw[Rank(p) + 1][f] = ValueIn(LinesOf(p), f)
    BY <1>1, <1>4 DEF InOrder
  <2>2. file[p].n = file[First].n + Rank(p)
    BY DEF Numbered, Ascending, Rank
  <2>3. file[First].n \in Int /\ Rank(p) \in Nat
    <3>1. First \in 1 .. Len(file) /\ Rank(p) \in Nat
      BY <1>5, SeenIsFinite
    <3>2. file[First] \in Line
      BY <3>1, ElementOfSeq DEF TypeOK
    <3>3. QED
      BY <3>1, <3>2 DEF Line
  <2>4. file[p].n - file[First].n + 1 = Rank(p) + 1
    BY <2>2, <2>3
  <2>5. QED
    BY <2>1, <2>4
<1>7. QED
  BY <1>5, <1>6

(* A dump of AIDA64 is read as AIDA64 wrote it: as many records as CPUs    *)
(* are named before the test results, in their order, whether AIDA64       *)
(* counts from 0, from 1 or from any other number, also when the numbers   *)
(* pass the last of logical_cpu_t; and in every record each field has what *)
(* the last line of its CPU that sets it says                              *)
(* (cpuid_deserialize_all_raw_data_internal, logical_cpu_offset).          *)
THEOREM AidaNumberingHolds == Spec => []AidaNumbering
<1>1. Init => TypeOK /\ FileInv /\ PointerInv /\ AidaInv
  BY TypeInit, AidaInit DEF Init, PointerInv, Pointer
<1>2. TypeOK /\ FileInv /\ PointerInv /\ AidaInv /\ [Next]_vars
        => (TypeOK /\ FileInv /\ PointerInv /\ AidaInv)'
  BY TypeStep, FileStep, PointerStep, AidaStep
<1>3. TypeOK /\ AidaInv => AidaNumbering
  BY AidaRead
<1>4. QED
  BY <1>1, <1>2, <1>3, PTL DEF Spec
=============================================================================
