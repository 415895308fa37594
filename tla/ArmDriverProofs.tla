--------------------------- MODULE ArmDriverProofs ---------------------------
(***************************************************************************)
(* Proofs about ArmDriver for any number of CPUs, any machine and any      *)
(* number of events.  The inductive invariant has one part for the module  *)
(* (what its init and exit have registered at every step), one for open    *)
(* files, one for FreeBSD's binding, one for the CPU that was asked for    *)
(* and four for the record.                                                *)
(***************************************************************************)
EXTENDS ArmDriver, SequenceTheorems, TLAPS

LinuxSteps == {"out", "init", "init_class", "init_hook", "live", "out_class", "out_chrdev"}
BsdSteps   == {"out", "init", "live", "unload"}

(* What is registered at which step of the Linux module. *)
LinuxModule ==
  /\ mod \in LinuxSteps
  /\ chrdev <=> mod \notin {"out", "init"}
  /\ class => mod \in {"init_hook", "live", "out_class"}
  /\ hooked <=> mod = "live"
  /\ devices = IF mod = "live" THEN online ELSE {}

BsdModule ==
  /\ mod \in BsdSteps
  /\ ~chrdev /\ ~class /\ ~hooked
  /\ devices \subseteq machine.enabled
  /\ mod = "out" => devices = {}
  /\ mod = "live" => devices = machine.enabled

ModuleInv ==
  /\ machine \in Machines
  /\ online \subseteq Cpus
  /\ Linux => LinuxModule
  /\ ~Linux => BsdModule

LiveHasClass == Linux /\ mod \in {"init_hook", "live"} => class

FilesInv == Linux /\ (fd # NoCpu \/ others # {}) => mod = "live"

(* A bound thread runs where it is bound; the driver remembers how it was  *)
(* bound when the call began.                                              *)
BindingInv ==
  /\ bound # NoCpu => at = bound
  /\ Linux => bound = NoCpu /\ ~InsideDriver
  /\ pc \notin {"read_reg", "restore"} => bound = entry
  /\ InsideDriver =>
       /\ saved.isBound <=> entry # NoCpu
       /\ entry # NoCpu => saved.cpu = entry
  /\ pc \in {"read_reg", "restore"} => bound = fd

(* An element is a register of a field; Count(x) is the number of those of *)
(* field x.                                                                *)
Count(x) == Len(Sysreg[x])

Shape ==
  /\ DOMAIN data = FieldNames
  /\ \A x \in FieldNames : DOMAIN data[x] = 1 .. Count(x)

(* Nothing is written before the file is open, nothing by mrs after that.  *)
RecordInv ==
  /\ pc \in {"open_core", "access", "access_read", "modprobe", "open", "malloc"} =>
       \A x \in FieldNames : \A i \in 1 .. Count(x) : data[x][i] = Blank
  /\ pc \in {"open_core", "access", "access_read", "modprobe", "open", "malloc",
             "fallback", "mrs"} => ~viaDriver
  /\ pc \in {"malloc", "ioctl", "bind", "read_reg", "restore"} => fd = want /\ fd \in Cpus
  /\ viaDriver => \A x \in FieldNames : \A i \in 1 .. Count(x) :
                    data[x][i] # Blank => data[x][i].cpu = want

(* The CPU of the call: as long as it is not gone it is up, has its device *)
(* file and is where a thread with an affinity runs.                       *)
OpenSteps == {"malloc", "ioctl", "bind", "read_reg", "restore"}

WantInv ==
  /\ pc # "idle" => want \in Cpus \union {AnyCpu}
  /\ want \in Cpus /\ ~gone => want \in online
  /\ ~Linux /\ pc \in OpenSteps /\ ~gone => want \in devices
  /\ pc # "idle" /\ want # AnyCpu /\ Movable /\ ~gone => at = want /\ mask = want

(* How far the record has come, and what is in it. *)
FieldInv ==
  /\ Shape
  /\ field \in 0 .. Len(Fields) /\ element \in Nat
  /\ field < Len(Fields) => element < Count(Fields[field + 1][1])
  /\ pc \in {"open_core", "access", "access_read", "modprobe", "open", "malloc"} =>
       field = 0 /\ element = 0
  /\ pc \in {"bind", "read_reg"} => field < Len(Fields)
  /\ pc \in {"ioctl", "bind", "read_reg", "restore"} => viaDriver
  /\ viaDriver /\ pc = "idle" => field = Len(Fields)

(* The registers the driver was asked for so far. *)
Done(k, i) == k <= field \/ (k = field + 1 /\ i <= element)

FilledInv ==
  viaDriver /\ ~gone =>
    \A k \in DOMAIN Fields : \A i \in 1 .. Count(Fields[k][1]) :
      Done(k, i) => data[Fields[k][1]][i] # Blank

RegsInv ==
  \A x \in FieldNames : \A i \in 1 .. Count(x) :
    data[x][i] # Blank => data[x][i].reg = Sysreg[x][i]

(* Without the driver the thread reads the registers where it runs. *)
MrsInv ==
  ~viaDriver /\ want # AnyCpu /\ Movable /\ ~gone =>
    \A x \in FieldNames : \A i \in 1 .. Count(x) :
      data[x][i] # Blank => data[x][i].cpu = want

IInv ==
  /\ ModuleInv /\ LiveHasClass /\ FilesInv /\ BindingInv /\ RecordInv
  /\ WantInv /\ FieldInv /\ FilledInv /\ RegsInv /\ MrsInv

----------------------------------------------------------------------------
(* The numbering of the registers.  The family x stands in a list s of     *)
(* requests after the first p of them, and nowhere else.                   *)
Pairs == FieldNames \X Nat

Block(s, x, p) ==
  /\ p + Count(x) <= Len(s)
  /\ \A i \in 1 .. Count(x) : s[p + i] = <<x, i - 1>>
  /\ \A k \in 1 .. Len(s) : s[k] = <<x, 0>> => k = p + 1

(* The list s has the families N and no other. *)
Lists(s, N) ==
  /\ s \in Seq(Pairs)
  /\ \A x \in FieldNames \ N : \A k \in 1 .. Len(s) : s[k] # <<x, 0>>
  /\ \A x \in N : \E p \in Nat : Block(s, x, p)

(* Where the elements of a concatenation come from. *)
LEMMA Joined ==
  ASSUME NEW S, NEW s \in Seq(S), NEW t \in Seq(S)
  PROVE  /\ s \o t \in Seq(S)
         /\ Len(s) \in Nat /\ Len(s \o t) = Len(s) + Len(t)
         /\ \A k \in 1 .. Len(s) : k \in 1 .. Len(s \o t) /\ (s \o t)[k] = s[k]
         /\ \A i \in 1 .. Len(t) : (s \o t)[Len(s) + i] = t[i]
         /\ \A k \in 1 .. Len(s \o t) : k \in 1 .. Len(s) \/ \E i \in 1 .. Len(t) : k = Len(s) + i
<1>1. Len(s) \in Nat /\ Len(t) \in Nat
  BY LenProperties
<1>2. /\ s \o t \in Seq(S)
      /\ Len(s \o t) = Len(s) + Len(t)
      /\ \A i \in 1 .. Len(s) + Len(t) :
           (s \o t)[i] = IF i <= Len(s) THEN s[i] ELSE t[i - Len(s)]
  BY ConcatProperties
<1>3. \A k \in 1 .. Len(s) : k \in 1 .. Len(s \o t) /\ (s \o t)[k] = s[k]
  BY <1>1, <1>2
<1>4. ASSUME NEW i \in 1 .. Len(t) PROVE (s \o t)[Len(s) + i] = t[i]
  <2>1. Len(s) + i \in 1 .. Len(s) + Len(t) /\ ~(Len(s) + i <= Len(s)) /\ Len(s) + i - Len(s) = i
    BY <1>1
  <2>2. QED
    BY <1>2, <2>1
<1>5. ASSUME NEW k \in 1 .. Len(s \o t), k \notin 1 .. Len(s)
      PROVE  \E i \in 1 .. Len(t) : k = Len(s) + i
  <2>1. k - Len(s) \in 1 .. Len(t) /\ k = Len(s) + (k - Len(s))
    BY <1>1, <1>2, <1>5
  <2>2. QED
    BY <2>1
<1>6. QED
  BY <1>1, <1>2, <1>3, <1>4, <1>5

LEMMA FamilyIs ==
  ASSUME NEW x \in FieldNames, NEW n \in Nat
  PROVE  /\ Family(x, n) \in Seq(Pairs)
         /\ Len(Family(x, n)) = n
         /\ \A i \in 1 .. n : Family(x, n)[i] = <<x, i - 1>>
<1>1. \A i \in 1 .. n : <<x, i - 1>> \in Pairs
  <2>1. \A j \in Nat : <<x, j>> \in Pairs
    BY Zenon DEF Pairs
  <2>2. \A i \in 1 .. n : i - 1 \in Nat
    OBVIOUS
  <2>3. QED
    BY <2>1, <2>2
<1>2. Family(x, n) \in [1 .. n -> Pairs]
  BY <1>1, Zenon DEF Family
<1>3. Family(x, n) \in Seq(Pairs) /\ Len(Family(x, n)) = n
  <2> DEFINE f == Family(x, n)
  <2>1. f \in [1 .. n -> Pairs]
    BY <1>2
  <2> HIDE DEF f
  <2>2. f \in Seq(Pairs) /\ Len(f) = n
    BY <2>1, SeqDef, LenProperties
  <2>3. QED
    BY <2>2 DEF f
<1>4. QED
  BY <1>3, Zenon DEF Family

LEMMA PairsDiffer ==
  ASSUME NEW x, NEW y, x # y, NEW i, NEW j
  PROVE  <<x, i>> # <<y, j>>
OBVIOUS

(* A family added at the end leaves the others where they are. *)
LEMMA ListsNext ==
  ASSUME NEW N \in SUBSET FieldNames, NEW s, Lists(s, N),
         NEW y \in FieldNames, y \notin N, NEW n \in Nat \ {0}, n = Count(y),
         \A x \in N : Count(x) \in Nat \ {0}
  PROVE  /\ Lists(s \o Family(y, n), N \union {y})
         /\ \A x \in N, p \in Nat : Block(s, x, p) => Block(s \o Family(y, n), x, p)
<1> DEFINE t == Family(y, n)
           u == s \o t
<1>1. s \in Seq(Pairs) /\ t \in Seq(Pairs) /\ Len(t) = n
      /\ \A i \in 1 .. n : t[i] = <<y, i - 1>>
  BY FamilyIs DEF Lists
<1> HIDE DEF t
<1>2. /\ u \in Seq(Pairs)
      /\ Len(s) \in Nat /\ Len(u) = Len(s) + Len(t)
      /\ \A k \in 1 .. Len(s) : k \in 1 .. Len(u) /\ u[k] = s[k]
      /\ \A i \in 1 .. Len(t) : u[Len(s) + i] = t[i]
      /\ \A k \in 1 .. Len(u) : k \in 1 .. Len(s) \/ \E i \in 1 .. Len(t) : k = Len(s) + i
  <2>1. s \in Seq(Pairs) /\ t \in Seq(Pairs)
    BY <1>1
  <2>2. QED
    BY ONLY <2>1, Joined
<1>n. Len(s) \in Nat /\ Len(u) = Len(s) + n
  BY <1>1, <1>2
<1> HIDE DEF u
<1>3. \A i \in 1 .. n : u[Len(s) + i] = <<y, i - 1>>
  BY <1>1, <1>2
<1>5. ASSUME NEW x \in FieldNames, x # y, NEW k \in 1 .. Len(u), u[k] = <<x, 0>>
      PROVE  k \in 1 .. Len(s) /\ s[k] = <<x, 0>>
  <2>1. \A i \in 1 .. n : u[Len(s) + i] # <<x, 0>>
    BY <1>3, <1>5, PairsDiffer
  <2>2. QED
    BY <1>1, <1>2, <1>5, <2>1
<1>6. ASSUME NEW x \in N, NEW p \in Nat, Block(s, x, p) PROVE Block(u, x, p)
  <2> DEFINE c == Count(x)
  <2>c. c \in Nat /\ p + c <= Len(s)
    BY <1>6 DEF Block
  <2> HIDE DEF c
  <2>1. p + c <= Len(u)
    BY <1>n, <2>c
  <2>2. \A i \in 1 .. Count(x) : u[p + i] = <<x, i - 1>>
    <3>1. \A i \in 1 .. c : p + i \in 1 .. Len(s)
      BY <1>n, <2>c
    <3>2. QED
      BY <1>2, <1>6, <3>1 DEF Block, c
  <2>3. \A k \in 1 .. Len(u) : u[k] = <<x, 0>> => k = p + 1
    BY <1>5, <1>6 DEF Block
  <2>4. QED
    BY <2>1, <2>2, <2>3 DEF Block, c
<1>7. Block(u, y, Len(s))
  <2>1. Len(s) + Count(y) <= Len(u) /\ Len(s) \in Nat
    <3>1. Len(s) + n <= Len(u)
      BY <1>n
    <3>2. QED
      BY <1>n, <3>1
  <2>2. ASSUME NEW k \in 1 .. Len(u), u[k] = <<y, 0>> PROVE k = Len(s) + 1
    <3>1. k \notin 1 .. Len(s)
      BY <1>2, <2>2 DEF Lists
    <3>2. PICK i \in 1 .. n : k = Len(s) + i
      BY <1>1, <1>2, <3>1
    <3>3. <<y, i - 1>> = <<y, 0>>
      BY <1>3, <2>2, <3>2
    <3>4. i - 1 = 0
      BY <3>3
    <3>5. QED
      BY <3>2, <3>4
  <2>3. QED
    BY <1>3, <2>1, <2>2 DEF Block
<1>8. \A x \in N \union {y} : \E p \in Nat : Block(u, x, p)
  <2>1. Len(s) \in Nat
    BY <1>1
  <2>2. QED
    BY <1>6, <1>7, <2>1 DEF Lists
<1>9. \A x \in FieldNames \ (N \union {y}) : \A k \in 1 .. Len(u) : u[k] # <<x, 0>>
  BY <1>5 DEF Lists
<1>10. Lists(u, N \union {y})
  BY <1>2, <1>8, <1>9 DEF Lists
<1>11. QED
  BY <1>6, <1>10 DEF t, u

(* The names of the fields, and how many registers each has. *)
Names32 == {"MIDR", "MPIDR", "REVIDR", "AFR", "DFR", "ISAR", "MMFR", "PFR"}
Names64 == Names32 \union {"AA64AFR", "AA64DFR", "AA64FPFR", "AA64ISAR", "AA64MMFR",
                           "AA64PFR", "AA64SMFR", "AA64ZFR"}

LEMMA FieldNamesAre == FieldNames = Names64
<1>1. DOMAIN Fields64 = 1 .. 16
  BY DEF Fields32, Fields64
<1>2. \A k \in 1 .. 16 : Fields64[k][1] \in Names64
  BY DEF Fields32, Fields64, Names32, Names64
<1>3. \A x \in Names64 : \E k \in 1 .. 16 : x = Fields64[k][1]
  <2>1. /\ Fields64[1][1] = "MIDR" /\ Fields64[2][1] = "MPIDR" /\ Fields64[3][1] = "REVIDR" /\ Fields64[4][1] = "AFR"
        /\ Fields64[5][1] = "DFR" /\ Fields64[6][1] = "ISAR" /\ Fields64[7][1] = "MMFR" /\ Fields64[8][1] = "PFR"
        /\ Fields64[9][1] = "AA64AFR" /\ Fields64[10][1] = "AA64DFR" /\ Fields64[11][1] = "AA64FPFR" /\ Fields64[12][1] = "AA64ISAR"
        /\ Fields64[13][1] = "AA64MMFR" /\ Fields64[14][1] = "AA64PFR" /\ Fields64[15][1] = "AA64SMFR" /\ Fields64[16][1] = "AA64ZFR"
    BY DEF Fields32, Fields64
  <2>2. QED
    BY <2>1 DEF Names32, Names64
<1>4. FieldNames = {Fields64[k][1] : k \in 1 .. 16}
  BY <1>1 DEF FieldNames
<1>5. QED
  BY <1>2, <1>3, <1>4, Zenon

LEMMA CountsAre ==
  /\ Count("MIDR") = 1 /\ Count("MPIDR") = 1 /\ Count("REVIDR") = 1 /\ Count("AFR") = 1
  /\ Count("DFR") = 2 /\ Count("ISAR") = 7 /\ Count("MMFR") = 6 /\ Count("PFR") = 3
  /\ Count("AA64AFR") = 2 /\ Count("AA64DFR") = 3 /\ Count("AA64FPFR") = 1 /\ Count("AA64ISAR") = 4
  /\ Count("AA64MMFR") = 5 /\ Count("AA64PFR") = 3 /\ Count("AA64SMFR") = 1 /\ Count("AA64ZFR") = 1
BY DEF Count, Sysreg

LEMMA CountType == \A x \in FieldNames : Count(x) \in Nat \ {0}
BY CountsAre, FieldNamesAre DEF Names32, Names64

(* A row of Sysreg is a sequence, and on AArch32 the row of the mrc. *)
LEMMA RowsAre ==
  ASSUME NEW x \in FieldNames
  PROVE  /\ Sysreg[x] = [i \in 1 .. Count(x) |-> Sysreg[x][i]]
         /\ x \in Names32 => Coprocessor[x] = Sysreg[x]
<1>1. CASE x = "MIDR"
  BY <1>1 DEF Sysreg, Coprocessor, Count, Names32
<1>2. CASE x = "MPIDR"
  BY <1>2 DEF Sysreg, Coprocessor, Count, Names32
<1>3. CASE x = "REVIDR"
  BY <1>3 DEF Sysreg, Coprocessor, Count, Names32
<1>4. CASE x = "AFR"
  BY <1>4 DEF Sysreg, Coprocessor, Count, Names32
<1>5. CASE x = "DFR"
  BY <1>5 DEF Sysreg, Coprocessor, Count, Names32
<1>6. CASE x = "ISAR"
  BY <1>6 DEF Sysreg, Coprocessor, Count, Names32
<1>7. CASE x = "MMFR"
  BY <1>7 DEF Sysreg, Coprocessor, Count, Names32
<1>8. CASE x = "PFR"
  BY <1>8 DEF Sysreg, Coprocessor, Count, Names32
<1>9. CASE x = "AA64AFR"
  BY <1>9 DEF Sysreg, Coprocessor, Count, Names32
<1>10. CASE x = "AA64DFR"
  BY <1>10 DEF Sysreg, Coprocessor, Count, Names32
<1>11. CASE x = "AA64FPFR"
  BY <1>11 DEF Sysreg, Coprocessor, Count, Names32
<1>12. CASE x = "AA64ISAR"
  BY <1>12 DEF Sysreg, Coprocessor, Count, Names32
<1>13. CASE x = "AA64MMFR"
  BY <1>13 DEF Sysreg, Coprocessor, Count, Names32
<1>14. CASE x = "AA64PFR"
  BY <1>14 DEF Sysreg, Coprocessor, Count, Names32
<1>15. CASE x = "AA64SMFR"
  BY <1>15 DEF Sysreg, Coprocessor, Count, Names32
<1>16. CASE x = "AA64ZFR"
  BY <1>16 DEF Sysreg, Coprocessor, Count, Names32
<1>17. QED
  BY <1>1, <1>2, <1>3, <1>4, <1>5, <1>6, <1>7, <1>8, <1>9, <1>10, <1>11, <1>12, <1>13, <1>14, <1>15, <1>16, FieldNamesAre DEF Names32, Names64

(* The fields a process asks for, with as many registers as they have. *)
LEMMA FieldsAre ==
  /\ DOMAIN Fields64 = 1 .. Len(Fields64) /\ Len(Fields64) \in Nat
  /\ DOMAIN Fields32 = 1 .. Len(Fields32) /\ Len(Fields32) \in Nat
  /\ \A k \in DOMAIN Fields64 :
       Fields64[k][1] \in FieldNames /\ Fields64[k][2] = Count(Fields64[k][1])
  /\ \A k \in DOMAIN Fields32 :
       Fields32[k][1] \in Names32 /\ Fields32[k][2] = Count(Fields32[k][1])
<1>1. DOMAIN Fields64 = 1 .. 16 /\ Len(Fields64) = 16 /\ DOMAIN Fields32 = 1 .. 8 /\ Len(Fields32) = 8
  BY DEF Fields32, Fields64
<1>2. \A k \in 1 .. 16 : Fields64[k][2] = Count(Fields64[k][1])
  BY CountsAre DEF Fields32, Fields64
<1>3. \A k \in 1 .. 8 : Fields32[k][1] \in Names32 /\ Fields32[k][2] = Count(Fields32[k][1])
  BY CountsAre DEF Fields32, Names32
<1>4. \A k \in DOMAIN Fields64 : Fields64[k][1] \in FieldNames
  BY Zenon DEF FieldNames
<1>5. QED
  BY <1>1, <1>2, <1>3, <1>4

(* Both lists of requests: the one without AArch64 is the beginning of the *)
(* other, so a register has the same number in both.                       *)
LEMMA RequestsAre ==
  /\ Lists(Requests32, Names32)
  /\ Lists(Requests64, FieldNames)
  /\ \A x \in Names32, p \in Nat : Block(Requests32, x, p) => Block(Requests64, x, p)
<1> DEFINE N0 == {}
           N1 == N0 \union {"MIDR"}
           N2 == N1 \union {"MPIDR"}
           N3 == N2 \union {"REVIDR"}
           N4 == N3 \union {"AFR"}
           N5 == N4 \union {"DFR"}
           N6 == N5 \union {"ISAR"}
           N7 == N6 \union {"MMFR"}
           N8 == N7 \union {"PFR"}
           N9 == N8 \union {"AA64AFR"}
           N10 == N9 \union {"AA64DFR"}
           N11 == N10 \union {"AA64FPFR"}
           N12 == N11 \union {"AA64ISAR"}
           N13 == N12 \union {"AA64MMFR"}
           N14 == N13 \union {"AA64PFR"}
           N15 == N14 \union {"AA64SMFR"}
           N16 == N15 \union {"AA64ZFR"}
           R0 == <<>>
           R1 == R0 \o Family("MIDR", 1)
           R2 == R1 \o Family("MPIDR", 1)
           R3 == R2 \o Family("REVIDR", 1)
           R4 == R3 \o Family("AFR", 1)
           R5 == R4 \o Family("DFR", 2)
           R6 == R5 \o Family("ISAR", 7)
           R7 == R6 \o Family("MMFR", 6)
           R8 == R7 \o Family("PFR", 3)
           R9 == R8 \o Family("AA64AFR", 2)
           R10 == R9 \o Family("AA64DFR", 3)
           R11 == R10 \o Family("AA64FPFR", 1)
           R12 == R11 \o Family("AA64ISAR", 4)
           R13 == R12 \o Family("AA64MMFR", 5)
           R14 == R13 \o Family("AA64PFR", 3)
           R15 == R14 \o Family("AA64SMFR", 1)
           R16 == R15 \o Family("AA64ZFR", 1)
           Stays(s) == \A x \in Names32, p \in Nat : Block(R8, x, p) => Block(s, x, p)
<1>0. Lists(R0, N0)
  BY FieldNamesAre DEF Lists
<1>1. Lists(R1, N1)
  <2>1. N0 \in SUBSET FieldNames /\ "MIDR" \in FieldNames \ N0
    BY FieldNamesAre DEF Names32, Names64
  <2>2. Count("MIDR") = 1
    BY CountsAre
  <2> HIDE DEF R0, N0
  <2>3. QED
    BY <1>0, <2>1, <2>2, CountType, ListsNext
<1>2. Lists(R2, N2)
  <2>1. N1 \in SUBSET FieldNames /\ "MPIDR" \in FieldNames \ N1
    BY FieldNamesAre DEF Names32, Names64
  <2>2. Count("MPIDR") = 1
    BY CountsAre
  <2> HIDE DEF R1, N1
  <2>3. QED
    BY <1>1, <2>1, <2>2, CountType, ListsNext
<1>3. Lists(R3, N3)
  <2>1. N2 \in SUBSET FieldNames /\ "REVIDR" \in FieldNames \ N2
    BY FieldNamesAre DEF Names32, Names64
  <2>2. Count("REVIDR") = 1
    BY CountsAre
  <2> HIDE DEF R2, N2
  <2>3. QED
    BY <1>2, <2>1, <2>2, CountType, ListsNext
<1>4. Lists(R4, N4)
  <2>1. N3 \in SUBSET FieldNames /\ "AFR" \in FieldNames \ N3
    BY FieldNamesAre DEF Names32, Names64
  <2>2. Count("AFR") = 1
    BY CountsAre
  <2> HIDE DEF R3, N3
  <2>3. QED
    BY <1>3, <2>1, <2>2, CountType, ListsNext
<1>5. Lists(R5, N5)
  <2>1. N4 \in SUBSET FieldNames /\ "DFR" \in FieldNames \ N4
    BY FieldNamesAre DEF Names32, Names64
  <2>2. Count("DFR") = 2
    BY CountsAre
  <2> HIDE DEF R4, N4
  <2>3. QED
    BY <1>4, <2>1, <2>2, CountType, ListsNext
<1>6. Lists(R6, N6)
  <2>1. N5 \in SUBSET FieldNames /\ "ISAR" \in FieldNames \ N5
    BY FieldNamesAre DEF Names32, Names64
  <2>2. Count("ISAR") = 7
    BY CountsAre
  <2> HIDE DEF R5, N5
  <2>3. QED
    BY <1>5, <2>1, <2>2, CountType, ListsNext
<1>7. Lists(R7, N7)
  <2>1. N6 \in SUBSET FieldNames /\ "MMFR" \in FieldNames \ N6
    BY FieldNamesAre DEF Names32, Names64
  <2>2. Count("MMFR") = 6
    BY CountsAre
  <2> HIDE DEF R6, N6
  <2>3. QED
    BY <1>6, <2>1, <2>2, CountType, ListsNext
<1>8. Lists(R8, N8) /\ Stays(R8)
  <2>1. N7 \in SUBSET FieldNames /\ "PFR" \in FieldNames \ N7
    BY FieldNamesAre DEF Names32, Names64
  <2>2. Count("PFR") = 3
    BY CountsAre
  <2> HIDE DEF R7, N7
  <2>3. QED
    BY <1>7, <2>1, <2>2, CountType, ListsNext
<1>9. Lists(R9, N9) /\ Stays(R9)
  <2>1. N8 \in SUBSET FieldNames /\ "AA64AFR" \in FieldNames \ N8
    BY FieldNamesAre DEF Names32, Names64
  <2>2. Count("AA64AFR") = 2
    BY CountsAre
  <2>3. Names32 \subseteq N8
    BY DEF Names32
  <2> HIDE DEF R8, R8, N8
  <2>4. QED
    BY <1>8, <2>1, <2>2, <2>3, CountType, ListsNext
<1>10. Lists(R10, N10) /\ Stays(R10)
  <2>1. N9 \in SUBSET FieldNames /\ "AA64DFR" \in FieldNames \ N9
    BY FieldNamesAre DEF Names32, Names64
  <2>2. Count("AA64DFR") = 3
    BY CountsAre
  <2>3. Names32 \subseteq N9
    BY DEF Names32
  <2> HIDE DEF R8, R9, N9
  <2>4. QED
    BY <1>9, <2>1, <2>2, <2>3, CountType, ListsNext
<1>11. Lists(R11, N11) /\ Stays(R11)
  <2>1. N10 \in SUBSET FieldNames /\ "AA64FPFR" \in FieldNames \ N10
    BY FieldNamesAre DEF Names32, Names64
  <2>2. Count("AA64FPFR") = 1
    BY CountsAre
  <2>3. Names32 \subseteq N10
    BY DEF Names32
  <2> HIDE DEF R8, R10, N10
  <2>4. QED
    BY <1>10, <2>1, <2>2, <2>3, CountType, ListsNext
<1>12. Lists(R12, N12) /\ Stays(R12)
  <2>1. N11 \in SUBSET FieldNames /\ "AA64ISAR" \in FieldNames \ N11
    BY FieldNamesAre DEF Names32, Names64
  <2>2. Count("AA64ISAR") = 4
    BY CountsAre
  <2>3. Names32 \subseteq N11
    BY DEF Names32
  <2> HIDE DEF R8, R11, N11
  <2>4. QED
    BY <1>11, <2>1, <2>2, <2>3, CountType, ListsNext
<1>13. Lists(R13, N13) /\ Stays(R13)
  <2>1. N12 \in SUBSET FieldNames /\ "AA64MMFR" \in FieldNames \ N12
    BY FieldNamesAre DEF Names32, Names64
  <2>2. Count("AA64MMFR") = 5
    BY CountsAre
  <2>3. Names32 \subseteq N12
    BY DEF Names32
  <2> HIDE DEF R8, R12, N12
  <2>4. QED
    BY <1>12, <2>1, <2>2, <2>3, CountType, ListsNext
<1>14. Lists(R14, N14) /\ Stays(R14)
  <2>1. N13 \in SUBSET FieldNames /\ "AA64PFR" \in FieldNames \ N13
    BY FieldNamesAre DEF Names32, Names64
  <2>2. Count("AA64PFR") = 3
    BY CountsAre
  <2>3. Names32 \subseteq N13
    BY DEF Names32
  <2> HIDE DEF R8, R13, N13
  <2>4. QED
    BY <1>13, <2>1, <2>2, <2>3, CountType, ListsNext
<1>15. Lists(R15, N15) /\ Stays(R15)
  <2>1. N14 \in SUBSET FieldNames /\ "AA64SMFR" \in FieldNames \ N14
    BY FieldNamesAre DEF Names32, Names64
  <2>2. Count("AA64SMFR") = 1
    BY CountsAre
  <2>3. Names32 \subseteq N14
    BY DEF Names32
  <2> HIDE DEF R8, R14, N14
  <2>4. QED
    BY <1>14, <2>1, <2>2, <2>3, CountType, ListsNext
<1>16. Lists(R16, N16) /\ Stays(R16)
  <2>1. N15 \in SUBSET FieldNames /\ "AA64ZFR" \in FieldNames \ N15
    BY FieldNamesAre DEF Names32, Names64
  <2>2. Count("AA64ZFR") = 1
    BY CountsAre
  <2>3. Names32 \subseteq N15
    BY DEF Names32
  <2> HIDE DEF R8, R15, N15
  <2>4. QED
    BY <1>15, <2>1, <2>2, <2>3, CountType, ListsNext
<1>17. R8 = Requests32 /\ N8 = Names32
  BY DEF Requests32, Names32
<1>18. R16 = Requests64 /\ N16 = FieldNames
  BY FieldNamesAre DEF Requests32, Requests64, Names32, Names64
<1>19. QED
  BY <1>8, <1>16, <1>17, <1>18

(* The request of register i of field x is answered with register i of x,  *)
(* whichever of the two kernels the driver runs in.                        *)
LEMMA RequestIs ==
  ASSUME NEW x \in FieldNames, NEW p \in Nat, Block(Requests64, x, p)
  PROVE  Position(<<x, 0>>, Requests64) = p + 1
<1>1. /\ DOMAIN Requests64 = 1 .. Len(Requests64) /\ Len(Requests64) \in Nat
      /\ Count(x) \in Nat \ {0}
  BY RequestsAre, CountType, LenProperties DEF Lists
<1>2. p + 1 \in DOMAIN Requests64 /\ Requests64[p + 1] = <<x, 0>>
  <2>1. 1 \in 1 .. Count(x) /\ 1 - 1 = 0 /\ p + 1 <= p + Count(x)
    BY <1>1
  <2>2. p + 1 <= Len(Requests64)
    BY <1>1, <2>1 DEF Block
  <2>3. Requests64[p + 1] = <<x, 1 - 1>>
    BY <2>1 DEF Block
  <2>4. QED
    BY <1>1, <2>1, <2>2, <2>3
<1>3. \A k \in DOMAIN Requests64 : Requests64[k] = <<x, 0>> => k = p + 1
  BY <1>1 DEF Block
<1>4. QED
  BY <1>2, <1>3 DEF Position

LEMMA DriverAnswers ==
  ASSUME machine \in Machines, NEW k \in DOMAIN Fields, NEW c,
         NEW j \in 1 .. Count(Fields[k][1])
  PROVE  ByDriver(Fields[k], j - 1, c).reg = Sysreg[Fields[k][1]][j]
<1> DEFINE x     == Fields[k][1]
           known == IF machine.kernel = "aarch64" THEN Requests64 ELSE Requests32
<1>1. x \in FieldNames /\ Fields[k][2] = Count(x) /\ (machine.kernel # "aarch64" => x \in Names32)
  <2>1. machine.arch = "aarch64" => machine.kernel = "aarch64"
    BY ConstantsAssumption DEF Sound
  <2>2. QED
    BY <2>1, FieldsAre, FieldNamesAre DEF Fields, Names64
<1> HIDE DEF x
<1>2. PICK p \in Nat : Block(known, x, p) /\ Block(Requests64, x, p)
  BY <1>1, RequestsAre DEF Lists
<1>3. \A i \in 1 .. Count(x) : Request(x, i - 1) = p + i
  <2>1. Position(<<x, 0>>, Requests64) = p + 1
    BY <1>1, <1>2, RequestIs
  <2>2. \A i \in 1 .. Count(x) : Request(x, i - 1) = (p + 1) + (i - 1)
    BY <2>1 DEF Request
  <2>3. QED
    BY <1>1, <2>2, CountType
<1>4. \A i \in 1 .. Count(x) : ReadReg(p + i) = Sysreg[x][i]
  <2> SUFFICES ASSUME NEW i \in 1 .. Count(x) PROVE ReadReg(p + i) = Sysreg[x][i]
    OBVIOUS
  <2>1. p + i \in DOMAIN known
    <3>1. DOMAIN known = 1 .. Len(known) /\ Len(known) \in Nat
      BY RequestsAre, LenProperties DEF Lists
    <3>2. Count(x) \in Nat /\ p + Count(x) <= Len(known)
      BY <1>1, <1>2, CountType DEF Block
    <3> HIDE DEF known
    <3>3. QED
      BY <3>1, <3>2
  <2>2. known[p + i] = <<x, i - 1>>
    BY <1>2 DEF Block
  <2>3. known[p + i][1] = x /\ known[p + i][2] + 1 = i
    <3>1. i - 1 + 1 = i
      BY <1>1, CountType
    <3>2. QED
      BY <2>2, <3>1
  <2>4. machine.kernel # "aarch64" => Coprocessor[x] = Sysreg[x]
    BY <1>1, RowsAre
  <2>5. QED
    BY <2>1, <2>3, <2>4 DEF ReadReg
<1>5. j \in 1 .. Count(x)
  BY DEF x
<1>6. ByDriver(Fields[k], j - 1, c).reg = ReadReg(Request(x, j - 1))
  BY DEF ByDriver, x
<1>7. QED
  BY <1>3, <1>4, <1>5, <1>6 DEF x

----------------------------------------------------------------------------
LEMMA WantIsCpu == AnyCpu \notin Cpus /\ NoCpu \notin Cpus /\ AnyCpu # NoCpu
BY ConstantsAssumption DEF AnyCpu, Cpus, NoCpu

LEMMA BlankIs ==
  /\ DOMAIN BlankRecord = FieldNames
  /\ \A x \in FieldNames : DOMAIN BlankRecord[x] = 1 .. Count(x)
  /\ \A x \in FieldNames : \A i \in 1 .. Count(x) : BlankRecord[x][i] = Blank
<1>1. \A x \in FieldNames : DOMAIN Sysreg[x] = 1 .. Count(x)
  BY RowsAre
<1>2. QED
  BY <1>1 DEF BlankRecord

LEMMA FieldNamesOf ==
  /\ DOMAIN Fields = 1 .. Len(Fields) /\ Len(Fields) \in Nat
  /\ \A k \in DOMAIN Fields :
       Fields[k][1] \in FieldNames /\ Fields[k][2] = Count(Fields[k][1])
BY FieldsAre, FieldNamesAre DEF Fields, Names64

LEMMA FieldsBegin ==
  0 \in 0 .. Len(Fields) /\ (0 < Len(Fields) => 0 < Count(Fields[0 + 1][1]))
<1>1. Len(Fields) \in Nat
  BY FieldNamesOf
<1>2. ASSUME 0 < Len(Fields) PROVE 0 < Count(Fields[0 + 1][1])
  <2>1. 1 \in DOMAIN Fields
    BY <1>1, <1>2, FieldNamesOf
  <2>2. Count(Fields[1][1]) \in Nat \ {0}
    BY <2>1, FieldNamesOf, CountType
  <2>3. QED
    BY <2>2
<1>3. QED
  BY <1>1, <1>2

LEMMA InitInv == Init => IInv
<1> SUFFICES ASSUME Init PROVE IInv
  OBVIOUS
<1>1. ModuleInv /\ LiveHasClass /\ FilesInv /\ BindingInv
  BY ConstantsAssumption
  DEF Init, ModuleInv, LinuxModule, BsdModule, LinuxSteps, BsdSteps, LiveHasClass,
      FilesInv, BindingInv, Linux, InsideDriver, NoCpu, Cpus, Machine
<1>2. WantInv
  BY WantIsCpu DEF Init, WantInv, OpenSteps
<1>3. pc = "idle" /\ field = 0 /\ element = 0 /\ viaDriver = FALSE /\ data = BlankRecord
  BY DEF Init
<1>4. FieldInv
  BY <1>3, BlankIs, FieldsBegin DEF FieldInv, Shape
<1>5. RecordInv /\ FilledInv /\ RegsInv /\ MrsInv
  BY <1>3, BlankIs DEF RecordInv, FilledInv, RegsInv, MrsInv
<1>6. QED
  BY <1>1, <1>2, <1>4, <1>5 DEF IInv

(* The thread's own steps leave the machine and the module alone. *)
LEMMA CallerFrame ==
  Caller \/ (\E c \in Cpus \union {AnyCpu} : Acquire(c))
  => UNCHANGED <<machine, online, module, others>>
BY DEF Caller, OpenCore, AccessExists, AccessRead, Modprobed, Open, Malloc, LinuxIoctl,
       BsdIoctl, Bind, ReadRegister, Restore, Close, Fallback, Mrs, Acquire, CallerOnly,
       Outside, module

(* The steps of the module leave the record and the thread alone, except   *)
(* that a load that fails sends a waiting thread to the fallback.          *)
LEMMA LoaderFrame ==
  Loader \/ Exit \/ Unload
  => /\ UNCHANGED <<machine, online, want, fd, field, element, data, entry, viaDriver, thread>>
     /\ UNCHANGED <<at, mask, bound, saved>>
     /\ UNCHANGED pc \/ (pc = "modprobe" /\ pc' = "fallback")
     /\ others' \subseteq others
BY DEF Loader, StartLoad, InitChrdev, InitClass, InitHook, OutClass, OutChrdev, MakeDev,
       DestroyDev, Exit, Unload, ModuleOnly, LoadFailed, caller, thread

LEMMA EnvFrame ==
  ASSUME NEW c \in Cpus,
         GoOffline(c) \/ GoOnline(c) \/ Migrate(c) \/ OtherOpens(c) \/ OtherCloses(c)
  PROVE  /\ UNCHANGED <<machine, mod, chrdev, class, hooked, pc, want, fd, field, element, data,
                        entry, viaDriver, bound, saved>>
         /\ ~GoOffline(c) /\ ~Migrate(c) => UNCHANGED at
         /\ ~GoOffline(c) => UNCHANGED mask
BY DEF GoOffline, GoOnline, Migrate, OtherOpens, OtherCloses, caller, thread, module

(* What is gone during a call stays gone until the next one. *)
LEMMA GoneStays ==
  ASSUME \/ Loader \/ Exit \/ Unload
         \/ \E c \in Cpus : \/ GoOffline(c) \/ GoOnline(c) \/ Migrate(c)
                           \/ OtherOpens(c) \/ OtherCloses(c)
  PROVE  gone => gone'
<1>1. CASE DestroyDev
  BY <1>1, Zenon DEF DestroyDev
<1>2. CASE StartLoad \/ InitChrdev \/ InitClass \/ InitHook \/ OutClass \/ OutChrdev
  BY <1>2 DEF StartLoad, InitChrdev, InitClass, InitHook, OutClass, OutChrdev
<1>3. CASE MakeDev \/ Exit \/ Unload
  BY <1>3 DEF MakeDev, Exit, Unload
<1>4. CASE \E c \in Cpus : GoOffline(c)
  BY <1>4, Zenon DEF GoOffline
<1>5. CASE \E c \in Cpus : GoOnline(c) \/ Migrate(c) \/ OtherOpens(c) \/ OtherCloses(c)
  BY <1>5 DEF GoOnline, Migrate, OtherOpens, OtherCloses
<1>6. QED
  BY <1>1, <1>2, <1>3, <1>4, <1>5 DEF Loader

----------------------------------------------------------------------------
LEMMA ModuleStep == IInv /\ [Next]_vars => ModuleInv' /\ LiveHasClass'
<1> SUFFICES ASSUME IInv, [Next]_vars PROVE ModuleInv' /\ LiveHasClass'
  OBVIOUS
<1> USE DEF IInv, ModuleInv, LiveHasClass, LinuxModule, BsdModule, LinuxSteps, BsdSteps, Linux
<1>1. CASE StartLoad
  BY <1>1 DEF StartLoad, ModuleOnly
<1>2. CASE InitChrdev
  BY <1>2 DEF InitChrdev, ModuleOnly
<1>3. CASE InitClass
  BY <1>3 DEF InitClass, ModuleOnly
<1>4. CASE InitHook
  BY <1>4 DEF InitHook, ModuleOnly
<1>5. CASE OutClass
  BY <1>5 DEF OutClass, ModuleOnly
<1>6. CASE OutChrdev
  BY <1>6 DEF OutChrdev, ModuleOnly
<1>7. CASE MakeDev
  BY <1>7 DEF MakeDev, ModuleOnly
<1>8. CASE DestroyDev
  BY <1>8 DEF DestroyDev, caller, thread
<1>9. CASE Exit
  BY <1>9 DEF Exit, ModuleOnly
<1>10. CASE Unload
  BY <1>10 DEF Unload, ModuleOnly
<1>11. CASE Caller \/ \E c \in Cpus \union {AnyCpu} : Acquire(c)
  BY <1>11, CallerFrame DEF module
<1>12. ASSUME NEW c \in Cpus, GoOffline(c) PROVE ModuleInv' /\ LiveHasClass'
  BY <1>12 DEF GoOffline, LeftDevices
<1>13. ASSUME NEW c \in Cpus, GoOnline(c) PROVE ModuleInv' /\ LiveHasClass'
  BY <1>13 DEF GoOnline
<1>14. ASSUME NEW c \in Cpus, Migrate(c) \/ OtherOpens(c) \/ OtherCloses(c)
       PROVE  ModuleInv' /\ LiveHasClass'
  BY <1>14 DEF Migrate, OtherOpens, OtherCloses, module
<1>15. CASE UNCHANGED vars
  BY <1>15 DEF vars, module
<1>16. QED
  BY <1>1, <1>2, <1>3, <1>4, <1>5, <1>6, <1>7, <1>8, <1>9, <1>10, <1>11, <1>12, <1>13,
     <1>14, <1>15 DEF Next, Loader

----------------------------------------------------------------------------
LEMMA FilesStep == IInv /\ [Next]_vars => FilesInv'
<1> SUFFICES ASSUME IInv, [Next]_vars PROVE FilesInv'
  OBVIOUS
<1> USE DEF IInv, FilesInv, Linux
<1>1. CASE Loader \/ Unload
  <2>1. Linux => mod # "live" \/ ~(Loader \/ Unload)
    BY DEF ModuleInv, LinuxModule, LinuxSteps, Loader, StartLoad, InitChrdev, InitClass,
           InitHook, OutClass, OutChrdev, MakeDev, DestroyDev, Unload
  <2>2. QED
    BY <1>1, <2>1, LoaderFrame
<1>2. CASE Exit
  BY <1>2, LoaderFrame DEF Exit, Unused
<1>3. CASE Open
  BY <1>3 DEF Open, CallerOnly, Outside, module
<1>4. CASE Caller /\ ~Open
  <2>1. UNCHANGED fd \/ fd' = NoCpu
    BY <1>4 DEF Caller, OpenCore, AccessExists, AccessRead, Modprobed, Malloc, LinuxIoctl,
                BsdIoctl, Bind, ReadRegister, Restore, Close, Fallback, Mrs
  <2>2. QED
    BY <1>4, <2>1, CallerFrame DEF module
<1>5. ASSUME NEW c \in Cpus \union {AnyCpu}, Acquire(c) PROVE FilesInv'
  BY <1>5 DEF Acquire, module
<1>6. ASSUME NEW c \in Cpus,
             GoOffline(c) \/ GoOnline(c) \/ Migrate(c) \/ OtherOpens(c) \/ OtherCloses(c)
      PROVE  FilesInv'
  <2>1. (Linux => mod = "live") \/ others' \subseteq others
    BY <1>6 DEF GoOffline, GoOnline, Migrate, OtherOpens, OtherCloses
  <2>2. QED
    BY <1>6, <2>1, EnvFrame
<1>7. CASE UNCHANGED vars
  BY <1>7 DEF vars, module, caller
<1>8. QED
  BY <1>1, <1>2, <1>3, <1>4, <1>5, <1>6, <1>7 DEF Next

----------------------------------------------------------------------------
LEMMA BindingStep == IInv /\ [Next]_vars => BindingInv'
<1> SUFFICES ASSUME IInv, [Next]_vars PROVE BindingInv'
  OBVIOUS
<1> USE DEF IInv, BindingInv, InsideDriver, Linux
<1>1. CASE Loader \/ Exit \/ Unload
  BY <1>1, LoaderFrame
<1>2. CASE OpenCore \/ AccessExists \/ AccessRead \/ Modprobed \/ Fallback \/ Mrs
  BY <1>2 DEF OpenCore, AccessExists, AccessRead, Modprobed, Fallback, Mrs, CallerOnly,
              Outside, thread, Return
<1>3. CASE Open \/ Malloc \/ Close
  BY <1>3 DEF Open, Malloc, Close, CallerOnly, Outside, thread, Return
<1>4. CASE LinuxIoctl
  BY <1>4 DEF LinuxIoctl, CallerOnly, Outside, thread
<1>5. CASE BsdIoctl
  <2>1. /\ UNCHANGED <<machine, bound, at, entry, fd>> /\ pc = "ioctl" /\ ~Linux
        /\ bound = entry
    BY <1>5 DEF BsdIoctl, Outside
  <2>2. CASE saved' = [cpu |-> at, isBound |-> bound # NoCpu] /\ pc' = "bind"
    <3>1. saved'.cpu = at /\ saved'.isBound = (bound # NoCpu)
      BY <2>2, Zenon
    <3>2. saved'.isBound <=> bound # NoCpu
      BY <3>1, Zenon
    <3>3. QED
      BY <2>1, <2>2, <3>1, <3>2
  <2>3. CASE UNCHANGED pc
    BY <2>1, <2>3
  <2>4. QED
    BY <1>5, <2>2, <2>3 DEF BsdIoctl
<1>6. CASE Bind
  BY <1>6 DEF Bind, Outside, TargetCpu
<1>7. CASE ReadRegister
  BY <1>7 DEF ReadRegister, CallerOnly, Outside, thread
<1>8. CASE Restore
  BY <1>8 DEF Restore, Restored, Outside
<1>9. ASSUME NEW c \in Cpus \union {AnyCpu}, Acquire(c) PROVE BindingInv'
  <2>1. /\ UNCHANGED <<machine, bound, saved, fd>> /\ entry' = bound
        /\ pc = "idle" /\ pc' \in {"open_core", "idle"}
        /\ bound # NoCpu => at' = at
    BY <1>9 DEF Acquire, Return
  <2>2. bound # NoCpu => at' = bound
    BY <2>1
  <2>3. QED
    BY <2>1, <2>2
<1>10. ASSUME NEW c \in Cpus,
              GoOffline(c) \/ GoOnline(c) \/ Migrate(c) \/ OtherOpens(c) \/ OtherCloses(c)
       PROVE  BindingInv'
  <2>1. GoOffline(c) \/ Migrate(c) => bound = NoCpu
    BY DEF GoOffline, Migrate
  <2>2. QED
    BY <1>10, <2>1, EnvFrame
<1>11. CASE UNCHANGED vars
  BY <1>11 DEF vars, module, caller, thread
<1>12. QED
  BY <1>1, <1>2, <1>3, <1>4, <1>5, <1>6, <1>7, <1>8, <1>9, <1>10, <1>11 DEF Next, Caller

----------------------------------------------------------------------------
(* What storing a register does to the record. *)
LEMMA StoreIs ==
  ASSUME Shape, NEW k \in DOMAIN Fields, NEW i \in Nat, i < Count(Fields[k][1]), NEW v,
         Store(Fields[k], i, v)
  PROVE  /\ Shape'
         /\ data'[Fields[k][1]][i + 1] = v
         /\ \A x \in FieldNames : \A j \in 1 .. Count(x) :
              data'[x][j] = IF x = Fields[k][1] /\ j = i + 1 THEN v ELSE data[x][j]
<1>1. Fields[k][1] \in FieldNames
  BY FieldNamesOf
<1>2. i + 1 \in 1 .. Count(Fields[k][1])
  BY <1>1, CountType
<1>3. DOMAIN data' = FieldNames
  BY DEF Shape, Store
<1>4. \A x \in FieldNames :
        data'[x] = IF x = Fields[k][1]
                   THEN [data[Fields[k][1]] EXCEPT ![i + 1] = v] ELSE data[x]
  BY <1>1 DEF Shape, Store
<1>5. \A x \in FieldNames : DOMAIN data'[x] = 1 .. Count(x)
  BY <1>1, <1>4 DEF Shape
<1>6. \A x \in FieldNames : \A j \in 1 .. Count(x) :
        data'[x][j] = IF x = Fields[k][1] /\ j = i + 1 THEN v ELSE data[x][j]
  <2> DEFINE y == Fields[k][1]
             m == i + 1
  <2>1. /\ y \in FieldNames /\ DOMAIN data[y] = 1 .. Count(y)
        /\ \A x \in FieldNames : data'[x] = IF x = y THEN [data[y] EXCEPT ![m] = v] ELSE data[x]
    BY <1>1, <1>4 DEF Shape
  <2> HIDE DEF y, m
  <2>2. \A x \in FieldNames : \A j \in 1 .. Count(x) :
          data'[x][j] = IF x = y /\ j = m THEN v ELSE data[x][j]
    BY <2>1
  <2>3. QED
    BY <2>2 DEF y, m
<1>7. QED
  BY <1>1, <1>2, <1>3, <1>5, <1>6 DEF Shape

(* The register that comes next. *)
LEMMA Coming ==
  ASSUME FieldInv, field # Len(Fields)
  PROVE  /\ field < Len(Fields) /\ field + 1 \in DOMAIN Fields /\ field + 1 \in 0 .. Len(Fields)
         /\ element \in Nat /\ element < Count(Fields[field + 1][1])
         /\ Count(Fields[field + 1][1]) \in Nat /\ field \in Nat
         /\ Fields[field + 1][2] = Count(Fields[field + 1][1])
<1>1. ASSUME NEW n \in Nat, NEW f \in 0 .. n, f # n
      PROVE  f < n /\ f + 1 \in 1 .. n /\ f + 1 \in 0 .. n /\ f \in Nat
  BY ONLY <1>1
<1>2. Len(Fields) \in Nat /\ DOMAIN Fields = 1 .. Len(Fields) /\ field \in 0 .. Len(Fields)
  BY FieldNamesOf DEF FieldInv
<1>3. /\ field < Len(Fields) /\ field + 1 \in DOMAIN Fields /\ field + 1 \in 0 .. Len(Fields)
      /\ field \in Nat
  BY <1>1, <1>2, Zenon
<1>4. /\ Count(Fields[field + 1][1]) \in Nat
      /\ Fields[field + 1][2] = Count(Fields[field + 1][1])
  BY <1>3, FieldNamesOf, CountType, Zenon
<1>5. QED
  BY <1>3, <1>4 DEF FieldInv

LEMMA FieldsLeft == FieldInv /\ field < Len(Fields) => field # Len(Fields)
<1>1. ASSUME NEW n \in Nat, NEW f \in 0 .. n, f < n
      PROVE  f # n
  BY ONLY <1>1
<1>2. Len(Fields) \in Nat
  BY FieldNamesOf
<1>3. QED
  BY <1>1, <1>2 DEF FieldInv

(* Storing a value of CPU want keeps what holds of every written register. *)
LEMMA StoreKeeps ==
  ASSUME FieldInv, field # Len(Fields), NEW v, v.cpu = want,
         Store(Fields[field + 1], element, v),
         \A x \in FieldNames : \A i \in 1 .. Count(x) :
           data[x][i] # Blank => data[x][i].cpu = want
  PROVE  \A x \in FieldNames : \A i \in 1 .. Count(x) :
           data'[x][i] # Blank => data'[x][i].cpu = want
<1>1. \A x \in FieldNames : \A j \in 1 .. Count(x) :
        data'[x][j] = IF x = Fields[field + 1][1] /\ j = element + 1 THEN v ELSE data[x][j]
  BY Coming, StoreIs DEF FieldInv
<1>2. QED
  BY <1>1

LEMMA RecordStep == IInv /\ [Next]_vars => RecordInv'
<1> SUFFICES ASSUME IInv, [Next]_vars PROVE RecordInv'
  OBVIOUS
<1> USE DEF IInv, RecordInv
<1>1. CASE Loader \/ Exit \/ Unload
  BY <1>1, LoaderFrame
<1>2. CASE OpenCore \/ AccessExists \/ AccessRead \/ Modprobed \/ Fallback
  BY <1>2 DEF OpenCore, AccessExists, AccessRead, Modprobed, Fallback, CallerOnly, Return
<1>3. CASE Open
  <2>1. devices \subseteq Cpus
    BY ConstantsAssumption
    DEF ModuleInv, LinuxModule, BsdModule, Linux, Machine
  <2>2. QED
    BY <1>3, <2>1 DEF Open, CallerOnly
<1>4. CASE Malloc \/ Close
  BY <1>4 DEF Malloc, Close, CallerOnly, Return
<1>5. CASE LinuxIoctl
  <2>1. pc = "ioctl" /\ pc' = "ioctl" /\ UNCHANGED <<fd, want, viaDriver>> /\ fd = want
    BY <1>5 DEF LinuxIoctl, CallerOnly
  <2>2. CASE UNCHANGED data
    BY <2>1, <2>2
  <2>3. CASE Store(Fields[field + 1], element, ByDriver(Fields[field + 1], element, fd))
    <3>1. ByDriver(Fields[field + 1], element, fd).cpu = want
      BY <2>1 DEF ByDriver
    <3>2. field # Len(Fields)
      BY <1>5, FieldsLeft DEF LinuxIoctl
    <3>3. viaDriver => \A x \in FieldNames : \A i \in 1 .. Count(x) :
                         data'[x][i] # Blank => data'[x][i].cpu = want
      BY <2>3, <3>1, <3>2, StoreKeeps
    <3>4. QED
      BY <2>1, <3>3
  <2>4. QED
    BY <1>5, <2>2, <2>3 DEF LinuxIoctl, TargetCpu
<1>6. CASE BsdIoctl \/ Bind \/ Restore
  BY <1>6 DEF BsdIoctl, Bind, Restore
<1>7. CASE ReadRegister
  <2>1. pc = "read_reg" /\ pc' = "restore" /\ UNCHANGED <<fd, want, viaDriver>> /\ fd = want
    BY <1>7 DEF ReadRegister, CallerOnly
  <2>2. at = want
    <3>1. fd # NoCpu
      BY <2>1, ConstantsAssumption DEF Cpus, NoCpu
    <3>2. QED
      BY <2>1, <3>1 DEF BindingInv
  <2>3. ByDriver(Fields[field + 1], element, at).cpu = want
    BY <2>2 DEF ByDriver
  <2>4. field # Len(Fields)
    BY <2>1, FieldsLeft DEF FieldInv
  <2>5. viaDriver => \A x \in FieldNames : \A i \in 1 .. Count(x) :
                       data'[x][i] # Blank => data'[x][i].cpu = want
    BY <1>7, <2>3, <2>4, StoreKeeps DEF ReadRegister
  <2>6. QED
    BY <2>1, <2>5
<1>8. CASE Mrs
  BY <1>8 DEF Mrs, CallerOnly, Return
<1>9. ASSUME NEW c \in Cpus \union {AnyCpu}, Acquire(c) PROVE RecordInv'
  BY <1>9, BlankIs DEF Acquire, Return
<1>10. ASSUME NEW c \in Cpus,
              GoOffline(c) \/ GoOnline(c) \/ Migrate(c) \/ OtherOpens(c) \/ OtherCloses(c)
       PROVE  RecordInv'
  BY <1>10, EnvFrame
<1>11. CASE UNCHANGED vars
  BY <1>11 DEF vars, caller
<1>12. QED
  BY <1>1, <1>2, <1>3, <1>4, <1>5, <1>6, <1>7, <1>8, <1>9, <1>10, <1>11 DEF Next, Caller

----------------------------------------------------------------------------
(* On FreeBSD a device stays until it is destroyed. *)
LEMMA DeviceStays ==
  ~Linux /\ (Loader \/ Exit \/ Unload) /\ want \in devices /\ ~gone' => want \in devices'
BY DEF Loader, StartLoad, InitChrdev, InitClass, InitHook, OutClass, OutChrdev, MakeDev,
       DestroyDev, Exit, Unload

LEMMA WantStep == IInv /\ [Next]_vars => WantInv'
<1> SUFFICES ASSUME IInv, [Next]_vars PROVE WantInv'
  OBVIOUS
<1> USE DEF IInv, WantInv, OpenSteps, Linux, Movable
<1>1. CASE Loader \/ Exit \/ Unload
  <2>1. (pc' = "idle" => pc = "idle") /\ (pc' \in OpenSteps => pc \in OpenSteps)
        /\ (pc' # "idle" => pc # "idle")
    BY <1>1, LoaderFrame
  <2>2. ~Linux /\ want \in devices /\ ~gone' => want \in devices'
    BY <1>1, DeviceStays
  <2>3. QED
    BY <1>1, <2>1, <2>2, LoaderFrame, GoneStays
<1>2. CASE OpenCore \/ AccessExists \/ AccessRead \/ Modprobed \/ Fallback \/ Mrs
  BY <1>2 DEF OpenCore, AccessExists, AccessRead, Modprobed, Fallback, Mrs, CallerOnly,
              Outside, thread, module, Return
<1>3. CASE Open \/ Malloc \/ Close
  BY <1>3 DEF Open, Malloc, Close, CallerOnly, Outside, thread, module, Return
<1>4. CASE LinuxIoctl \/ ReadRegister
  BY <1>4 DEF LinuxIoctl, ReadRegister, CallerOnly, Outside, thread, module
<1>5. CASE BsdIoctl
  BY <1>5 DEF BsdIoctl, Outside, module
<1>6. CASE Bind
  BY <1>6 DEF Bind, TargetCpu, RecordInv, Outside, module
<1>7. CASE Restore
  <2>1. entry \in {NoCpu, want} => Restored \in {NoCpu, want}
    BY <1>7 DEF Restore, Restored, BindingInv, InsideDriver
  <2>2. bound = want
    BY <1>7 DEF Restore, RecordInv, BindingInv
  <2>3. want \in Cpus => want # NoCpu
    BY WantIsCpu
  <2>4. QED
    BY <1>7, <2>1, <2>2, <2>3 DEF Restore, RecordInv, BindingInv, Outside, module
<1>8. ASSUME NEW c \in Cpus \union {AnyCpu}, Acquire(c) PROVE WantInv'
  <2>1. /\ want' = c /\ entry' = bound /\ gone' = (c \in Cpus \ online)
        /\ pc' \in {"open_core", "idle"} /\ UNCHANGED <<machine, online, devices>>
    BY <1>8 DEF Acquire, Return, module
  <2>2. pc' # "idle" /\ c # AnyCpu /\ machine.affinity /\ bound \in {NoCpu, c} /\ ~gone' =>
          at' = c /\ mask' = c
    <3>1. CASE CanSelect(c)
      BY <1>8, <3>1 DEF Acquire, Return, BindingInv
    <3>2. CASE ~CanSelect(c) /\ c # AnyCpu /\ machine.affinity
      BY <2>1, <3>2 DEF CanSelect
    <3>3. QED
      BY <3>1, <3>2
  <2>3. QED
    BY <2>1, <2>2
<1>9. ASSUME NEW c \in Cpus, GoOffline(c) PROVE WantInv'
  BY <1>9 DEF GoOffline, caller
<1>10. ASSUME NEW c \in Cpus, GoOnline(c) PROVE WantInv'
  BY <1>10 DEF GoOnline, caller, thread
<1>11. ASSUME NEW c \in Cpus, Migrate(c) PROVE WantInv'
  <2>1. pc # "idle" /\ want # AnyCpu /\ Movable /\ ~gone => c = at
    BY <1>11 DEF Migrate
  <2>2. QED
    BY <1>11, <2>1 DEF Migrate, caller, module
<1>12. ASSUME NEW c \in Cpus, OtherOpens(c) \/ OtherCloses(c) PROVE WantInv'
  BY <1>12 DEF OtherOpens, OtherCloses, caller, thread, module
<1>13. CASE UNCHANGED vars
  BY <1>13 DEF vars, caller, thread, module
<1>14. QED
  BY <1>1, <1>2, <1>3, <1>4, <1>5, <1>6, <1>7, <1>8, <1>9, <1>10, <1>11, <1>12, <1>13
  DEF Next, Caller

----------------------------------------------------------------------------
(* What NextRegister and NextField do to the two counters: one register    *)
(* more is done and no other, except that NextField may leave some out.    *)
LEMMA NextCounts ==
  ASSUME FieldInv, field # Len(Fields), NextRegister \/ NextField
  PROVE  /\ field' \in 0 .. Len(Fields) /\ element' \in Nat
         /\ field' < Len(Fields) => element' < Count(Fields[field' + 1][1])
<1>1. /\ field < Len(Fields) /\ field \in Nat /\ field + 1 \in 0 .. Len(Fields) /\ element \in Nat
      /\ Fields[field + 1][2] = Count(Fields[field + 1][1]) /\ Len(Fields) \in Nat
      /\ element < Count(Fields[field + 1][1]) /\ Count(Fields[field + 1][1]) \in Nat
  BY Coming, FieldNamesOf
<1>2. CASE element + 1 < RegistersOf(Fields[field + 1]) /\ NextRegister
  <2>1. field' = field /\ element' = element + 1
    BY <1>2 DEF NextRegister
  <2>2. element + 1 < Count(Fields[field + 1][1])
    BY <1>1, <1>2 DEF RegistersOf
  <2>3. QED
    BY <1>1, <2>1, <2>2
<1>3. CASE NextField
  <2>1. field' = field + 1 /\ element' = 0
    BY <1>3 DEF NextField
  <2>2. ASSUME field + 1 < Len(Fields) PROVE 0 < Count(Fields[field + 1 + 1][1])
    <3>0. \A n \in Nat, f \in Nat : f + 1 < n => f + 1 + 1 \in 1 .. n
      OBVIOUS
    <3>1. field + 1 + 1 \in DOMAIN Fields
      BY <3>0, <1>1, <2>2, FieldNamesOf
    <3>2. Count(Fields[field + 1 + 1][1]) \in Nat \ {0}
      BY <3>1, FieldNamesOf, CountType
    <3>3. QED
      BY <3>2
  <2>3. QED
    BY <1>1, <2>1, <2>2
<1>4. QED
  BY <1>2, <1>3 DEF NextRegister

LEMMA OneDone ==
  ASSUME FieldInv, field # Len(Fields), NextRegister,
         NEW k \in DOMAIN Fields, NEW i \in 1 .. Count(Fields[k][1]),
         k <= field' \/ (k = field' + 1 /\ i <= element')
  PROVE  Done(k, i) \/ (k = field + 1 /\ i = element + 1)
<1>1. ASSUME NEW f \in Nat, NEW m \in Nat, NEW n \in Nat, NEW kk \in Nat, NEW ii \in Nat \ {0},
             NEW g \in Nat, NEW h \in Nat, kk = f + 1 => ii <= n,
             (m + 1 < n /\ g = f /\ h = m + 1) \/ (~(m + 1 < n) /\ g = f + 1 /\ h = 0), m < n,
             kk <= g \/ (kk = g + 1 /\ ii <= h)
      PROVE  kk <= f \/ (kk = f + 1 /\ ii <= m) \/ (kk = f + 1 /\ ii = m + 1)
  BY ONLY <1>1
<1>2. /\ field \in Nat /\ element \in Nat /\ Count(Fields[field + 1][1]) \in Nat
      /\ RegistersOf(Fields[field + 1]) = Count(Fields[field + 1][1])
      /\ element < Count(Fields[field + 1][1]) /\ k \in Nat
  BY Coming, FieldNamesOf DEF RegistersOf
<1>3. i \in Nat \ {0} /\ (k = field + 1 => i <= Count(Fields[field + 1][1]))
  BY FieldNamesOf, CountType
<1>4. \/ element + 1 < Count(Fields[field + 1][1]) /\ field' = field /\ element' = element + 1
      \/ ~(element + 1 < Count(Fields[field + 1][1])) /\ field' = field + 1 /\ element' = 0
  BY <1>2 DEF NextRegister, NextField
<1>5. field' \in Nat /\ element' \in Nat
  BY <1>2, <1>4
<1>6. k <= field \/ (k = field + 1 /\ i <= element) \/ (k = field + 1 /\ i = element + 1)
  BY <1>1, <1>2, <1>3, <1>4, <1>5
<1>7. QED
  BY <1>6 DEF Done

LEMMA DriverFills ==
  ASSUME NEW f, NEW i, NEW c, c # NoCpu
  PROVE  ByDriver(f, i, c) # Blank
BY DEF ByDriver, Blank

LEMMA StoreShape ==
  ASSUME FieldInv, field # Len(Fields), UNCHANGED data \/ \E v : Store(Fields[field + 1], element, v)
  PROVE  Shape'
<1>1. Shape /\ field + 1 \in DOMAIN Fields /\ element \in Nat
      /\ element < Count(Fields[field + 1][1])
  BY Coming DEF FieldInv
<1>2. ASSUME NEW v, Store(Fields[field + 1], element, v) PROVE Shape'
  BY <1>1, <1>2, StoreIs
<1>3. CASE UNCHANGED data
  BY <1>1, <1>3 DEF Shape
<1>4. QED
  BY <1>2, <1>3

(* The invariant of the counters after a step that reads a register. *)
LEMMA ReadingKeeps ==
  ASSUME FieldInv, field # Len(Fields), NextRegister \/ NextField, UNCHANGED <<machine, viaDriver>>,
         UNCHANGED data \/ \E v : Store(Fields[field + 1], element, v),
         pc' \in {"ioctl", "restore"} => viaDriver, pc' \in {"ioctl", "restore", "mrs"}
  PROVE  FieldInv'
<1>1. Shape'
  BY StoreShape
<1>2. UNCHANGED Fields
  BY DEF Fields
<1>3. /\ field' \in 0 .. Len(Fields) /\ element' \in Nat
      /\ field' < Len(Fields) => element' < Count(Fields[field' + 1][1])
  BY NextCounts
<1>4. QED
  BY <1>1, <1>2, <1>3 DEF FieldInv

LEMMA FieldStep == IInv /\ [Next]_vars => FieldInv'
<1> SUFFICES ASSUME IInv, [Next]_vars PROVE FieldInv'
  OBVIOUS
<1>i. FieldInv /\ ModuleInv /\ RecordInv /\ BindingInv /\ WantInv
  BY DEF IInv
<1>1. CASE Loader \/ Exit \/ Unload
  <2>1. UNCHANGED <<machine, field, element, data, viaDriver>>
        /\ (UNCHANGED pc \/ (pc = "modprobe" /\ pc' = "fallback"))
    BY <1>1, LoaderFrame
  <2>2. QED
    BY <1>i, <2>1 DEF FieldInv, Fields, Shape
<1>2. CASE OpenCore \/ AccessExists \/ AccessRead \/ Modprobed \/ Open
  <2>1. UNCHANGED <<machine, field, element, data, viaDriver>>
        /\ pc \in {"open_core", "access", "access_read", "modprobe", "open"}
        /\ pc' \notin {"idle", "bind", "read_reg", "restore", "ioctl"}
    BY <1>2 DEF OpenCore, AccessExists, AccessRead, Modprobed, Open, CallerOnly, Outside
  <2>2. QED
    BY <1>i, <2>1 DEF FieldInv, Fields, Shape
<1>3. CASE Malloc
  <2>1. UNCHANGED <<machine, field, element, data>> /\ pc = "malloc"
        /\ \/ pc' = "ioctl" /\ viaDriver'
           \/ pc' = "fallback" /\ UNCHANGED viaDriver
    BY <1>3 DEF Malloc, CallerOnly, Outside
  <2>2. QED
    BY <1>i, <2>1 DEF FieldInv, Fields, Shape, RecordInv
<1>4. CASE Close
  <2>1. UNCHANGED <<machine, field, element, data, viaDriver>> /\ pc' = "idle"
        /\ field = Len(Fields)
    BY <1>4 DEF Close, CallerOnly, Outside, Return
  <2>2. QED
    BY <1>i, <2>1 DEF FieldInv, Fields, Shape
<1>5. CASE Fallback
  <2>1. UNCHANGED <<machine, field, element, data, viaDriver>> /\ pc' \in {"idle", "mrs"}
        /\ pc = "fallback"
    BY <1>5 DEF Fallback, CallerOnly, Outside, Return
  <2>2. ~viaDriver
    BY <1>i, <2>1 DEF RecordInv
  <2>3. QED
    BY <1>i, <2>1, <2>2 DEF FieldInv, Fields, Shape
<1>6. CASE LinuxIoctl
  <2>1. /\ UNCHANGED <<machine, viaDriver, pc>> /\ pc = "ioctl" /\ viaDriver
        /\ field < Len(Fields) /\ NextRegister
        /\ UNCHANGED data \/ \E v : Store(Fields[field + 1], element, v)
    BY <1>i, <1>6 DEF LinuxIoctl, CallerOnly, Outside, FieldInv
  <2>2. QED
    BY <1>i, <2>1, FieldsLeft, ReadingKeeps
<1>7. CASE BsdIoctl
  <2>1. UNCHANGED <<machine, viaDriver, data>> /\ pc = "ioctl" /\ viaDriver /\ field < Len(Fields)
    BY <1>i, <1>7 DEF BsdIoctl, Outside, FieldInv
  <2>2. CASE pc' = "bind" /\ UNCHANGED <<field, element>>
    BY <1>i, <2>1, <2>2 DEF FieldInv, Fields, Shape
  <2>3. CASE NextRegister /\ UNCHANGED pc
    BY <1>i, <2>1, <2>3, FieldsLeft, ReadingKeeps
  <2>4. QED
    BY <1>7, <2>2, <2>3 DEF BsdIoctl
<1>8. CASE Bind \/ Restore
  <2>1. UNCHANGED <<machine, field, element, data, viaDriver>>
        /\ \/ pc = "bind" /\ pc' = "read_reg"
           \/ pc = "restore" /\ pc' = "ioctl"
    BY <1>8 DEF Bind, Restore, Outside
  <2>2. QED
    BY <1>i, <2>1 DEF FieldInv, Fields, Shape
<1>9. CASE ReadRegister
  <2>1. /\ UNCHANGED <<machine, viaDriver>> /\ pc = "read_reg" /\ pc' = "restore" /\ viaDriver
        /\ NextRegister /\ field < Len(Fields)
        /\ UNCHANGED data \/ \E v : Store(Fields[field + 1], element, v)
    BY <1>i, <1>9 DEF ReadRegister, CallerOnly, Outside, FieldInv
  <2>2. QED
    BY <1>i, <2>1, FieldsLeft, ReadingKeeps
<1>10. CASE Mrs
  <2>1. UNCHANGED <<machine, viaDriver>> /\ pc = "mrs" /\ ~viaDriver
    BY <1>i, <1>10 DEF Mrs, CallerOnly, Outside, RecordInv
  <2>2. CASE pc' = "idle" /\ UNCHANGED <<field, element, data>>
    BY <1>i, <2>1, <2>2 DEF FieldInv, Fields, Shape
  <2>3. CASE /\ field # Len(Fields) /\ UNCHANGED pc
             /\ NextRegister \/ NextField
             /\ UNCHANGED data \/ \E v : Store(Fields[field + 1], element, v)
    BY <1>i, <2>1, <2>3, ReadingKeeps
  <2>4. QED
    BY <1>10, <2>2, <2>3 DEF Mrs, Return
<1>11. ASSUME NEW c \in Cpus \union {AnyCpu}, Acquire(c) PROVE FieldInv'
  <2>1. /\ field' = 0 /\ element' = 0 /\ data' = BlankRecord /\ viaDriver' = FALSE
        /\ pc' \in {"open_core", "idle"} /\ UNCHANGED machine
    BY <1>11 DEF Acquire, Return
  <2>2. UNCHANGED Fields /\ Shape'
    BY <2>1, BlankIs DEF Fields, Shape
  <2>3. QED
    BY <2>1, <2>2, FieldsBegin DEF FieldInv
<1>12. ASSUME NEW c \in Cpus,
              GoOffline(c) \/ GoOnline(c) \/ Migrate(c) \/ OtherOpens(c) \/ OtherCloses(c)
       PROVE  FieldInv'
  <2>1. UNCHANGED <<machine, pc, field, element, data, viaDriver>>
    BY <1>12, EnvFrame
  <2>2. QED
    BY <1>i, <2>1 DEF FieldInv, Fields, Shape
<1>13. CASE UNCHANGED vars
  BY <1>i, <1>13 DEF vars, caller, FieldInv, Fields, Shape
<1>14. QED
  BY <1>1, <1>2, <1>3, <1>4, <1>5, <1>6, <1>7, <1>8, <1>9, <1>10, <1>11, <1>12, <1>13
  DEF Next, Caller

----------------------------------------------------------------------------
(* One more register is written, or the CPU is gone. *)
LEMMA OneMoreFilled ==
  ASSUME FieldInv, FilledInv, field # Len(Fields), NextRegister,
         UNCHANGED <<machine, viaDriver>>, gone => gone',
         \/ UNCHANGED data /\ gone'
         \/ \E v : v # Blank /\ Store(Fields[field + 1], element, v)
  PROVE  FilledInv'
<1>1. UNCHANGED Fields
  BY DEF Fields
<1>2. CASE gone'
  BY <1>2 DEF FilledInv
<1>3. ASSUME NEW v, v # Blank, Store(Fields[field + 1], element, v), ~gone', viaDriver',
             NEW k \in DOMAIN Fields, NEW i \in 1 .. Count(Fields[k][1]),
             k <= field' \/ (k = field' + 1 /\ i <= element')
      PROVE  data'[Fields[k][1]][i] # Blank
  <2>1. Done(k, i) \/ (k = field + 1 /\ i = element + 1)
    BY <1>3, OneDone
  <2>2. Shape /\ field + 1 \in DOMAIN Fields /\ element \in Nat
        /\ element < Count(Fields[field + 1][1])
    BY Coming DEF FieldInv
  <2>3. /\ data'[Fields[field + 1][1]][element + 1] = v
        /\ \A x \in FieldNames : \A j \in 1 .. Count(x) :
             data'[x][j] = IF x = Fields[field + 1][1] /\ j = element + 1 THEN v ELSE data[x][j]
    BY <1>3, <2>2, StoreIs
  <2>4. CASE k = field + 1 /\ i = element + 1
    BY <1>3, <2>3, <2>4
  <2>5. CASE Done(k, i)
    <3>1. data[Fields[k][1]][i] # Blank
      BY <1>3, <2>5 DEF FilledInv
    <3>2. Fields[k][1] \in FieldNames
      BY FieldNamesOf
    <3>3. QED
      BY <1>3, <2>3, <3>1, <3>2
  <2>6. QED
    BY <2>1, <2>4, <2>5
<1>4. QED
  BY <1>1, <1>2, <1>3 DEF FilledInv, Done

LEMMA FilledStep == IInv /\ [Next]_vars => FilledInv'
<1> SUFFICES ASSUME IInv, [Next]_vars PROVE FilledInv'
  OBVIOUS
<1>i. FieldInv /\ FilledInv /\ ModuleInv /\ RecordInv /\ BindingInv /\ WantInv
  BY DEF IInv
<1>1. CASE UNCHANGED <<machine, field, element, data, viaDriver>> /\ (gone => gone')
  BY <1>i, <1>1 DEF FilledInv, Fields, Done
<1>2. CASE Malloc
  <2>1. UNCHANGED <<machine, field, element, data>> /\ pc = "malloc"
    BY <1>2 DEF Malloc, CallerOnly, Outside
  <2>2. field = 0 /\ element = 0
    BY <1>i, <2>1 DEF FieldInv
  <2>3. \A k \in DOMAIN Fields : \A i \in 1 .. Count(Fields[k][1]) : ~Done(k, i)
    BY <2>2, FieldNamesOf DEF Done
  <2>4. QED
    BY <2>1, <2>3 DEF FilledInv, Fields, Done
<1>3. CASE OpenCore \/ AccessExists \/ AccessRead \/ Modprobed \/ Open \/ Close \/ Fallback
  BY <1>1, <1>3 DEF OpenCore, AccessExists, AccessRead, Modprobed, Open, Close, Fallback,
                   CallerOnly, Outside
<1>4. CASE LinuxIoctl
  <2>1. /\ UNCHANGED <<machine, online, viaDriver, gone, want>> /\ pc = "ioctl"
        /\ field < Len(Fields) /\ NextRegister /\ fd = want /\ want \in Cpus
    BY <1>i, <1>4 DEF LinuxIoctl, CallerOnly, Outside, RecordInv
  <2>2. \/ UNCHANGED data /\ gone'
        \/ \E v : v # Blank /\ Store(Fields[field + 1], element, v)
    <3>1. CASE fd \in online
      <4>1. ByDriver(Fields[field + 1], element, fd) # Blank
        BY <2>1, DriverFills, WantIsCpu
      <4>2. Store(Fields[field + 1], element, ByDriver(Fields[field + 1], element, fd))
        BY <1>4, <3>1 DEF LinuxIoctl, TargetCpu
      <4>3. QED
        BY <4>1, <4>2
    <3>2. CASE fd \notin online
      BY <1>i, <1>4, <2>1, <3>2 DEF LinuxIoctl, WantInv
    <3>3. QED
      BY <3>1, <3>2
  <2>3. QED
    BY <1>i, <2>1, <2>2, FieldsLeft, OneMoreFilled
<1>5. CASE BsdIoctl
  <2>1. /\ UNCHANGED <<machine, viaDriver, gone, data>> /\ pc = "ioctl" /\ ~Linux
        /\ field < Len(Fields) /\ fd = want /\ want \in Cpus
    BY <1>i, <1>5 DEF BsdIoctl, Outside, RecordInv
  <2>2. CASE UNCHANGED <<field, element>>
    BY <1>1, <2>1, <2>2
  <2>3. CASE NextRegister /\ ~(fd \in devices /\ fd \in machine.enabled)
    <3>1. devices \subseteq machine.enabled
      BY <1>i, <2>1 DEF ModuleInv, BsdModule
    <3>2. gone'
      BY <1>i, <2>1, <2>3, <3>1 DEF WantInv, OpenSteps
    <3>3. QED
      BY <3>2 DEF FilledInv
  <2>4. QED
    BY <1>5, <2>2, <2>3 DEF BsdIoctl
<1>6. CASE Bind \/ Restore
  BY <1>1, <1>6 DEF Bind, Restore, Outside
<1>7. CASE ReadRegister
  <2>1. /\ UNCHANGED <<machine, viaDriver, gone>> /\ NextRegister
        /\ Store(Fields[field + 1], element, ByDriver(Fields[field + 1], element, at))
        /\ field < Len(Fields) /\ at = fd /\ fd \in Cpus
    BY <1>i, <1>7, WantIsCpu
    DEF ReadRegister, CallerOnly, Outside, FieldInv, BindingInv, RecordInv
  <2>2. ByDriver(Fields[field + 1], element, at) # Blank
    BY <2>1, DriverFills, WantIsCpu
  <2>3. QED
    BY <1>i, <2>1, <2>2, FieldsLeft, OneMoreFilled
<1>8. CASE Mrs
  <2>1. ~viaDriver'
    BY <1>i, <1>8 DEF Mrs, RecordInv
  <2>2. QED
    BY <2>1 DEF FilledInv
<1>9. ASSUME NEW c \in Cpus \union {AnyCpu}, Acquire(c) PROVE FilledInv'
  BY <1>9 DEF Acquire, FilledInv
<1>10. CASE Loader \/ Exit \/ Unload
  BY <1>1, <1>10, LoaderFrame, GoneStays
<1>11. ASSUME NEW c \in Cpus,
              GoOffline(c) \/ GoOnline(c) \/ Migrate(c) \/ OtherOpens(c) \/ OtherCloses(c)
       PROVE  FilledInv'
  BY <1>1, <1>11, EnvFrame, GoneStays
<1>12. CASE UNCHANGED vars
  BY <1>1, <1>12 DEF vars, caller
<1>13. QED
  BY <1>2, <1>3, <1>4, <1>5, <1>6, <1>7, <1>8, <1>9, <1>10, <1>11, <1>12 DEF Next, Caller

----------------------------------------------------------------------------
(* A register stored in its place is the one the place is for. *)
LEMMA StoreRegs ==
  ASSUME FieldInv, RegsInv, field # Len(Fields), NEW v, Store(Fields[field + 1], element, v),
         v.reg = Sysreg[Fields[field + 1][1]][element + 1]
  PROVE  RegsInv'
<1>1. \A x \in FieldNames : \A j \in 1 .. Count(x) :
        data'[x][j] = IF x = Fields[field + 1][1] /\ j = element + 1 THEN v ELSE data[x][j]
  BY Coming, StoreIs DEF FieldInv
<1>2. QED
  BY <1>1 DEF RegsInv

LEMMA RegsStep == IInv /\ [Next]_vars => RegsInv'
<1> SUFFICES ASSUME IInv, [Next]_vars PROVE RegsInv'
  OBVIOUS
<1>i. FieldInv /\ ModuleInv /\ RegsInv
  BY DEF IInv
<1>1. CASE UNCHANGED data
  BY <1>i, <1>1 DEF RegsInv
<1>2. CASE LinuxIoctl \/ ReadRegister
  <2>1. field # Len(Fields)
    BY <1>i, <1>2, FieldsLeft DEF LinuxIoctl, ReadRegister, FieldInv
  <2>2. field + 1 \in DOMAIN Fields /\ element \in Nat /\ element < Count(Fields[field + 1][1])
    BY <1>i, <2>1, Coming
  <2>3. UNCHANGED data \/ \E c : Store(Fields[field + 1], element,
                                       ByDriver(Fields[field + 1], element, c))
    BY <1>2 DEF LinuxIoctl, ReadRegister
  <2>4. ASSUME NEW c
        PROVE  ByDriver(Fields[field + 1], element, c).reg = Sysreg[Fields[field + 1][1]][element + 1]
    <3>1. element + 1 \in 1 .. Count(Fields[field + 1][1]) /\ element + 1 - 1 = element
      BY <2>2, FieldNamesOf, CountType
    <3>2. ByDriver(Fields[field + 1], element + 1 - 1, c).reg
            = Sysreg[Fields[field + 1][1]][element + 1]
      BY <1>i, <2>2, <3>1, DriverAnswers DEF ModuleInv
    <3>3. QED
      BY <3>1, <3>2
  <2>5. QED
    BY <1>i, <1>1, <2>1, <2>3, <2>4, StoreRegs
<1>3. CASE Mrs
  <2>1. CASE field # Len(Fields) /\ Store(Fields[field + 1], element, ByMrs(Fields[field + 1], element, at))
    <3>1. ByMrs(Fields[field + 1], element, at).reg = Sysreg[Fields[field + 1][1]][element + 1]
      BY DEF ByMrs
    <3>2. QED
      BY <1>i, <2>1, <3>1, StoreRegs
  <2>2. QED
    BY <1>1, <1>3, <2>1 DEF Mrs
<1>4. ASSUME NEW c \in Cpus \union {AnyCpu}, Acquire(c) PROVE RegsInv'
  BY <1>4, BlankIs DEF Acquire, RegsInv
<1>5. CASE Caller /\ ~LinuxIoctl /\ ~ReadRegister /\ ~Mrs
  BY <1>1, <1>5 DEF Caller, OpenCore, AccessExists, AccessRead, Modprobed, Open, Malloc,
                   BsdIoctl, Bind, Restore, Close, Fallback
<1>6. CASE Loader \/ Exit \/ Unload
  BY <1>1, <1>6, LoaderFrame
<1>7. ASSUME NEW c \in Cpus,
             GoOffline(c) \/ GoOnline(c) \/ Migrate(c) \/ OtherOpens(c) \/ OtherCloses(c)
      PROVE  RegsInv'
  BY <1>1, <1>7, EnvFrame
<1>8. CASE UNCHANGED vars
  BY <1>1, <1>8 DEF vars, caller
<1>9. QED
  BY <1>2, <1>3, <1>4, <1>5, <1>6, <1>7, <1>8 DEF Next

LEMMA MrsStep == IInv /\ [Next]_vars => MrsInv'
<1> SUFFICES ASSUME IInv, [Next]_vars PROVE MrsInv'
  OBVIOUS
<1>i. FieldInv /\ WantInv /\ MrsInv /\ RecordInv
  BY DEF IInv
<1>1. CASE UNCHANGED <<data, viaDriver, want, machine, entry>> /\ (gone => gone')
  BY <1>i, <1>1 DEF MrsInv, Movable
<1>2. CASE LinuxIoctl \/ BsdIoctl \/ Bind \/ ReadRegister \/ Restore \/ Close
  <2>1. pc \in {"ioctl", "bind", "read_reg", "restore"} /\ UNCHANGED viaDriver
    BY <1>2 DEF LinuxIoctl, BsdIoctl, Bind, ReadRegister, Restore, Close, CallerOnly
  <2>2. QED
    BY <1>i, <2>1 DEF FieldInv, MrsInv
<1>3. CASE Malloc
  <2>1. /\ pc = "malloc" /\ UNCHANGED <<data, want, machine, entry, gone>>
        /\ viaDriver' \/ UNCHANGED viaDriver
    BY <1>3 DEF Malloc, CallerOnly, Outside
  <2>2. QED
    BY <1>i, <2>1 DEF MrsInv, Movable
<1>4. CASE OpenCore \/ AccessExists \/ AccessRead \/ Modprobed \/ Open \/ Fallback
  BY <1>1, <1>4 DEF OpenCore, AccessExists, AccessRead, Modprobed, Open, Fallback, CallerOnly,
                   Outside
<1>5. CASE Mrs
  <2>1. /\ pc = "mrs" /\ UNCHANGED <<machine, want, entry, gone, viaDriver>>
    BY <1>5 DEF Mrs, CallerOnly, Outside
  <2>2. CASE UNCHANGED data
    BY <1>1, <2>1, <2>2
  <2>3. CASE field # Len(Fields) /\ Store(Fields[field + 1], element, ByMrs(Fields[field + 1], element, at))
    <3>1. Shape /\ field + 1 \in DOMAIN Fields /\ element \in Nat
          /\ element < Count(Fields[field + 1][1])
      BY <1>i, <2>3, Coming DEF FieldInv
    <3>2. want # AnyCpu /\ Movable /\ ~gone => ByMrs(Fields[field + 1], element, at).cpu = want
      BY <1>i, <2>1 DEF WantInv, ByMrs
    <3>3. \A x \in FieldNames : \A j \in 1 .. Count(x) :
            data'[x][j] = IF x = Fields[field + 1][1] /\ j = element + 1
                          THEN ByMrs(Fields[field + 1], element, at) ELSE data[x][j]
      BY <2>3, <3>1, StoreIs
    <3>4. UNCHANGED Movable
      BY <2>1 DEF Movable
    <3>5. QED
      BY <1>i, <2>1, <3>2, <3>3, <3>4 DEF MrsInv
  <2>4. QED
    BY <1>5, <2>2, <2>3 DEF Mrs
<1>6. ASSUME NEW c \in Cpus \union {AnyCpu}, Acquire(c) PROVE MrsInv'
  BY <1>6, BlankIs DEF Acquire, MrsInv
<1>7. CASE Loader \/ Exit \/ Unload
  BY <1>1, <1>7, LoaderFrame, GoneStays
<1>8. ASSUME NEW c \in Cpus,
             GoOffline(c) \/ GoOnline(c) \/ Migrate(c) \/ OtherOpens(c) \/ OtherCloses(c)
      PROVE  MrsInv'
  BY <1>1, <1>8, EnvFrame, GoneStays
<1>9. CASE UNCHANGED vars
  BY <1>1, <1>9 DEF vars, caller
<1>10. QED
  BY <1>2, <1>3, <1>4, <1>5, <1>6, <1>7, <1>8, <1>9 DEF Next, Caller

----------------------------------------------------------------------------
(* The invariant holds in every reachable state. *)
THEOREM Invariance == Spec => []IInv
<1>1. IInv /\ [Next]_vars => IInv'
  BY ModuleStep, FilesStep, BindingStep, RecordStep, WantStep, FieldStep, FilledStep, RegsStep,
     MrsStep
  DEF IInv
<1>2. QED
  BY InitInv, <1>1, PTL DEF Spec

(* On Linux the device files are those of the CPUs that are up for as long *)
(* as the module is in place, on FreeBSD those of the enabled CPUs, and    *)
(* nothing stays registered after an unload or a failed load (cpuid_init,  *)
(* cpuid_exit, cpuid_modevent).                                            *)
THEOREM DevicesAlwaysMirrorCpus == Spec => []DevicesMirrorCpus
<1>1. IInv => DevicesMirrorCpus
  BY DEF IInv, ModuleInv, LinuxModule, BsdModule, LinuxSteps, BsdSteps, DevicesMirrorCpus
<1>2. QED
  BY Invariance, <1>1, PTL

(* No file is open on a Linux module that is being taken apart (cpuid_fops *)
(* names its owner, and a module in use is not unloaded).                  *)
THEOREM FilesKeepTheModule == Spec => []NoFileOnGoneModule
<1>1. IInv => NoFileOnGoneModule
  BY DEF IInv, ModuleInv, LinuxModule, FilesInv, LiveHasClass, NoFileOnGoneModule
<1>2. QED
  BY Invariance, <1>1, PTL

(* FreeBSD's driver gives the thread back bound as it found it             *)
(* (cpu_sched_is_bound, set_cpu, restore_cpu).                             *)
THEOREM BindingAlwaysRestored == Spec => []BindingRestored
<1>1. IInv => BindingRestored
  BY DEF IInv, BindingInv, InsideDriver, BindingRestored
<1>2. QED
  BY Invariance, <1>1, PTL

(* Whatever the driver wrote into a record was read on the CPU the caller  *)
(* asked for, through every hot-plug event, migration and unload, on Linux *)
(* and on FreeBSD (cpuid_ioctl, __read_reg_on_cpu,                         *)
(* cpuid_get_raw_data_core).                                               *)
DriverReadsWanted ==
  viaDriver => \A x \in DOMAIN data : \A i \in DOMAIN data[x] :
                 data[x][i] # Blank => data[x][i].cpu = want

THEOREM DriverAlwaysReadsWanted == Spec => []DriverReadsWanted
<1>1. IInv => DriverReadsWanted
  BY DEF IInv, RecordInv, FieldInv, Shape, DriverReadsWanted
<1>2. QED
  BY Invariance, <1>1, PTL

(* In a record that was acquired every register is in its own place, and   *)
(* of the CPU that was asked for: with the driver in any case, without it  *)
(* as long as the CPU stayed and the thread could be moved to it, element  *)
(* by element (cpuid_ioctl, __read_reg_on_cpu, cpuid_get_raw_data_core).   *)
THEOREM FieldsAlwaysOfTheirCpu == Spec => []FieldsAreOfTheirCpu
<1>1. IInv => FieldsAreOfTheirCpu
  <2> SUFFICES ASSUME IInv, Acquired, NEW k \in DOMAIN Fields, NEW i \in 1 .. Fields[k][2],
                      data[Fields[k][1]][i] # Blank
               PROVE  /\ data[Fields[k][1]][i].reg = Sysreg[Fields[k][1]][i]
                      /\ want # AnyCpu /\ (viaDriver \/ (Movable /\ ~gone)) =>
                           data[Fields[k][1]][i].cpu = want
    BY DEF FieldsAreOfTheirCpu
  <2>1. Fields[k][1] \in FieldNames /\ i \in 1 .. Count(Fields[k][1])
    BY FieldNamesOf
  <2>2. QED
    BY <2>1 DEF IInv, RegsInv, MrsInv, RecordInv
<1>2. QED
  BY Invariance, <1>1, PTL

(* The driver leaves no register of a record out unless the CPU or its     *)
(* device file went away during the call (cpuid_ioctl,                     *)
(* cpu_read_arm_register).                                                 *)
THEOREM BlankAlwaysGone == Spec => []BlankOnlyIfGone
<1>1. IInv => BlankOnlyIfGone
  <2> SUFFICES ASSUME IInv, Acquired, viaDriver, ~gone,
                      NEW k \in DOMAIN Fields, NEW i \in 1 .. Fields[k][2]
               PROVE  data[Fields[k][1]][i] # Blank
    BY DEF BlankOnlyIfGone
  <2>1. i \in 1 .. Count(Fields[k][1])
    BY FieldNamesOf
  <2>2. k <= field
    BY FieldNamesOf DEF IInv, FieldInv, Acquired
  <2>3. QED
    BY <2>1, <2>2 DEF IInv, FilledInv, Done
<1>2. QED
  BY Invariance, <1>1, PTL

=============================================================================
