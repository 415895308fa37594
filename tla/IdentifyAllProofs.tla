-------------------------- MODULE IdentifyAllProofs --------------------------
(* Proofs about IdentifyAll, for every raw array and every table size. *)
EXTENDS IdentifyAll, FiniteSetTheorems, TLAPS

Topologies == [ok : BOOLEAN, apic : Int, package : PackageId, core : Int]

(* A remainder lies below its divisor, whatever the sign of the dividend. *)
LEMMA Remainder ==
  ASSUME NEW n \in Int, NEW d \in Nat \ {0}
  PROVE  n % d \in 0 .. d - 1 /\ n % d \in Nat
OBVIOUS

(* A natural number rounded down to a multiple is a natural number. *)
LEMMA RoundedDown ==
  ASSUME NEW n \in Nat, NEW d \in Nat \ {0}
  PROVE  n - (n % d) \in Nat
<1>1. n = (d * (n \div d)) + (n % d) /\ n % d \in Nat /\ n \div d \in Nat
  OBVIOUS
<1>2. d * (n \div d) \in Nat
  BY <1>1
<1>3. QED
  BY <1>1, <1>2

(* A counter with a modulus stays in its range. *)
LEMMA NextCount ==
  ASSUME NEW n \in 0 .. CountMod - 1
  PROVE  (n + 1) % CountMod \in 0 .. CountMod - 1
<1>1. n + 1 \in Int /\ CountMod \in Nat \ {0}
  BY ConstantsAssumption
<1>2. QED
  BY <1>1, Remainder

LEMMA EmptyTableType == EmptyTable \in Table /\ NoCaches \in [Levels -> Table]
<1>1. 0 \in 0 .. CountMod - 1
  BY ConstantsAssumption
<1>2. QED
  BY <1>1 DEF EmptyTable, NoCaches, Table

(* Counting one logical CPU keeps a table a table. *)
LEMMA TouchedType ==
  ASSUME NEW table \in Table, NEW id \in Int
  PROVE  Touched(table, id) \in Table
<1> DEFINE Slots == [0 .. TableSize - 1 -> [n : Nat, id : Int]]
           s     == id % TableSize
           entry == table.slots[s]
           new   == [n |-> entry.n + 1, id |-> id]
<1>1. s \in 0 .. TableSize - 1
  BY ConstantsAssumption, Remainder
<1>2. table.count \in 0 .. CountMod - 1 /\ table.slots \in Slots
  BY DEF Table
<1>3. entry \in [n : Nat, id : Int]
  BY <1>1, <1>2
<1>4. new \in [n : Nat, id : Int]
  BY <1>3
<1>5. [table.slots EXCEPT ![s] = new] \in Slots
  BY <1>1, <1>2, <1>4
<1>6. (table.count + 1) % CountMod \in 0 .. CountMod - 1
  BY <1>2, NextCount
<1>7. CASE entry.id \notin {0, id}
  BY <1>7 DEF Touched
<1>8. CASE entry.id \in {0, id}
  <2>1. Touched(table, id) =
          [count |-> IF entry.n = 0 THEN (table.count + 1) % CountMod
                                    ELSE table.count,
           slots |-> [table.slots EXCEPT ![s] = new]]
    BY <1>8 DEF Touched
  <2>2. QED
    BY <2>1, <1>2, <1>5, <1>6 DEF Table
<1>9. QED
  BY <1>7, <1>8

LEMMA TouchedCachesType ==
  ASSUME NEW tables \in [Levels -> Table], NEW apic \in Int,
         NEW sharing \in [Levels -> Nat]
  PROVE  TouchedCaches(tables, apic, sharing) \in [Levels -> Table]
<1>1. ASSUME NEW l \in Levels, sharing[l] # 0
      PROVE  Touched(tables[l], CacheId(apic, sharing[l])) \in Table
  <2>1. sharing[l] \in Nat \ {0}
    BY <1>1
  <2>2. CacheId(apic, sharing[l]) \in Int
    BY <2>1, Remainder DEF CacheId
  <2>3. QED
    BY <2>2, TouchedType
<1>2. QED
  BY <1>1 DEF TouchedCaches

-----------------------------------------------------------------------------
(* Where a CPU sits. *)

LEMMA Element ==
  ASSUME NEW S, NEW q \in Seq(S), NEW i \in DOMAIN q
  PROVE  q[i] \in S
OBVIOUS

LEMMA Update ==
  ASSUME NEW S, NEW q \in Seq(S), NEW i \in DOMAIN q, NEW v \in S
  PROVE  /\ [q EXCEPT ![i] = v] \in Seq(S)
         /\ DOMAIN [q EXCEPT ![i] = v] = DOMAIN q
         /\ [q EXCEPT ![i] = v][i] = v
         /\ \A j \in DOMAIN q \ {i} : [q EXCEPT ![i] = v][j] = q[j]
OBVIOUS

LEMMA Appended ==
  ASSUME NEW S, NEW q \in Seq(S), NEW v \in S
  PROVE  /\ Append(q, v) \in Seq(S)
         /\ Len(Append(q, v)) = Len(q) + 1
         /\ DOMAIN Append(q, v) = DOMAIN q \union {Len(q) + 1}
         /\ Len(q) + 1 \notin DOMAIN q
         /\ Append(q, v)[Len(q) + 1] = v
         /\ \A j \in DOMAIN q : Append(q, v)[j] = q[j]
OBVIOUS

LEMMA RawDataFields ==
  ASSUME NEW cpu \in RawData
  PROVE  /\ cpu.levels \in Seq([type : Nat, span : Nat \ {0}])
         /\ cpu.mpidr \in {<<>>} \union (PackageId \X Nat)
         /\ cpu.apic \in Nat /\ cpu.cores \in Nat
         /\ cpu.purpose \in Purposes /\ cpu.sharing \in [Levels -> Nat]
BY DEF RawData

LEMMA TopologyType ==
  ASSUME NEW cpu \in RawData
  PROVE  Topology(cpu) \in Topologies
<1>1. NoTopology \in Topologies
  BY DEF NoTopology, Topologies, PackageId
<1>2. TopologyX86(cpu) \in Topologies
  <2>1. CASE cpu.levels = <<>>
    BY <2>1, <1>1 DEF TopologyX86
  <2>2. CASE cpu.levels # <<>>
    <3> DEFINE Level == [type : Nat, span : Nat \ {0}]
               last  == cpu.levels[Len(cpu.levels)]
               first == cpu.levels[1]
               smt   == IF first.type = 1 THEN first.span ELSE 1
    <3>1. cpu.levels \in Seq(Level)
      BY RawDataFields
    <3>2. Len(cpu.levels) \in DOMAIN cpu.levels /\ 1 \in DOMAIN cpu.levels
      BY <3>1, <2>2
    <3>3. last \in Level /\ first \in Level
      <4> HIDE DEF Level
      <4>1. QED
        BY <3>1, <3>2, Element
    <3>4. last.type \in Nat /\ last.span \in Nat \ {0} /\ smt \in Nat \ {0}
      BY <3>3
    <3>5. cpu.apic \in Nat
      BY RawDataFields
    <3>6. cpu.apic - (cpu.apic % last.span) \in Nat
      BY <3>4, <3>5, RoundedDown
    <3>7. (cpu.apic % last.span) - (cpu.apic % smt) \in Int
      <4> HIDE DEF last, smt
      <4>1. cpu.apic % last.span \in Int /\ cpu.apic % smt \in Int
        <5>1. \A d \in Nat \ {0} : cpu.apic % d \in Nat
          BY <3>5, Remainder
        <5>2. QED
          BY <3>4, <5>1
      <4>2. QED
        BY <4>1
    <3>8. QED
      <4> HIDE DEF last, first, smt
      <4> DEFINE core == IF \E i \in DOMAIN cpu.levels : cpu.levels[i].type = 2
                         THEN (cpu.apic % last.span) - (cpu.apic % smt) ELSE -1
      <4>1. core \in Int
        BY <3>7
      <4>2. TopologyX86(cpu) =
              [ok |-> last.type > 0, apic |-> cpu.apic,
               package |-> cpu.apic - (cpu.apic % last.span), core |-> core]
        BY <2>2 DEF TopologyX86, last, first, smt
      <4> HIDE DEF core
      <4>3. QED
        BY <4>1, <4>2, <3>4, <3>5, <3>6 DEF Topologies, PackageId
  <2>3. QED
    BY <2>1, <2>2
<1>3. TopologyArm(cpu) \in Topologies
  BY <1>1, RawDataFields DEF TopologyArm, Topologies
<1>4. QED
  BY <1>1, <1>2, <1>3 DEF Topology

-----------------------------------------------------------------------------
(* The fields of CPU types. *)

LEMMA CpuTypeFields ==
  ASSUME NEW type \in CpuType
  PROVE  /\ type.purpose \in Purposes /\ type.package \in Int
         /\ type.mask \subseteq Nat /\ type.num_logical_cpus \in Nat
         /\ type.num_cores \in Nat /\ type.sharing \in [Levels -> Nat]
         /\ type.cores \in Table /\ type.caches \in [Levels -> Table]
         /\ type.instances \in [Levels -> Int]
BY DEF CpuType

(* What Counted does to a type, whichever tables it goes through. *)
LEMMA CountedFields ==
  ASSUME withAffinity \in BOOLEAN, logicalCpu \in Nat, NEW type \in CpuType,
         NEW topo \in Topologies, NEW hasTopology \in BOOLEAN
  PROVE  /\ Counted(type, topo, hasTopology) \in CpuType
         /\ Counted(type, topo, hasTopology).purpose = type.purpose
         /\ Counted(type, topo, hasTopology).package = type.package
         /\ Counted(type, topo, hasTopology).mask =
              IF withAffinity THEN type.mask \union {logicalCpu} ELSE type.mask
         /\ Counted(type, topo, hasTopology).num_logical_cpus =
              IF withAffinity THEN type.num_logical_cpus + 1
                              ELSE type.num_logical_cpus
<1> DEFINE counted == [type EXCEPT !.mask = type.mask \union {logicalCpu},
                                   !.num_logical_cpus = type.num_logical_cpus + 1]
           cores  == Touched(type.cores, topo.core)
           caches == TouchedCaches(type.caches, topo.apic, type.sharing)
<1>1. CASE ~withAffinity
  BY <1>1 DEF Counted
<1>2. counted \in CpuType
  <2> DEFINE mask == type.mask \union {logicalCpu}
             number == type.num_logical_cpus + 1
  <2>1. mask \in SUBSET Nat /\ number \in Nat
    BY CpuTypeFields
  <2> HIDE DEF mask, number
  <2>2. [type EXCEPT !.mask = mask, !.num_logical_cpus = number] \in CpuType
    BY <2>1 DEF CpuType
  <2>3. QED
    BY <2>2 DEF mask, number
<1>3. /\ counted.purpose = type.purpose /\ counted.package = type.package
      /\ counted.mask = type.mask \union {logicalCpu}
      /\ counted.num_logical_cpus = type.num_logical_cpus + 1
      /\ counted.cores = type.cores /\ counted.caches = type.caches
  BY DEF CpuType
<1>4. CASE withAffinity /\ ~hasTopology
  BY <1>2, <1>3, <1>4 DEF Counted
<1>5. CASE withAffinity /\ hasTopology
  <2>1. cores \in Table
    BY CpuTypeFields, TouchedType DEF Topologies
  <2>2. caches \in [Levels -> Table]
    BY CpuTypeFields, TouchedCachesType DEF Topologies
  <2> HIDE DEF cores, caches
  <2>3. Counted(type, topo, hasTopology) =
          [counted EXCEPT !.cores = cores, !.caches = caches]
    BY <1>3, <1>5 DEF Counted, cores, caches
  <2> HIDE DEF counted
  <2>4. [counted EXCEPT !.cores = cores, !.caches = caches] \in CpuType
    BY <1>2, <2>1, <2>2 DEF CpuType
  <2>5. QED
    BY <1>2, <1>3, <1>5, <2>3, <2>4 DEF CpuType
<1>6. QED
  BY <1>1, <1>4, <1>5

LEMMA FreshFields ==
  ASSUME withAffinity \in BOOLEAN, NEW cpu \in RawData,
         NEW package \in PackageId, NEW hasTopology \in BOOLEAN
  PROVE  /\ FreshType(cpu, package, hasTopology) \in CpuType
         /\ FreshType(cpu, package, hasTopology).purpose = cpu.purpose
         /\ FreshType(cpu, package, hasTopology).package =
              IF hasTopology THEN package ELSE -2
         /\ FreshType(cpu, package, hasTopology).mask = {}
         /\ withAffinity =>
              FreshType(cpu, package, hasTopology).num_logical_cpus = 0
BY EmptyTableType, RawDataFields DEF FreshType, CpuType, PackageId

LEMMA UnidentifiedFields ==
  /\ UnidentifiedType \in CpuType
  /\ UnidentifiedType.mask = {}
  /\ UnidentifiedType.num_logical_cpus = 0
BY EmptyTableType, ConstantsAssumption DEF UnidentifiedType, CpuType

(* The data of the iteration. *)
LEMMA Iteration ==
  ASSUME TypeOK, phase = "loop", logicalCpu < Len(raw)
  PROVE  /\ raw \in Seq(RawData) /\ logicalCpu \in Nat
         /\ logicalCpu + 1 \in DOMAIN raw
         /\ ThisCpu \in RawData
         /\ Topology(ThisCpu) \in Topologies
         /\ TopologyAfter(Topology(ThisCpu)) \in BOOLEAN
         /\ PackageAfter(Topology(ThisCpu)) \in PackageId
<1>1. raw \in Seq(RawData) /\ logicalCpu \in Nat
  BY ConstantsAssumption DEF TypeOK
<1>2. logicalCpu + 1 \in DOMAIN raw
  BY <1>1
<1>3. ThisCpu \in RawData
  BY <1>1, <1>2, Element DEF ThisCpu
<1>4. Topology(ThisCpu) \in Topologies
  BY <1>3, TopologyType
<1>5. QED
  BY <1>1, <1>2, <1>3, <1>4 DEF TypeOK, Topologies, TopologyAfter, PackageAfter

-----------------------------------------------------------------------------
(* A CPU that joins type i, an old one or a new one, changes that type and *)
(* no other.  This is all the invariants of the groups depend on.          *)

Joins(i, old, topo, hasTopology, package) ==
  /\ old \in CpuType
  /\ old.purpose = ThisCpu.purpose
  /\ hasTopology => old.package = package
  /\ types' \in Seq(CpuType)
  /\ DOMAIN types' = DOMAIN types \union {i}
  /\ \A j \in DOMAIN types \ {i} : types'[j] = types[j]
  /\ types'[i].purpose = old.purpose
  /\ types'[i].package = old.package
  /\ types'[i].mask = IF withAffinity THEN old.mask \union {logicalCpu} ELSE old.mask
  /\ types'[i].num_logical_cpus = IF withAffinity THEN old.num_logical_cpus + 1
                                                  ELSE old.num_logical_cpus
  /\ \/ i \in DOMAIN types /\ old = types[i]
     \/ /\ i = Len(types) + 1
        /\ IsNewType(hasTopology, package)
        /\ old.mask = {}
        /\ ~hasTopology => old.package = -2
        /\ withAffinity => old.num_logical_cpus = 0

LEMMA KnownJoins ==
  ASSUME TypeOK, phase = "loop", logicalCpu < Len(raw),
         NEW topo \in Topologies, NEW hasTopology \in BOOLEAN,
         NEW package \in PackageId,
         IdentifyKnownType(topo, hasTopology, package)
  PROVE  \E i \in Nat : \E old : Joins(i, old, topo, hasTopology, package)
<1>1. PICK i \in DOMAIN types :
        /\ Matches(i, ThisCpu.purpose, package, hasTopology)
        /\ types' = [types EXCEPT ![i] = Counted(types[i], topo, hasTopology)]
  BY DEF IdentifyKnownType
<1>2. types \in Seq(CpuType) /\ withAffinity \in BOOLEAN /\ logicalCpu \in Nat
  BY Iteration DEF TypeOK
<1>3. types[i] \in CpuType
  BY <1>1, <1>2, Element
<1> DEFINE old == types[i]
           new == Counted(old, topo, hasTopology)
<1>4. /\ new \in CpuType /\ new.purpose = old.purpose /\ new.package = old.package
      /\ new.mask = IF withAffinity THEN old.mask \union {logicalCpu} ELSE old.mask
      /\ new.num_logical_cpus = IF withAffinity THEN old.num_logical_cpus + 1
                                                ELSE old.num_logical_cpus
  BY <1>2, <1>3, CountedFields
<1>5. old.purpose = ThisCpu.purpose /\ (hasTopology => old.package = package)
  BY <1>1 DEF Matches
<1> HIDE DEF new
<1>6. /\ types' \in Seq(CpuType) /\ DOMAIN types' = DOMAIN types \union {i}
      /\ types'[i] = new /\ \A j \in DOMAIN types \ {i} : types'[j] = types[j]
  <2>1. types' = [types EXCEPT ![i] = new]
    BY <1>1 DEF new
  <2>2. i \in DOMAIN types /\ types \in Seq(CpuType) /\ new \in CpuType
    BY <1>1, <1>2, <1>4
  <2> HIDE DEF old
  <2>3. types' \in Seq(CpuType)
    BY <2>1, <2>2, Update
  <2>4. DOMAIN types' = DOMAIN types /\ types'[i] = new
    BY <2>1, <2>2, Update
  <2>5. \A j \in DOMAIN types \ {i} : types'[j] = types[j]
    BY <2>1, <2>2, Update
  <2>6. DOMAIN types = DOMAIN types \union {i}
    BY <2>2
  <2>7. QED
    BY <2>3, <2>4, <2>5, <2>6
<1>7. Joins(i, old, topo, hasTopology, package)
  BY <1>1, <1>3, <1>4, <1>5, <1>6 DEF Joins
<1>8. i \in Nat
  BY <1>1, <1>2
<1>9. QED
  BY <1>7, <1>8

LEMMA NewJoins ==
  ASSUME TypeOK, phase = "loop", logicalCpu < Len(raw),
         NEW topo \in Topologies, NEW hasTopology \in BOOLEAN,
         NEW package \in PackageId,
         IdentifyNewType(topo, hasTopology, package)
  PROVE  \E i \in Nat : \E old : Joins(i, old, topo, hasTopology, package)
<1> DEFINE old == FreshType(ThisCpu, package, hasTopology)
           new == Counted(old, topo, hasTopology)
           i   == Len(types) + 1
<1>1. types' = Append(types, new) /\ IsNewType(hasTopology, package)
  BY DEF IdentifyNewType
<1>2. types \in Seq(CpuType) /\ withAffinity \in BOOLEAN /\ logicalCpu \in Nat
  BY Iteration DEF TypeOK
<1>3. /\ old \in CpuType /\ old.purpose = ThisCpu.purpose /\ old.mask = {}
      /\ old.package = IF hasTopology THEN package ELSE -2
      /\ withAffinity => old.num_logical_cpus = 0
  BY <1>2, Iteration, FreshFields
<1> HIDE DEF old
<1>4. /\ new \in CpuType /\ new.purpose = old.purpose /\ new.package = old.package
      /\ new.mask = IF withAffinity THEN old.mask \union {logicalCpu} ELSE old.mask
      /\ new.num_logical_cpus = IF withAffinity THEN old.num_logical_cpus + 1
                                                ELSE old.num_logical_cpus
  BY <1>2, <1>3, CountedFields
<1> HIDE DEF new
<1>5. /\ types' \in Seq(CpuType) /\ DOMAIN types' = DOMAIN types \union {i}
      /\ types'[i] = new /\ \A j \in DOMAIN types \ {i} : types'[j] = types[j]
  BY <1>1, <1>2, <1>4, Appended
<1>6. Joins(i, old, topo, hasTopology, package)
  BY <1>1, <1>3, <1>4, <1>5 DEF Joins
<1>7. i \in Nat
  BY <1>2
<1>8. QED
  BY <1>6, <1>7

-----------------------------------------------------------------------------
(* Each part of Groups survives a CPU that joins a type. *)

(* The assumptions of the lemmas below: one iteration for the next CPU.    *)
JoinStep(i, old) ==
  LET topo == Topology(ThisCpu)
  IN  /\ TypeOK /\ Groups
      /\ phase = "loop" /\ logicalCpu < Len(raw)
      /\ Joins(i, old, topo, TopologyAfter(topo), PackageAfter(topo))
      /\ topologyOk' = TopologyAfter(topo)
      /\ logicalCpu' = logicalCpu + 1
      /\ phase' = "loop"
      /\ raw' = raw /\ withAffinity' = withAffinity

(* The masks hold the CPUs before this one. *)
LEMMA MasksBelow ==
  ASSUME TypeOK, Partition, withAffinity, NEW k \in DOMAIN types
  PROVE  /\ types[k].mask \subseteq 0 .. logicalCpu - 1
         /\ logicalCpu \notin types[k].mask
         /\ IsFiniteSet(types[k].mask)
<1>1. types[k].mask \subseteq 0 .. logicalCpu - 1
  BY DEF Partition
<1>2. logicalCpu \in Nat
  BY ConstantsAssumption DEF TypeOK
<1>3. IsFiniteSet(0 .. logicalCpu - 1)
  BY <1>2, FS_Interval
<1>4. QED
  BY <1>1, <1>2, <1>3, FS_Subset

LEMMA JoinPartition ==
  ASSUME NEW i \in Nat, NEW old, JoinStep(i, old)
  PROVE  Partition'
<1> USE DEF JoinStep
<1> SUFFICES ASSUME withAffinity PROVE Partition'
  BY DEF Partition
<1> DEFINE topo == Topology(ThisCpu)
<1>1. /\ Joins(i, old, topo, TopologyAfter(topo), PackageAfter(topo))
      /\ TypeOK /\ Partition /\ logicalCpu' = logicalCpu + 1
      /\ withAffinity' = withAffinity
  BY DEF Groups
<1>2. logicalCpu \in Nat
  BY ConstantsAssumption DEF TypeOK
<1>3. /\ DOMAIN types' = DOMAIN types \union {i}
      /\ types'[i].mask = old.mask \union {logicalCpu}
      /\ types'[i].num_logical_cpus = old.num_logical_cpus + 1
      /\ \A j \in DOMAIN types \ {i} : types'[j] = types[j]
  BY <1>1 DEF Joins
<1>4. \/ i \in DOMAIN types /\ old = types[i]
      \/ i \notin DOMAIN types /\ old.mask = {} /\ old.num_logical_cpus = 0
  BY <1>1 DEF Joins, TypeOK
<1>5. /\ \A j \in DOMAIN types \ {i} : old.mask \intersect types[j].mask = {}
      /\ \A c : c \in 0 .. logicalCpu - 1
               <=> \/ c \in old.mask
                   \/ \E j \in DOMAIN types \ {i} : c \in types[j].mask
      /\ logicalCpu \notin old.mask /\ IsFiniteSet(old.mask)
      /\ old.num_logical_cpus = Cardinality(old.mask)
  <2>1. CASE i \in DOMAIN types /\ old = types[i]
    <3>1. \A j \in DOMAIN types \ {i} : old.mask \intersect types[j].mask = {}
      BY <2>1, <1>1 DEF Partition
    <3>2. \A c : c \in 0 .. logicalCpu - 1 <=> \E j \in DOMAIN types : c \in types[j].mask
      BY <1>1 DEF Partition
    <3>3. \A c : c \in 0 .. logicalCpu - 1
              <=> \/ c \in old.mask
                  \/ \E j \in DOMAIN types \ {i} : c \in types[j].mask
      BY <2>1, <3>2, Zenon
    <3>4. old.num_logical_cpus = Cardinality(old.mask)
      BY <2>1, <1>1 DEF Partition
    <3>5. QED
      BY <2>1, <3>1, <3>3, <3>4, <1>1, MasksBelow
  <2>2. CASE i \notin DOMAIN types /\ old.mask = {} /\ old.num_logical_cpus = 0
    <3>1. \A c : c \in 0 .. logicalCpu - 1 <=> \E j \in DOMAIN types : c \in types[j].mask
      BY <1>1 DEF Partition
    <3>2. DOMAIN types \ {i} = DOMAIN types
      BY <2>2
    <3>3. QED
      BY <2>2, <3>1, <3>2, FS_EmptySet
  <2>3. QED
    BY <1>4, <2>1, <2>2
<1>6. UNION {types'[j].mask : j \in DOMAIN types'} = 0 .. logicalCpu' - 1
  <2>1. \A c : (\E j \in DOMAIN types' : c \in types'[j].mask)
              <=> \/ c \in types'[i].mask
                  \/ \E j \in DOMAIN types \ {i} : c \in types[j].mask
    BY <1>3, Zenon
  <2>2. \A c : c \in 0 .. logicalCpu' - 1 <=> c \in 0 .. logicalCpu - 1 \/ c = logicalCpu
    BY <1>1, <1>2
  <2>3. \A c : c \in 0 .. logicalCpu' - 1 <=> \E j \in DOMAIN types' : c \in types'[j].mask
    BY <2>1, <2>2, <1>3, <1>5, Zenon
  <2>4. QED
    BY <2>3
<1>7. \A j, k \in DOMAIN types' : j # k => types'[j].mask \intersect types'[k].mask = {}
  <2>1. \A j \in DOMAIN types \ {i} : logicalCpu \notin types[j].mask
    BY <1>1, MasksBelow
  <2>2. \A j \in DOMAIN types \ {i} : types'[i].mask \intersect types'[j].mask = {}
    BY <2>1, <1>3, <1>5
  <2>3. \A j, k \in DOMAIN types \ {i} :
          j # k => types'[j].mask \intersect types'[k].mask = {}
    BY <1>1, <1>3 DEF Partition
  <2>4. QED
    BY <2>2, <2>3, <1>3
<1>8. \A j \in DOMAIN types' : types'[j].num_logical_cpus = Cardinality(types'[j].mask)
  <2>1. Cardinality(old.mask \union {logicalCpu}) = Cardinality(old.mask) + 1
    BY <1>5, FS_AddElement
  <2>2. types'[i].num_logical_cpus = Cardinality(types'[i].mask)
    BY <2>1, <1>3, <1>5
  <2>3. \A j \in DOMAIN types \ {i} :
          types'[j].num_logical_cpus = Cardinality(types'[j].mask)
    BY <1>1, <1>3 DEF Partition
  <2>4. QED
    BY <2>2, <2>3, <1>3
<1>9. QED
  BY <1>6, <1>7, <1>8 DEF Partition

(* What is left when the masks have been dealt with: keys and members.     *)
Joined(i, old) ==
  /\ DOMAIN types' = DOMAIN types \union {i}
  /\ \A j \in DOMAIN types \ {i} : types'[j] = types[j]
  /\ types'[i].purpose = ThisCpu.purpose
  /\ types'[i].package = old.package
  /\ types'[i].mask = IF withAffinity THEN old.mask \union {logicalCpu}
                                      ELSE old.mask
  /\ TopologyAfter(Topology(ThisCpu)) =>
       old.package = PackageAfter(Topology(ThisCpu))
  /\ \/ i \in DOMAIN types /\ old = types[i]
     \/ /\ i \notin DOMAIN types /\ i = Len(types) + 1 /\ old.mask = {}
        /\ IsNewType(TopologyAfter(Topology(ThisCpu)),
                     PackageAfter(Topology(ThisCpu)))
        /\ ~TopologyAfter(Topology(ThisCpu)) => old.package = -2
  /\ topologyOk' = TopologyAfter(Topology(ThisCpu))
  /\ topologyOk' => topologyOk
  /\ topologyOk' /\ withAffinity =>
       PackageAfter(Topology(ThisCpu)) = Topology(ThisCpu).package
  /\ types \in Seq(CpuType) /\ types' \in Seq(CpuType)
  /\ logicalCpu \in Nat /\ PackageAfter(Topology(ThisCpu)) \in PackageId

LEMMA JoinFacts ==
  ASSUME NEW i \in Nat, NEW old, JoinStep(i, old)
  PROVE  Joined(i, old)
<1> DEFINE topo == Topology(ThisCpu)
           hasTopology == TopologyAfter(topo)
           package == PackageAfter(topo)
<1>1. /\ TypeOK /\ Joins(i, old, topo, hasTopology, package)
      /\ topologyOk' = hasTopology
      /\ phase = "loop" /\ logicalCpu < Len(raw)
  BY DEF JoinStep
<1>2. /\ types \in Seq(CpuType) /\ types' \in Seq(CpuType)
      /\ logicalCpu \in Nat /\ package \in PackageId
  BY <1>1, Iteration DEF Joins, TypeOK
<1>3. /\ hasTopology => topologyOk
      /\ hasTopology /\ withAffinity => package = topo.package
  BY <1>1 DEF TopologyAfter, PackageAfter, TypeOK
<1>4. Len(types) + 1 \notin DOMAIN types
  BY <1>2
<1> HIDE DEF topo, hasTopology, package
<1>5. QED
  BY <1>1, <1>2, <1>3, <1>4 DEF Joins, Joined, topo, hasTopology, package

LEMMA JoinHomogeneous ==
  ASSUME NEW i \in Nat, NEW old, JoinStep(i, old)
  PROVE  Homogeneous' /\ NoMasks'
<1>0. Joined(i, old)
  BY JoinFacts
<1>1. Homogeneous /\ NoMasks /\ raw' = raw /\ withAffinity' = withAffinity
  BY DEF JoinStep, Groups
<1>2. NoMasks'
  BY <1>1, <1>0 DEF NoMasks, Joined
<1>3. ASSUME NEW j \in DOMAIN types', NEW c \in types'[j].mask
      PROVE  /\ raw[c + 1].purpose = types'[j].purpose
             /\ topologyOk' => Topology(raw[c + 1]).package = types'[j].package
  <2>1. CASE j # i
    <3>1. j \in DOMAIN types /\ types'[j] = types[j] /\ (topologyOk' => topologyOk)
      BY <1>3, <2>1, <1>0 DEF Joined
    <3>2. QED
      BY <1>1, <1>3, <3>1 DEF Homogeneous
  <2>2. CASE j = i /\ c \in old.mask
    <3>1. i \in DOMAIN types /\ old = types[i]
      BY <2>2, <1>0 DEF Joined
    <3>2. old.purpose = ThisCpu.purpose
      BY DEF JoinStep, Joins
    <3>3. QED
      BY <1>1, <2>2, <3>1, <3>2, <1>0 DEF Homogeneous, Joined
  <2>3. CASE j = i /\ c \notin old.mask
    <3>1. withAffinity /\ c = logicalCpu
      BY <1>3, <2>3, <1>0 DEF Joined
    <3>2. raw[c + 1] = ThisCpu
      BY <3>1 DEF ThisCpu
    <3>3. QED
      BY <2>3, <3>1, <3>2, <1>0 DEF Joined
  <2>4. QED
    BY <2>1, <2>2, <2>3
<1>4. Homogeneous'
  BY <1>1, <1>3 DEF Homogeneous
<1>5. QED
  BY <1>2, <1>4

LEMMA JoinKeys ==
  ASSUME NEW i \in Nat, NEW old, JoinStep(i, old)
  PROVE  KeysDistinct' /\ AllPackagesKnown' /\ LastIsEmpty' /\ Populated'
<1>0. Joined(i, old)
  BY JoinFacts
<1> DEFINE topo == Topology(ThisCpu)
           hasTopology == TopologyAfter(topo)
           package == PackageAfter(topo)
<1>1. /\ KeysDistinct /\ AllPackagesKnown /\ Populated
      /\ phase = "loop" /\ phase' = "loop" /\ withAffinity' = withAffinity
  BY DEF JoinStep, Groups
<1>2. Identified = DOMAIN types /\ Identified' = DOMAIN types'
  BY <1>1 DEF Identified
<1>3. package # -2
  BY <1>0 DEF PackageId, Joined
<1>4. ASSUME NEW j \in DOMAIN types', NEW k \in DOMAIN types', j < k,
             types'[j].purpose = types'[k].purpose
      PROVE  types'[k].package # -2 /\ types'[j].package # types'[k].package
  <2>1. CASE i \in DOMAIN types /\ old = types[i]
    <3>1. DOMAIN types' = DOMAIN types
      BY <2>1, <1>0, Zenon DEF Joined
    <3>2. \A m \in DOMAIN types : /\ types'[m].purpose = types[m].purpose
                                  /\ types'[m].package = types[m].package
      <4>1. old.purpose = ThisCpu.purpose
        BY DEF JoinStep, Joins
      <4>2. QED
        BY <2>1, <4>1, <1>0, Zenon DEF Joined
    <3>3. QED
      BY <1>1, <1>2, <1>4, <3>1, <3>2 DEF KeysDistinct
  <2>2. CASE /\ i \notin DOMAIN types /\ i = Len(types) + 1
             /\ IsNewType(hasTopology, package)
    <3>1. j \in DOMAIN types /\ types'[j] = types[j]
      <4>1. types \in Seq(CpuType) /\ DOMAIN types' = DOMAIN types \union {i}
        BY <1>0 DEF Joined
      <4>2. j # i
        BY <1>4, <2>2, <4>1
      <4>3. QED
        BY <1>4, <4>1, <4>2, <1>0, Zenon DEF Joined
    <3>2. CASE k = i
      <4>1. types[j].purpose = ThisCpu.purpose
        BY <1>4, <3>1, <3>2, <1>0, Zenon DEF Joined
      <4>2. hasTopology /\ types[j].package # package
        BY <2>2, <3>1, <4>1 DEF IsNewType, Matches
      <4>3. types'[k].package = package
        BY <3>2, <4>2, <1>0 DEF Joined
      <4>4. QED
        BY <1>3, <3>1, <4>2, <4>3
    <3>3. CASE k # i
      <4>1. k \in DOMAIN types /\ types'[k] = types[k]
        BY <1>4, <3>3, <1>0, Zenon DEF Joined
      <4>2. QED
        BY <1>1, <1>2, <1>4, <3>1, <4>1 DEF KeysDistinct
    <3>4. QED
      BY <3>2, <3>3
  <2>3. QED
    BY <2>1, <2>2, <1>0, Zenon DEF Joined
<1>5. KeysDistinct'
  BY <1>2, <1>4 DEF KeysDistinct
<1>6. AllPackagesKnown'
  <2> SUFFICES ASSUME topologyOk', NEW j \in DOMAIN types'
               PROVE  types'[j].package # -2
    BY <1>2 DEF AllPackagesKnown
  <2>1. CASE j = i
    BY <2>1, <1>3, <1>0 DEF Joined
  <2>2. CASE j # i
    <3>1. j \in DOMAIN types /\ types'[j] = types[j] /\ topologyOk
      BY <2>2, <1>0 DEF Joined
    <3>2. QED
      BY <3>1, <1>1, <1>2 DEF AllPackagesKnown
  <2>3. QED
    BY <2>1, <2>2
<1>7. LastIsEmpty'
  BY <1>1 DEF LastIsEmpty
<1>8. Populated'
  <2> SUFFICES ASSUME withAffinity, NEW j \in DOMAIN types'
               PROVE  types'[j].mask # {}
    BY <1>1, <1>2 DEF Populated
  <2>1. CASE j = i
    BY <2>1, <1>0 DEF Joined
  <2>2. CASE j # i
    <3>1. j \in DOMAIN types /\ types'[j] = types[j]
      BY <2>2, <1>0 DEF Joined
    <3>2. QED
      BY <3>1, <1>1, <1>2 DEF Populated
  <2>3. QED
    BY <2>1, <2>2
<1>9. QED
  BY <1>5, <1>6, <1>7, <1>8

LEMMA JoinPurposes ==
  ASSUME NEW i \in Nat, NEW old, JoinStep(i, old)
  PROVE  PurposesCovered'
<1>0. Joined(i, old)
  BY JoinFacts
<1>1. /\ PurposesCovered /\ phase = "loop" /\ phase' = "loop"
      /\ logicalCpu' = logicalCpu + 1 /\ raw' = raw
  BY DEF JoinStep, Groups
<1>2. {types[j].purpose : j \in DOMAIN types} = {raw[c].purpose : c \in 1 .. logicalCpu}
  BY <1>1 DEF PurposesCovered
<1>3. \A j \in DOMAIN types : types'[j].purpose = types[j].purpose
  <2>1. i \in DOMAIN types => types[i].purpose = ThisCpu.purpose
    BY <1>0 DEF JoinStep, Joins, Joined
  <2>2. QED
    BY <2>1, <1>0, Zenon DEF Joined
<1>4. {types'[j].purpose : j \in DOMAIN types'}
        = {types[j].purpose : j \in DOMAIN types} \union {ThisCpu.purpose}
  <2>1. DOMAIN types' = DOMAIN types \union {i} /\ types'[i].purpose = ThisCpu.purpose
    BY <1>0 DEF Joined
  <2>2. \A p : (\E j \in DOMAIN types' : p = types'[j].purpose)
              <=> (\E j \in DOMAIN types : p = types[j].purpose) \/ p = ThisCpu.purpose
    BY <2>1, <1>3, Zenon
  <2>3. QED
    BY <2>2, Zenon
<1>5. 1 .. logicalCpu' = (1 .. logicalCpu) \union {logicalCpu + 1}
  BY <1>1, <1>0 DEF Joined
<1>6. {raw[c].purpose : c \in 1 .. logicalCpu'}
        = {raw[c].purpose : c \in 1 .. logicalCpu} \union {ThisCpu.purpose}
  BY <1>5, Zenon DEF ThisCpu
<1>7. {types'[j].purpose : j \in DOMAIN types'}
        = {raw'[c].purpose : c \in 1 .. logicalCpu'}
  <2>1. {raw'[c].purpose : c \in 1 .. logicalCpu'} = {raw[c].purpose : c \in 1 .. logicalCpu'}
    BY ONLY <1>1
  <2>2. QED
    BY ONLY <1>2, <1>4, <1>6, <2>1, Zenon
<1>8. QED
  BY <1>7, Zenon DEF PurposesCovered

LEMMA JoinGroups ==
  ASSUME NEW i \in Nat, NEW old, JoinStep(i, old)
  PROVE  Groups'
BY JoinPartition, JoinHomogeneous, JoinKeys, JoinPurposes DEF Groups

-----------------------------------------------------------------------------
(* The invariant holds at the start and every action preserves it. *)

LEMMA Start == Init => IInv
<1> SUFFICES ASSUME Init PROVE IInv
  OBVIOUS
<1>1. TypeOK
  <2>1. raw \in Seq(RawData)
    BY ConstantsAssumption DEF Init
  <2>2. logicalCpu \in 0 .. Len(raw) /\ types \in Seq(CpuType)
    BY <2>1 DEF Init
  <2>3. totals \in [Levels -> Int]
    BY DEF Init
  <2>4. QED
    BY <2>2, <2>3, EmptyTableType DEF Init, TypeOK, PackageId
<1>2. DOMAIN types = {} /\ 0 .. logicalCpu - 1 = {} /\ 1 .. logicalCpu = {}
  BY DEF Init
<1>3. Identified = {}
  BY <1>2 DEF Init, Identified
<1>4. Partition /\ Homogeneous /\ NoMasks
  BY <1>2 DEF Partition, Homogeneous, NoMasks
<1>5. LastIsEmpty /\ KeysDistinct /\ AllPackagesKnown /\ Populated
  BY <1>3 DEF Init, LastIsEmpty, KeysDistinct, AllPackagesKnown, Populated
<1>6. PurposesCovered
  BY <1>2, Zenon DEF PurposesCovered
<1>7. AnswerRight
  BY DEF Init, AnswerRight
<1>8. QED
  BY <1>1, <1>4, <1>5, <1>6, <1>7 DEF IInv, Groups

(* Iterations that go on to the next CPU. *)
LEMMA StepJoin ==
  ASSUME IInv, phase = "loop", logicalCpu < Len(raw),
         topologyOk' = TopologyAfter(Topology(ThisCpu)),
         curPackage' = PackageAfter(Topology(ThisCpu)),
         logicalCpu' = logicalCpu + 1, phase' = "loop",
         UNCHANGED <<raw, withAffinity, totals, request>>,
         cachesAll' \in [Levels -> Table],
         \E i \in Nat : \E old :
           Joins(i, old, Topology(ThisCpu), TopologyAfter(Topology(ThisCpu)),
                 PackageAfter(Topology(ThisCpu)))
  PROVE  IInv'
<1>1. PICK i \in Nat : \E old :
        Joins(i, old, Topology(ThisCpu), TopologyAfter(Topology(ThisCpu)),
              PackageAfter(Topology(ThisCpu)))
  OBVIOUS
<1>2. PICK old :
        Joins(i, old, Topology(ThisCpu), TopologyAfter(Topology(ThisCpu)),
              PackageAfter(Topology(ThisCpu)))
  BY <1>1
<1>3. JoinStep(i, old)
  BY <1>2 DEF JoinStep, IInv
<1>4. Groups'
  BY <1>3, JoinGroups
<1>5. types' \in Seq(CpuType)
  BY <1>2 DEF Joins
<1>6. /\ topologyOk' \in BOOLEAN /\ curPackage' \in PackageId
      /\ logicalCpu' \in 0 .. Len(raw)
  BY Iteration DEF IInv
<1>7. TypeOK'
  BY <1>5, <1>6 DEF IInv, TypeOK
<1>8. AnswerRight'
  BY DEF IInv, AnswerRight
<1>9. QED
  BY <1>4, <1>7, <1>8 DEF IInv

(* The type that a failed identification leaves behind disturbs nothing.   *)
LEMMA StepFails ==
  ASSUME IInv, phase = "loop", logicalCpu < Len(raw),
         topologyOk' = TopologyAfter(Topology(ThisCpu)),
         curPackage' = PackageAfter(Topology(ThisCpu)),
         types' = Append(types, UnidentifiedType), phase' = "failed",
         UNCHANGED <<raw, withAffinity, logicalCpu, cachesAll, totals, request>>
  PROVE  IInv'
<1> DEFINE last == Len(types) + 1
<1>1. types \in Seq(CpuType) /\ UnidentifiedType \in CpuType
  BY UnidentifiedFields DEF IInv, TypeOK
<1>2. /\ types' \in Seq(CpuType) /\ Len(types') = last
      /\ DOMAIN types' = DOMAIN types \union {last} /\ last \notin DOMAIN types
      /\ types'[last] = UnidentifiedType
      /\ \A j \in DOMAIN types : types'[j] = types[j]
  BY <1>1, Appended
<1>3. Identified = DOMAIN types /\ Identified' = DOMAIN types
  <2>1. Len(types') - 1 = Len(types) /\ DOMAIN types = 1 .. Len(types)
    BY <1>1, <1>2
  <2>2. QED
    BY <2>1 DEF Identified
<1>4. topologyOk' => topologyOk
  BY DEF IInv, TypeOK, TopologyAfter
<1>5. types'[last].mask = {} /\ types'[last].num_logical_cpus = Cardinality({})
  BY <1>2, UnidentifiedFields, FS_EmptySet
<1>6. TypeOK'
  <2>1. topologyOk' \in BOOLEAN /\ curPackage' \in PackageId
    BY Iteration DEF IInv
  <2>2. QED
    BY <1>2, <2>1 DEF IInv, TypeOK
<1>7. Partition'
  <2> SUFFICES ASSUME withAffinity PROVE Partition'
    BY DEF Partition
  <2>1. /\ \A c : c \in 0 .. logicalCpu - 1 <=> \E j \in DOMAIN types : c \in types[j].mask
        /\ \A j, k \in DOMAIN types : j # k => types[j].mask \intersect types[k].mask = {}
        /\ \A j \in DOMAIN types : types[j].num_logical_cpus = Cardinality(types[j].mask)
    BY DEF IInv, Groups, Partition
  <2>2. \A c : (\E j \in DOMAIN types' : c \in types'[j].mask)
              <=> \E j \in DOMAIN types : c \in types[j].mask
    BY <1>2, <1>5, Zenon
  <2>3. UNION {types'[j].mask : j \in DOMAIN types'} = 0 .. logicalCpu' - 1
    <3>1. \A c : c \in 0 .. logicalCpu' - 1 <=> \E j \in DOMAIN types' : c \in types'[j].mask
      BY <2>1, <2>2
    <3>2. QED
      BY <3>1
  <2>4. \A j, k \in DOMAIN types' : j # k => types'[j].mask \intersect types'[k].mask = {}
    BY <1>2, <1>5, <2>1
  <2>5. \A j \in DOMAIN types' : types'[j].num_logical_cpus = Cardinality(types'[j].mask)
    BY <1>2, <1>5, <2>1
  <2>6. QED
    BY <2>3, <2>4, <2>5 DEF Partition
<1>8. Homogeneous' /\ NoMasks'
  BY <1>2, <1>4, <1>5 DEF IInv, Groups, Homogeneous, NoMasks
<1>9. LastIsEmpty'
  BY <1>2 DEF LastIsEmpty
<1>10. KeysDistinct' /\ AllPackagesKnown' /\ Populated'
  BY <1>2, <1>3, <1>4 DEF IInv, Groups, KeysDistinct, AllPackagesKnown, Populated
<1>11. PurposesCovered' /\ AnswerRight'
  BY DEF IInv, AnswerRight, PurposesCovered
<1>12. QED
  BY <1>6, <1>7, <1>8, <1>9, <1>10, <1>11 DEF IInv, Groups

LEMMA StepIdentify ==
  ASSUME IInv, Identify
  PROVE  IInv'
<1> DEFINE topo == Topology(ThisCpu)
           hasTopology == TopologyAfter(topo)
           package == PackageAfter(topo)
<1>1. /\ phase = "loop" /\ logicalCpu < Len(raw)
      /\ topologyOk' = hasTopology /\ curPackage' = package
      /\ UNCHANGED <<raw, withAffinity, totals, request>>
  BY DEF Identify
<1>2. /\ topo \in Topologies /\ hasTopology \in BOOLEAN /\ package \in PackageId
      /\ ThisCpu \in RawData
  BY <1>1, Iteration DEF IInv
<1>3. /\ cachesAll \in [Levels -> Table] /\ types \in Seq(CpuType)
      /\ withAffinity \in BOOLEAN /\ topo.apic \in Int
  BY <1>2 DEF IInv, TypeOK, Topologies
<1>4. CASE IdentifyKnownType(topo, hasTopology, package)
  <2>1. logicalCpu' = logicalCpu + 1 /\ phase' = "loop"
    BY <1>4 DEF IdentifyKnownType
  <2>2. cachesAll' \in [Levels -> Table]
    <3>1. PICK i \in DOMAIN types :
            cachesAll' = IF withAffinity /\ hasTopology
                         THEN TouchedCaches(cachesAll, topo.apic, types[i].sharing)
                         ELSE cachesAll
      BY <1>4 DEF IdentifyKnownType
    <3>2. types[i].sharing \in [Levels -> Nat]
      BY <1>3, Element, CpuTypeFields
    <3>3. QED
      BY <1>3, <3>1, <3>2, TouchedCachesType
  <2>3. \E i \in Nat : \E old : Joins(i, old, topo, hasTopology, package)
    BY <1>1, <1>2, <1>4, KnownJoins DEF IInv
  <2>4. QED
    BY <1>1, <2>1, <2>2, <2>3, StepJoin
<1>5. CASE IdentifyNewType(topo, hasTopology, package)
  <2>1. logicalCpu' = logicalCpu + 1 /\ phase' = "loop"
    BY <1>5 DEF IdentifyNewType
  <2>2. cachesAll' \in [Levels -> Table]
    <3> DEFINE fresh == FreshType(ThisCpu, package, hasTopology)
    <3>1. cachesAll' = IF withAffinity /\ hasTopology
                       THEN TouchedCaches(cachesAll, topo.apic, fresh.sharing)
                       ELSE cachesAll
      BY <1>5 DEF IdentifyNewType
    <3>2. fresh.sharing \in [Levels -> Nat]
      BY <1>2, <1>3, FreshFields, CpuTypeFields
    <3>3. QED
      BY <1>3, <3>1, <3>2, TouchedCachesType
  <2>3. \E i \in Nat : \E old : Joins(i, old, topo, hasTopology, package)
    BY <1>1, <1>2, <1>5, NewJoins DEF IInv
  <2>4. QED
    BY <1>1, <2>1, <2>2, <2>3, StepJoin
<1>6. CASE IdentifyFails(hasTopology, package)
  BY <1>1, <1>6, StepFails DEF IdentifyFails
<1>7. CASE LeavesArrays(topo, hasTopology, package)
  <2>1. phase' = "ub" /\ UNCHANGED <<types, cachesAll, logicalCpu>>
    BY <1>7 DEF LeavesArrays
  <2>2. topologyOk' => topologyOk
    BY <1>1 DEF IInv, TypeOK, TopologyAfter
  <2>3. TypeOK'
    BY <1>1, <1>2, <2>1 DEF IInv, TypeOK
  <2>4. Identified' = Identified
    BY <1>1, <2>1 DEF Identified
  <2>5. Groups'
    <3>1. Partition' /\ NoMasks'
      BY <1>1, <2>1, Zenon DEF IInv, Groups, Partition, NoMasks
    <3>2. Homogeneous' /\ LastIsEmpty'
      BY <1>1, <2>1, <2>2 DEF IInv, Groups, Homogeneous, LastIsEmpty
    <3>3. KeysDistinct' /\ AllPackagesKnown' /\ Populated'
      BY <1>1, <2>1, <2>2, <2>4
      DEF IInv, Groups, KeysDistinct, AllPackagesKnown, Populated
    <3>4. PurposesCovered'
      BY <1>1, <2>1 DEF IInv, Groups, PurposesCovered
    <3>5. QED
      BY <3>1, <3>2, <3>3, <3>4 DEF Groups
  <2>6. AnswerRight'
    BY <1>1, <2>1 DEF IInv, AnswerRight
  <2>7. QED
    BY <2>3, <2>5, <2>6 DEF IInv
<1>8. QED
  BY <1>4, <1>5, <1>6, <1>7 DEF Identify

(* A quotient by a number between 1 and the dividend. *)
LEMMA Quotient ==
  ASSUME NEW n \in Nat \ {0}, NEW d \in 1 .. n
  PROVE  n \div d \in 1 .. n
<1> DEFINE q == n \div d
           r == n % d
<1>1. q \in Nat /\ r \in 0 .. d - 1 /\ n = d * q + r
  OBVIOUS
<1> HIDE DEF q, r
<1>2. q # 0
  BY <1>1
<1>3. d * q >= q
  <2>1. (d - 1) * q \in Nat
    BY <1>1
  <2>2. d * q = (d - 1) * q + q
    BY <1>1
  <2>3. d * q \in Int
    BY <1>1
  <2>4. QED
    BY <1>1, <2>1, <2>2, <2>3
<1>4. q <= n
  <2>1. d * q \in Int
    BY <1>1
  <2>2. QED
    BY <1>1, <1>3, <2>1
<1>5. QED
  BY <1>1, <1>2, <1>4 DEF q

(* The number of cores derived without the topology: no division by zero,  *)
(* at least one core and at most one per logical CPU.                      *)
LEMMA DerivedCores ==
  ASSUME NEW logical \in Nat \ {0}, NEW cores \in Nat
  PROVE  CoresWithoutTopology(logical, cores) \in 1 .. logical
<1>1. CASE cores > 0 /\ logical % cores = 0
  <2> DEFINE q == logical \div cores
             r == logical % cores
  <2>1. q \in Nat /\ logical = cores * q + r /\ r = 0
    BY <1>1
  <2> HIDE DEF q, r
  <2>2. q # 0
    BY <2>1
  <2>3. cores * q >= cores
    <3>1. cores * (q - 1) \in Nat
      BY <2>1, <2>2
    <3>2. cores * q = cores * (q - 1) + cores /\ cores * q \in Int
      BY <2>1, <2>2
    <3>3. QED
      BY <3>1, <3>2
  <2>4. cores <= logical
    <3>1. cores * q \in Int
      BY <2>1
    <3>2. QED
      BY <2>1, <2>3, <3>1
  <2>5. q \in 1 .. logical
    BY <1>1, <2>4, Quotient DEF q
  <2>6. logical \div q \in 1 .. logical
    BY <2>5, Quotient
  <2>7. QED
    BY <1>1, <2>6 DEF CoresWithoutTopology, q
<1>2. CASE ~(cores > 0 /\ logical % cores = 0)
  BY <1>2 DEF CoresWithoutTopology
<1>3. QED
  BY <1>1, <1>2

LEMMA FinishedFields ==
  ASSUME withAffinity \in BOOLEAN, topologyOk \in BOOLEAN, NEW type \in CpuType,
         withAffinity => type.num_logical_cpus # 0
  PROVE  /\ Finished(type) \in CpuType
         /\ Finished(type).purpose = type.purpose
         /\ Finished(type).package = type.package
         /\ Finished(type).mask = type.mask
         /\ Finished(type).num_logical_cpus = type.num_logical_cpus
<1>1. CASE ~withAffinity
  BY <1>1 DEF Finished
<1>2. CASE withAffinity /\ topologyOk
  <2> DEFINE cores == type.cores.count
             instances == [l \in Levels |-> type.caches[l].count]
  <2>1. cores \in Nat
    BY ConstantsAssumption, CpuTypeFields DEF Table
  <2>2. instances \in [Levels -> Int]
    BY ConstantsAssumption, CpuTypeFields DEF Table
  <2>3. Finished(type) = [type EXCEPT !.num_cores = cores, !.instances = instances]
    BY <1>2 DEF Finished
  <2> HIDE DEF cores, instances
  <2>4. QED
    BY <2>1, <2>2, <2>3 DEF CpuType
<1>3. CASE withAffinity /\ ~topologyOk
  <2> DEFINE cores == CoresWithoutTopology(type.num_logical_cpus, type.num_cores)
  <2>1. cores \in Nat
    <3>1. type.num_logical_cpus \in Nat \ {0} /\ type.num_cores \in Nat
      BY <1>3, CpuTypeFields
    <3>2. QED
      BY <3>1, DerivedCores
  <2>2. Finished(type) = [type EXCEPT !.num_cores = cores]
    BY <1>3 DEF Finished, CpuType
  <2> HIDE DEF cores
  <2>3. QED
    BY <2>1, <2>2 DEF CpuType
<1>4. QED
  BY <1>1, <1>2, <1>3

(* In the loop a type with affinity has a CPU.                             *)
LEMMA NoEmptyType ==
  ASSUME IInv, phase = "loop", withAffinity, NEW i \in DOMAIN types
  PROVE  types[i].num_logical_cpus # 0
<1>1. TypeOK /\ Partition /\ Populated /\ Identified = DOMAIN types
  BY DEF IInv, Groups, Identified
<1>2. types[i].mask # {} /\ types[i].num_logical_cpus = Cardinality(types[i].mask)
  BY <1>1 DEF Populated, Partition
<1>3. IsFiniteSet(types[i].mask)
  BY <1>1, MasksBelow
<1>4. QED
  BY <1>2, <1>3, FS_EmptySet

LEMMA StepFinish ==
  ASSUME IInv, Finish
  PROVE  IInv'
<1>1. /\ phase = "loop" /\ logicalCpu = Len(raw) /\ phase' = "done"
      /\ types' = [i \in DOMAIN types |-> Finished(types[i])]
      /\ totals' = IF topologyOk THEN [l \in Levels |-> cachesAll[l].count] ELSE totals
      /\ UNCHANGED <<raw, withAffinity, logicalCpu, topologyOk, curPackage,
                     cachesAll, request>>
  BY DEF Finish
<1>2. /\ TypeOK /\ Groups /\ types \in Seq(CpuType)
      /\ withAffinity \in BOOLEAN /\ topologyOk \in BOOLEAN
  BY DEF IInv, TypeOK
<1>3. ASSUME NEW i \in DOMAIN types, withAffinity
      PROVE  types[i].num_logical_cpus # 0
  BY <1>1, <1>3, NoEmptyType
<1>4. ASSUME NEW i \in DOMAIN types
      PROVE  /\ types'[i] \in CpuType
             /\ types'[i].purpose = types[i].purpose
             /\ types'[i].package = types[i].package
             /\ types'[i].mask = types[i].mask
             /\ types'[i].num_logical_cpus = types[i].num_logical_cpus
  <2>1. types[i] \in CpuType
    BY <1>2, <1>4, Element
  <2>2. types'[i] = Finished(types[i])
    BY <1>1, <1>4
  <2>3. QED
    BY <1>2, <1>3, <1>4, <2>1, <2>2, FinishedFields
<1>5. DOMAIN types' = DOMAIN types /\ types' \in Seq(CpuType)
  <2>1. DOMAIN types' = DOMAIN types
    BY <1>1
  <2>2. types' \in [1 .. Len(types) -> CpuType] /\ Len(types) \in Nat
    <3>1. DOMAIN types = 1 .. Len(types) /\ Len(types) \in Nat
      BY <1>2
    <3>2. types' = [i \in 1 .. Len(types) |-> Finished(types[i])]
      BY <1>1, <3>1
    <3>3. \A i \in 1 .. Len(types) : Finished(types[i]) \in CpuType
      BY <1>4, <3>1, <3>2
    <3>4. QED
      BY <3>1, <3>2, <3>3
  <2>3. QED
    BY <2>1, <2>2
<1>6. TypeOK'
  <2>1. totals' \in [Levels -> Int]
    BY <1>1, <1>2, ConstantsAssumption DEF TypeOK, Table
  <2>2. QED
    BY <1>1, <1>2, <1>5, <2>1 DEF TypeOK
<1>7. Identified = DOMAIN types /\ Identified' = DOMAIN types
  BY <1>1, <1>5 DEF Identified
<1>8. Partition'
  <2> SUFFICES ASSUME withAffinity PROVE Partition'
    BY <1>1 DEF Partition
  <2>1. UNION {types[i].mask : i \in DOMAIN types} = 0 .. logicalCpu - 1
    BY <1>2 DEF Groups, Partition
  <2>2. {types'[i].mask : i \in DOMAIN types'} = {types[i].mask : i \in DOMAIN types}
    BY <1>4, <1>5, Zenon
  <2>3. UNION {types'[i].mask : i \in DOMAIN types'} = 0 .. logicalCpu' - 1
    BY <1>1, <2>1, <2>2
  <2>4. /\ \A i, j \in DOMAIN types' : i # j => types'[i].mask \intersect types'[j].mask = {}
        /\ \A i \in DOMAIN types' :
             types'[i].num_logical_cpus = Cardinality(types'[i].mask)
    BY <1>2, <1>4, <1>5 DEF Groups, Partition
  <2>5. QED
    BY <2>3, <2>4 DEF Partition
<1>9. Homogeneous' /\ NoMasks'
  BY <1>1, <1>2, <1>4, <1>5 DEF Groups, Homogeneous, NoMasks
<1>10. KeysDistinct' /\ AllPackagesKnown' /\ Populated' /\ LastIsEmpty'
  BY <1>1, <1>2, <1>4, <1>7
  DEF Groups, KeysDistinct, AllPackagesKnown, Populated, LastIsEmpty
<1>11. PurposesCovered'
  <2>1. {types'[i].purpose : i \in DOMAIN types'} = {types[i].purpose : i \in DOMAIN types}
    BY <1>4, <1>5, Zenon
  <2>2. QED
    BY <1>1, <1>2, <2>1 DEF Groups, PurposesCovered
<1>12. AnswerRight'
  BY <1>1 DEF IInv, AnswerRight
<1>13. QED
  BY <1>6, <1>8, <1>9, <1>10, <1>11, <1>12 DEF IInv, Groups

LEMMA StepRequest ==
  ASSUME IInv, NEW purpose \in Purposes, RequestCoreType(purpose)
  PROVE  IInv'
<1>1. /\ phase \in {"done", "failed"}
      /\ request' = [purpose |-> purpose, answer |->
           IF \E c \in DOMAIN raw : raw[c].purpose = purpose THEN "ERR_OK"
                                                             ELSE "ERR_NOT_FOUND"]
      /\ UNCHANGED <<raw, withAffinity, logicalCpu, topologyOk, curPackage, types,
                     cachesAll, totals, phase>>
  BY DEF RequestCoreType
<1>2. TypeOK'
  BY <1>1 DEF IInv, TypeOK
<1>3. Groups'
  <2>1. Identified' = Identified
    BY <1>1 DEF Identified
  <2>2. Partition' /\ NoMasks'
    BY <1>1, Zenon DEF IInv, Groups, Partition, NoMasks
  <2>3. Homogeneous' /\ LastIsEmpty'
    BY <1>1 DEF IInv, Groups, Homogeneous, LastIsEmpty
  <2>4. KeysDistinct' /\ AllPackagesKnown' /\ Populated'
    BY <1>1, <2>1 DEF IInv, Groups, KeysDistinct, AllPackagesKnown, Populated
  <2>5. PurposesCovered'
    BY <1>1 DEF IInv, Groups, PurposesCovered
  <2>6. QED
    BY <2>2, <2>3, <2>4, <2>5 DEF Groups
<1>4. AnswerRight'
  BY <1>1 DEF IInv, AnswerRight
<1>5. QED
  BY <1>2, <1>3, <1>4 DEF IInv

LEMMA StepStutter ==
  ASSUME IInv, UNCHANGED vars
  PROVE  IInv'
<1>1. TypeOK' /\ AnswerRight'
  BY DEF IInv, TypeOK, AnswerRight, vars
<1>2. Groups'
  <2>1. Identified' = Identified
    BY DEF Identified, vars
  <2>2. Partition' /\ NoMasks'
    BY Zenon DEF IInv, Groups, Partition, NoMasks, vars
  <2>3. Homogeneous' /\ LastIsEmpty'
    BY DEF IInv, Groups, Homogeneous, LastIsEmpty, vars
  <2>4. KeysDistinct' /\ AllPackagesKnown' /\ Populated'
    BY <2>1 DEF IInv, Groups, KeysDistinct, AllPackagesKnown, Populated, vars
  <2>5. PurposesCovered'
    BY DEF IInv, Groups, PurposesCovered, vars
  <2>6. QED
    BY <2>2, <2>3, <2>4, <2>5 DEF Groups
<1>3. QED
  BY <1>1, <1>2 DEF IInv

-----------------------------------------------------------------------------
(* The counters.  A table that no two IDs of the array collide in counts   *)
(* the distinct IDs it was touched with.                                   *)

CoreIdsIn(q, S) == {Topology(q[c + 1]).core : c \in S}

CacheIdsIn(q, S, n) == IF n = 0 THEN {} ELSE {CacheId(q[c + 1].apic, n) : c \in S}

(* The caches of a level that all types together have.                     *)
AllIds(q, ts, l) ==
  UNION {CacheIdsIn(q, ts[i].mask, ts[i].sharing[l]) : i \in DOMAIN ts}

(* No two IDs share an entry of a table. *)
Separate(S) == \A a, b \in S : a % TableSize = b % TableSize => a = b

Granules(q, l) == {q[c].sharing[l] : c \in DOMAIN q} \ {0}

(* What the counters can count: fewer CPUs than an instance counter has    *)
(* values, IDs that do not collide, and cache masks only where there are   *)
(* APIC IDs (only x86 identification fills in cache masks).                *)
Fits(q) ==
  /\ Len(q) < CountMod
  /\ \/ \A c \in DOMAIN q : q[c].arch = "x86"
     \/ \A c \in DOMAIN q : \A l \in Levels : q[c].sharing[l] = 0
  /\ Separate({Topology(q[c]).core : c \in DOMAIN q})
  /\ \A l \in Levels :
       Separate({CacheId(q[c].apic, n) : c \in DOMAIN q, n \in Granules(q, l)})

(* The table counts the IDs of S, at most k of them. *)
Counts(table, S, k) ==
  /\ IsFiniteSet(S) /\ Cardinality(S) <= k
  /\ table.count = Cardinality(S)
  /\ \A s \in 0 .. TableSize - 1 :
       \/ /\ table.slots[s].n = 0 /\ table.slots[s].id = 0
          /\ \A a \in S : a % TableSize # s
       \/ /\ table.slots[s].n > 0 /\ table.slots[s].id \in S
          /\ table.slots[s].id % TableSize = s

TableCounts ==
  phase = "loop" /\ withAffinity /\ topologyOk /\ Fits(raw) =>
    /\ \A i \in DOMAIN types :
         /\ Counts(types[i].cores, CoreIdsIn(raw, types[i].mask), logicalCpu)
         /\ \A l \in Levels :
              Counts(types[i].caches[l],
                     CacheIdsIn(raw, types[i].mask, types[i].sharing[l]), logicalCpu)
    /\ \A l \in Levels : Counts(cachesAll[l], AllIds(raw, types, l), logicalCpu)

(* A type shares its caches the way one of its CPUs reported. *)
SharingKnown ==
  phase \in {"loop", "done"} =>
    \A i \in DOMAIN types : \E c \in DOMAIN raw : types[i].sharing = raw[c].sharing

TotalCounts ==
  phase = "done" /\ withAffinity /\ topologyOk /\ Fits(raw) =>
    /\ \A i \in DOMAIN types :
         /\ types[i].num_cores = Cardinality(CoreIdsIn(raw, types[i].mask))
         /\ \A l \in Levels : types[i].instances[l]
              = Cardinality(CacheIdsIn(raw, types[i].mask, types[i].sharing[l]))
    /\ \A l \in Levels : totals[l] = Cardinality(AllIds(raw, types, l))

DerivedCounts ==
  phase = "done" /\ withAffinity /\ ~topologyOk =>
    \A i \in DOMAIN types : types[i].num_cores \in 1 .. types[i].num_logical_cpus

(* num_cpu_types still counts the types. *)
TypesFit == Len(types) <= TypeMod - 1

CountsInv == /\ SharingKnown /\ TableCounts /\ TotalCounts /\ DerivedCounts
             /\ TypesFit

LEMMA EmptyCounts ==
  ASSUME NEW k \in Nat
  PROVE  Counts(EmptyTable, {}, k)
BY ConstantsAssumption, FS_EmptySet DEF Counts, EmptyTable

LEMMA CountsGrow ==
  ASSUME NEW table, NEW S, NEW k \in Nat, Counts(table, S, k)
  PROVE  Counts(table, S, k + 1)
<1>1. IsFiniteSet(S) /\ Cardinality(S) <= k
  BY DEF Counts
<1>2. Cardinality(S) <= k + 1
  BY <1>1, FS_CardinalityType
<1>3. QED
  BY <1>2 DEF Counts

LEMMA SeparateSubset ==
  ASSUME NEW S, NEW T \in SUBSET S, Separate(S)
  PROVE  Separate(T)
BY DEF Separate

(* A touched table counts one more ID, if there is room for it. *)
LEMMA TouchedCounts ==
  ASSUME NEW table \in Table, NEW S \in SUBSET Int, NEW id \in Int,
         NEW k \in Nat, k + 1 < CountMod,
         Counts(table, S, k), Separate(S \union {id})
  PROVE  Counts(Touched(table, id), S \union {id}, k + 1)
<1> DEFINE s     == id % TableSize
           entry == table.slots[s]
           new   == [n |-> entry.n + 1, id |-> id]
           T     == S \union {id}
           Entry(e, t, A) ==
             \/ e.n = 0 /\ e.id = 0 /\ \A a \in A : a % TableSize # t
             \/ e.n > 0 /\ e.id \in A /\ e.id % TableSize = t
<1>1. s \in 0 .. TableSize - 1
  BY ConstantsAssumption, Remainder
<1>2. /\ table.slots \in [0 .. TableSize - 1 -> [n : Nat, id : Int]]
      /\ entry.n \in Nat /\ entry.id \in Int
  BY <1>1 DEF Table
<1>3. /\ IsFiniteSet(S) /\ Cardinality(S) <= k /\ table.count = Cardinality(S)
      /\ \A t \in 0 .. TableSize - 1 : Entry(table.slots[t], t, S)
  BY DEF Counts
<1>4. /\ IsFiniteSet(T) /\ Cardinality(S) \in Nat
      /\ id \notin S => Cardinality(T) = Cardinality(S) + 1
      /\ id \in S => T = S
  BY <1>3, FS_AddElement, FS_CardinalityType
<1>5. entry.id \in {0, id} /\ (entry.n = 0 <=> id \notin S)
  <2>1. CASE entry.n = 0 /\ entry.id = 0 /\ \A a \in S : a % TableSize # s
    BY <2>1
  <2>2. CASE entry.n > 0 /\ entry.id \in S /\ entry.id % TableSize = s
    <3>1. entry.id = id
      BY <2>2 DEF Separate
    <3>2. QED
      BY <1>2, <2>2, <3>1
  <2>3. QED
    BY <1>1, <1>3, <2>1, <2>2
<1>6. Touched(table, id) =
        [count |-> IF entry.n = 0 THEN (table.count + 1) % CountMod ELSE table.count,
         slots |-> [table.slots EXCEPT ![s] = new]]
  BY <1>5 DEF Touched
<1>7. Touched(table, id).count = Cardinality(T) /\ Cardinality(T) <= k + 1
  <2>1. CASE entry.n = 0
    <3>1. Touched(table, id).count = (Cardinality(S) + 1) % CountMod
      BY <1>3, <1>6, <2>1
    <3>2. Cardinality(S) + 1 \in 0 .. CountMod - 1
      BY <1>3, <1>4, ConstantsAssumption
    <3>3. (Cardinality(S) + 1) % CountMod = Cardinality(S) + 1
      BY ONLY <3>2, ConstantsAssumption
    <3>4. QED
      BY <1>3, <1>4, <1>5, <2>1, <3>1, <3>3
  <2>2. CASE entry.n # 0
    <3>1. T = S
      BY <1>4, <1>5, <2>2
    <3>2. Touched(table, id).count = table.count
      BY <1>6, <2>2
    <3>3. Cardinality(S) <= k + 1
      BY <1>3, <1>4
    <3> HIDE DEF T
    <3>4. QED
      BY <1>3, <3>1, <3>2, <3>3
  <2>3. QED
    BY <2>1, <2>2
<1>8. ASSUME NEW t \in 0 .. TableSize - 1
      PROVE  Entry(Touched(table, id).slots[t], t, T)
  <2>1. Touched(table, id).slots = [table.slots EXCEPT ![s] = new]
    BY <1>6
  <2>2. CASE t = s
    <3>1. Touched(table, id).slots[t] = new
      BY <1>1, <1>2, <2>1, <2>2
    <3>2. new.n > 0 /\ new.id = id
      BY <1>2
    <3>3. QED
      BY <2>2, <3>1, <3>2
  <2>3. CASE t # s
    <3>1. Touched(table, id).slots[t] = table.slots[t]
      BY <1>1, <1>2, <2>1, <2>3
    <3>2. Entry(table.slots[t], t, S)
      BY <1>3
    <3>3. QED
      BY <2>3, <3>1, <3>2
  <2>4. QED
    BY <2>2, <2>3
<1>9. QED
  BY <1>4, <1>7, <1>8 DEF Counts

(* The IDs of a set of CPUs, and of one CPU more. *)
More(S, apic, n) == IF n = 0 THEN S ELSE S \union {CacheId(apic, n)}

LEMMA OneCoreMore ==
  ASSUME NEW q, NEW S, NEW c
  PROVE  CoreIdsIn(q, S \union {c}) = CoreIdsIn(q, S) \union {Topology(q[c + 1]).core}
BY DEF CoreIdsIn

LEMMA OneCacheMore ==
  ASSUME NEW q, NEW S, NEW c, NEW n
  PROVE  CacheIdsIn(q, S \union {c}, n) = More(CacheIdsIn(q, S, n), q[c + 1].apic, n)
BY DEF CacheIdsIn, More

LEMMA CacheIdType ==
  ASSUME NEW apic \in Int, NEW n \in Nat, n # 0
  PROVE  CacheId(apic, n) \in Int
<1>1. apic % n \in Nat
  BY Remainder
<1>2. QED
  BY <1>1 DEF CacheId

(* The same for the caches of a level. *)
LEMMA TouchedCachesCounts ==
  ASSUME NEW tables \in [Levels -> Table], NEW apic \in Int,
         NEW sharing \in [Levels -> Nat], NEW l \in Levels,
         NEW S \in SUBSET Int, NEW k \in Nat, k + 1 < CountMod,
         Counts(tables[l], S, k), Separate(More(S, apic, sharing[l]))
  PROVE  Counts(TouchedCaches(tables, apic, sharing)[l],
                More(S, apic, sharing[l]), k + 1)
<1>1. CASE sharing[l] = 0
  BY <1>1, CountsGrow DEF TouchedCaches, More
<1>2. CASE sharing[l] # 0
  <2>1. CacheId(apic, sharing[l]) \in Int
    BY <1>2, CacheIdType
  <2>2. TouchedCaches(tables, apic, sharing)[l]
          = Touched(tables[l], CacheId(apic, sharing[l]))
    BY <1>2 DEF TouchedCaches
  <2>3. More(S, apic, sharing[l]) = S \union {CacheId(apic, sharing[l])}
    BY <1>2 DEF More
  <2>4. tables[l] \in Table
    OBVIOUS
  <2> HIDE DEF Table
  <2>5. Counts(Touched(tables[l], CacheId(apic, sharing[l])),
               S \union {CacheId(apic, sharing[l])}, k + 1)
    BY <2>1, <2>3, <2>4, TouchedCounts
  <2>6. QED
    BY <2>2, <2>3, <2>5
<1>3. QED
  BY <1>1, <1>2

(* The IDs of CPUs of an array that fits do not collide. *)
LEMMA CoreIdsSeparate ==
  ASSUME NEW q, Fits(q), NEW S, \A c \in S : c + 1 \in DOMAIN q
  PROVE  Separate(CoreIdsIn(q, S))
<1>1. CoreIdsIn(q, S) \subseteq {Topology(q[c]).core : c \in DOMAIN q}
  BY DEF CoreIdsIn
<1>2. QED
  BY <1>1, SeparateSubset DEF Fits

(* The cache IDs of some CPUs of an array are among those it has. *)
CacheIdOf(q, l, x) ==
  x \in Int /\ \E c \in DOMAIN q, n \in Granules(q, l) : x = CacheId(q[c].apic, n)

LEMMA CacheIdsSeparate ==
  ASSUME NEW q, Fits(q), NEW l \in Levels, NEW S,
         \A x \in S : CacheIdOf(q, l, x)
  PROVE  Separate(S)
<1> DEFINE All == {CacheId(q[c].apic, n) : c \in DOMAIN q, n \in Granules(q, l)}
<1>1. S \subseteq All
  BY DEF CacheIdOf
<1>2. Separate(All)
  BY DEF Fits
<1> HIDE DEF All
<1>3. QED
  BY <1>1, <1>2, SeparateSubset

LEMMA CacheIdsFit ==
  ASSUME NEW q \in Seq(RawData), NEW S, \A c \in S : c + 1 \in DOMAIN q,
         NEW l \in Levels, NEW d \in DOMAIN q
  PROVE  \A x \in CacheIdsIn(q, S, q[d].sharing[l]) : CacheIdOf(q, l, x)
<1> DEFINE n == q[d].sharing[l]
<1>1. q[d] \in RawData
  BY Element
<1>2. n \in Nat
  BY <1>1, RawDataFields
<1>3. n # 0 => n \in Granules(q, l)
  BY DEF Granules
<1> HIDE DEF n
<1> SUFFICES ASSUME NEW x \in CacheIdsIn(q, S, n) PROVE CacheIdOf(q, l, x)
  BY DEF n
<1>4. n # 0 /\ \E c \in S : x = CacheId(q[c + 1].apic, n)
  BY DEF CacheIdsIn
<1>5. PICK c \in S : x = CacheId(q[c + 1].apic, n)
  BY <1>4
<1>6. c + 1 \in DOMAIN q
  BY <1>5
<1>7. q[c + 1].apic \in Int
  BY <1>6, Element, RawDataFields
<1>8. x \in Int
  BY <1>2, <1>4, <1>5, <1>7, CacheIdType
<1>9. QED
  BY <1>3, <1>4, <1>5, <1>6, <1>8 DEF CacheIdOf

-----------------------------------------------------------------------------
(* What a CPU that joins a type does to the tables. *)

LEMMA CountedTables ==
  ASSUME logicalCpu \in Nat, withAffinity \in BOOLEAN, NEW type \in CpuType,
         NEW topo \in Topologies, NEW hasTopology \in BOOLEAN
  PROVE  /\ Counted(type, topo, hasTopology).sharing = type.sharing
         /\ withAffinity /\ hasTopology =>
              /\ Counted(type, topo, hasTopology).cores
                   = Touched(type.cores, topo.core)
              /\ Counted(type, topo, hasTopology).caches
                   = TouchedCaches(type.caches, topo.apic, type.sharing)
<1> DEFINE counted == [type EXCEPT !.mask = type.mask \union {logicalCpu},
                                   !.num_logical_cpus = type.num_logical_cpus + 1]
           cores  == Touched(type.cores, topo.core)
           caches == TouchedCaches(type.caches, topo.apic, type.sharing)
<1>1. CASE ~withAffinity
  BY <1>1 DEF Counted
<1>2. CASE withAffinity /\ ~hasTopology
  BY <1>2 DEF Counted, CpuType
<1>3. CASE withAffinity /\ hasTopology
  <2>1. counted.cores = type.cores /\ counted.caches = type.caches
    BY DEF CpuType
  <2>2. Counted(type, topo, hasTopology) =
          [counted EXCEPT !.cores = cores, !.caches = caches]
    BY <1>3, <2>1 DEF Counted
  <2> HIDE DEF cores, caches
  <2>3. /\ [counted EXCEPT !.cores = cores, !.caches = caches].sharing = type.sharing
        /\ [counted EXCEPT !.cores = cores, !.caches = caches].cores = cores
        /\ [counted EXCEPT !.cores = cores, !.caches = caches].caches = caches
    BY DEF CpuType
  <2>4. QED
    BY <1>3, <2>2, <2>3 DEF cores, caches
<1>4. QED
  BY <1>1, <1>2, <1>3

(* This CPU joins type i, which was old before. *)
JoinsTables(i, old, topo, hasTopology) ==
  /\ old \in CpuType
  /\ types' \in Seq(CpuType)
  /\ DOMAIN types' = DOMAIN types \union {i}
  /\ \A j \in DOMAIN types \ {i} : types'[j] = types[j]
  /\ types'[i].sharing = old.sharing
  /\ withAffinity => types'[i].mask = old.mask \union {logicalCpu}
  /\ withAffinity /\ hasTopology =>
       /\ types'[i].cores = Touched(old.cores, topo.core)
       /\ types'[i].caches = TouchedCaches(old.caches, topo.apic, old.sharing)
       /\ cachesAll' = TouchedCaches(cachesAll, topo.apic, old.sharing)
  /\ \/ i \in DOMAIN types /\ old = types[i]
     \/ /\ i = Len(types) + 1 /\ i < TypeMod
        /\ old.mask = {} /\ old.sharing = ThisCpu.sharing
        /\ old.cores = EmptyTable /\ old.caches = NoCaches

LEMMA KnownJoinsTables ==
  ASSUME TypeOK, phase = "loop", logicalCpu < Len(raw),
         NEW topo \in Topologies, NEW hasTopology \in BOOLEAN,
         NEW package \in PackageId,
         IdentifyKnownType(topo, hasTopology, package)
  PROVE  \E i \in Nat : \E old : JoinsTables(i, old, topo, hasTopology)
<1>1. PICK i \in DOMAIN types :
        /\ types' = [types EXCEPT ![i] = Counted(types[i], topo, hasTopology)]
        /\ cachesAll' = IF withAffinity /\ hasTopology
                        THEN TouchedCaches(cachesAll, topo.apic, types[i].sharing)
                        ELSE cachesAll
  BY DEF IdentifyKnownType
<1>2. types \in Seq(CpuType) /\ withAffinity \in BOOLEAN /\ logicalCpu \in Nat
  BY Iteration DEF TypeOK
<1> DEFINE old == types[i]
           new == Counted(old, topo, hasTopology)
<1>3. old \in CpuType /\ i \in Nat
  BY <1>2, Element
<1>4. /\ new \in CpuType
      /\ withAffinity => new.mask = old.mask \union {logicalCpu}
  <2>1. /\ new \in CpuType
        /\ new.mask = IF withAffinity THEN old.mask \union {logicalCpu} ELSE old.mask
    BY <1>2, <1>3, CountedFields
  <2>2. QED
    BY <2>1
<1>5. /\ new.sharing = old.sharing
      /\ withAffinity /\ hasTopology =>
           /\ new.cores = Touched(old.cores, topo.core)
           /\ new.caches = TouchedCaches(old.caches, topo.apic, old.sharing)
  BY <1>2, <1>3, CountedTables
<1>6. types' = [types EXCEPT ![i] = new]
  BY <1>1
<1> HIDE DEF new
<1>7. /\ types' \in Seq(CpuType) /\ DOMAIN types' = DOMAIN types \union {i}
      /\ types'[i] = new /\ \A j \in DOMAIN types \ {i} : types'[j] = types[j]
  <2>1. /\ types' \in Seq(CpuType) /\ DOMAIN types' = DOMAIN types
        /\ types'[i] = new /\ \A j \in DOMAIN types \ {i} : types'[j] = types[j]
    BY <1>2, <1>4, <1>6, Update, Zenon
  <2>2. QED
    BY <2>1
<1>8. JoinsTables(i, old, topo, hasTopology)
  BY <1>1, <1>3, <1>4, <1>5, <1>7 DEF JoinsTables
<1>9. QED
  BY <1>3, <1>8

LEMMA NewJoinsTables ==
  ASSUME TypeOK, phase = "loop", logicalCpu < Len(raw),
         NEW topo \in Topologies, NEW hasTopology \in BOOLEAN,
         NEW package \in PackageId,
         IdentifyNewType(topo, hasTopology, package)
  PROVE  \E i \in Nat : \E old : JoinsTables(i, old, topo, hasTopology)
<1> DEFINE old == FreshType(ThisCpu, package, hasTopology)
           new == Counted(old, topo, hasTopology)
           i   == Len(types) + 1
<1>1. /\ types' = Append(types, new) /\ i < TypeMod
      /\ cachesAll' = IF withAffinity /\ hasTopology
                      THEN TouchedCaches(cachesAll, topo.apic, old.sharing)
                      ELSE cachesAll
  BY DEF IdentifyNewType
<1>2. types \in Seq(CpuType) /\ withAffinity \in BOOLEAN /\ logicalCpu \in Nat
  BY Iteration DEF TypeOK
<1>3. old \in CpuType /\ old.mask = {}
  BY <1>2, Iteration, FreshFields
<1>4. /\ old.sharing = ThisCpu.sharing
      /\ old.cores = EmptyTable /\ old.caches = NoCaches
  BY DEF FreshType
<1> HIDE DEF old
<1>5. /\ new \in CpuType
      /\ withAffinity => new.mask = old.mask \union {logicalCpu}
  BY <1>2, <1>3, CountedFields
<1>6. /\ new.sharing = old.sharing
      /\ withAffinity /\ hasTopology =>
           /\ new.cores = Touched(old.cores, topo.core)
           /\ new.caches = TouchedCaches(old.caches, topo.apic, old.sharing)
  BY <1>2, <1>3, CountedTables
<1> HIDE DEF new
<1>7. /\ types' \in Seq(CpuType) /\ DOMAIN types' = DOMAIN types \union {i}
      /\ types'[i] = new /\ \A j \in DOMAIN types \ {i} : types'[j] = types[j]
  BY <1>1, <1>2, <1>5, Appended
<1>8. JoinsTables(i, old, topo, hasTopology)
  BY <1>1, <1>3, <1>4, <1>5, <1>6, <1>7 DEF JoinsTables
<1>9. i \in Nat
  BY <1>2
<1>10. QED
  BY <1>8, <1>9

(* One iteration for the next CPU. *)
JoinTables(i, old) ==
  /\ IInv /\ SharingKnown /\ TableCounts
  /\ phase = "loop" /\ logicalCpu < Len(raw)
  /\ JoinsTables(i, old, Topology(ThisCpu), TopologyAfter(Topology(ThisCpu)))
  /\ topologyOk' = TopologyAfter(Topology(ThisCpu))
  /\ logicalCpu' = logicalCpu + 1
  /\ phase' = "loop"
  /\ raw' = raw /\ withAffinity' = withAffinity

LEMMA JoinSharing ==
  ASSUME NEW i \in Nat, NEW old, JoinTables(i, old)
  PROVE  SharingKnown' /\ \E c \in DOMAIN raw : old.sharing = raw[c].sharing
<1>1. /\ TypeOK /\ phase = "loop" /\ phase' = "loop" /\ raw' = raw
      /\ logicalCpu < Len(raw)
      /\ \A j \in DOMAIN types : \E c \in DOMAIN raw : types[j].sharing = raw[c].sharing
  BY DEF JoinTables, IInv, SharingKnown
<1>2. /\ DOMAIN types' = DOMAIN types \union {i}
      /\ \A j \in DOMAIN types \ {i} : types'[j] = types[j]
      /\ types'[i].sharing = old.sharing
      /\ (i \in DOMAIN types /\ old = types[i]) \/ old.sharing = ThisCpu.sharing
  BY DEF JoinTables, JoinsTables
<1>3. logicalCpu + 1 \in DOMAIN raw /\ ThisCpu = raw[logicalCpu + 1]
  BY <1>1, Iteration DEF ThisCpu
<1>4. \E c \in DOMAIN raw : old.sharing = raw[c].sharing
  BY <1>1, <1>2, <1>3
<1>5. \A j \in DOMAIN types' : \E c \in DOMAIN raw : types'[j].sharing = raw[c].sharing
  BY <1>1, <1>2, <1>4
<1>6. QED
  BY <1>1, <1>4, <1>5 DEF SharingKnown

(* The APIC ID of an x86 CPU that tells its place. *)
LEMMA ApicOf ==
  ASSUME NEW cpu, cpu.arch = "x86", Topology(cpu).ok
  PROVE  Topology(cpu).apic = cpu.apic
BY DEF Topology, TopologyX86, NoTopology

(* The IDs an old or a new type was counted for. *)
LEMMA OldCounts ==
  ASSUME NEW i \in Nat, NEW old, JoinTables(i, old), withAffinity, topologyOk,
         Fits(raw)
  PROVE  /\ Counts(old.cores, CoreIdsIn(raw, old.mask), logicalCpu)
         /\ \A l \in Levels : Counts(old.caches[l],
                CacheIdsIn(raw, old.mask, old.sharing[l]), logicalCpu)
         /\ old.mask \subseteq 0 .. logicalCpu - 1
<1>1. /\ TypeOK /\ Partition /\ phase = "loop" /\ TableCounts
      /\ logicalCpu < Len(raw)
  BY DEF JoinTables, IInv, Groups
<1>2. CASE i \in DOMAIN types /\ old = types[i]
  BY <1>1, <1>2, MasksBelow DEF TableCounts
<1>3. CASE old.mask = {} /\ old.cores = EmptyTable /\ old.caches = NoCaches
  <2>1. /\ CoreIdsIn(raw, old.mask) = {}
        /\ \A l \in Levels : CacheIdsIn(raw, old.mask, old.sharing[l]) = {}
        /\ \A l \in Levels : old.caches[l] = EmptyTable
    BY <1>3 DEF CoreIdsIn, CacheIdsIn, NoCaches
  <2>2. Counts(EmptyTable, {}, logicalCpu)
    BY <1>1, Iteration, EmptyCounts
  <2>3. QED
    BY <1>3, <2>1, <2>2
<1>4. QED
  BY <1>2, <1>3 DEF JoinTables, JoinsTables

(* The caches of all types, and of this CPU. *)
LEMMA AllOneMore ==
  ASSUME NEW i \in Nat, NEW old, JoinTables(i, old), withAffinity, NEW l \in Levels
  PROVE  AllIds(raw, types', l)
           = More(AllIds(raw, types, l), ThisCpu.apic, old.sharing[l])
<1> DEFINE Ids(ts, j) == CacheIdsIn(raw, ts[j].mask, ts[j].sharing[l])
           Old == CacheIdsIn(raw, old.mask, old.sharing[l])
<1>1. /\ DOMAIN types' = DOMAIN types \union {i}
      /\ \A j \in DOMAIN types \ {i} : types'[j] = types[j]
      /\ types'[i].sharing = old.sharing
      /\ types'[i].mask = old.mask \union {logicalCpu}
      /\ (i \in DOMAIN types /\ old = types[i]) \/ (i \notin DOMAIN types /\ old.mask = {})
  <2>1. types \in Seq(CpuType)
    BY DEF JoinTables, IInv, TypeOK
  <2>2. Len(types) + 1 \notin DOMAIN types
    BY <2>1
  <2>3. JoinsTables(i, old, Topology(ThisCpu), TopologyAfter(Topology(ThisCpu)))
    BY DEF JoinTables
  <2>4. /\ DOMAIN types' = DOMAIN types \union {i}
        /\ \A j \in DOMAIN types \ {i} : types'[j] = types[j]
        /\ types'[i].sharing = old.sharing
        /\ types'[i].mask = old.mask \union {logicalCpu}
    BY <2>3, Zenon DEF JoinsTables
  <2>5. (i \in DOMAIN types /\ old = types[i]) \/ (i \notin DOMAIN types /\ old.mask = {})
    BY <2>2, <2>3, Zenon DEF JoinsTables
  <2>6. QED
    BY <2>4, <2>5
<1>2. Ids(types', i) = More(Old, ThisCpu.apic, old.sharing[l])
  <2>1. CacheIdsIn(raw, old.mask \union {logicalCpu}, old.sharing[l])
          = More(CacheIdsIn(raw, old.mask, old.sharing[l]),
                 raw[logicalCpu + 1].apic, old.sharing[l])
    BY ONLY OneCacheMore
  <2>2. QED
    BY <1>1, <2>1 DEF ThisCpu
<1>3. \A j \in DOMAIN types \ {i} : Ids(types', j) = Ids(types, j)
  BY <1>1
<1>4. \/ i \in DOMAIN types /\ Ids(types, i) = Old
      \/ i \notin DOMAIN types /\ Old = {}
  BY <1>1 DEF CacheIdsIn
<1> HIDE DEF Ids, Old
<1>5. \A x : (\E j \in DOMAIN types' : x \in Ids(types', j))
               <=> \/ \E j \in DOMAIN types : x \in Ids(types, j)
                   \/ x \in Ids(types', i)
  <2>1. \A x : x \in Old => x \in Ids(types', i)
    BY <1>2 DEF More
  <2>2. QED
    BY <1>1, <1>3, <1>4, <2>1
<1>6. \A x : x \in Old => \E j \in DOMAIN types : x \in Ids(types, j)
  BY <1>4
<1>7. \A x : (\E j \in DOMAIN types' : x \in Ids(types', j))
               <=> \/ \E j \in DOMAIN types : x \in Ids(types, j)
                   \/ old.sharing[l] # 0 /\ x = CacheId(ThisCpu.apic, old.sharing[l])
  BY <1>2, <1>5, <1>6 DEF More
<1>8. QED
  BY <1>7 DEF AllIds, More, Ids

LEMMA JoinCounts ==
  ASSUME NEW i \in Nat, NEW old, JoinTables(i, old)
  PROVE  TableCounts'
<1> SUFFICES ASSUME withAffinity, topologyOk', Fits(raw)
             PROVE  /\ \A j \in DOMAIN types' :
                         /\ Counts(types'[j].cores, CoreIdsIn(raw, types'[j].mask),
                                   logicalCpu + 1)
                         /\ \A l \in Levels : Counts(types'[j].caches[l],
                                CacheIdsIn(raw, types'[j].mask, types'[j].sharing[l]),
                                logicalCpu + 1)
                    /\ \A l \in Levels :
                         Counts(cachesAll'[l], AllIds(raw, types', l), logicalCpu + 1)
  <2>1. raw' = raw /\ withAffinity' = withAffinity /\ logicalCpu' = logicalCpu + 1
    BY DEF JoinTables
  <2>2. QED
    BY <2>1 DEF TableCounts
<1> DEFINE topo == Topology(ThisCpu)
           k    == logicalCpu
<1>1. /\ TypeOK /\ phase = "loop" /\ logicalCpu < Len(raw) /\ Partition
      /\ topologyOk' = TopologyAfter(topo) /\ TableCounts
      /\ JoinsTables(i, old, topo, topologyOk')
  BY DEF JoinTables, IInv, Groups
<1>2. topologyOk /\ topo.ok
  BY <1>1 DEF TopologyAfter, TypeOK
<1>3. /\ raw \in Seq(RawData) /\ k \in Nat /\ k + 1 < CountMod
      /\ k + 1 \in DOMAIN raw /\ ThisCpu \in RawData /\ topo \in Topologies
      /\ ThisCpu = raw[k + 1]
  BY <1>1, Iteration, ConstantsAssumption DEF Fits, ThisCpu
<1>4. /\ topo.core \in Int /\ topo.apic \in Int /\ ThisCpu.apic \in Nat
      /\ old \in CpuType /\ cachesAll \in [Levels -> Table]
  BY <1>1, <1>3, RawDataFields DEF Topologies, JoinsTables, TypeOK
<1>5. /\ old.cores \in Table /\ old.caches \in [Levels -> Table]
      /\ old.sharing \in [Levels -> Nat]
  BY <1>4, CpuTypeFields
<1>6. /\ Counts(old.cores, CoreIdsIn(raw, old.mask), k)
      /\ \A l \in Levels :
           Counts(old.caches[l], CacheIdsIn(raw, old.mask, old.sharing[l]), k)
      /\ old.mask \subseteq 0 .. k - 1
  BY <1>2, OldCounts
<1>7. /\ DOMAIN types' = DOMAIN types \union {i}
      /\ \A j \in DOMAIN types \ {i} : types'[j] = types[j]
      /\ types'[i].sharing = old.sharing
      /\ types'[i].mask = old.mask \union {k}
      /\ types'[i].cores = Touched(old.cores, topo.core)
      /\ types'[i].caches = TouchedCaches(old.caches, topo.apic, old.sharing)
      /\ cachesAll' = TouchedCaches(cachesAll, topo.apic, old.sharing)
  BY <1>1 DEF JoinsTables
<1> HIDE DEF topo, k
<1>8. Counts(types'[i].cores, CoreIdsIn(raw, types'[i].mask), k + 1)
  <2>1. CoreIdsIn(raw, types'[i].mask) = CoreIdsIn(raw, old.mask) \union {topo.core}
    <3>1. CoreIdsIn(raw, old.mask \union {k})
            = CoreIdsIn(raw, old.mask) \union {Topology(raw[k + 1]).core}
      BY ONLY OneCoreMore
    <3>2. Topology(raw[k + 1]).core = topo.core
      BY <1>3 DEF topo
    <3>3. QED
      BY <1>7, <3>1, <3>2
  <2>2. \A c \in types'[i].mask : c + 1 \in DOMAIN raw
    BY <1>3, <1>6, <1>7
  <2>3. Separate(CoreIdsIn(raw, old.mask) \union {topo.core})
    BY <2>1, <2>2, CoreIdsSeparate
  <2>4. CoreIdsIn(raw, old.mask) \in SUBSET Int
    <3>1. \A c \in old.mask : raw[c + 1] \in RawData
      BY <1>3, <1>6, Element
    <3>2. \A c \in old.mask : Topology(raw[c + 1]).core \in Int
      BY <3>1, TopologyType DEF Topologies
    <3>3. QED
      BY <3>2 DEF CoreIdsIn
  <2> DEFINE S == CoreIdsIn(raw, old.mask)
             core == topo.core
  <2>5. /\ S \in SUBSET Int /\ core \in Int /\ Separate(S \union {core})
        /\ Counts(old.cores, S, k)
    BY <1>4, <1>6, <2>3, <2>4
  <2> HIDE DEF S, core
  <2>6. Counts(Touched(old.cores, core), S \union {core}, k + 1)
    BY <1>3, <1>5, <2>5, TouchedCounts
  <2>7. QED
    BY <1>7, <2>1, <2>6 DEF S, core
<1>9. ASSUME NEW l \in Levels
      PROVE  /\ Counts(types'[i].caches[l],
                       CacheIdsIn(raw, types'[i].mask, types'[i].sharing[l]), k + 1)
             /\ Counts(cachesAll'[l], AllIds(raw, types', l), k + 1)
  <2> DEFINE n   == old.sharing[l]
             Own == CacheIdsIn(raw, old.mask, n)
             All == AllIds(raw, types, l)
  <2>1. n \in Nat
    BY <1>5
  <2>2. topo.apic = ThisCpu.apic \/ n = 0
    <3>1. PICK d \in DOMAIN raw : old.sharing = raw[d].sharing
      BY JoinSharing
    <3>2. CASE \A c \in DOMAIN raw : raw[c].arch = "x86"
      BY <1>2, <1>3, <3>2, ApicOf DEF topo
    <3>3. CASE \A c \in DOMAIN raw : \A m \in Levels : raw[c].sharing[m] = 0
      BY <3>1, <3>3
    <3>4. QED
      BY <3>2, <3>3 DEF Fits
  <2>3. ASSUME NEW j \in DOMAIN types'
        PROVE  \A x \in CacheIdsIn(raw, types'[j].mask, types'[j].sharing[l]) :
                 CacheIdOf(raw, l, x)
    <3>1. \A c \in types'[j].mask : c + 1 \in DOMAIN raw
      <4>1. j \in DOMAIN types \ {i} => types'[j].mask \subseteq 0 .. k - 1
        BY <1>1, <1>7, MasksBelow DEF k
      <4>2. types'[j].mask \subseteq 0 .. k
        BY <1>3, <1>6, <1>7, <2>3, <4>1
      <4>3. QED
        BY <1>3, <4>2
    <3>2. PICK d \in DOMAIN raw : types'[j].sharing = raw[d].sharing
      <4>1. SharingKnown' /\ phase' = "loop" /\ raw' = raw
        BY JoinSharing DEF JoinTables
      <4>2. QED
        BY <2>3, <4>1 DEF SharingKnown
    <3>3. QED
      BY <1>3, <3>1, <3>2, CacheIdsFit
  <2>4. CacheIdsIn(raw, types'[i].mask, types'[i].sharing[l])
          = More(Own, ThisCpu.apic, n)
    <3>1. CacheIdsIn(raw, old.mask \union {k}, n) = More(Own, raw[k + 1].apic, n)
      BY ONLY OneCacheMore
    <3>2. QED
      BY <1>3, <1>7, <3>1
  <2>5. AllIds(raw, types', l) = More(All, ThisCpu.apic, n)
    BY AllOneMore
  <2>6. \A x \in More(Own, ThisCpu.apic, n) : CacheIdOf(raw, l, x)
    BY <1>7, <2>3, <2>4
  <2>7. \A x \in More(All, ThisCpu.apic, n) : CacheIdOf(raw, l, x)
    BY <2>3, <2>5 DEF AllIds
  <2>8. Counts(old.caches[l], Own, k) /\ Counts(cachesAll[l], All, k)
    BY <1>1, <1>2, <1>6 DEF TableCounts, k
  <2> HIDE DEF n, Own, All
  <2>9. ASSUME NEW S, \A x \in More(S, ThisCpu.apic, n) : CacheIdOf(raw, l, x)
        PROVE  S \in SUBSET Int /\ Separate(More(S, topo.apic, n))
    <3>1. Separate(More(S, ThisCpu.apic, n))
      BY <2>9, CacheIdsSeparate
    <3>2. More(S, topo.apic, n) = More(S, ThisCpu.apic, n)
      BY <2>2 DEF More
    <3>3. S \subseteq More(S, ThisCpu.apic, n)
      BY DEF More
    <3>4. QED
      BY <2>9, <3>1, <3>2, <3>3 DEF CacheIdOf
  <2>10. ASSUME NEW tables \in [Levels -> Table], NEW S, Counts(tables[l], S, k),
                \A x \in More(S, ThisCpu.apic, n) : CacheIdOf(raw, l, x)
         PROVE  Counts(TouchedCaches(tables, topo.apic, old.sharing)[l],
                       More(S, ThisCpu.apic, n), k + 1)
    <3>1. S \in SUBSET Int /\ Separate(More(S, topo.apic, old.sharing[l]))
      BY <2>9, <2>10 DEF n
    <3>2. Counts(TouchedCaches(tables, topo.apic, old.sharing)[l],
                 More(S, topo.apic, old.sharing[l]), k + 1)
      BY <1>3, <1>4, <1>5, <2>10, <3>1, TouchedCachesCounts
    <3>3. More(S, topo.apic, old.sharing[l]) = More(S, ThisCpu.apic, n)
      BY <2>2 DEF More, n
    <3>4. QED
      BY <3>2, <3>3
  <2>11. Counts(types'[i].caches[l], More(Own, ThisCpu.apic, n), k + 1)
    BY <1>5, <1>7, <2>6, <2>8, <2>10
  <2>12. Counts(cachesAll'[l], More(All, ThisCpu.apic, n), k + 1)
    BY <1>4, <1>7, <2>7, <2>8, <2>10
  <2>13. QED
    BY <2>4, <2>5, <2>11, <2>12
<1>10. ASSUME NEW j \in DOMAIN types \ {i}
       PROVE  /\ Counts(types'[j].cores, CoreIdsIn(raw, types'[j].mask), k + 1)
              /\ \A l \in Levels : Counts(types'[j].caches[l],
                    CacheIdsIn(raw, types'[j].mask, types'[j].sharing[l]), k + 1)
  <2>1. /\ Counts(types[j].cores, CoreIdsIn(raw, types[j].mask), k)
        /\ \A l \in Levels : Counts(types[j].caches[l],
              CacheIdsIn(raw, types[j].mask, types[j].sharing[l]), k)
    BY <1>1, <1>2, <1>10 DEF TableCounts, k
  <2>2. types'[j] = types[j]
    BY <1>7, <1>10
  <2>3. QED
    BY <1>3, <2>1, <2>2, CountsGrow
<1>11. QED
  BY <1>7, <1>8, <1>9, <1>10 DEF k

-----------------------------------------------------------------------------
(* The counters survive every step. *)

LEMMA CountsStart == Init => CountsInv
<1> SUFFICES ASSUME Init PROVE CountsInv
  OBVIOUS
<1>1. /\ phase = "loop" /\ logicalCpu = 0 /\ types = <<>> /\ cachesAll = NoCaches
      /\ DOMAIN types = {} /\ Len(types) = 0
  BY DEF Init
<1>2. ASSUME NEW l \in Levels PROVE Counts(cachesAll[l], AllIds(raw, types, l), 0)
  <2>1. AllIds(raw, types, l) = {}
    BY <1>1 DEF AllIds
  <2>2. cachesAll[l] = EmptyTable
    BY <1>1 DEF NoCaches
  <2>3. QED
    BY <2>1, <2>2, EmptyCounts
<1>3. TableCounts /\ SharingKnown
  BY <1>1, <1>2 DEF TableCounts, SharingKnown
<1>4. TotalCounts /\ DerivedCounts
  BY <1>1 DEF TotalCounts, DerivedCounts
<1>5. TypesFit
  BY <1>1, ConstantsAssumption DEF TypesFit
<1>6. QED
  BY <1>3, <1>4, <1>5 DEF CountsInv

LEMMA CountsJoin ==
  ASSUME NEW i \in Nat, NEW old, JoinTables(i, old), TypesFit
  PROVE  CountsInv'
<1>1. phase' = "loop" /\ types \in Seq(CpuType)
  BY DEF JoinTables, IInv, TypeOK
<1>2. /\ types' \in Seq(CpuType)
      /\ DOMAIN types' = DOMAIN types \union {i}
      /\ i \in DOMAIN types \/ (i = Len(types) + 1 /\ i < TypeMod)
  BY DEF JoinTables, JoinsTables
<1>3. Len(types') <= TypeMod - 1
  <2>1. /\ Len(types) \in Nat /\ DOMAIN types = 1 .. Len(types)
        /\ Len(types') \in Nat /\ DOMAIN types' = 1 .. Len(types')
    BY <1>1, <1>2
  <2>2. Len(types) <= TypeMod - 1 /\ TypeMod \in Nat \ {0}
    BY ConstantsAssumption DEF TypesFit
  <2>3. Len(types') = 0 \/ Len(types') \in DOMAIN types'
    BY <2>1
  <2>4. Len(types') = 0 \/ Len(types') \in DOMAIN types \/ Len(types') < TypeMod
    BY <1>2, <2>3
  <2>5. QED
    BY ONLY <2>1, <2>2, <2>4
<1>4. TotalCounts' /\ DerivedCounts'
  BY <1>1 DEF TotalCounts, DerivedCounts
<1>5. QED
  BY <1>3, <1>4, JoinSharing, JoinCounts DEF CountsInv, TypesFit

LEMMA CountsIdentify ==
  ASSUME IInv, CountsInv, Identify
  PROVE  CountsInv'
<1> DEFINE topo        == Topology(ThisCpu)
           hasTopology == TopologyAfter(topo)
           package     == PackageAfter(topo)
<1>1. /\ phase = "loop" /\ logicalCpu < Len(raw)
      /\ topologyOk' = hasTopology
      /\ UNCHANGED <<raw, withAffinity>>
  BY DEF Identify
<1>2. /\ topo \in Topologies /\ hasTopology \in BOOLEAN /\ package \in PackageId
      /\ TypeOK /\ types \in Seq(CpuType)
  BY <1>1, Iteration DEF IInv, TypeOK
<1>3. TypesFit /\ SharingKnown /\ TableCounts
  BY DEF CountsInv
<1>4. CASE IdentifyKnownType(topo, hasTopology, package)
  <2>1. PICK i \in Nat : \E old : JoinsTables(i, old, topo, hasTopology)
    BY <1>1, <1>2, <1>4, KnownJoinsTables
  <2>2. PICK old : JoinsTables(i, old, topo, hasTopology)
    BY <2>1
  <2>3. logicalCpu' = logicalCpu + 1 /\ phase' = "loop"
    BY <1>4 DEF IdentifyKnownType
  <2>4. JoinTables(i, old)
    BY <1>1, <1>3, <2>2, <2>3 DEF JoinTables
  <2>5. QED
    BY <1>3, <2>4, CountsJoin
<1>5. CASE IdentifyNewType(topo, hasTopology, package)
  <2>1. PICK i \in Nat : \E old : JoinsTables(i, old, topo, hasTopology)
    BY <1>1, <1>2, <1>5, NewJoinsTables
  <2>2. PICK old : JoinsTables(i, old, topo, hasTopology)
    BY <2>1
  <2>3. logicalCpu' = logicalCpu + 1 /\ phase' = "loop"
    BY <1>5 DEF IdentifyNewType
  <2>4. JoinTables(i, old)
    BY <1>1, <1>3, <2>2, <2>3 DEF JoinTables
  <2>5. QED
    BY <1>3, <2>4, CountsJoin
<1>6. CASE IdentifyFails(hasTopology, package)
  <2>1. /\ phase' = "failed" /\ Len(types) + 1 < TypeMod
        /\ types' = Append(types, UnidentifiedType)
    BY <1>6 DEF IdentifyFails
  <2>2. Len(types') = Len(types) + 1 /\ Len(types) \in Nat
    BY <1>2, <2>1
  <2>3. TypesFit'
    BY <2>1, <2>2, ConstantsAssumption DEF TypesFit
  <2>4. SharingKnown' /\ TableCounts'
    BY <2>1 DEF SharingKnown, TableCounts
  <2>5. TotalCounts' /\ DerivedCounts'
    BY <2>1 DEF TotalCounts, DerivedCounts
  <2>6. QED
    BY <2>3, <2>4, <2>5 DEF CountsInv
<1>7. CASE LeavesArrays(topo, hasTopology, package)
  <2>1. phase' = "ub" /\ types' = types /\ logicalCpu' = logicalCpu
    BY <1>7 DEF LeavesArrays
  <2>4. TypesFit'
    BY <1>3, <2>1 DEF TypesFit
  <2>5. SharingKnown' /\ TableCounts' /\ TotalCounts' /\ DerivedCounts'
    BY <2>1 DEF SharingKnown, TableCounts, TotalCounts, DerivedCounts
  <2>6. QED
    BY <2>4, <2>5 DEF CountsInv
<1>8. QED
  BY <1>4, <1>5, <1>6, <1>7 DEF Identify

LEMMA FinishedCounts ==
  ASSUME withAffinity \in BOOLEAN, topologyOk \in BOOLEAN, NEW type \in CpuType
  PROVE  /\ Finished(type).sharing = type.sharing
         /\ withAffinity /\ topologyOk =>
              /\ Finished(type).num_cores = type.cores.count
              /\ \A l \in Levels : Finished(type).instances[l] = type.caches[l].count
         /\ withAffinity /\ ~topologyOk =>
              Finished(type).num_cores
                = CoresWithoutTopology(type.num_logical_cpus, type.num_cores)
BY DEF Finished, CpuType

LEMMA CountsFinish ==
  ASSUME IInv, CountsInv, Finish
  PROVE  CountsInv'
<1>1. /\ phase = "loop" /\ logicalCpu = Len(raw) /\ phase' = "done"
      /\ types' = [i \in DOMAIN types |-> Finished(types[i])]
      /\ totals' = IF topologyOk THEN [l \in Levels |-> cachesAll[l].count] ELSE totals
      /\ UNCHANGED <<raw, withAffinity, logicalCpu, topologyOk>>
  BY DEF Finish
<1>2. /\ types \in Seq(CpuType) /\ withAffinity \in BOOLEAN /\ topologyOk \in BOOLEAN
      /\ types' \in Seq(CpuType)
  BY StepFinish DEF IInv, TypeOK
<1>3. DOMAIN types' = DOMAIN types /\ Len(types') = Len(types)
  <2>1. DOMAIN types' = DOMAIN types
    BY <1>1
  <2>2. QED
    BY <1>2, <2>1
<1>4. ASSUME NEW i \in DOMAIN types
      PROVE  /\ types'[i].mask = types[i].mask
             /\ types'[i].sharing = types[i].sharing
             /\ withAffinity /\ topologyOk =>
                  /\ types'[i].num_cores = types[i].cores.count
                  /\ \A l \in Levels : types'[i].instances[l] = types[i].caches[l].count
             /\ withAffinity /\ ~topologyOk =>
                  types'[i].num_cores \in 1 .. types'[i].num_logical_cpus
  <2>1. types[i] \in CpuType /\ types'[i] = Finished(types[i])
    BY <1>1, <1>2, <1>4, Element
  <2>2. withAffinity => types[i].num_logical_cpus # 0
    BY <1>1, <1>4, NoEmptyType
  <2>3. /\ types'[i].mask = types[i].mask
        /\ types'[i].num_logical_cpus = types[i].num_logical_cpus
    BY <1>2, <2>1, <2>2, FinishedFields
  <2>4. ASSUME withAffinity, ~topologyOk
        PROVE  types'[i].num_cores \in 1 .. types'[i].num_logical_cpus
    <3>1. types[i].num_logical_cpus \in Nat \ {0} /\ types[i].num_cores \in Nat
      BY <2>1, <2>2, <2>4, CpuTypeFields
    <3>2. CoresWithoutTopology(types[i].num_logical_cpus, types[i].num_cores)
            \in 1 .. types[i].num_logical_cpus
      BY <3>1, DerivedCores
    <3>3. QED
      BY <1>2, <2>1, <2>3, <2>4, <3>2, FinishedCounts
  <2>5. QED
    BY <1>2, <2>1, <2>3, <2>4, FinishedCounts
<1>5. SharingKnown'
  BY <1>1, <1>3, <1>4 DEF CountsInv, SharingKnown
<1>6. TotalCounts'
  <2> SUFFICES ASSUME withAffinity, topologyOk, Fits(raw)
               PROVE  /\ \A i \in DOMAIN types' :
                           /\ types'[i].num_cores
                                = Cardinality(CoreIdsIn(raw, types'[i].mask))
                           /\ \A l \in Levels : types'[i].instances[l] =
                                Cardinality(CacheIdsIn(raw, types'[i].mask,
                                                       types'[i].sharing[l]))
                      /\ \A l \in Levels :
                           totals'[l] = Cardinality(AllIds(raw, types', l))
    BY <1>1 DEF TotalCounts
  <2>1. /\ \A i \in DOMAIN types :
             /\ types[i].cores.count = Cardinality(CoreIdsIn(raw, types[i].mask))
             /\ \A l \in Levels : types[i].caches[l].count
                  = Cardinality(CacheIdsIn(raw, types[i].mask, types[i].sharing[l]))
        /\ \A l \in Levels : cachesAll[l].count = Cardinality(AllIds(raw, types, l))
    BY <1>1 DEF CountsInv, TableCounts, Counts
  <2>2. \A l \in Levels : AllIds(raw, types', l) = AllIds(raw, types, l)
    BY <1>3, <1>4 DEF AllIds
  <2>3. \A l \in Levels : totals'[l] = cachesAll[l].count
    BY <1>1
  <2>4. QED
    BY <1>3, <1>4, <2>1, <2>2, <2>3
<1>7. DerivedCounts'
  BY <1>1, <1>3, <1>4 DEF DerivedCounts
<1>8. TableCounts' /\ TypesFit'
  BY <1>1, <1>3 DEF CountsInv, TableCounts, TypesFit
<1>9. QED
  BY <1>5, <1>6, <1>7, <1>8 DEF CountsInv

LEMMA CountsKept ==
  ASSUME CountsInv,
         UNCHANGED <<raw, withAffinity, logicalCpu, topologyOk, types, cachesAll,
                     totals, phase>>
  PROVE  CountsInv'
<1>1. SharingKnown' /\ TableCounts' /\ TypesFit'
  BY DEF CountsInv, SharingKnown, TableCounts, TypesFit
<1>2. TotalCounts' /\ DerivedCounts'
  BY DEF CountsInv, TotalCounts, DerivedCounts
<1>3. QED
  BY <1>1, <1>2 DEF CountsInv

(* What the invariant says, in the words of the properties: every CPU is   *)
(* in the mask of one type.                                                *)
LEMMA CacheIdsAre ==
  ASSUME Partition, withAffinity, logicalCpu = Len(raw), NEW l \in Levels
  PROVE  /\ \A i \in DOMAIN types : CacheIds(types[i].mask, l)
                = CacheIdsIn(raw, types[i].mask, types[i].sharing[l])
         /\ CacheIds(0 .. Len(raw) - 1, l) = AllIds(raw, types, l)
<1>1. ASSUME NEW i \in DOMAIN types, NEW c \in types[i].mask
      PROVE  TypeOf(c) = i
  <2>1. \A j \in DOMAIN types : c \in types[j].mask <=> j = i
    BY <1>1 DEF Partition
  <2>2. QED
    BY <1>1, <2>1 DEF TypeOf
<1>2. ASSUME NEW i \in DOMAIN types
      PROVE  CacheIds(types[i].mask, l)
               = CacheIdsIn(raw, types[i].mask, types[i].sharing[l])
  BY <1>1, <1>2 DEF CacheIds, CacheIdsIn
<1>3. CacheIds(0 .. Len(raw) - 1, l) = AllIds(raw, types, l)
  <2>1. \A c : c \in 0 .. Len(raw) - 1 <=> \E i \in DOMAIN types : c \in types[i].mask
    BY DEF Partition
  <2>2. \A x : x \in CacheIds(0 .. Len(raw) - 1, l)
                 <=> \E i \in DOMAIN types : x \in CacheIds(types[i].mask, l)
    BY <2>1, Zenon DEF CacheIds
  <2>3. QED
    BY <1>2, <2>2 DEF AllIds
<1>4. QED
  BY <1>2, <1>3

(* No more cores than CPUs. *)
LEMMA CoresBounded ==
  ASSUME NEW q, NEW S, IsFiniteSet(S), S # {}
  PROVE  Cardinality(CoreIdsIn(q, S)) \in 1 .. Cardinality(S)
<1> DEFINE T == CoreIdsIn(q, S)
           f == [c \in S |-> Topology(q[c + 1]).core]
<1>1. f \in Surjection(S, T)
  BY DEF Surjection, CoreIdsIn
<1>2. T # {}
  BY DEF CoreIdsIn
<1> HIDE DEF f, T
<1>3. IsFiniteSet(T) /\ Cardinality(T) <= Cardinality(S)
  BY <1>1, FS_Surjection
<1>4. Cardinality(T) # 0 /\ Cardinality(T) \in Nat /\ Cardinality(S) \in Nat
  BY <1>2, <1>3, FS_EmptySet, FS_CardinalityType
<1>5. QED
  BY <1>3, <1>4 DEF T

-----------------------------------------------------------------------------
(* As many types as kinds of CPUs, at most.  Every type has a CPU that it  *)
(* was made for, and no two types were made for CPUs of one kind: types    *)
(* that were made after the topology was lost have purposes of their own.  *)

MadeFor(i, c) ==
  /\ raw[c].purpose = types[i].purpose
  /\ types[i].package # -2 => Topology(raw[c]).package = types[i].package

KindsInv ==
  /\ ~withAffinity => Len(raw) <= 1
  /\ phase = "loop" /\ withAffinity =>
       \A i \in DOMAIN types : \E c \in 1 .. logicalCpu : MadeFor(i, c)
  /\ phase = "loop" =>
       \A i, j \in DOMAIN types :
         i < j /\ types[i].package = -2 => types[j].package = -2
  /\ StaysInArrays

LEMMA KindsStart == Init => KindsInv
<1> SUFFICES ASSUME Init PROVE KindsInv
  OBVIOUS
<1>1. phase = "loop" /\ DOMAIN types = {} /\ (~withAffinity => Len(raw) <= 1)
  BY DEF Init
<1>2. QED
  BY <1>1 DEF KindsInv, StaysInArrays

LEMMA KindsJoin ==
  ASSUME NEW i \in Nat, NEW old, JoinStep(i, old), KindsInv
  PROVE  KindsInv'
<1>0. Joined(i, old)
  BY JoinFacts
<1>1. /\ phase = "loop" /\ phase' = "loop" /\ raw' = raw /\ withAffinity' = withAffinity
      /\ logicalCpu' = logicalCpu + 1 /\ logicalCpu \in Nat
      /\ AllPackagesKnown /\ Identified = DOMAIN types
  BY <1>0 DEF JoinStep, Groups, Identified, Joined
<1>2. \A j \in DOMAIN types : /\ types'[j].purpose = types[j].purpose
                              /\ types'[j].package = types[j].package
  <2>1. i \in DOMAIN types => types[i].purpose = ThisCpu.purpose /\ types[i].package = old.package
    BY <1>0 DEF JoinStep, Joins, Joined
  <2>2. QED
    BY <2>1, <1>0, Zenon DEF Joined
<1>3. \A j \in DOMAIN types' : j \in DOMAIN types \/ (j = i /\ i \notin DOMAIN types)
  BY <1>0 DEF Joined
<1>4. ASSUME withAffinity, NEW j \in DOMAIN types'
      PROVE  (\E c \in 1 .. logicalCpu : MadeFor(j, c))'
  <2>1. CASE j \in DOMAIN types
    <3>1. PICK c \in 1 .. logicalCpu : MadeFor(j, c)
      BY <1>1, <1>4, <2>1 DEF KindsInv
    <3>2. c \in 1 .. logicalCpu'
      BY <1>1
    <3>3. MadeFor(j, c)'
      BY <1>1, <1>2, <2>1, <3>1 DEF MadeFor
    <3>4. QED
      BY <3>2, <3>3
  <2>2. CASE j = i /\ i \notin DOMAIN types
    <3>0. PICK c \in Nat : c = logicalCpu + 1
      BY <1>1
    <3>1. c \in 1 .. logicalCpu' /\ raw'[c] = ThisCpu
      BY <1>1, <3>0 DEF ThisCpu
    <3>2. types'[j].purpose = ThisCpu.purpose
      BY <2>2, <1>0 DEF Joined
    <3>3. types'[j].package # -2 => Topology(ThisCpu).package = types'[j].package
      BY <1>4, <2>2, <1>0 DEF Joined
    <3>4. MadeFor(j, c)'
      BY <3>1, <3>2, <3>3 DEF MadeFor
    <3>5. QED
      BY <3>1, <3>4
  <2>3. QED
    BY <1>3, <2>1, <2>2
<1>5. ASSUME NEW j \in DOMAIN types', NEW k \in DOMAIN types', j < k, types'[j].package = -2
      PROVE  types'[k].package = -2
  <2>1. j \in DOMAIN types
    <3>1. DOMAIN types = 1 .. Len(types) /\ Len(types) \in Nat
      BY <1>0 DEF Joined
    <3>2. i \notin DOMAIN types => i = Len(types) + 1
      BY <1>0 DEF Joined
    <3>3. k = i \/ k \in DOMAIN types
      BY <1>3
    <3>4. j = i => i \in DOMAIN types
      BY <1>5, <3>1, <3>2, <3>3
    <3>5. QED
      BY <1>3, <3>4
  <2>2. types[j].package = -2
    BY <1>2, <1>5, <2>1
  <2>3. CASE k \in DOMAIN types
    BY <1>1, <1>2, <1>5, <2>1, <2>2, <2>3 DEF KindsInv
  <2>4. CASE k = i /\ i \notin DOMAIN types
    <3>1. ~topologyOk
      BY <1>1, <2>1, <2>2 DEF AllPackagesKnown
    <3>2. QED
      BY <2>4, <3>1, <1>0 DEF Joined
  <2>5. QED
    BY <1>3, <2>3, <2>4
<1>6. StaysInArrays'
  BY <1>1 DEF StaysInArrays
<1>7. QED
  BY <1>1, <1>4, <1>5, <1>6 DEF KindsInv

(* A type for one CPU more: its kind is none that a type was made for.     *)
LEMMA NewKind ==
  ASSUME IInv, KindsInv, phase = "loop", logicalCpu < Len(raw), withAffinity,
         IsNewType(TopologyAfter(Topology(ThisCpu)), PackageAfter(Topology(ThisCpu)))
  PROVE  /\ IsFiniteSet(Kinds) /\ Len(types) \in Nat
         /\ Len(types) + 1 <= Cardinality(Kinds)
<1> DEFINE n     == Len(types)
           S     == 1 .. n + 1
           Of(i) == CHOOSE c \in 1 .. logicalCpu : MadeFor(i, c)
           who   == [i \in S |-> IF i <= n THEN Of(i) ELSE logicalCpu + 1]
           Kind(c) == <<raw[c].purpose, Topology(raw[c]).package>>
           f     == [i \in S |-> Kind(who[i])]
<1>1. /\ raw \in Seq(RawData) /\ logicalCpu \in Nat /\ DOMAIN raw = 1 .. Len(raw)
      /\ Len(raw) \in Nat /\ types \in Seq(CpuType) /\ n \in Nat /\ DOMAIN types = 1 .. n
      /\ Identified = DOMAIN types
  BY Iteration DEF IInv, TypeOK, Identified
<1>2. ASSUME NEW i \in 1 .. n PROVE Of(i) \in 1 .. logicalCpu /\ MadeFor(i, Of(i))
  <2>1. \E c \in 1 .. logicalCpu : MadeFor(i, c)
    BY <1>1, <1>2 DEF KindsInv
  <2>2. QED
    BY <2>1
<1> HIDE DEF Of
<1>3. ASSUME NEW i \in S PROVE who[i] \in DOMAIN raw
  <2>1. CASE i <= n
    <3>1. i \in 1 .. n /\ who[i] = Of(i)
      BY <1>1, <1>3, <2>1
    <3>2. QED
      BY <1>1, <1>2, <3>1
  <2>2. CASE ~(i <= n)
    BY <1>1, <1>3, <2>2
  <2>3. QED
    BY <2>1, <2>2
<1>4. ASSUME NEW i \in 1 .. n
      PROVE  /\ Kind(who[i])[1] = types[i].purpose
             /\ types[i].package # -2 => Kind(who[i])[2] = types[i].package
  <2>1. who[i] = Of(i)
    BY <1>1
  <2>2. QED
    BY <1>2, <2>1 DEF MadeFor
<1>5. who[n + 1] = logicalCpu + 1
  BY <1>1
<1> HIDE DEF who
<1>6. Kind(who[n + 1]) = <<ThisCpu.purpose, Topology(ThisCpu).package>>
  BY <1>5 DEF ThisCpu
<1>7. ASSUME NEW i \in 1 .. n, NEW j \in 1 .. n, i < j PROVE Kind(who[i]) # Kind(who[j])
  <2>1. SUFFICES ASSUME Kind(who[i]) = Kind(who[j]) PROVE FALSE
    OBVIOUS
  <2>2. types[i].purpose = types[j].purpose
    BY <1>4, <2>1
  <2>3. types[j].package # -2 /\ types[i].package # types[j].package
    BY <1>1, <1>7, <2>2 DEF IInv, Groups, KeysDistinct
  <2>4. types[i].package # -2
    BY <1>1, <1>7, <2>3 DEF KindsInv
  <2>5. QED
    BY <1>4, <2>1, <2>3, <2>4
<1>8. ASSUME NEW i \in 1 .. n PROVE Kind(who[i]) # Kind(who[n + 1])
  <2>1. SUFFICES ASSUME Kind(who[i]) = Kind(who[n + 1]) PROVE FALSE
    OBVIOUS
  <2>2. types[i].purpose = ThisCpu.purpose
    BY <1>4, <1>6, <2>1
  <2>3. /\ TopologyAfter(Topology(ThisCpu))
        /\ types[i].package # PackageAfter(Topology(ThisCpu))
    BY <1>1, <2>2 DEF IsNewType, Matches
  <2>4. topologyOk /\ PackageAfter(Topology(ThisCpu)) = Topology(ThisCpu).package
    BY <2>3 DEF TopologyAfter, PackageAfter, IInv, TypeOK
  <2>5. types[i].package # -2
    BY <1>1, <2>4 DEF IInv, Groups, AllPackagesKnown
  <2>6. QED
    BY <1>4, <1>6, <2>1, <2>3, <2>4, <2>5
<1>9. \A i \in S : i \in 1 .. n \/ i = n + 1
  BY <1>1
<1>10. \A i \in DOMAIN raw : Kind(i) \in Kinds
  BY DEF Kinds
<1>11. f \in Injection(S, Kinds)
  <2>1. f \in [S -> Kinds]
    BY <1>3, <1>10
  <2>2. \A i, j \in S : f[i] = f[j] => i = j
    <3> SUFFICES ASSUME NEW i \in S, NEW j \in S, i # j PROVE f[i] # f[j]
      OBVIOUS
    <3>1. f[i] = Kind(who[i]) /\ f[j] = Kind(who[j])
      OBVIOUS
    <3> HIDE DEF f, Kind
    <3>2. CASE i \in 1 .. n /\ j \in 1 .. n
      <4>1. i < j \/ j < i
        BY <1>1, <3>2
      <4>2. QED
        BY <1>7, <3>1, <3>2, <4>1
    <3>3. QED
      BY <1>8, <1>9, <3>1, <3>2
  <2>3. QED
    BY <2>1, <2>2 DEF Injection, IsInjective
<1>12. IsFiniteSet(Kinds)
  <2> DEFINE g == [c \in DOMAIN raw |-> Kind(c)]
  <2>1. g \in Surjection(DOMAIN raw, Kinds)
    BY DEF Surjection, Kinds
  <2>2. IsFiniteSet(DOMAIN raw)
    BY <1>1, FS_Interval
  <2> HIDE DEF g
  <2>3. QED
    BY <2>1, <2>2, FS_Surjection
<1>13. Cardinality(S) = n + 1
  <2>1. 1 \in Int /\ n + 1 \in Int
    BY <1>1
  <2>2. Cardinality(S) = IF 1 > n + 1 THEN 0 ELSE (n + 1) - 1 + 1
    BY <2>1, FS_Interval
  <2>3. QED
    BY <1>1, <2>2
<1> HIDE DEF f, S
<1>14. Cardinality(S) <= Cardinality(Kinds)
  BY <1>11, <1>12, FS_Injection
<1>15. QED
  BY <1>1, <1>12, <1>13, <1>14

LEMMA KindsLeave ==
  ASSUME IInv, KindsInv, phase = "loop", logicalCpu < Len(raw),
         LeavesArrays(Topology(ThisCpu), TopologyAfter(Topology(ThisCpu)),
                      PackageAfter(Topology(ThisCpu))),
         CoresListed, Cardinality(Kinds) < TypeMod
  PROVE  FALSE
<1> DEFINE topo        == Topology(ThisCpu)
           hasTopology == TopologyAfter(topo)
           package     == PackageAfter(topo)
<1>1. /\ logicalCpu \in Nat /\ logicalCpu + 1 \in DOMAIN raw /\ topo \in Topologies
      /\ ThisCpu = raw[logicalCpu + 1]
  BY Iteration DEF IInv, ThisCpu
<1>2. IndexInTable(topo, hasTopology)
  <2> SUFFICES ASSUME withAffinity, hasTopology PROVE topo.core >= 0
    BY DEF IndexInTable
  <2>1. topo.ok
    BY DEF TopologyAfter
  <2>2. QED
    BY <1>1, <2>1 DEF CoresListed
<1>3. IsNewType(hasTopology, package) /\ Len(types) + 1 >= TypeMod
  BY <1>2 DEF LeavesArrays
<1>4. CASE withAffinity
  <2>1. /\ IsFiniteSet(Kinds) /\ Len(types) \in Nat
        /\ Len(types) + 1 <= Cardinality(Kinds)
    BY <1>3, <1>4, NewKind
  <2>2. Cardinality(Kinds) \in Nat /\ TypeMod \in Nat
    BY <2>1, FS_CardinalityType, ConstantsAssumption
  <2>3. QED
    BY ONLY <1>3, <2>1, <2>2, Cardinality(Kinds) < TypeMod
<1>5. CASE ~withAffinity
  <2>1. Len(raw) <= 1 /\ raw \in Seq(RawData) /\ types \in Seq(CpuType)
    BY <1>5, ConstantsAssumption DEF KindsInv, IInv, TypeOK
  <2>2. logicalCpu = 0 /\ Len(raw) = 1 /\ DOMAIN raw = {1}
    <3>1. Len(raw) \in Nat /\ DOMAIN raw = 1 .. Len(raw)
      BY <2>1
    <3>2. logicalCpu = 0 /\ Len(raw) = 1
      BY <1>1, <2>1, <3>1
    <3>3. QED
      BY <3>1, <3>2
  <2>3. {types[i].purpose : i \in DOMAIN types} = {raw[c].purpose : c \in 1 .. 0}
    BY <2>2 DEF IInv, Groups, PurposesCovered
  <2>4. DOMAIN types = {}
    <3>1. 1 .. 0 = {}
      OBVIOUS
    <3>2. QED
      BY <2>3, <3>1, Zenon
  <2>5. Len(types) = 0
    BY <2>1, <2>4
  <2>6. Kinds = {<<raw[1].purpose, Topology(raw[1]).package>>}
    BY <2>2 DEF Kinds
  <2>7. Cardinality(Kinds) = 1
    BY <2>6, FS_Singleton
  <2>8. QED
    BY <1>3, <2>5, <2>7, ConstantsAssumption
<1>6. QED
  BY <1>4, <1>5

LEMMA KindsStep == IInv /\ KindsInv /\ [Next]_vars => KindsInv'
<1> SUFFICES ASSUME IInv, KindsInv, [Next]_vars PROVE KindsInv'
  OBVIOUS
<1> DEFINE topo        == Topology(ThisCpu)
           hasTopology == TopologyAfter(topo)
           package     == PackageAfter(topo)
<1>1. ASSUME phase' # "loop", raw' = raw, withAffinity' = withAffinity, StaysInArrays'
      PROVE  KindsInv'
  BY <1>1 DEF KindsInv
<1>2. CASE Identify
  <2>1. /\ phase = "loop" /\ logicalCpu < Len(raw) /\ topologyOk' = hasTopology
        /\ UNCHANGED <<raw, withAffinity>>
    BY <1>2 DEF Identify
  <2>2. topo \in Topologies /\ hasTopology \in BOOLEAN /\ package \in PackageId
    BY <2>1, Iteration DEF IInv
  <2>3. CASE \/ IdentifyKnownType(topo, hasTopology, package)
             \/ IdentifyNewType(topo, hasTopology, package)
    <3>1. \E i \in Nat : \E old : Joins(i, old, topo, hasTopology, package)
      BY <2>1, <2>2, <2>3, KnownJoins, NewJoins DEF IInv
    <3>2. PICK i \in Nat : \E old : Joins(i, old, topo, hasTopology, package)
      BY <3>1
    <3>3. PICK old : Joins(i, old, topo, hasTopology, package)
      BY <3>2
    <3>4. logicalCpu' = logicalCpu + 1 /\ phase' = "loop"
      BY <2>3 DEF IdentifyKnownType, IdentifyNewType
    <3>5. JoinStep(i, old)
      BY <2>1, <3>3, <3>4 DEF JoinStep, IInv
    <3>6. QED
      BY <3>5, KindsJoin
  <2>4. CASE IdentifyFails(hasTopology, package)
    <3>1. phase' = "failed"
      BY <2>4 DEF IdentifyFails
    <3>2. QED
      BY <1>1, <2>1, <3>1 DEF StaysInArrays
  <2>5. CASE LeavesArrays(topo, hasTopology, package)
    <3>1. ~(CoresListed /\ Cardinality(Kinds) < TypeMod)
      BY <2>1, <2>5, KindsLeave
    <3>2. phase' = "ub" /\ CoresListed' = CoresListed /\ Kinds' = Kinds
      BY <2>1, <2>5 DEF LeavesArrays, CoresListed, Kinds
    <3>3. QED
      BY <1>1, <2>1, <3>1, <3>2 DEF StaysInArrays
  <2>6. QED
    BY <1>2, <2>3, <2>4, <2>5 DEF Identify
<1>3. CASE Finish
  <2>1. phase' = "done" /\ UNCHANGED <<raw, withAffinity>>
    BY <1>3 DEF Finish
  <2>2. QED
    BY <1>1, <2>1 DEF StaysInArrays
<1>4. CASE \E p \in Purposes : RequestCoreType(p)
  <2>1. phase' # "loop" /\ phase' # "ub" /\ UNCHANGED <<raw, withAffinity>>
    BY <1>4 DEF RequestCoreType
  <2>2. QED
    BY <1>1, <2>1 DEF StaysInArrays
<1>5. CASE UNCHANGED vars
  BY <1>5 DEF vars, KindsInv, MadeFor, StaysInArrays, Kinds, CoresListed
<1>6. QED
  BY <1>2, <1>3, <1>4, <1>5 DEF Next

-----------------------------------------------------------------------------
(* The theorems. *)

(* Inductiveness of the invariant: it holds of every loop of               *)
(* cpu_identify_all, whatever the raw array.                               *)
THEOREM Invariance == Spec => []IInv
<1>1. IInv /\ [Next]_vars => IInv'
  <2> SUFFICES ASSUME IInv, [Next]_vars PROVE IInv'
    OBVIOUS
  <2>1. CASE Identify
    BY <2>1, StepIdentify
  <2>2. CASE Finish
    BY <2>2, StepFinish
  <2>3. CASE \E p \in Purposes : RequestCoreType(p)
    BY <2>3, StepRequest
  <2>4. CASE UNCHANGED vars
    BY <2>4, StepStutter
  <2>5. QED
    BY <2>1, <2>2, <2>3, <2>4 DEF Next
<1>2. QED
  BY <1>1, Start, PTL DEF Spec

(* The affinity masks of the CPU types partition the CPUs looked at, and   *)
(* num_logical_cpus is the size of the mask.                               *)
THEOREM PartitionHolds == Spec => []Partition
<1>1. IInv => Partition
  BY DEF IInv, Groups
<1>2. QED
  BY <1>1, Invariance, PTL

(* The CPUs of a type share its purpose and, where known, its package.     *)
THEOREM HomogeneousHolds == Spec => []Homogeneous
<1>1. IInv => Homogeneous
  BY DEF IInv, Groups
<1>2. QED
  BY <1>1, Invariance, PTL

(* No two types with CPUs stand for the same purpose and package.          *)
THEOREM TypesDistinctHolds == Spec => []TypesDistinct
<1>1. IInv => TypesDistinct
  <2> SUFFICES ASSUME IInv, NEW i \in DOMAIN types, NEW j \in DOMAIN types,
                      i < j, types[j].mask # {},
                      types[i].purpose = types[j].purpose
               PROVE  /\ types[j].package # -2
                      /\ types[i].package # types[j].package
    BY DEF TypesDistinct
  <2>1. types \in Seq(CpuType) /\ KeysDistinct /\ LastIsEmpty
    BY DEF IInv, TypeOK, Groups
  <2>2. phase = "failed" => j # Len(types)
    BY <2>1, UnidentifiedFields DEF LastIsEmpty
  <2>3. i \in Identified /\ j \in Identified
    BY <2>1, <2>2 DEF Identified
  <2>4. QED
    BY <2>1, <2>3 DEF KeysDistinct
<1>2. QED
  BY <1>1, Invariance, PTL

(* cpu_request_core_type answers as cpu_identify_all lists.                *)
THEOREM RequestAgreesHolds == Spec => []RequestAgrees
<1>1. IInv => RequestAgrees
  <2> SUFFICES ASSUME IInv, phase = "done", request.answer # "none"
               PROVE  request.answer = "ERR_OK"
                        <=> \E i \in DOMAIN types : types[i].purpose = request.purpose
    BY DEF RequestAgrees
  <2>1. raw \in Seq(RawData) /\ logicalCpu = Len(raw)
    BY ConstantsAssumption DEF IInv, TypeOK, AnswerRight
  <2>2. {types[i].purpose : i \in DOMAIN types} = {raw[c].purpose : c \in DOMAIN raw}
    <3>1. {types[i].purpose : i \in DOMAIN types} = {raw[c].purpose : c \in 1 .. logicalCpu}
      BY Zenon DEF IInv, Groups, PurposesCovered
    <3>2. DOMAIN raw = 1 .. logicalCpu
      BY <2>1
    <3>3. QED
      BY <3>1, <3>2, Zenon
  <2>3. request.answer = "ERR_OK" <=> \E c \in DOMAIN raw : raw[c].purpose = request.purpose
    BY DEF IInv, AnswerRight
  <2>4. (\E i \in DOMAIN types : types[i].purpose = request.purpose)
          <=> request.purpose \in {types[i].purpose : i \in DOMAIN types}
    BY Zenon
  <2>5. (\E c \in DOMAIN raw : raw[c].purpose = request.purpose)
          <=> request.purpose \in {raw[c].purpose : c \in DOMAIN raw}
    BY Zenon
  <2>6. QED
    BY <2>2, <2>3, <2>4, <2>5
<1>2. QED
  BY <1>1, Invariance, PTL

(* Inductiveness of the counters' invariant. *)
THEOREM CountsInvariance == Spec => []CountsInv
<1>1. IInv /\ CountsInv /\ [Next]_vars => CountsInv'
  <2> SUFFICES ASSUME IInv, CountsInv, [Next]_vars PROVE CountsInv'
    OBVIOUS
  <2>1. CASE Identify
    BY <2>1, CountsIdentify
  <2>2. CASE Finish
    BY <2>2, CountsFinish
  <2>3. CASE \E p \in Purposes : RequestCoreType(p)
    BY <2>3, CountsKept DEF RequestCoreType
  <2>4. CASE UNCHANGED vars
    BY <2>4, CountsKept DEF vars
  <2>5. QED
    BY <2>1, <2>2, <2>3, <2>4 DEF Next
<1>2. QED
  BY <1>1, CountsStart, Invariance, PTL DEF Spec

(* When the counters have room for the CPUs of the raw array and no two    *)
(* IDs fall into one entry of a table, cpu_identify_all counts the cores   *)
(* and caches that the CPUs have, per type and in total, in any order.     *)
THEOREM CountsOfTheType == Spec => [](Fits(raw) => CountsAreOfTheType)
<1>1. IInv /\ CountsInv => (Fits(raw) => CountsAreOfTheType)
  <2> SUFFICES ASSUME IInv, CountsInv, Fits(raw), phase = "done", withAffinity
               PROVE  /\ topologyOk => CoreCount /\ CacheCount
                      /\ CoresPlausible
    BY DEF CountsAreOfTheType, CoreCount, CacheCount, CoresPlausible
  <2>1. TypeOK /\ Partition /\ Populated /\ logicalCpu = Len(raw)
    BY DEF IInv, Groups, AnswerRight
  <2>2. ASSUME topologyOk
        PROVE  /\ \A i \in DOMAIN types :
                    /\ types[i].num_cores = Cardinality(CoreIdsIn(raw, types[i].mask))
                    /\ \A l \in Levels : types[i].instances[l]
                         = Cardinality(CacheIdsIn(raw, types[i].mask,
                                                  types[i].sharing[l]))
               /\ \A l \in Levels : totals[l] = Cardinality(AllIds(raw, types, l))
    BY <2>2 DEF CountsInv, TotalCounts
  <2>3. topologyOk => CoreCount
    <3>1. \A S : CoreIds(S) = CoreIdsIn(raw, S)
      BY DEF CoreIds, CoreIdsIn
    <3>2. QED
      BY <2>2, <3>1 DEF CoreCount
  <2>4. topologyOk => CacheCount
    BY <2>1, <2>2, CacheIdsAre DEF CacheCount
  <2>5. ASSUME NEW i \in DOMAIN types
        PROVE  types[i].num_cores \in 1 .. types[i].num_logical_cpus
    <3>1. CASE topologyOk
      <4>1. /\ types[i].mask # {} /\ IsFiniteSet(types[i].mask)
            /\ types[i].num_logical_cpus = Cardinality(types[i].mask)
        BY <2>1, MasksBelow DEF Populated, Identified, Partition
      <4>2. QED
        BY <2>2, <3>1, <4>1, CoresBounded
    <3>2. CASE ~topologyOk
      BY <3>2 DEF CountsInv, DerivedCounts
    <3>3. QED
      BY <3>1, <3>2
  <2>6. QED
    BY <2>3, <2>4, <2>5 DEF CoresPlausible
<1>2. QED
  BY <1>1, Invariance, CountsInvariance, PTL

(* Without the topology the derived number of cores needs no such room: it *)
(* is between one and the number of logical CPUs for every raw array.      *)
THEOREM DerivedCoresPlausible == Spec => [](~topologyOk => CoresPlausible)
<1>1. CountsInv => (~topologyOk => CoresPlausible)
  BY DEF CountsInv, DerivedCounts, CoresPlausible
<1>2. QED
  BY <1>1, CountsInvariance, PTL

(* However long the array, whatever the order of its CPUs and wherever the *)
(* topology is lost, the loop makes no more types than there are kinds of  *)
(* CPUs: it stays in its arrays when num_cpu_types can count those.        *)
THEOREM AlwaysStaysInArrays == Spec => []StaysInArrays
<1>1. IInv /\ KindsInv /\ [Next]_vars => KindsInv'
  BY KindsStep
<1>2. KindsInv => StaysInArrays
  BY DEF KindsInv
<1>3. QED
  BY <1>1, <1>2, KindsStart, Invariance, PTL DEF Spec
=============================================================================
