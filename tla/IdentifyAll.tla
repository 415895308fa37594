---------------------------- MODULE IdentifyAll -----------------------------
(***************************************************************************)
(* cpu_identify_all and cpu_request_core_type (libcpuid/cpuid_main.c): the *)
(* logical CPUs of a raw array are sorted into CPU types by purpose and    *)
(* package, and cores and caches are counted in small hash tables.         *)
(*                                                                         *)
(* One step is one iteration of the loop over the raw array.  The raw data *)
(* of a CPU is abstracted to what the loop looks at:                       *)
(*   arch     "x86", "arm" or "other"                                      *)
(*   purpose  what cpu_ident_purpose answers                               *)
(*   known    whether cpu_ident_internal succeeds                          *)
(*   levels   x86: the valid sub-leaves of CPUID leaf 0Bh, as records      *)
(*            [type, span], span being two to the power of the shift       *)
(*   apic     x86: the APIC ID                                             *)
(*   mpidr    arm: <<>>, or <<package, core>> of the MPIDR                 *)
(*   cores    number of cores that identification reports                  *)
(*   sharing  sharing[l] = n: n neighbouring APIC IDs share one cache of   *)
(*            level l (cache_mask is ~(n - 1)); 0: cache_mask is 0         *)
(***************************************************************************)
EXTENDS Integers, Sequences, FiniteSets

CONSTANTS
  Arrays,     \* raw arrays the functions may be given
  Purposes,   \* cpu_purpose_t
  Levels,     \* cache_type_t
  TableSize,  \* CORES_HTABLE_SIZE and CACHES_HTABLE_SIZE (256)
  CountMod,   \* number of values of "instances" (uint8_t)
  TypeMod     \* number of values of num_cpu_types (uint8_t)

(* Packages of an x86 CPU and of an ARM CPU; -1 is an ARM uniprocessor. *)
PackageId == Nat \union {-1}

RawData == [arch : {"x86", "arm", "other"}, purpose : Purposes,
            known : BOOLEAN, levels : Seq([type : Nat, span : Nat \ {0}]),
            apic : Nat, mpidr : {<<>>} \union (PackageId \X Nat), cores : Nat,
            sharing : [Levels -> Nat]]

ASSUME ConstantsAssumption ==
  /\ "general" \in Purposes
  /\ Arrays \subseteq Seq(RawData)
  /\ TableSize \in Nat \ {0}
  /\ CountMod \in Nat \ {0}
  /\ TypeMod \in Nat \ {0}

VARIABLES
  raw,           \* raw_array->raw
  withAffinity,  \* raw_array->with_affinity
  logicalCpu,    \* the loop index
  topologyOk,    \* is_topology_supported
  curPackage,    \* cur_package_id
  types,         \* system->cpu_types together with type_info.data
  cachesAll,     \* caches_all
  totals,        \* system->l*_total_instances
  phase,         \* "loop", "done", "failed", or "ub" (out of an array)
  request        \* the purpose and the answer of cpu_request_core_type

vars == <<raw, withAffinity, logicalCpu, topologyOk, curPackage, types,
          cachesAll, totals, phase, request>>

-----------------------------------------------------------------------------
(* cpu_ident_id: where a CPU sits in the system. *)

NoTopology == [ok |-> FALSE, apic |-> -1, package |-> -1, core |-> -1]

(* cpu_ident_id_x86.  The levels are nested: the last one spans a package, *)
(* level type 1 is SMT and precedes level type 2, the cores.               *)
TopologyX86(cpu) ==
  IF cpu.levels = <<>> THEN NoTopology
  ELSE LET last == cpu.levels[Len(cpu.levels)]
           smt  == IF cpu.levels[1].type = 1 THEN cpu.levels[1].span ELSE 1
       IN  [ok      |-> last.type > 0,
            apic    |-> cpu.apic,
            package |-> cpu.apic - (cpu.apic % last.span),
            core    |-> IF \E i \in DOMAIN cpu.levels : cpu.levels[i].type = 2
                        THEN (cpu.apic % last.span) - (cpu.apic % smt) ELSE -1]

(* cpu_ident_id_arm: affinity fields of the MPIDR, no APIC ID. *)
TopologyArm(cpu) ==
  IF cpu.mpidr = <<>> THEN NoTopology
  ELSE [ok |-> TRUE, apic |-> -1, package |-> cpu.mpidr[1], core |-> cpu.mpidr[2]]

Topology(cpu) == CASE cpu.arch = "x86" -> TopologyX86(cpu)
                   [] cpu.arch = "arm" -> TopologyArm(cpu)
                   [] OTHER            -> NoTopology

-----------------------------------------------------------------------------
(* The instance counters. *)

EmptyTable == [count |-> 0,
               slots |-> [s \in 0 .. TableSize - 1 |-> [n |-> 0, id |-> 0]]]

(* Mutant: every logical CPU counts as an instance. *)
TouchedEachTime(table, id) ==
  LET s == id % TableSize
      e == table.slots[s]
  IN  IF e.id \notin {0, id} THEN table
      ELSE [count |-> (table.count + 1) % CountMod,
            slots |-> [table.slots EXCEPT ![s] = [n |-> e.n + 1, id |-> id]]]

(* One logical CPU of the core or cache named id.  An entry is free, or is *)
(* taken for free, while its id is 0; a collision leaves the table alone.  *)
Touched(table, id) ==
  LET s == id % TableSize
      e == table.slots[s]
  IN  IF e.id \notin {0, id} THEN table
      ELSE [count |-> IF e.n = 0 THEN (table.count + 1) % CountMod
                                 ELSE table.count,
            slots |-> [table.slots EXCEPT ![s] = [n |-> e.n + 1, id |-> id]]]

CacheId(apic, n) == apic - (apic % n)

(* update_cache_instances: levels without a mask are skipped. *)
TouchedCaches(tables, apic, sharing) ==
  [l \in Levels |-> IF sharing[l] = 0 THEN tables[l]
                    ELSE Touched(tables[l], CacheId(apic, sharing[l]))]

NoCaches == [l \in Levels |-> EmptyTable]

-----------------------------------------------------------------------------
(* The CPU types found so far. *)

(* Mutants: only the newest type is considered; packages are not told      *)
(* apart; they are compared after the topology was lost, too.              *)
MatchesNewest(i, purpose, package, hasTopology) ==
  /\ i = Len(types) /\ types[i].purpose = purpose
  /\ hasTopology => types[i].package = package

MatchesPurpose(i, purpose, package, hasTopology) == types[i].purpose = purpose

MatchesStalePackage(i, purpose, package, hasTopology) ==
  types[i].purpose = purpose /\ types[i].package = package

(* The condition cpuid_find_index_system_id tests for type i. *)
Matches(i, purpose, package, hasTopology) ==
  /\ types[i].purpose = purpose
  /\ hasTopology => types[i].package = package

(* Mutant: the count that identification reported is kept. *)
FreshTypeKeepsCount(cpu, package, hasTopology) ==
  [purpose |-> cpu.purpose, package |-> IF hasTopology THEN package ELSE -2,
   mask |-> {}, num_logical_cpus |-> cpu.cores, num_cores |-> cpu.cores,
   sharing |-> cpu.sharing, cores |-> EmptyTable, caches |-> NoCaches,
   instances |-> [l \in Levels |-> -1]]

(* A type that cpu_ident_internal has just filled in.  Its package_id is   *)
(* written only when the topology is known; -2 stands for the              *)
(* uninitialised value.  num_logical_cpus is counted from 0 when the array *)
(* has affinity, else the reported number (abstracted to cores) stays.     *)
FreshType(cpu, package, hasTopology) ==
  [purpose |-> cpu.purpose, package |-> IF hasTopology THEN package ELSE -2,
   mask |-> {}, num_logical_cpus |-> IF withAffinity THEN 0 ELSE cpu.cores,
   num_cores |-> cpu.cores,
   sharing |-> cpu.sharing, cores |-> EmptyTable, caches |-> NoCaches,
   instances |-> [l \in Levels |-> -1]]

(* A type whose identification failed: as cpu_id_t_constructor left it. *)
UnidentifiedType ==
  [purpose |-> "general", package |-> -2, mask |-> {}, num_logical_cpus |-> 0,
   num_cores |-> 0, sharing |-> [l \in Levels |-> 0], cores |-> EmptyTable,
   caches |-> NoCaches, instances |-> [l \in Levels |-> -1]]

(* "Increment counters" for the CPU of this iteration. *)
Counted(type, topo, hasTopology) ==
  IF ~withAffinity THEN type
  ELSE LET counted == [type EXCEPT !.mask = @ \union {logicalCpu},
                                   !.num_logical_cpus = @ + 1]
       IN  IF ~hasTopology THEN counted
           ELSE [counted EXCEPT
                   !.cores  = Touched(@, topo.core),
                   !.caches = TouchedCaches(@, topo.apic, type.sharing)]

-----------------------------------------------------------------------------
Init ==
  /\ raw \in Arrays
  /\ withAffinity \in BOOLEAN
  /\ ~withAffinity => Len(raw) <= 1
  /\ logicalCpu = 0
  /\ topologyOk = TRUE
  /\ curPackage = 0
  /\ types = <<>>
  /\ cachesAll = NoCaches
  /\ totals = [l \in Levels |-> -1]
  /\ phase = "loop"
  /\ request = [purpose |-> "none", answer |-> "none"]

ThisCpu == raw[logicalCpu + 1]

(* is_topology_supported and cur_package_id once this CPU has been looked  *)
(* at: the topology is not consulted any more after the first CPU that     *)
(* has none.                                                               *)
TopologyAfter(topo) == IF withAffinity /\ topologyOk THEN topo.ok ELSE topologyOk
PackageAfter(topo)  == IF withAffinity /\ topologyOk /\ topo.ok THEN topo.package
                                                                ELSE curPackage

(* The counters of this CPU lie in their arrays. *)
IndexInTable(topo, hasTopology) == withAffinity /\ hasTopology => topo.core >= 0

(* One iteration for a CPU of a type that is known already. *)
IdentifyKnownType(topo, hasTopology, package) ==
  \E i \in DOMAIN types :
    /\ Matches(i, ThisCpu.purpose, package, hasTopology)
    /\ \A j \in 1 .. i - 1 : ~Matches(j, ThisCpu.purpose, package, hasTopology)
    /\ types' = [types EXCEPT ![i] = Counted(@, topo, hasTopology)]
    /\ cachesAll' = IF withAffinity /\ hasTopology
                    THEN TouchedCaches(cachesAll, topo.apic, types[i].sharing)
                    ELSE cachesAll
    /\ logicalCpu' = logicalCpu + 1
    /\ phase' = "loop"

IsNewType(hasTopology, package) ==
  \A i \in DOMAIN types : ~Matches(i, ThisCpu.purpose, package, hasTopology)

(* One iteration that grows system and type_info by a type. *)
IdentifyNewType(topo, hasTopology, package) ==
  LET fresh == FreshType(ThisCpu, package, hasTopology)
  IN  /\ IsNewType(hasTopology, package)
      /\ Len(types) + 1 < TypeMod
      /\ ThisCpu.known
      /\ types' = Append(types, Counted(fresh, topo, hasTopology))
      /\ cachesAll' = IF withAffinity /\ hasTopology
                      THEN TouchedCaches(cachesAll, topo.apic, fresh.sharing)
                      ELSE cachesAll
      /\ logicalCpu' = logicalCpu + 1
      /\ phase' = "loop"

(* cpu_ident_internal fails: its error is returned at once, with the new   *)
(* type in place and type_info not freed.                                  *)
IdentifyFails(hasTopology, package) ==
  /\ IsNewType(hasTopology, package)
  /\ Len(types) + 1 < TypeMod
  /\ ~ThisCpu.known
  /\ types' = Append(types, UnidentifiedType)
  /\ phase' = "failed"
  /\ UNCHANGED <<cachesAll, logicalCpu>>

(* A type too many (uint8_t n is 0: nothing grows), or a core index of -1. *)
LeavesArrays(topo, hasTopology, package) ==
  /\ \/ IsNewType(hasTopology, package) /\ Len(types) + 1 >= TypeMod
     \/ /\ IsNewType(hasTopology, package) => ThisCpu.known
        /\ ~IndexInTable(topo, hasTopology)
  /\ phase' = "ub"
  /\ UNCHANGED <<types, cachesAll, logicalCpu>>

(* The body of the loop of cpu_identify_all. *)
Identify ==
  /\ phase = "loop" /\ logicalCpu < Len(raw)
  /\ LET topo        == Topology(ThisCpu)
         hasTopology == TopologyAfter(topo)
         package     == PackageAfter(topo)
     IN  /\ topologyOk' = hasTopology
         /\ curPackage' = package
         /\ \/ IndexInTable(topo, hasTopology)
               /\ IdentifyKnownType(topo, hasTopology, package)
            \/ IndexInTable(topo, hasTopology)
               /\ IdentifyNewType(topo, hasTopology, package)
            \/ IdentifyFails(hasTopology, package)
            \/ LeavesArrays(topo, hasTopology, package)
  /\ UNCHANGED <<raw, withAffinity, totals, request>>

(* num_cores from the logical CPUs by way of smt_divisor. *)
CoresWithoutTopology(logical, cores) ==
  IF cores > 0 /\ logical % cores = 0 THEN logical \div (logical \div cores)
                                      ELSE logical

(* "Update counters for all CPU types". *)
Finished(type) ==
  CASE ~withAffinity -> type
    [] withAffinity /\ topologyOk ->
         [type EXCEPT !.num_cores = type.cores.count,
                      !.instances = [l \in Levels |-> type.caches[l].count]]
    [] withAffinity /\ ~topologyOk ->
         [type EXCEPT !.num_cores = CoresWithoutTopology(type.num_logical_cpus, @)]

(* The end of cpu_identify_all: the counters and the grand total of caches. *)
Finish ==
  /\ phase = "loop" /\ logicalCpu = Len(raw)
  /\ types' = [i \in DOMAIN types |-> Finished(types[i])]
  /\ totals' = IF topologyOk THEN [l \in Levels |-> cachesAll[l].count] ELSE totals
  /\ phase' = "done"
  /\ UNCHANGED <<raw, withAffinity, logicalCpu, topologyOk, curPackage,
                 cachesAll, request>>

(* cpu_request_core_type on the same array: the first CPU with the purpose *)
(* is identified; whether that succeeds is not looked at.                  *)
RequestCoreType(purpose) ==
  /\ phase \in {"done", "failed"} /\ request.answer = "none"
  /\ request' = [purpose |-> purpose, answer |->
       IF \E i \in DOMAIN raw : raw[i].purpose = purpose THEN "ERR_OK"
                                                         ELSE "ERR_NOT_FOUND"]
  /\ UNCHANGED <<raw, withAffinity, logicalCpu, topologyOk, curPackage, types,
                 cachesAll, totals, phase>>

Next == Identify \/ Finish \/ \E p \in Purposes : RequestCoreType(p)

Spec == Init /\ [][Next]_vars
-----------------------------------------------------------------------------
(* Properties. *)

Table == [count : 0 .. CountMod - 1,
          slots : [0 .. TableSize - 1 -> [n : Nat, id : Int]]]

CpuType == [purpose : Purposes, package : Int, mask : SUBSET Nat,
            num_logical_cpus : Nat, num_cores : Nat, sharing : [Levels -> Nat],
            cores : Table, caches : [Levels -> Table], instances : [Levels -> Int]]

TypeOK ==
  /\ raw \in Arrays
  /\ withAffinity \in BOOLEAN
  /\ logicalCpu \in 0 .. Len(raw)
  /\ topologyOk \in BOOLEAN
  /\ curPackage \in PackageId
  /\ types \in Seq(CpuType)
  /\ cachesAll \in [Levels -> Table]
  /\ totals \in [Levels -> Int]
  /\ phase \in {"loop", "done", "failed", "ub"}
  /\ request \in [purpose : Purposes \union {"none"},
                  answer : {"none", "ERR_OK", "ERR_NOT_FOUND"}]

(* The affinity masks of the CPU types partition the CPUs seen so far, and *)
(* num_logical_cpus is the number of CPUs in the mask: no CPU is lost,     *)
(* listed twice or carried over from what identification reported.         *)
Partition ==
  withAffinity =>
    /\ UNION {types[i].mask : i \in DOMAIN types} = 0 .. logicalCpu - 1
    /\ \A i, j \in DOMAIN types : i # j => types[i].mask \cap types[j].mask = {}
    /\ \A i \in DOMAIN types :
         types[i].num_logical_cpus = Cardinality(types[i].mask)

(* Every CPU of a type has the type's purpose and, when every CPU so far   *)
(* told its place in the system, the type's package.                       *)
Homogeneous ==
  \A i \in DOMAIN types : \A c \in types[i].mask :
    /\ raw[c + 1].purpose = types[i].purpose
    /\ topologyOk => Topology(raw[c + 1]).package = types[i].package

(* No two types for the same purpose and package, even when the topology   *)
(* is lost on the way and the grouping continues by purpose alone.         *)
TypesDistinct ==
  \A i, j \in DOMAIN types :
    i < j /\ types[j].mask # {} /\ types[i].purpose = types[j].purpose =>
      types[j].package # -2 /\ types[i].package # types[j].package

CoreIds(S) == {Topology(raw[c + 1]).core : c \in S}

(* With the topology at hand, num_cores is the number of cores the CPUs of *)
(* the type sit on (libcpuid.h: "Number of CPU cores").                    *)
CoreCount ==
  phase = "done" /\ withAffinity /\ topologyOk =>
    \A i \in DOMAIN types :
      types[i].num_cores = Cardinality(CoreIds(types[i].mask))

TypeOf(c) == CHOOSE i \in DOMAIN types : c \in types[i].mask

CacheIds(S, l) ==
  {CacheId(raw[c + 1].apic, types[TypeOf(c)].sharing[l]) :
     c \in {d \in S : types[TypeOf(d)].sharing[l] # 0}}

(* The same for caches, per type and in total: a cache two types share is  *)
(* counted for each of them and once in the total.                         *)
CacheCount ==
  phase = "done" /\ withAffinity /\ topologyOk => \A l \in Levels :
    /\ totals[l] = Cardinality(CacheIds(0 .. Len(raw) - 1, l))
    /\ \A i \in DOMAIN types :
         types[i].instances[l] = Cardinality(CacheIds(types[i].mask, l))

(* Without the topology the number of cores is derived from what was       *)
(* reported; it is still at least one and at most one per logical CPU.     *)
CoresPlausible ==
  phase = "done" /\ withAffinity =>
    \A i \in DOMAIN types :
      types[i].num_cores \in 1 .. types[i].num_logical_cpus

(* What cpu_identify_all counts for a type is what its CPUs have, with or  *)
(* without the topology, in any order of CPUs, for IDs that fit the table. *)
CountsAreOfTheType == CoreCount /\ CacheCount /\ CoresPlausible

(* A purpose can be requested exactly when cpu_identify_all lists it.      *)
RequestAgrees ==
  phase = "done" /\ request.answer # "none" =>
    (request.answer = "ERR_OK"
       <=> \E i \in DOMAIN types : types[i].purpose = request.purpose)

(* The kinds of CPUs that an array can be told to have. *)
Kinds == {<<raw[c].purpose, Topology(raw[c]).package>> : c \in DOMAIN raw}

(* CPUs whose leaf 0Bh lists levels list one of cores.                     *)
CoresListed ==
  withAffinity =>
    \A c \in DOMAIN raw : Topology(raw[c]).ok => Topology(raw[c]).core >= 0

(* No type is made twice for CPUs of one kind, whatever their order and    *)
(* wherever the topology is lost: an array with fewer kinds than           *)
(* num_cpu_types has values never makes the loop leave its arrays.         *)
StaysInArrays == CoresListed /\ Cardinality(Kinds) < TypeMod => phase # "ub"

-----------------------------------------------------------------------------
(* The inductive invariant behind Partition, Homogeneous, TypesDistinct    *)
(* and RequestAgrees.                                                      *)

(* Types that were filled in: a failed identification leaves one that was  *)
(* not, at the end.                                                        *)
Identified == IF phase = "failed" THEN 1 .. Len(types) - 1 ELSE DOMAIN types

LastIsEmpty == phase = "failed" => types # <<>> /\ types[Len(types)] = UnidentifiedType

KeysDistinct ==
  \A i, j \in Identified :
    i < j /\ types[i].purpose = types[j].purpose =>
      types[j].package # -2 /\ types[i].package # types[j].package

AllPackagesKnown == topologyOk => \A i \in Identified : types[i].package # -2

NoMasks == ~withAffinity => \A i \in DOMAIN types : types[i].mask = {}

(* CoresWithoutTopology never divides by zero.                             *)
Populated == withAffinity => \A i \in Identified : types[i].mask # {}

PurposesCovered ==
  phase # "failed" =>
    {types[i].purpose : i \in DOMAIN types} = {raw[c].purpose : c \in 1 .. logicalCpu}

AnswerRight ==
  /\ phase = "done" => logicalCpu = Len(raw)
  /\ request.answer # "none" =>
       /\ phase \in {"done", "failed"}
       /\ request.answer = "ERR_OK"
            <=> \E c \in DOMAIN raw : raw[c].purpose = request.purpose

(* The parts of the invariant that only look at the groups.                *)
Groups == /\ Partition /\ Homogeneous /\ LastIsEmpty /\ KeysDistinct
          /\ AllPackagesKnown /\ NoMasks /\ Populated /\ PurposesCovered

IInv == TypeOK /\ Groups /\ AnswerRight
=============================================================================
