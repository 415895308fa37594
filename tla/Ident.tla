-------------------------------- MODULE Ident -------------------------------
(***************************************************************************)
(* cpu_ident_internal and cpu_ident_purpose (libcpuid/cpuid_main.c): one   *)
(* call after the other identifies a raw record into the same memory.  The *)
(* record may be of another machine than the one the program runs on.      *)
(***************************************************************************)
EXTENDS IdentX86, IdentArm

VARIABLE last  \* <<data>> when the call before identified the same record

vars == <<pc, raw, host, data, internal, k, best, ext, ret, last>>

Init ==
  /\ pc = "returned"
  /\ raw \in RawRecords
  /\ host \in Hosts
  /\ data = CpuIdConstructor
  /\ internal = [mask |-> NoMasks, overrun |-> FALSE]
  /\ k = 1
  /\ best = NoBest
  /\ ext = NoCounts
  /\ ret = "ERR_NOT_CALLED"
  /\ last = <<>>

(* cpu_ident_internal up to the switch over the architecture. *)
\* Mutant: the memory of the caller is not constructed.
ConstructedBefore(arch) == [data EXCEPT !.arch = arch]
Constructed(arch) == [CpuIdConstructor EXCEPT !.arch = arch]

Call(r, h) ==
  /\ pc = "returned"
  /\ last' = IF r = raw /\ ret = "ERR_OK" THEN <<data>> ELSE <<>>
  /\ raw' = r
  /\ host' = h
  /\ data' = Constructed(r.arch)
  /\ internal' = [mask |-> NoMasks, overrun |-> FALSE]
  /\ CASE r.arch = "x86" -> pc' = "basic" /\ UNCHANGED ret
       [] r.arch = "arm" -> pc' = "arm" /\ UNCHANGED ret
       [] OTHER          -> Return("ERR_CPU_UNKN")
  /\ k' = 1
  /\ best' = NoBest
  /\ ext' = NoCounts

Run == (NextX86 \/ NextArm) /\ UNCHANGED last

Next == Run \/ \E r \in RawRecords, h \in Hosts : Call(r, h)

Spec == Init /\ [][Next]_vars

\* Mutant: AMD is forgotten as well as Hygon.
IntelAndArmPurpose(r) ==
  CASE r.arch = "x86" /\ r.vendor = "intel" -> Purpose(r)
    [] r.arch = "arm"                       -> r.purpose
    [] OTHER                                -> "general"

(* cpu_ident_purpose, by which cpu_identify_all sorts the CPUs.  It has no *)
(* case for Hygon.                                                         *)
CpuIdentPurpose(r) ==
  CASE r.arch = "x86" /\ r.vendor \in {"intel", "amd"} -> Purpose(r)
    [] r.arch = "arm"                                  -> r.purpose
    [] OTHER                                           -> "general"

-----------------------------------------------------------------------------
(* Properties. *)

Done == pc = "returned" /\ ret = "ERR_OK"
DoneX86 == Done /\ data.arch = "x86" /\ Routine(data.vendor) # "none"
DoneArm == Done /\ data.arch = "arm"

(* What cpu_ident_internal leaves in data is of this record: nothing of an *)
(* earlier call, and nothing at all when the CPU is not known.             *)
NothingLeftOver ==
  pc = "returned" =>
    /\ ret = "ERR_CPU_UNKN" => data = [CpuIdConstructor EXCEPT !.arch = raw.arch] /\ internal.mask = NoMasks
    /\ DoneX86 => data.flags \subseteq raw.bits
    /\ \A i \in 0 .. 4 : internal.mask[i] # NoMask =>
         /\ ListsCaches(raw)
         /\ i + 1 \in DOMAIN CacheLeaves(raw) /\ CacheKind(CacheLeaves(raw)[i + 1]) # ""

(* Identifying a record is a matter of the record: on whichever machine    *)
(* and after whatever it is done again, cpu_ident_internal answers the     *)
(* same, but for the number of CPUs and for EPC sections beyond those the  *)
(* record holds, which both come from the machine the program runs on.     *)
EpcFromHost == "SGX" \in data.flags /\ raw.epc >= EpcCached
SameRecordSameId ==
  Done /\ last # <<>> =>
    \A f \in DOMAIN data : data[f] # last[1][f] => f = "total" \/ (f = "epc" /\ EpcFromHost)

(* match_cpu_codename names the CPU after the first of the entries that    *)
(* score best for what is finally reported of it.                          *)
IsFirstBest(i) ==
  /\ i \in DOMAIN Table
  /\ \A j \in DOMAIN Table : Score(Table[j], data, raw.brand) <= Score(Table[i], data, raw.brand)
  /\ \A j \in 1 .. i - 1 : Score(Table[j], data, raw.brand) < Score(Table[i], data, raw.brand)
CodenameIsFirstBest ==
  DoneX86 => \E i \in DOMAIN Table : IsFirstBest(i) /\ data.codename = Table[i].name

(* A cache_mask rounds the CPUs that share a cache up to a power of two.   *)
(* The masks are indexed by cache type where they are used, and by         *)
(* sub-leaf where decode_deterministic_cache_info_x86 fills them.  The two *)
(* agree when the first-level caches are shared alike and the sub-leaves   *)
(* come in the usual order with none that is not understood; then nothing  *)
(* is written past cache_mask either.                                      *)
UsualOrder(leaves) ==
  LET kinds == <<"L1D", "L1I", "L2", "L3", "L4">>
  IN  /\ Len(leaves) <= 5
      /\ \A i \in DOMAIN leaves : CacheKind(leaves[i]) = kinds[i]
      /\ Len(leaves) >= 2 /\ leaves[1].sharing = leaves[2].sharing
MaskIsOfItsCache ==
  DoneX86 /\ ListsCaches(raw) /\ UsualOrder(CacheLeaves(raw)) =>
    /\ ~internal.overrun
    /\ \A i \in DOMAIN CacheLeaves(raw) :
         LET leaf == CacheLeaves(raw)[i]
             m    == internal.mask[CacheIndex[CacheKind(leaf)]]
         IN  m >= 0 /\ 2^m >= leaf.sharing /\ (m = 0 \/ 2^(m - 1) < leaf.sharing)

(* cpu_identify_all sorts CPUs by cpu_ident_purpose and reports for each   *)
(* type what cpu_ident_internal decoded: for all but Hygon both answer the *)
(* same.                                                                   *)
PurposeAgrees ==
  Done /\ data.vendor # "hygon" => data.purpose = CpuIdentPurpose(raw)

(* The ARM version that is reported has all the mandatory features of its  *)
(* own version and of the ones before it in the list.                      *)
ReportedUpTo(n) ==
  /\ DoneArm /\ raw.midr = "by-cpuid"
  /\ n \in DOMAIN VersionList(ext)
  /\ \E m \in DOMAIN VersionList(ext) : n <= m /\ data.level = VersionList(ext)[m]
ArmLevelIsCompliant ==
  \A n \in DOMAIN VersionList(ext) : ReportedUpTo(n) =>
    \A j \in DOMAIN FeatureMap :
      FeatureMap[j].mandatory = VersionList(ext)[n] => FeatureMap[j].feature \in data.flags

(* Two features whose fields all want different values of one and the same *)
(* field are never both found: a version from which both would be          *)
(* mandatory is never reported, whatever the CPU.  A feature that has no   *)
(* field in the execution state conflicts with every other.                *)
MandatoryFrom(v) == {j \in DOMAIN FeatureMap : FeatureMap[j].mandatory = v}
Conflict(i, j) ==
  \A a \in Tried(raw, FeatureMap[i]), b \in Tried(raw, FeatureMap[j]) :
    LET f == FeatureMap[i].fields[a]
        g == FeatureMap[j].fields[b]
    IN  RegisterOf(raw, f) = RegisterOf(raw, g) /\ f.value # g.value
ConflictCapsVersion ==
  raw.arch = "arm" =>
    \A m, n \in DOMAIN VersionList(ext) : ReportedUpTo(m) /\ ReportedUpTo(n) =>
      ~\E i \in MandatoryFrom(VersionList(ext)[m]), j \in MandatoryFrom(VersionList(ext)[n]) :
         Conflict(i, j)

-----------------------------------------------------------------------------
(* The inductive invariant. *)

X86Steps == {"basic", "vendor", "caches", "cores", "level", "match", "sgx"}
ArmSteps == {"arm", "features", "version", "versions"}

(* A call takes the steps of the architecture it found. *)
StepsOfArch ==
  /\ pc \in X86Steps \union ArmSteps \union {"returned"}
  /\ DOMAIN data = DOMAIN CpuIdConstructor
  /\ pc \in X86Steps => data.arch = "x86"
  /\ pc \in X86Steps \ {"basic", "vendor"} => Routine(data.vendor) # "none"
  /\ pc \in ArmSteps => data.arch = "arm"

(* best is the first of the best among the entries before k. *)
BestSoFar ==
  /\ k \in 1 .. Len(Table) + 1
  /\ IF k = 1 THEN best = NoBest
     ELSE /\ best.index \in 1 .. k - 1
          /\ best.score = Score(Table[best.index], data, raw.brand)
          /\ \A j \in 1 .. k - 1 : Score(Table[j], data, raw.brand) <= best.score
          /\ \A j \in 1 .. best.index - 1 : Score(Table[j], data, raw.brand) < best.score
Named == \E i \in DOMAIN Table : IsFirstBest(i) /\ data.codename = Table[i].name
Matching ==
  /\ pc = "match" => BestSoFar
  /\ pc = "sgx" \/ DoneX86 => Named

(* Once a mandatory feature is missing the counts of its version differ    *)
(* for good: they agree only if every such feature so far is present.      *)
Present(v) == ext.present.mandatory[v]
Total(v) == ext.total.mandatory[v]
Accounted(n) ==
  /\ ext.present.mandatory \in [Versions -> Nat]
  /\ ext.total.mandatory \in [Versions -> Nat]
  /\ \A v \in Versions :
       /\ Present(v) <= Total(v)
       /\ Present(v) = Total(v) =>
            \A j \in 1 .. n : FeatureMap[j].mandatory = v => IsPresent(raw, FeatureMap[j])
Flagged(n) ==
  \A j \in 1 .. n : IsPresent(raw, FeatureMap[j]) => FeatureMap[j].feature \in data.flags

NoneMissingUpTo(n) == \A i \in 1 .. n : ~Missing(ext, VersionList(ext)[i])

(* A version of ARMv8 is named by the list, never by a single field. *)
Listed ==
  data.level \in {V8A[i] : i \in DOMAIN V8A} =>
    \E m \in DOMAIN VersionList(ext) : data.level = VersionList(ext)[m]

Counting ==
  /\ pc = "features" => k \in 1 .. Len(FeatureMap) + 1 /\ Accounted(k - 1) /\ Flagged(k - 1)
  /\ pc \in {"version", "versions"} \/ (DoneArm /\ raw.midr = "by-cpuid") =>
       Accounted(Len(FeatureMap)) /\ Flagged(Len(FeatureMap))
  /\ pc = "versions" =>
       /\ k \in 1 .. Len(VersionList(ext)) + 1
       /\ NoneMissingUpTo(k - 1)
       /\ data.level = IF k = 1 THEN "unknown" ELSE VersionList(ext)[k - 1]
  /\ DoneArm /\ raw.midr = "by-cpuid" =>
       /\ Listed
       /\ \A m \in DOMAIN VersionList(ext) : data.level = VersionList(ext)[m] => NoneMissingUpTo(m)

IInv == StepsOfArch /\ Matching /\ Counting

-----------------------------------------------------------------------------
(* Refuted properties. *)

(* A microarchitecture level is only reported for a CPU that has all the   *)
(* features of its own list and of the lists before it.                    *)
LevelIsEarned ==
  DoneX86 => \A n \in DOMAIN Level64 : data.level = Level64[n] =>
    \A i \in 1 .. n : \A f \in DOMAIN LevelFeatures[i] : LevelFeatures[i][f] \in data.flags

(* "An implementation is Armv9.0 compliant if all of the following apply:   *)
(* It is Armv8.5 compliant ..." (recog_arm.c, line 534): a CPU reported as *)
(* ARMv9 has the mandatory features of ARMv8 up to v8.5.                   *)
Armv9IncludesV85 ==
  DoneArm /\ raw.midr = "by-cpuid" /\ data.level \in {V9A[i] : i \in DOMAIN V9A} =>
    \A n \in 1 .. 6 : \A j \in MandatoryFrom(V8A[n]) : FeatureMap[j].feature \in data.flags
=============================================================================
