------------------------------ MODULE IdentX86 ------------------------------
(***************************************************************************)
(* Identification of an x86 CPU: cpuid_basic_identify, the routines of     *)
(* Intel, AMD (with Hygon) and Centaur, and the decoders they share in     *)
(* libcpuid_util.c.  Loops over sub-leaves, match table entries and EPC    *)
(* sections take one step per iteration.  Of a raw record it looks at      *)
(*   vendor       what the vendor string of leaf 0 names                   *)
(*   family, xfamily, model, xmodel, stepping     the fields of leaf 1 EAX *)
(*   basic, ext   highest leaf and highest extended leaf minus 80000000h;  *)
(*                ext is -1 when that register is 0                        *)
(*   bits         the features whose bit is set in the leaf that shows it  *)
(*   threads      leaf 1 EBX[23:16];  cores4  leaf 4 EAX[31:26]            *)
(*   cores8, tpc  leaves 80000008h ECX[7:0] and 8000001Eh EBX[15:8]        *)
(*   fn4, fn1d    sub-leaves of 4 and 8000001Dh: [level, type, sharing,    *)
(*                size];  topoext  the bit that says 8000001Dh is there    *)
(*   desc         the one-byte descriptors of leaf 2                       *)
(*   amdCache     sizes in leaves 80000005h and 80000006h                  *)
(*   fn11         sub-leaves of leaf 0Bh: [shift, count, reserved, type],  *)
(*                where count is EBX[15:0] and reserved EBX[31:16]         *)
(*   hybrid, coreType          leaves 7 and 1Ah                            *)
(*   fn26         sub-leaves of 80000026h: [hetero, type, coreType]        *)
(*   sgx, epc     whether leaf 12h is enabled, and its EPC sections        *)
(*   brand        the brand string                                         *)
(***************************************************************************)
EXTENDS IdentState

CONSTANTS
  MatchTable,  \* cpudb_intel, cpudb_amd, cpudb_centaur, by routine
  EpcCached,   \* EPC sections a raw record holds (MAX_INTELFN12H_LEVEL - 2)
  EpcBound     \* the bound of the loop over EPC sections (1000000)

(* The routine that identifies a vendor's CPUs. *)
Routine(vendor) ==
  CASE vendor = "intel"            -> "intel"
    [] vendor \in {"amd", "hygon"} -> "amd"
    [] vendor = "centaur"          -> "centaur"
    [] OTHER                       -> "none"

MatchEntries ==
  [family : Int, model : Int, stepping : Int, extFamily : Int, extModel : Int,
   ncores : Int, l2cache : Int, l3cache : Int,
   brands : SUBSET STRING, score : Nat, name : STRING]
ASSUME TablesAssumption ==
  /\ DOMAIN MatchTable = {"intel", "amd", "centaur"}
  /\ \A v \in DOMAIN MatchTable : MatchTable[v] \in Seq(MatchEntries) /\ MatchTable[v] # <<>>
  /\ EpcCached \in Nat
  /\ EpcBound \in Nat

(* The number of CPUs that share a cache is a field of 12 bits, plus 1.    *)
CacheLeaf == [level : Nat, type : Nat, sharing : 1 .. 4096, size : Nat]
ASSUME RecordsAssumption ==
  \A r \in RawRecords :
    r.arch = "x86" => r.fn4 \in Seq(CacheLeaf) /\ r.fn1d \in Seq(CacheLeaf) /\ r.epc \in Nat

-----------------------------------------------------------------------------
(* Feature bits: the tables of load_features_common and load_intel_features*)
(* restricted to what later decoding looks at.                             *)

Edx1Features  == {"FPU", "CX8", "CMOV", "MMX", "FXSR", "SSE", "SSE2", "HT"}
Ecx1Features  == {"PNI", "SSSE3", "FMA3", "CX16", "SSE4_1", "SSE4_2", "MOVBE",
                  "POPCNT", "OSXSAVE", "AVX", "F16C"}
Ebx7Features  == {"BMI1", "AVX2", "BMI2", "AVX512F", "AVX512DQ", "AVX512CD",
                  "AVX512BW", "AVX512VL"}
Ext1Features  == {"LM", "LAHF_LM", "ABM"}

(* load_features_common: a table is used when the CPU lists its leaf. *)
CommonFeatures(r) ==
  r.bits \intersect
    ((IF r.basic >= 1 THEN Edx1Features \union Ecx1Features ELSE {})
       \union (IF r.basic >= 7 THEN Ebx7Features ELSE {})
       \union (IF r.ext >= 1 THEN Ext1Features ELSE {}))

(* load_intel_features *)
IntelFeatures(r) == IF r.basic >= 7 THEN r.bits \intersect {"SGX"} ELSE {}

-----------------------------------------------------------------------------
(* Caches. *)

\* Mutant: x is not decremented first.
CountOrderAbove(x) ==
  IF x = 0 THEN -1
  ELSE CHOOSE n \in 0 .. 31 : 2^n > x /\ (n = 0 \/ 2^(n - 1) <= x)

(* get_count_order: the smallest n with 2^n >= x. *)
CountOrder(x) ==
  IF x = 0 THEN -1
  ELSE CHOOSE n \in 0 .. 31 : 2^n >= x /\ (n = 0 \/ 2^(n - 1) < x)

(* The cache type of a level and type number; "" when it has none. *)
CacheKind(leaf) ==
  CASE leaf.level = 1 /\ leaf.type = 1 -> "L1D"
    [] leaf.level = 1 /\ leaf.type = 2 -> "L1I"
    [] leaf.level = 2 /\ leaf.type = 3 -> "L2"
    [] leaf.level = 3 /\ leaf.type = 3 -> "L3"
    [] leaf.level = 4 /\ leaf.type = 3 -> "L4"
    [] OTHER                           -> ""

(* Descriptors of leaf 2 in the order decode_intel_oldstyle_cache_info     *)
(* assigns them: one per cache type and line of the table that matters.    *)
Descriptors ==
  << [code |-> 6,   cache |-> "L1I", size |-> 8],
     [code |-> 10,  cache |-> "L1D", size |-> 8],
     [code |-> 44,  cache |-> "L1D", size |-> 32],
     [code |-> 48,  cache |-> "L1I", size |-> 32],
     [code |-> 65,  cache |-> "L2",  size |-> 128],
     [code |-> 70,  cache |-> "L3",  size |-> 4096],
     [code |-> 122, cache |-> "L2",  size |-> 256] >>

(* assign_cache_data for every descriptor that is set: the last one wins. *)
DescribedCache(desc, c) ==
  LET hits == {i \in DOMAIN Descriptors :
                 Descriptors[i].code \in desc /\ Descriptors[i].cache = c}
  IN  IF hits = {} THEN Undetermined
      ELSE Descriptors[CHOOSE i \in hits : \A j \in hits : j <= i].size

(* Descriptor 49h is the L3 cache of a Xeon MP and the L2 cache of others; *)
(* 40h says that there is no L2 cache, or no L3 cache if there is an L2.   *)
OldStyleCaches(r) ==
  LET listed == [c \in CacheTypes |-> DescribedCache(r.desc, c)]
      with49 == CASE 73 \notin r.desc -> listed
                  [] 73 \in r.desc /\ r.family = 15 /\ r.model = 6 ->
                       [listed EXCEPT !["L3"] = 4096]
                  [] OTHER -> [listed EXCEPT !["L2"] = 4096]
  IN  CASE 64 \notin r.desc -> with49
        [] 64 \in r.desc /\ with49["L2"] = Undetermined -> [with49 EXCEPT !["L2"] = 0]
        [] OTHER -> [with49 EXCEPT !["L3"] = 0]

(* decode_amd_cache_info *)
AmdCaches(r) ==
  [c \in CacheTypes |->
     CASE c \in {"L1I", "L1D"} /\ r.ext >= 5 -> r.amdCache[c]
       [] c = "L2" /\ r.ext >= 6 -> r.amdCache["L2"]
       [] c = "L3" /\ r.ext >= 6 /\ r.amdCache["L3"] > 0 -> 512 * r.amdCache["L3"]
       [] OTHER -> Undetermined]

(* Which sub-leaves are read one after the other, if any. *)
CacheLeaves(r) ==
  CASE r.vendor \in {"amd", "hygon"} -> r.fn1d
    [] OTHER                         -> r.fn4
ListsCaches(r) ==
  CASE r.vendor \in {"amd", "hygon"} -> r.topoext /\ r.fn1d # <<>> /\ r.fn1d[1].type # 0
    [] OTHER                         -> r.basic >= 4

(* The caches of a CPU that does not list them. *)
UnlistedCaches(r) ==
  CASE r.vendor \in {"amd", "hygon"}         -> AmdCaches(r)
    [] r.vendor = "intel" /\ r.basic >= 2    -> OldStyleCaches(r)
    [] OTHER -> [c \in CacheTypes |-> Undetermined]

-----------------------------------------------------------------------------
(* Cores and threads: [cores, logical, ht]. *)

(* decode_number_of_cores_x86 *)
CoresX86(r, ht) ==
  LET logical == IF r.basic >= 1 THEN r.threads ELSE -1
      cores   == IF r.basic >= 4 THEN 1 + r.cores4 ELSE -1
      atLeast1 == IF logical >= 1 THEN logical ELSE 1
  IN  CASE ht /\ cores > 1 -> [cores |-> cores, logical |-> logical, ht |-> TRUE]
        [] ht /\ ~(cores > 1) -> [cores |-> 1, logical |-> atLeast1, ht |-> atLeast1 # 1]
        [] OTHER -> [cores |-> atLeast1, logical |-> atLeast1, ht |-> FALSE]

(* decode_amd_number_of_cores.  It compares the extended register, which   *)
(* counts from 80000000h, with 8 and with 30.                              *)
CoresAmd(r, ht, extFamily) ==
  LET logical == IF r.basic >= 1 THEN r.threads ELSE -1
      cores   == IF r.basic >= 1 /\ r.ext >= 0 THEN 1 + r.cores8 ELSE -1
      real    == IF extFamily >= 23 /\ r.ext >= 0 THEN cores \div (r.tpc + 1) ELSE cores
  IN  CASE ht /\ cores > 1 -> [cores |-> real, logical |-> logical, ht |-> TRUE]
        [] ht /\ ~(cores > 1) ->
             [cores |-> 1, logical |-> IF logical >= 2 THEN logical ELSE 2, ht |-> TRUE]
        [] OTHER -> [cores |-> 1, logical |-> 1, ht |-> FALSE]

(* decode_intel_extended_topology: the sub-leaves before the first one     *)
(* with an EAX or an EBX of 0, where EBX counts with its reserved half; a  *)
(* later one of a type replaces an earlier.                                *)
TopologyLeaves(r) ==
  {i \in DOMAIN r.fn11 : \A j \in 1 .. i :
     r.fn11[j].shift # 0 /\ (r.fn11[j].count # 0 \/ r.fn11[j].reserved # 0)}
LeavesOfType(r, t) == {i \in TopologyLeaves(r) : r.fn11[i].type = t}
CountOfType(r, t) ==
  r.fn11[CHOOSE i \in LeavesOfType(r, t) : \A j \in LeavesOfType(r, t) : j <= i].count
ListsTopology(r) ==
  r.basic >= 11 /\ LeavesOfType(r, 1) # {} /\ LeavesOfType(r, 2) # {}
DividesByZero(r) == r.vendor = "intel" /\ ListsTopology(r) /\ CountOfType(r, 1) = 0
CoresByTopology(r, ht) ==
  LET cores == CountOfType(r, 2) \div CountOfType(r, 1)
  IN  [cores |-> IF cores <= 0 THEN 1 ELSE cores, logical |-> CountOfType(r, 2), ht |-> ht]

Cores(r, d) ==
  LET ht == "HT" \in d.flags
  IN  CASE r.vendor \in {"amd", "hygon"}            -> CoresAmd(r, ht, d.extFamily)
        [] r.vendor = "intel" /\ ListsTopology(r) -> CoresByTopology(r, ht)
        [] OTHER                                  -> CoresX86(r, ht)

-----------------------------------------------------------------------------
(* Feature level: decode_architecture_version_x86. *)

Level64 == <<"x86-64-v1", "x86-64-v2", "x86-64-v3", "x86-64-v4">>
LevelFeatures ==
  << <<"CMOV", "CX8", "FPU", "FXSR", "MMX", "SSE", "SSE2">>,
     <<"CX16", "LAHF_LM", "POPCNT", "PNI", "SSE4_1", "SSE4_2", "SSSE3">>,
     <<"AVX", "AVX2", "BMI1", "BMI2", "F16C", "FMA3", "ABM", "MOVBE", "OSXSAVE">>,
     <<"AVX512F", "AVX512BW", "AVX512CD", "AVX512DQ", "AVX512VL">> >>

(* is_compliant is assigned by every feature of the list, the last one     *)
(* decides; has_all_features is computed and not used.                     *)
IsCompliant(list, flags) == list[Len(list)] \in flags

FeatureLevelX86(d) ==
  LET passed == {n \in DOMAIN Level64 : \A i \in 1 .. n : IsCompliant(LevelFeatures[i], d.flags)}
  IN  CASE "LM" \in d.flags /\ passed # {} -> Level64[CHOOSE n \in passed : \A i \in passed : i <= n]
        [] "LM" \notin d.flags /\ d.family = 3 -> "i386"
        [] "LM" \notin d.flags /\ d.family = 4 -> "i486"
        [] "LM" \notin d.flags /\ d.family = 5 -> "i586"
        [] "LM" \notin d.flags /\ d.family \in {6, 15} -> "i686"
        [] OTHER -> "unknown"

-----------------------------------------------------------------------------
(* Purpose. *)

(* cpuid_identify_purpose_intel: an Atom core without a fourth sub-leaf of *)
(* leaf 4 has no L3 cache.                                                 *)
PurposeIntel(r) ==
  CASE r.hybrid /\ r.coreType = "atom" ->
         IF Len(r.fn4) >= 4 /\ r.fn4[4].level # 0 THEN "efficiency" ELSE "lp-efficiency"
    [] r.hybrid /\ r.coreType = "core" -> "performance"
    [] OTHER -> "general"

(* cpuid_identify_purpose_amd: the first level of type "core" that is      *)
(* heterogeneous.                                                          *)
HeteroLevels(r) == {i \in DOMAIN r.fn26 : r.fn26[i].hetero /\ r.fn26[i].type = 1}
PurposeAmd(r) ==
  IF HeteroLevels(r) = {} THEN "general"
  ELSE LET first == CHOOSE i \in HeteroLevels(r) : \A j \in HeteroLevels(r) : i <= j
       IN  CASE r.fn26[first].coreType = 0 -> "performance"
             [] r.fn26[first].coreType = 1 -> "efficiency"
             [] OTHER                      -> "general"

Purpose(r) ==
  CASE r.vendor = "intel"             -> PurposeIntel(r)
    [] r.vendor \in {"amd", "hygon"}  -> PurposeAmd(r)
    [] OTHER                          -> "general"

-----------------------------------------------------------------------------
(* score: what an entry of a match table gets for a CPU. *)

Points(wanted, found, points) == IF wanted >= 0 /\ wanted = found THEN points ELSE 0

Score(entry, d, brand) ==
  Points(entry.family, d.family, 2) + Points(entry.model, d.model, 2)
    + Points(entry.stepping, d.stepping, 2) + Points(entry.extFamily, d.extFamily, 2)
    + Points(entry.extModel, d.extModel, 2) + Points(entry.ncores, d.cores, 2)
    + Points(entry.l2cache, d.cache["L2"], 1) + Points(entry.l3cache, d.cache["L3"], 1)
    + (IF brand \in entry.brands THEN entry.score ELSE 0)

Table == MatchTable[Routine(data.vendor)]

-----------------------------------------------------------------------------
(* The steps. *)

(* cpuid_basic_identify does not know the vendor. *)
UnknownVendor ==
  /\ pc = "basic"
  /\ raw.vendor = "unknown"
  /\ Return("ERR_CPU_UNKN")
  /\ UNCHANGED <<raw, host, data, internal, k, best, ext>>

(* The family, model and stepping of a leaf 1 that is not there stay 0; an *)
(* AMD CPU before family 0Fh has no extended family.                       *)
Signature(r) ==
  IF r.basic < 1
  THEN [family |-> 0, model |-> 0, stepping |-> 0, extFamily |-> 0, extModel |-> 0]
  ELSE [family |-> r.family, model |-> r.model, stepping |-> r.stepping,
        extFamily |-> IF r.vendor = "amd" /\ r.family < 15 THEN r.family
                      ELSE r.family + r.xfamily,
        extModel |-> r.model + 16 * r.xmodel]

(* cpuid_basic_identify; get_total_cpus asks the machine it runs on.       *)
BasicIdentify ==
  /\ pc = "basic"
  /\ raw.vendor # "unknown"
  /\ data' = [data EXCEPT
       !.vendor    = raw.vendor,
       !.family    = Signature(raw).family,    !.model    = Signature(raw).model,
       !.stepping  = Signature(raw).stepping,
       !.extFamily = Signature(raw).extFamily, !.extModel = Signature(raw).extModel,
       !.flags     = CommonFeatures(raw),
       !.total     = host.cpus]
  /\ pc' = "vendor"
  /\ UNCHANGED <<raw, host, internal, k, best, ext, ret>>

(* The vendor is known but has no routine. *)
NoRoutine ==
  /\ pc = "vendor"
  /\ Routine(data.vendor) = "none"
  /\ Return("ERR_OK")
  /\ UNCHANGED <<raw, host, data, internal, k, best, ext>>

(* The vendor's own feature bits, and the caches of a CPU without a list.  *)
VendorIdentify ==
  /\ pc = "vendor"
  /\ Routine(data.vendor) # "none"
  /\ data' = [data EXCEPT
       !.flags = IF data.vendor = "intel" THEN @ \union IntelFeatures(raw) ELSE @,
       !.cache = IF ListsCaches(raw) THEN @ ELSE UnlistedCaches(raw)]
  /\ pc' = IF ListsCaches(raw) THEN "caches" ELSE "cores"
  /\ k' = 1
  /\ UNCHANGED <<raw, host, internal, best, ext, ret>>

EndOfCaches(leaves) ==
  k <= Len(leaves) => (leaves[k].level = 0 \/ leaves[k].type = 0)

(* The mask is stored at the index of the sub-leaf, whatever its cache.    *)
MaskIndex == k - 1

(* One iteration of decode_deterministic_cache_info_x86. *)
DecodeCache ==
  /\ pc = "caches"
  /\ ~EndOfCaches(CacheLeaves(raw))
  /\ LET leaf == CacheLeaves(raw)[k]
         kind == CacheKind(leaf)
     IN  /\ k' = k + 1
         /\ IF kind = "" THEN UNCHANGED <<data, internal>>
            ELSE /\ data' = [data EXCEPT !.cache[kind] = leaf.size]
                 /\ internal' =
                      IF MaskIndex \in DOMAIN internal.mask
                      THEN [internal EXCEPT !.mask[MaskIndex] = CountOrder(leaf.sharing)]
                      ELSE [internal EXCEPT !.overrun = TRUE]
  /\ UNCHANGED <<pc, raw, host, best, ext, ret>>

CachesDone ==
  /\ pc = "caches"
  /\ EndOfCaches(CacheLeaves(raw))
  /\ pc' = "cores"
  /\ UNCHANGED <<raw, host, data, internal, k, best, ext, ret>>

DecodeCores ==
  /\ pc = "cores"
  /\ ~DividesByZero(raw)
  /\ LET c == Cores(raw, data)
     IN  data' = [data EXCEPT !.cores = c.cores, !.logical = c.logical,
                              !.flags = IF c.ht THEN @ ELSE @ \ {"HT"}]
  /\ pc' = "level"
  /\ UNCHANGED <<raw, host, internal, k, best, ext, ret>>

(* A sub-leaf that counts no threads, but is not the end of the list: on   *)
(* x86 the division by the threads of a core ends the program.             *)
DivideByZero ==
  /\ pc = "cores"
  /\ DividesByZero(raw)
  /\ Return("SIGFPE")
  /\ UNCHANGED <<raw, host, data, internal, k, best, ext>>

(* cpuid_identify_centaur does not ask for a purpose. *)
DecodeLevel ==
  /\ pc = "level"
  /\ data' = [data EXCEPT !.level = FeatureLevelX86(data),
                          !.purpose = IF data.vendor = "centaur" THEN @ ELSE Purpose(raw)]
  /\ pc' = "match"
  /\ k' = 1
  /\ best' = NoBest
  /\ UNCHANGED <<raw, host, internal, ext, ret>>

\* Mutant: the last of the best entries.
NotWorse(s) == s >= best.score

(* One iteration of match_cpu_codename. *)
Better(s) == s > best.score

MatchEntry ==
  /\ pc = "match"
  /\ k <= Len(Table)
  /\ LET s == Score(Table[k], data, raw.brand)
     IN  best' = IF Better(s) THEN [score |-> s, index |-> k] ELSE best
  /\ k' = k + 1
  /\ UNCHANGED <<pc, raw, host, data, internal, ext, ret>>

(* The best entry names the CPU; an Intel CPU with SGX goes on to leaf 12h *)
Matched ==
  /\ pc = "match"
  /\ k > Len(Table)
  /\ data' = [data EXCEPT !.codename = Table[best.index].name]
  /\ IF data.vendor = "intel" /\ "SGX" \in data.flags /\ raw.basic >= 18 /\ raw.sgx
     THEN pc' = "sgx" /\ k' = 0 /\ UNCHANGED ret
     ELSE Return("ERR_OK") /\ UNCHANGED k
  /\ UNCHANGED <<raw, host, internal, best, ext>>

\* Mutant: every section is asked of the CPU.
SectionExistsHere(i) == i < host.epc

(* cpuid_get_epc: sections the record holds come from it, later ones from  *)
(* the CPU that runs the program.                                          *)
SectionExists(i) == i < (IF i < EpcCached THEN raw.epc ELSE host.epc)

CountSection ==
  /\ pc = "sgx"
  /\ k < EpcBound
  /\ SectionExists(k)
  /\ k' = k + 1
  /\ UNCHANGED <<pc, raw, host, data, internal, best, ext, ret>>

SectionsDone ==
  /\ pc = "sgx"
  /\ k >= EpcBound \/ ~SectionExists(k)
  /\ data' = [data EXCEPT !.epc = k]
  /\ Return("ERR_OK")
  /\ UNCHANGED <<raw, host, internal, k, best, ext>>

NextX86 ==
  \/ UnknownVendor \/ BasicIdentify \/ NoRoutine \/ VendorIdentify
  \/ DecodeCache \/ CachesDone \/ DecodeCores \/ DivideByZero \/ DecodeLevel
  \/ MatchEntry \/ Matched \/ CountSection \/ SectionsDone
=============================================================================
