--------------------------- MODULE IdentAnswerProofs --------------------------
(***************************************************************************)
(* What cpu_ident_internal answers, as a function of the raw record it is  *)
(* given, and the proof that every call gives that answer, whatever call   *)
(* came before it and whatever machine it runs on.                         *)
(***************************************************************************)
EXTENDS IdentProofs, FiniteSetTheorems

-----------------------------------------------------------------------------
(* The answer for an x86 CPU, stage by stage. *)

Blank == [mask |-> NoMasks, overrun |-> FALSE]

Basic(r, h) ==
  [Constructed(r.arch) EXCEPT
     !.vendor    = r.vendor,
     !.family    = Signature(r).family,    !.model    = Signature(r).model,
     !.stepping  = Signature(r).stepping,
     !.extFamily = Signature(r).extFamily, !.extModel = Signature(r).extModel,
     !.flags     = CommonFeatures(r),
     !.total     = h.cpus]

Vendored(d, r) ==
  [d EXCEPT
     !.flags = IF d.vendor = "intel" THEN @ \union IntelFeatures(r) ELSE @,
     !.cache = IF ListsCaches(r) THEN @ ELSE UnlistedCaches(r)]

(* The first n sub-leaves describe caches; of each kind the last one counts*)
EndAt(r, n) ==
  n <= Len(CacheLeaves(r)) => (CacheLeaves(r)[n].level = 0 \/ CacheLeaves(r)[n].type = 0)
Described(r, n)     == \A i \in 1 .. n : ~EndAt(r, i)
KindAmong(r, n, c)  == {i \in 1 .. n : CacheKind(CacheLeaves(r)[i]) = c}
LastOf(S)           == CHOOSE i \in S : \A j \in S : j <= i
CachesUpTo(r, n) ==
  [c \in CacheTypes |-> IF KindAmong(r, n, c) = {} THEN Undetermined
                        ELSE CacheLeaves(r)[LastOf(KindAmong(r, n, c))].size]
InternalUpTo(r, n) ==
  [mask    |-> [i \in 0 .. 4 |->
                  IF i + 1 <= n /\ CacheKind(CacheLeaves(r)[i + 1]) # ""
                  THEN CountOrder(CacheLeaves(r)[i + 1].sharing) ELSE NoMask],
   overrun |-> \E i \in 6 .. n : CacheKind(CacheLeaves(r)[i]) # ""]
NumCaches(r) == CHOOSE n \in 0 .. Len(CacheLeaves(r)) : Described(r, n) /\ EndAt(r, n + 1)

Cached(d, r) ==
  IF ListsCaches(r) THEN [d EXCEPT !.cache = CachesUpTo(r, NumCaches(r))] ELSE d
InternalOf(r) == IF ListsCaches(r) THEN InternalUpTo(r, NumCaches(r)) ELSE Blank

Cored(d, r) ==
  [d EXCEPT !.cores = Cores(r, d).cores, !.logical = Cores(r, d).logical,
            !.flags = IF Cores(r, d).ht THEN @ ELSE @ \ {"HT"}]
Leveled(d, r) ==
  [d EXCEPT !.level = FeatureLevelX86(d),
            !.purpose = IF d.vendor = "centaur" THEN @ ELSE Purpose(r)]

CachedOf(r, h) == Cached(Vendored(Basic(r, h), r), r)
CoredOf(r, h)  == Cored(CachedOf(r, h), r)
Decoded(r, h)  == Leveled(CoredOf(r, h), r)

TableOf(d) == MatchTable[Routine(d.vendor)]
FirstBestOf(d, r, i) ==
  /\ i \in DOMAIN TableOf(d)
  /\ \A j \in DOMAIN TableOf(d) : Score(TableOf(d)[j], d, r.brand) <= Score(TableOf(d)[i], d, r.brand)
  /\ \A j \in 1 .. i - 1 : Score(TableOf(d)[j], d, r.brand) < Score(TableOf(d)[i], d, r.brand)
WithName(d, r) ==
  [d EXCEPT !.codename = TableOf(d)[CHOOSE i \in DOMAIN TableOf(d) : FirstBestOf(d, r, i)].name]
NamedOf(r, h) == WithName(Decoded(r, h), r)

(* EPC sections are counted for an Intel CPU with SGX.                     *)
Asks(d, r) == d.vendor = "intel" /\ "SGX" \in d.flags /\ r.basic >= 18 /\ r.sgx
Section(r, h, i) == i < (IF i < EpcCached THEN r.epc ELSE h.epc)
Sections(r, h, n) ==
  /\ \A i \in 0 .. EpcBound : i < n => Section(r, h, i)
  /\ n >= EpcBound \/ ~Section(r, h, n)

X86Answer(d, r, h) ==
  IF Asks(NamedOf(r, h), r)
  THEN \E n \in 0 .. EpcBound : Sections(r, h, n) /\ d = [NamedOf(r, h) EXCEPT !.epc = n]
  ELSE d = NamedOf(r, h)

-----------------------------------------------------------------------------
(* The answer for an ARM CPU. *)

ArmBasic(r) ==
  [Constructed(r.arch) EXCEPT
     !.vendor  = r.vendor, !.purpose = r.purpose, !.codename = r.codename,
     !.level   = IF r.midr = "by-cpuid" THEN @ ELSE r.midr,
     !.flags   = (IF r.midr \in ThumbVersions THEN {"THUMB"} ELSE {})
                   \union (IF r.midr = "v5TEJ" THEN {"JAZELLE"} ELSE {})]

PresentUpTo(r, n) == {j \in 1 .. n : IsPresent(r, FeatureMap[j])}
ArmFlags(r, n) ==
  ArmBasic(r).flags \union {FeatureMap[j].feature : j \in PresentUpTo(r, n)}

OptionalFrom(S, v)  == {j \in S : FeatureMap[j].optional = v}
RequiredFrom(S, v)  == {j \in S : FeatureMap[j].mandatory = v}
Optional(S)         == {j \in S : FeatureMap[j].optional # NoVersion}
CountsUpTo(r, n) ==
  [total   |-> [optional  |-> [v \in Versions |-> Cardinality(OptionalFrom(1 .. n, v))],
                mandatory |-> [v \in Versions |-> Cardinality(RequiredFrom(1 .. n, v))]],
   present |-> [optional  |-> [v \in Versions |-> Cardinality(OptionalFrom(PresentUpTo(r, n), v))],
                mandatory |-> [v \in Versions |->
                                 Cardinality(RequiredFrom(Optional(PresentUpTo(r, n)), v))]]]

AllFlags(r) == ArmFlags(r, Len(FeatureMap))
ArmAll(r)   == [ArmBasic(r) EXCEPT !.flags = SpecialFlags(r, AllFlags(r))]
ArmCounts(r) ==
  WithMte(WithMpam(WithPauth(CountsUpTo(r, Len(FeatureMap)), AllFlags(r)), r), r,
          AllFlags(r) \union MteFlags(r))

(* The versions are complete up to the first that misses a feature.        *)
StopsAt(e, n)  == n <= Len(VersionList(e)) => Missing(e, VersionList(e)[n])
Complete(e, n) == \A i \in 1 .. n : ~StopsAt(e, i)
Reached(e)     == CHOOSE n \in 0 .. Len(VersionList(e)) : Complete(e, n) /\ StopsAt(e, n + 1)
ReachedLevel(e, n) == IF n = 0 THEN "unknown" ELSE VersionList(e)[n]
LevelOf(r) ==
  IF ProfileVersion(r) # "unknown" THEN ProfileVersion(r)
  ELSE ReachedLevel(ArmCounts(r), Reached(ArmCounts(r)))

ArmAnswer(r) ==
  IF r.midr = "by-cpuid" THEN [ArmAll(r) EXCEPT !.level = LevelOf(r)] ELSE ArmAll(r)

(* d is what cpu_ident_internal answers for r on h.                        *)
Answer(d, r, h) ==
  \/ r.arch = "x86" /\ Routine(r.vendor) = "none" /\ d = Basic(r, h)
  \/ r.arch = "x86" /\ Routine(r.vendor) # "none" /\ X86Answer(d, r, h)
  \/ r.arch = "arm" /\ d = ArmAnswer(r)

-----------------------------------------------------------------------------
(* The inductive invariant: how much of the answer there is. *)

Settled(r) ==
  ListsCaches(r) =>
    /\ NumCaches(r) \in 0 .. Len(CacheLeaves(r)) /\ Described(r, NumCaches(r)) /\ EndAt(r, NumCaches(r) + 1)

X86Inv ==
  /\ raw \in RawRecords /\ host \in Hosts
  /\ pc \in X86Steps => raw.arch = "x86"
  /\ pc = "basic" => data = Constructed(raw.arch)
  /\ pc = "vendor" => data = Basic(raw, host)
  /\ pc = "caches" =>
       /\ ListsCaches(raw) /\ k \in Nat \ {0} /\ Described(raw, k - 1)
       /\ data = [Vendored(Basic(raw, host), raw) EXCEPT !.cache = CachesUpTo(raw, k - 1)]
  /\ pc = "cores" => data = CachedOf(raw, host)
  /\ pc = "level" => data = CoredOf(raw, host)
  /\ pc = "match" => data = Decoded(raw, host)
  /\ pc = "sgx" =>
       /\ data = NamedOf(raw, host) /\ Asks(data, raw)
       /\ k \in 0 .. EpcBound /\ \A i \in 0 .. EpcBound : i < k => Section(raw, host, i)

MaskInv ==
  /\ pc \in ArmSteps \union {"basic", "vendor"} => internal = Blank
  /\ pc = "caches" => internal = InternalUpTo(raw, k - 1)
  /\ pc \in {"cores", "level", "match", "sgx"} \/ DoneX86 => internal = InternalOf(raw) /\ Settled(raw)
  /\ pc = "returned" /\ ret = "SIGFPE" =>
       raw.arch = "x86" /\ internal = InternalOf(raw) /\ Settled(raw)
  /\ pc = "returned" /\ ret # "SIGFPE" /\ ~DoneX86 => internal = Blank

ArmInv ==
  /\ pc \in ArmSteps => raw.arch = "arm"
  /\ pc = "arm" => data = Constructed(raw.arch)
  /\ pc = "features" =>
       /\ k \in 1 .. Len(FeatureMap) + 1
       /\ data = [ArmBasic(raw) EXCEPT !.flags = ArmFlags(raw, k - 1)]
       /\ ext = CountsUpTo(raw, k - 1)
  /\ pc \in {"version", "versions"} => raw.midr = "by-cpuid" /\ ext = ArmCounts(raw)
  /\ pc = "version" => data = ArmAll(raw)
  /\ pc = "versions" =>
       /\ k \in Nat \ {0} /\ Complete(ext, k - 1) /\ ProfileVersion(raw) = "unknown"
       /\ data = [ArmAll(raw) EXCEPT !.level = ReachedLevel(ext, k - 1)]

ReturnInv ==
  /\ Done => Answer(data, raw, host)
  /\ pc = "returned" /\ ret = "ERR_CPU_UNKN" => data = Constructed(raw.arch)
  /\ last # <<>> => \E h \in Hosts : Answer(last[1], raw, h)

AnswerInv == StepsOfArch /\ X86Inv /\ MaskInv /\ ArmInv /\ ReturnInv

-----------------------------------------------------------------------------
(* The stages of the answer. *)

Fields == DOMAIN CpuIdConstructor

LEMMA BasicFields ==
  ASSUME NEW r, NEW h
  PROVE  /\ DOMAIN Basic(r, h) = Fields
         /\ Basic(r, h).arch = r.arch /\ Basic(r, h).vendor = r.vendor
         /\ Basic(r, h).flags = CommonFeatures(r)
         /\ Basic(r, h).cache = [c \in CacheTypes |-> Undetermined]
         /\ Basic(r, h).purpose = "general" /\ Basic(r, h).epc = 0
BY DEF Basic, Constructed, CpuIdConstructor, Fields

LEMMA VendoredRest ==
  ASSUME NEW d, NEW r, DOMAIN d = Fields
  PROVE  /\ DOMAIN Vendored(d, r) = Fields
         /\ \A f \in Fields \ {"flags", "cache"} : Vendored(d, r)[f] = d[f]
BY DEF Vendored, CpuIdConstructor, Fields

LEMMA VendoredFields ==
  ASSUME NEW d, NEW r, DOMAIN d = Fields
  PROVE  /\ Vendored(d, r).flags =
              IF d.vendor = "intel" THEN d.flags \union IntelFeatures(r) ELSE d.flags
         /\ Vendored(d, r).cache = IF ListsCaches(r) THEN d.cache ELSE UnlistedCaches(r)
BY DEF Vendored, CpuIdConstructor, Fields

LEMMA CachedFields ==
  ASSUME NEW d, NEW r, DOMAIN d = Fields
  PROVE  /\ DOMAIN Cached(d, r) = Fields
         /\ \A f \in Fields \ {"cache"} : Cached(d, r)[f] = d[f]
         /\ Cached(d, r).cache = IF ListsCaches(r) THEN CachesUpTo(r, NumCaches(r)) ELSE d.cache
BY DEF Cached, CpuIdConstructor, Fields

LEMMA CoredRest ==
  ASSUME NEW d, NEW r, DOMAIN d = Fields
  PROVE  /\ DOMAIN Cored(d, r) = Fields
         /\ \A f \in Fields \ {"flags", "cores", "logical"} : Cored(d, r)[f] = d[f]
BY DEF Cored, CpuIdConstructor, Fields

LEMMA CoredFields ==
  ASSUME NEW d, NEW r, DOMAIN d = Fields
  PROVE  /\ Cored(d, r).cores = Cores(r, d).cores /\ Cored(d, r).logical = Cores(r, d).logical
         /\ Cored(d, r).flags = IF Cores(r, d).ht THEN d.flags ELSE d.flags \ {"HT"}
BY DEF Cored, CpuIdConstructor, Fields

LEMMA LeveledFields ==
  ASSUME NEW d, NEW r, DOMAIN d = Fields
  PROVE  /\ DOMAIN Leveled(d, r) = Fields
         /\ \A f \in Fields \ {"level", "purpose"} : Leveled(d, r)[f] = d[f]
         /\ Leveled(d, r).level = FeatureLevelX86(d)
         /\ Leveled(d, r).purpose = IF d.vendor = "centaur" THEN d.purpose ELSE Purpose(r)
BY DEF Leveled, CpuIdConstructor, Fields

LEMMA WithNameFields ==
  ASSUME NEW d, NEW r, DOMAIN d = Fields
  PROVE  /\ DOMAIN WithName(d, r) = Fields
         /\ \A f \in Fields \ {"codename"} : WithName(d, r)[f] = d[f]
BY DEF WithName, CpuIdConstructor, Fields

(* What the answer has been made of the record before its name.            *)
LEMMA DecodedFields ==
  ASSUME NEW r, NEW h
  PROVE  /\ DOMAIN Decoded(r, h) = Fields /\ DOMAIN NamedOf(r, h) = Fields
         /\ DOMAIN CachedOf(r, h) = Fields /\ DOMAIN CoredOf(r, h) = Fields
         /\ \A f \in Fields \ {"codename"} : NamedOf(r, h)[f] = Decoded(r, h)[f]
         /\ Decoded(r, h).arch = r.arch /\ Decoded(r, h).vendor = r.vendor
         /\ Decoded(r, h).epc = 0
         /\ Decoded(r, h).flags \subseteq r.bits
         /\ Decoded(r, h).purpose = IF r.vendor = "centaur" THEN "general" ELSE Purpose(r)
<1> DEFINE b == Basic(r, h)
           v == Vendored(b, r)
           c == CachedOf(r, h)
           o == CoredOf(r, h)
           d == Decoded(r, h)
<1>1. {"arch", "vendor", "epc", "flags", "purpose"} \subseteq Fields
  BY DEF CpuIdConstructor, Fields
<1>2. /\ DOMAIN b = Fields /\ b.arch = r.arch /\ b.vendor = r.vendor
      /\ b.flags = CommonFeatures(r) /\ b.purpose = "general" /\ b.epc = 0
  BY BasicFields
<1>3. /\ DOMAIN v = Fields /\ v.arch = r.arch /\ v.vendor = r.vendor /\ v.purpose = "general"
      /\ v.epc = 0 /\ v.flags \subseteq r.bits
  <2>1. CommonFeatures(r) \subseteq r.bits /\ IntelFeatures(r) \subseteq r.bits
    BY DEF CommonFeatures, IntelFeatures
  <2> HIDE DEF b
  <2>2. \A f \in {"arch", "vendor", "purpose", "epc"} : v[f] = b[f]
    BY <1>1, <1>2, VendoredRest
  <2>3. /\ DOMAIN v = Fields
        /\ v.flags = IF b.vendor = "intel" THEN b.flags \union IntelFeatures(r) ELSE b.flags
    BY <1>2, VendoredRest, VendoredFields
  <2> HIDE DEF v
  <2>4. v.flags \subseteq r.bits
    BY <1>2, <2>1, <2>3
  <2>5. QED
    BY <1>2, <2>2, <2>3, <2>4
<1> HIDE DEF b
<1>4. /\ DOMAIN c = Fields /\ c.arch = r.arch /\ c.vendor = r.vendor /\ c.purpose = "general"
      /\ c.epc = 0 /\ c.flags \subseteq r.bits
  <2>1. c = Cached(v, r)
    BY DEF CachedOf, b
  <2> HIDE DEF v, c
  <2>2. QED
    BY <1>1, <1>3, <2>1, CachedFields
<1>5. /\ DOMAIN o = Fields /\ o.arch = r.arch /\ o.vendor = r.vendor /\ o.purpose = "general"
      /\ o.epc = 0 /\ o.flags \subseteq r.bits
  <2>1. o = Cored(c, r)
    BY DEF CoredOf
  <2> HIDE DEF c, o
  <2>2. \A f \in {"arch", "vendor", "purpose", "epc"} : o[f] = c[f]
    BY <1>1, <1>4, <2>1, CoredRest
  <2>3. /\ DOMAIN o = Fields
        /\ o.flags = IF Cores(r, c).ht THEN c.flags ELSE c.flags \ {"HT"}
    BY <1>4, <2>1, CoredRest, CoredFields
  <2>4. o.flags \subseteq r.bits
    BY <1>4, <2>3
  <2>5. QED
    BY <1>4, <2>2, <2>3, <2>4
<1>6. /\ DOMAIN d = Fields /\ d.arch = r.arch /\ d.vendor = r.vendor
      /\ d.purpose = (IF r.vendor = "centaur" THEN "general" ELSE Purpose(r))
      /\ d.epc = 0 /\ d.flags \subseteq r.bits
  <2>1. d = Leveled(o, r)
    BY DEF Decoded
  <2> HIDE DEF o, d
  <2>2. QED
    BY <1>1, <1>5, <2>1, LeveledFields
<1>7. /\ DOMAIN NamedOf(r, h) = Fields
      /\ \A f \in Fields \ {"codename"} : NamedOf(r, h)[f] = d[f]
  <2>1. NamedOf(r, h) = WithName(d, r)
    BY DEF NamedOf
  <2> HIDE DEF d
  <2>2. QED
    BY <1>6, <2>1, WithNameFields
<1>8. QED
  BY <1>4, <1>5, <1>6, <1>7

-----------------------------------------------------------------------------
(* decode_deterministic_cache_info_x86. *)

LEMMA KindNext ==
  ASSUME NEW r, NEW n \in Nat, NEW c
  PROVE  KindAmong(r, n + 1, c) =
           IF CacheKind(CacheLeaves(r)[n + 1]) = c THEN KindAmong(r, n, c) \union {n + 1}
           ELSE KindAmong(r, n, c)
<1>1. 1 .. n + 1 = (1 .. n) \union {n + 1}
  OBVIOUS
<1>2. QED
  BY <1>1 DEF KindAmong

LEMMA LastIsNew ==
  ASSUME NEW n \in Nat, NEW S \in SUBSET (1 .. n)
  PROVE  LastOf(S \union {n + 1}) = n + 1
<1> DEFINE T == S \union {n + 1}
<1>1. n + 1 \in T /\ \A j \in T : j <= n + 1
  OBVIOUS
<1>2. \A i \in T : (\A j \in T : j <= i) => i = n + 1
  BY <1>1
<1>3. LastOf(T) \in T /\ \A j \in T : j <= LastOf(T)
  <2> HIDE DEF T
  <2>1. QED
    BY <1>1 DEF LastOf
<1>4. QED
  BY <1>2, <1>3

LEMMA CachesStart ==
  ASSUME NEW r
  PROVE  /\ CachesUpTo(r, 0) = [c \in CacheTypes |-> Undetermined]
         /\ InternalUpTo(r, 0) = Blank
         /\ Described(r, 0)
<1>1. \A c : KindAmong(r, 0, c) = {}
  BY DEF KindAmong
<1>2. CachesUpTo(r, 0) = [c \in CacheTypes |-> Undetermined]
  BY <1>1 DEF CachesUpTo
<1>3. \A i \in 0 .. 4 : ~(i + 1 <= 0)
  OBVIOUS
<1>4. InternalUpTo(r, 0) = Blank
  <2>1. 6 .. 0 = {}
    OBVIOUS
  <2>2. (\E i \in 6 .. 0 : CacheKind(CacheLeaves(r)[i]) # "") = FALSE
    BY <2>1
  <2>3. [i \in 0 .. 4 |-> IF i + 1 <= 0 /\ CacheKind(CacheLeaves(r)[i + 1]) # ""
                          THEN CountOrder(CacheLeaves(r)[i + 1].sharing) ELSE NoMask] = NoMasks
    BY <1>3 DEF NoMasks
  <2>4. QED
    BY <2>2, <2>3, Zenon DEF InternalUpTo, Blank
<1>5. QED
  BY <1>2, <1>4 DEF Described

LEMMA CachesNext ==
  ASSUME NEW r, NEW n \in Nat
  PROVE  LET kind == CacheKind(CacheLeaves(r)[n + 1])
         IN  CachesUpTo(r, n + 1) =
               IF kind = "" THEN CachesUpTo(r, n)
               ELSE [CachesUpTo(r, n) EXCEPT ![kind] = CacheLeaves(r)[n + 1].size]
<1> DEFINE kind == CacheKind(CacheLeaves(r)[n + 1])
           next == CachesUpTo(r, n + 1)
           old  == CachesUpTo(r, n)
<1>1. kind \in CacheTypes \union {""}
  BY DEF CacheKind, CacheTypes
<1>2. "" \notin CacheTypes
  BY DEF CacheTypes
<1>3. \A c \in CacheTypes : c # kind => next[c] = old[c]
  BY KindNext DEF CachesUpTo
<1>4. ASSUME kind # "" PROVE next[kind] = CacheLeaves(r)[n + 1].size
  <2>1. KindAmong(r, n + 1, kind) = KindAmong(r, n, kind) \union {n + 1}
    BY KindNext
  <2>2. KindAmong(r, n, kind) \in SUBSET (1 .. n)
    BY DEF KindAmong
  <2>3. LastOf(KindAmong(r, n + 1, kind)) = n + 1
    BY <2>1, <2>2, LastIsNew
  <2>4. KindAmong(r, n + 1, kind) # {}
    BY <2>1
  <2> HIDE DEF kind
  <2>5. QED
    BY <1>1, <1>4, <2>3, <2>4 DEF CachesUpTo
<1>5. /\ next = [c \in CacheTypes |-> next[c]]
      /\ old = [c \in CacheTypes |-> old[c]]
  BY DEF CachesUpTo
<1> HIDE DEF kind, next, old
<1>6. kind = "" => next = old
  BY <1>2, <1>3, <1>5
<1>7. kind # "" => next = [old EXCEPT ![kind] = CacheLeaves(r)[n + 1].size]
  <2>1. SUFFICES ASSUME kind # ""
                 PROVE  next = [old EXCEPT ![kind] = CacheLeaves(r)[n + 1].size]
    OBVIOUS
  <2>2. kind \in CacheTypes /\ next[kind] = CacheLeaves(r)[n + 1].size
    BY <1>1, <1>4, <2>1
  <2>3. QED
    BY <1>3, <1>5, <2>2
<1>8. QED
  BY <1>6, <1>7 DEF kind, next, old

LEMMA OverrunSet ==
  ASSUME NEW m, NEW o, NEW f, f = [mask |-> m, overrun |-> o]
  PROVE  [f EXCEPT !.overrun = TRUE] = [mask |-> m, overrun |-> TRUE]
<1>1. PICK x : x = TRUE
  OBVIOUS
<1>2. [f EXCEPT !.overrun = x] = [mask |-> m, overrun |-> x]
  OBVIOUS
<1>3. QED
  BY <1>1, <1>2, Zenon

LEMMA InternalNext ==
  ASSUME NEW r, NEW n \in Nat
  PROVE  LET kind == CacheKind(CacheLeaves(r)[n + 1])
             old  == InternalUpTo(r, n)
         IN  InternalUpTo(r, n + 1) =
               IF kind = "" THEN old
               ELSE IF n \in 0 .. 4
               THEN [old EXCEPT !.mask[n] = CountOrder(CacheLeaves(r)[n + 1].sharing)]
               ELSE [old EXCEPT !.overrun = TRUE]
<1> DEFINE kind(i) == CacheKind(CacheLeaves(r)[i])
           mask(i) == CountOrder(CacheLeaves(r)[i].sharing)
           masks(m) == [i \in 0 .. 4 |-> IF i + 1 <= m /\ kind(i + 1) # "" THEN mask(i + 1)
                                         ELSE NoMask]
           over(m) == \E i \in 6 .. m : kind(i) # ""
<1>1. \A m : InternalUpTo(r, m) = [mask |-> masks(m), overrun |-> over(m)]
  BY DEF InternalUpTo
<1> HIDE DEF kind, mask
<1>2. \A i \in 0 .. 4 : i # n => (i + 1 <= n + 1 <=> i + 1 <= n)
  OBVIOUS
<1>3. \A i \in 0 .. 4 : i = n => i + 1 <= n + 1 /\ ~(i + 1 <= n)
  OBVIOUS
<1>4. over(n + 1) = (over(n) \/ (n \notin 0 .. 4 /\ kind(n + 1) # ""))
  <2>1. 6 .. n + 1 = (6 .. n) \union (IF n \in 0 .. 4 THEN {} ELSE {n + 1})
    OBVIOUS
  <2>2. QED
    BY <2>1
<1>5. CASE kind(n + 1) = ""
  <2>1. \A i \in 0 .. 4 : masks(n + 1)[i] = masks(n)[i]
    BY <1>2, <1>3, <1>5
  <2>2. masks(n + 1) = masks(n)
    BY <2>1
  <2>3. over(n + 1) = over(n)
    BY <1>4, <1>5
  <2> HIDE DEF masks, over
  <2>4. QED
    BY <1>1, <1>5, <2>2, <2>3 DEF kind
<1>6. CASE kind(n + 1) # "" /\ n \in 0 .. 4
  <2>1. masks(n + 1)[n] = mask(n + 1)
    BY <1>3, <1>6
  <2>2. \A i \in 0 .. 4 : i # n => masks(n + 1)[i] = masks(n)[i]
    BY <1>2
  <2>3. masks(n + 1) = [masks(n) EXCEPT ![n] = mask(n + 1)]
    BY <1>6, <2>1, <2>2
  <2>4. over(n + 1) = over(n)
    BY <1>4, <1>6
  <2> HIDE DEF masks, over
  <2>5. InternalUpTo(r, n + 1) = [InternalUpTo(r, n) EXCEPT !.mask[n] = mask(n + 1)]
    BY <1>1, <2>3, <2>4
  <2>6. QED
    BY <1>6, <2>5 DEF kind, mask
<1>7. CASE kind(n + 1) # "" /\ n \notin 0 .. 4
  <2>1. \A i \in 0 .. 4 : masks(n + 1)[i] = masks(n)[i]
    BY <1>2, <1>7
  <2>2. masks(n + 1) = masks(n)
    BY <2>1
  <2>3. over(n + 1) = TRUE
    BY <1>4, <1>7
  <2> HIDE DEF masks, over
  <2>4. InternalUpTo(r, n + 1) = [mask |-> masks(n), overrun |-> TRUE]
    BY <1>1, <2>2, <2>3, Zenon
  <2>5. InternalUpTo(r, n) = [mask |-> masks(n), overrun |-> over(n)]
    BY <1>1
  <2>6. [InternalUpTo(r, n) EXCEPT !.overrun = TRUE] = [mask |-> masks(n), overrun |-> TRUE]
    BY ONLY <2>5, OverrunSet, Zenon
  <2>7. InternalUpTo(r, n + 1) = [InternalUpTo(r, n) EXCEPT !.overrun = TRUE]
    BY <2>4, <2>6, Zenon
  <2>8. QED
    BY <1>7, <2>7 DEF kind
<1>8. QED
  BY <1>5, <1>6, <1>7

(* The loop ends at one sub-leaf.                                          *)
LEMMA NumCachesIs ==
  ASSUME NEW r, NEW n \in Nat, Described(r, n), EndAt(r, n + 1), Len(CacheLeaves(r)) \in Nat
  PROVE  n \in 0 .. Len(CacheLeaves(r)) /\ NumCaches(r) = n
<1> DEFINE S == 0 .. Len(CacheLeaves(r))
<1>1. n \in S
  <2>1. n # 0 => ~EndAt(r, n)
    BY DEF Described
  <2>2. n # 0 => n <= Len(CacheLeaves(r))
    BY <2>1 DEF EndAt
  <2>3. QED
    BY <2>2
<1>2. \A m \in S : Described(r, m) /\ EndAt(r, m + 1) => m = n
  <2> SUFFICES ASSUME NEW m \in S, Described(r, m), EndAt(r, m + 1), m # n PROVE FALSE
    OBVIOUS
  <2>1. m < n => m + 1 \in 1 .. n
    OBVIOUS
  <2>2. n < m => n + 1 \in 1 .. m
    OBVIOUS
  <2>3. QED
    BY <2>1, <2>2 DEF Described
<1>3. QED
  BY <1>1, <1>2 DEF NumCaches

-----------------------------------------------------------------------------
(* The steps of an x86 CPU. *)

LEMMA FirstBestIsOne ==
  ASSUME NEW d, NEW r, Routine(d.vendor) # "none", NEW i, FirstBestOf(d, r, i),
         NEW j, FirstBestOf(d, r, j)
  PROVE  i = j
<1> DEFINE s(n) == Score(TableOf(d)[n], d, r.brand)
<1>1. /\ Routine(d.vendor) \in DOMAIN MatchTable
      /\ Len(TableOf(d)) \in Nat \ {0} /\ DOMAIN TableOf(d) = 1 .. Len(TableOf(d))
  BY RoutineHasEntries DEF TableOf
<1>2. \A n \in DOMAIN TableOf(d) : s(n) \in Nat
  BY <1>1, ScoreIsNat DEF TableOf
<1>3. i \in 1 .. Len(TableOf(d)) /\ j \in 1 .. Len(TableOf(d))
  BY <1>1 DEF FirstBestOf
<1>4. s(i) <= s(j) /\ s(j) <= s(i)
  BY DEF FirstBestOf
<1>5. i < j => s(i) < s(j)
  BY <1>1, <1>3 DEF FirstBestOf
<1>6. j < i => s(j) < s(i)
  BY <1>1, <1>3 DEF FirstBestOf
<1>7. s(i) \in Nat /\ s(j) \in Nat
  BY <1>1, <1>2, <1>3
<1> HIDE DEF s
<1>8. QED
  BY <1>1, <1>3, <1>4, <1>5, <1>6, <1>7

LEMMA UnknownVendorAnswer ==
  ASSUME AnswerInv, UnknownVendor, last' = last
  PROVE  X86Inv' /\ MaskInv' /\ ArmInv' /\ ReturnInv'
<1>1. /\ pc = "basic" /\ pc' = "returned" /\ ret' = "ERR_CPU_UNKN"
      /\ UNCHANGED <<raw, host, data, internal, last>>
  BY DEF UnknownVendor, Return
<1>2. data = Constructed(raw.arch) /\ internal = Blank
  BY <1>1 DEF AnswerInv, X86Inv, MaskInv
<1>3. X86Inv'
  BY <1>1 DEF AnswerInv, X86Inv, X86Steps
<1>4. MaskInv'
  BY <1>1, <1>2 DEF MaskInv, DoneX86, Done, ArmSteps
<1>5. ArmInv'
  BY <1>1 DEF ArmInv, ArmSteps
<1>6. ReturnInv'
  BY <1>1, <1>2 DEF AnswerInv, ReturnInv, Done
<1>7. QED
  BY <1>3, <1>4, <1>5, <1>6

(* Where a step goes on with an x86 CPU, nothing has been returned yet.    *)
LEMMA StillX86 ==
  ASSUME AnswerInv, UNCHANGED <<raw, host, last>>, pc' \in X86Steps
  PROVE  ArmInv' /\ ReturnInv'
<1>1. ArmInv'
  BY DEF ArmInv, ArmSteps, X86Steps
<1>2. ReturnInv'
  BY DEF AnswerInv, ReturnInv, Done, X86Steps
<1>3. QED
  BY <1>1, <1>2

LEMMA BasicIdentifyAnswer ==
  ASSUME AnswerInv, BasicIdentify, last' = last
  PROVE  X86Inv' /\ MaskInv' /\ ArmInv' /\ ReturnInv'
<1>1. /\ pc = "basic" /\ pc' = "vendor" /\ UNCHANGED <<raw, host, internal, last>>
  BY DEF BasicIdentify
<1>2. data = Constructed(raw.arch) /\ internal = Blank /\ raw.arch = "x86"
  BY <1>1 DEF AnswerInv, X86Inv, MaskInv, X86Steps
<1>3. data' = Basic(raw, host)
  BY <1>2 DEF BasicIdentify, Basic
<1>4. X86Inv'
  BY <1>1, <1>2, <1>3 DEF AnswerInv, X86Inv
<1>5. MaskInv'
  BY <1>1, <1>2 DEF MaskInv, DoneX86, Done
<1>6. QED
  BY <1>1, <1>4, <1>5, StillX86 DEF X86Steps

LEMMA NoRoutineAnswer ==
  ASSUME AnswerInv, NoRoutine, last' = last
  PROVE  X86Inv' /\ MaskInv' /\ ArmInv' /\ ReturnInv'
<1>1. /\ pc = "vendor" /\ pc' = "returned" /\ ret' = "ERR_OK" /\ Routine(data.vendor) = "none"
      /\ UNCHANGED <<raw, host, data, internal, last>>
  BY DEF NoRoutine, Return
<1>2. data = Basic(raw, host) /\ internal = Blank /\ raw.arch = "x86"
  BY <1>1 DEF AnswerInv, X86Inv, MaskInv, X86Steps
<1>3. X86Inv'
  BY <1>1 DEF AnswerInv, X86Inv, X86Steps
<1>4. MaskInv'
  BY <1>1, <1>2 DEF MaskInv, DoneX86, Done, ArmSteps
<1>5. ArmInv'
  BY <1>1 DEF ArmInv, ArmSteps
<1>6. Answer(data, raw, host)
  BY <1>1, <1>2, BasicFields DEF Answer
<1>7. ReturnInv'
  BY <1>1, <1>6 DEF AnswerInv, ReturnInv, Done
<1>8. QED
  BY <1>3, <1>4, <1>5, <1>7

LEMMA SameCache ==
  ASSUME NEW d, d = [f \in Fields |-> d[f]], NEW c, d.cache = c
  PROVE  [d EXCEPT !.cache = c] = d
BY DEF Fields, CpuIdConstructor

LEMMA VendoredCache ==
  ASSUME NEW d, NEW r, DOMAIN d = Fields, ListsCaches(r)
  PROVE  Vendored(d, r).cache = d.cache
BY DEF Vendored, CpuIdConstructor, Fields

LEMMA VendoredIsRecord ==
  ASSUME NEW d, NEW r, DOMAIN d = Fields
  PROVE  Vendored(d, r) = [f \in Fields |-> Vendored(d, r)[f]]
<1>1. \A x, y : [d EXCEPT !.flags = x, !.cache = y] =
                  [f \in Fields |-> [d EXCEPT !.flags = x, !.cache = y][f]]
  OBVIOUS
<1>2. QED
  BY <1>1 DEF Vendored

LEMMA VendorIdentifyAnswer ==
  ASSUME AnswerInv, VendorIdentify, last' = last
  PROVE  X86Inv' /\ MaskInv' /\ ArmInv' /\ ReturnInv'
<1> DEFINE v == Vendored(Basic(raw, host), raw)
<1>1. /\ pc = "vendor" /\ pc' = (IF ListsCaches(raw) THEN "caches" ELSE "cores") /\ k' = 1
      /\ UNCHANGED <<raw, host, internal, last>>
  BY DEF VendorIdentify
<1>2. data = Basic(raw, host) /\ internal = Blank /\ raw.arch = "x86"
  BY <1>1 DEF AnswerInv, X86Inv, MaskInv, X86Steps
<1>3. data' = v
  BY <1>2 DEF VendorIdentify, Vendored
<1>4. CASE ListsCaches(raw)
  <2>1. v.cache = CachesUpTo(raw, 0)
    <3>1. DOMAIN Basic(raw, host) = Fields
          /\ Basic(raw, host).cache = [c \in CacheTypes |-> Undetermined]
      BY BasicFields
    <3>2. v.cache = Basic(raw, host).cache
      BY <1>4, <3>1, VendoredCache
    <3> HIDE DEF v
    <3>3. QED
      BY <3>1, <3>2, CachesStart
  <2>2. v = [f \in Fields |-> v[f]]
    BY BasicFields, VendoredIsRecord
  <2>3. v = [v EXCEPT !.cache = CachesUpTo(raw, 0)]
    <3> HIDE DEF v
    <3>1. QED
      BY <2>1, <2>2, SameCache
  <2>4. pc' = "caches" /\ k' - 1 = 0
    BY <1>1, <1>4
  <2>5. data' = [v EXCEPT !.cache = CachesUpTo(raw, 0)]
    BY <1>3, <2>3
  <2>6. X86Inv'
    BY <1>1, <1>2, <1>4, <2>4, <2>5, CachesStart DEF AnswerInv, X86Inv
  <2>7. MaskInv'
    BY <1>1, <1>2, <2>4, CachesStart DEF MaskInv, DoneX86, Done, ArmSteps
  <2>8. QED
    BY <1>1, <2>4, <2>6, <2>7, StillX86 DEF X86Steps
<1>5. CASE ~ListsCaches(raw)
  <2>1. pc' = "cores"
    BY <1>1, <1>5
  <2>2. data' = CachedOf(raw, host)
    BY <1>3, <1>5 DEF CachedOf, Cached
  <2>3. X86Inv'
    BY <1>1, <1>2, <2>1, <2>2 DEF AnswerInv, X86Inv
  <2>4. MaskInv'
    BY <1>1, <1>2, <1>5, <2>1 DEF MaskInv, DoneX86, Done, ArmSteps, InternalOf, Settled
  <2>5. QED
    BY <1>1, <2>1, <2>3, <2>4, StillX86 DEF X86Steps
<1>6. QED
  BY <1>4, <1>5

LEMMA CacheSet ==
  ASSUME NEW v, "cache" \in DOMAIN v, NEW c, NEW d, d = [v EXCEPT !.cache = c], NEW kind, NEW s
  PROVE  [d EXCEPT !.cache[kind] = s] = [v EXCEPT !.cache = [c EXCEPT ![kind] = s]]
OBVIOUS

LEMMA DecodeCacheAnswer ==
  ASSUME AnswerInv, DecodeCache, last' = last
  PROVE  X86Inv' /\ MaskInv' /\ ArmInv' /\ ReturnInv'
<1> DEFINE v    == Vendored(Basic(raw, host), raw)
           kind == CacheKind(CacheLeaves(raw)[k])
           size == CacheLeaves(raw)[k].size
           mask == CountOrder(CacheLeaves(raw)[k].sharing)
<1>1. /\ pc = "caches" /\ pc' = "caches" /\ k' = k + 1
      /\ UNCHANGED <<raw, host, last>> /\ ~EndAt(raw, k)
  <2>1. pc = "caches" /\ k' = k + 1 /\ UNCHANGED <<pc, raw, host>> /\ ~EndOfCaches(CacheLeaves(raw))
    BY Zenon DEF DecodeCache
  <2>2. ~EndAt(raw, k)
    BY ONLY <2>1, Zenon DEF EndOfCaches, EndAt
  <2>3. QED
    BY <2>1, <2>2
<1>2. /\ raw \in RawRecords /\ host \in Hosts /\ raw.arch = "x86"
      /\ ListsCaches(raw) /\ k \in Nat \ {0} /\ Described(raw, k - 1)
      /\ data = [v EXCEPT !.cache = CachesUpTo(raw, k - 1)]
      /\ internal = InternalUpTo(raw, k - 1)
  BY <1>1 DEF AnswerInv, X86Inv, MaskInv, X86Steps
<1>3. PICK n \in Nat : k = n + 1
  <2>1. k \in Nat \ {0}
    BY <1>2
  <2>2. k - 1 \in Nat /\ k = (k - 1) + 1
    BY ONLY <2>1
  <2>3. QED
    BY ONLY <2>2
<1>4. k - 1 = n /\ k' - 1 = n + 1 /\ k' \in Nat \ {0}
  BY <1>1, <1>3
<1>5. Described(raw, n + 1)
  <2>1. \A i \in 1 .. n + 1 : i \in 1 .. n \/ i = k
    BY <1>3
  <2>2. QED
    BY <1>1, <1>2, <1>4, <2>1 DEF Described
<1>6. data' = [v EXCEPT !.cache = CachesUpTo(raw, n + 1)]
  <2>1. /\ kind = "" => data' = data
        /\ kind # "" => data' = [data EXCEPT !.cache[kind] = size]
    BY DEF DecodeCache
  <2>2. data = [v EXCEPT !.cache = CachesUpTo(raw, n)]
    BY <1>2, <1>4
  <2>3. /\ kind = "" => CachesUpTo(raw, n + 1) = CachesUpTo(raw, n)
        /\ kind # "" => CachesUpTo(raw, n + 1) = [CachesUpTo(raw, n) EXCEPT ![kind] = size]
    BY <1>3, CachesNext
  <2>4. "cache" \in DOMAIN v
    BY BasicFields, VendoredRest DEF Fields, CpuIdConstructor
  <2> HIDE DEF v, kind, size
  <2>5. [data EXCEPT !.cache[kind] = size] =
          [v EXCEPT !.cache = [CachesUpTo(raw, n) EXCEPT ![kind] = size]]
    BY <2>2, <2>4, CacheSet
  <2>6. CASE kind = ""
    <3>1. data' = data /\ CachesUpTo(raw, n + 1) = CachesUpTo(raw, n)
      BY ONLY <2>1, <2>3, <2>6
    <3>2. QED
      BY ONLY <2>2, <3>1
  <2>7. CASE kind # ""
    <3>1. /\ data' = [data EXCEPT !.cache[kind] = size]
          /\ CachesUpTo(raw, n + 1) = [CachesUpTo(raw, n) EXCEPT ![kind] = size]
      BY ONLY <2>1, <2>3, <2>7
    <3>2. QED
      BY ONLY <2>5, <3>1
  <2>8. QED
    BY <2>6, <2>7
<1>7. internal' = InternalUpTo(raw, n + 1)
  <2>1. internal = InternalUpTo(raw, n)
    BY <1>2, <1>4
  <2>2. n \in DOMAIN internal.mask <=> n \in 0 .. 4
    BY <2>1 DEF InternalUpTo
  <2>3. MaskIndex = n
    BY <1>4 DEF MaskIndex
  <2>4. CASE kind = ""
    BY <1>3, <2>1, <2>4, InternalNext DEF DecodeCache
  <2>5. CASE kind # "" /\ n \in 0 .. 4
    <3>1. internal' = [internal EXCEPT !.mask[n] = mask]
      BY <2>2, <2>3, <2>5 DEF DecodeCache
    <3>2. InternalUpTo(raw, n + 1) = [InternalUpTo(raw, n) EXCEPT !.mask[n] = mask]
      BY <1>3, <2>5, InternalNext
    <3>3. QED
      BY <2>1, <3>1, <3>2
  <2>6. CASE kind # "" /\ n \notin 0 .. 4
    <3>1. internal' = [internal EXCEPT !.overrun = TRUE]
      BY <2>2, <2>3, <2>6 DEF DecodeCache
    <3>2. InternalUpTo(raw, n + 1) = [InternalUpTo(raw, n) EXCEPT !.overrun = TRUE]
      BY <1>3, <2>6, InternalNext
    <3>3. QED
      BY <2>1, <3>1, <3>2
  <2>7. QED
    BY <2>4, <2>5, <2>6
<1> HIDE DEF v
<1>8. X86Inv'
  BY <1>1, <1>2, <1>4, <1>5, <1>6 DEF X86Inv, v
<1>9. MaskInv'
  BY <1>1, <1>4, <1>7 DEF MaskInv, DoneX86, Done, ArmSteps
<1>10. QED
  BY <1>1, <1>8, <1>9, StillX86 DEF X86Steps

LEMMA CachesDoneAnswer ==
  ASSUME AnswerInv, CachesDone, last' = last
  PROVE  X86Inv' /\ MaskInv' /\ ArmInv' /\ ReturnInv'
<1> DEFINE v == Vendored(Basic(raw, host), raw)
<1>1. /\ pc = "caches" /\ pc' = "cores" /\ UNCHANGED <<raw, host, data, internal, last>>
      /\ EndAt(raw, k)
  <2>1. /\ pc = "caches" /\ pc' = "cores" /\ UNCHANGED <<raw, host, data, internal>>
        /\ EndOfCaches(CacheLeaves(raw))
    BY Zenon DEF CachesDone
  <2>2. EndAt(raw, k)
    BY ONLY <2>1, Zenon DEF EndOfCaches, EndAt
  <2>3. QED
    BY <2>1, <2>2
<1>2. /\ raw \in RawRecords /\ host \in Hosts /\ raw.arch = "x86"
      /\ ListsCaches(raw) /\ k \in Nat \ {0} /\ Described(raw, k - 1)
      /\ data = [v EXCEPT !.cache = CachesUpTo(raw, k - 1)]
      /\ internal = InternalUpTo(raw, k - 1)
  BY <1>1 DEF AnswerInv, X86Inv, MaskInv, X86Steps
<1>3. PICK n \in Nat : k = n + 1
  <2>1. k \in Nat \ {0}
    BY <1>2
  <2>2. k - 1 \in Nat /\ k = (k - 1) + 1
    BY ONLY <2>1
  <2>3. QED
    BY ONLY <2>2
<1>4. k - 1 = n
  BY <1>3
<1>5. Len(CacheLeaves(raw)) \in Nat
  BY <1>2, RecordsAssumption DEF CacheLeaves
<1>6. n \in 0 .. Len(CacheLeaves(raw)) /\ NumCaches(raw) = n
  BY <1>1, <1>2, <1>3, <1>4, <1>5, NumCachesIs
<1>7. data = CachedOf(raw, host)
  <2> HIDE DEF v
  <2>1. CachedOf(raw, host) = [v EXCEPT !.cache = CachesUpTo(raw, NumCaches(raw))]
    BY <1>2 DEF CachedOf, Cached, v
  <2>2. QED
    BY <1>2, <1>4, <1>6, <2>1
<1>8. internal = InternalOf(raw) /\ Settled(raw)
  BY <1>1, <1>2, <1>3, <1>4, <1>6 DEF InternalOf, Settled
<1>9. X86Inv'
  BY <1>1, <1>2, <1>7 DEF X86Inv
<1>10. MaskInv'
  BY <1>1, <1>8 DEF MaskInv, DoneX86, Done, ArmSteps
<1>11. QED
  BY <1>1, <1>9, <1>10, StillX86 DEF X86Steps

LEMMA DecodeCoresAnswer ==
  ASSUME AnswerInv, DecodeCores, last' = last
  PROVE  X86Inv' /\ MaskInv' /\ ArmInv' /\ ReturnInv'
<1>1. /\ pc = "cores" /\ pc' = "level" /\ UNCHANGED <<raw, host, internal, last>>
  BY DEF DecodeCores
<1>2. /\ raw \in RawRecords /\ host \in Hosts /\ raw.arch = "x86"
      /\ data = CachedOf(raw, host) /\ internal = InternalOf(raw) /\ Settled(raw)
  BY <1>1 DEF AnswerInv, X86Inv, MaskInv, X86Steps
<1>3. data' = CoredOf(raw, host)
  BY <1>2 DEF DecodeCores, CoredOf, Cored
<1>4. X86Inv'
  BY <1>1, <1>2, <1>3 DEF X86Inv
<1>5. MaskInv'
  BY <1>1, <1>2 DEF MaskInv, DoneX86, Done, ArmSteps
<1>6. QED
  BY <1>1, <1>4, <1>5, StillX86 DEF X86Steps

LEMMA DivideByZeroAnswer ==
  ASSUME AnswerInv, DivideByZero, last' = last
  PROVE  X86Inv' /\ MaskInv' /\ ArmInv' /\ ReturnInv'
<1>1. /\ pc = "cores" /\ pc' = "returned" /\ ret' = "SIGFPE"
      /\ UNCHANGED <<raw, host, data, internal, last>>
  BY DEF DivideByZero, Return
<1>2. raw.arch = "x86" /\ internal = InternalOf(raw) /\ Settled(raw)
  BY <1>1 DEF AnswerInv, X86Inv, MaskInv, X86Steps
<1>3. X86Inv'
  BY <1>1 DEF AnswerInv, X86Inv, X86Steps
<1>4. MaskInv'
  BY <1>1, <1>2 DEF MaskInv, DoneX86, Done, ArmSteps
<1>5. ArmInv'
  BY <1>1 DEF ArmInv, ArmSteps
<1>6. ReturnInv'
  BY <1>1 DEF AnswerInv, ReturnInv, Done
<1>7. QED
  BY <1>3, <1>4, <1>5, <1>6

LEMMA DecodeLevelAnswer ==
  ASSUME AnswerInv, DecodeLevel, last' = last
  PROVE  X86Inv' /\ MaskInv' /\ ArmInv' /\ ReturnInv'
<1>1. /\ pc = "level" /\ pc' = "match" /\ UNCHANGED <<raw, host, internal, last>>
  BY DEF DecodeLevel
<1>2. /\ raw \in RawRecords /\ host \in Hosts /\ raw.arch = "x86"
      /\ data = CoredOf(raw, host) /\ internal = InternalOf(raw) /\ Settled(raw)
  BY <1>1 DEF AnswerInv, X86Inv, MaskInv, X86Steps
<1>3. data' = Decoded(raw, host)
  BY <1>2 DEF DecodeLevel, Decoded, Leveled
<1>4. X86Inv'
  BY <1>1, <1>2, <1>3 DEF X86Inv
<1>5. MaskInv'
  BY <1>1, <1>2 DEF MaskInv, DoneX86, Done, ArmSteps
<1>6. QED
  BY <1>1, <1>4, <1>5, StillX86 DEF X86Steps

LEMMA MatchEntryAnswer ==
  ASSUME AnswerInv, MatchEntry, last' = last
  PROVE  X86Inv' /\ MaskInv' /\ ArmInv' /\ ReturnInv'
<1>1. /\ pc = "match" /\ pc' = "match" /\ UNCHANGED <<raw, host, data, internal, last>>
  BY DEF MatchEntry
<1>2. /\ raw \in RawRecords /\ host \in Hosts /\ raw.arch = "x86"
      /\ data = Decoded(raw, host) /\ internal = InternalOf(raw) /\ Settled(raw)
  BY <1>1 DEF AnswerInv, X86Inv, MaskInv, X86Steps
<1>3. X86Inv'
  BY <1>1, <1>2 DEF X86Inv
<1>4. MaskInv'
  BY <1>1, <1>2 DEF MaskInv, DoneX86, Done, ArmSteps
<1>5. QED
  BY <1>1, <1>3, <1>4, StillX86 DEF X86Steps

(* A routine returns with what is answered.                                *)
LEMMA ReturnsX86 ==
  ASSUME AnswerInv, UNCHANGED <<raw, host, internal, last>>, pc' = "returned", ret' = "ERR_OK",
         internal = InternalOf(raw), Settled(raw),
         data'.arch = "x86", Routine(data'.vendor) # "none", Answer(data', raw, host)
  PROVE  X86Inv' /\ MaskInv' /\ ArmInv' /\ ReturnInv'
<1>1. X86Inv'
  BY DEF AnswerInv, X86Inv, X86Steps
<1>2. DoneX86'
  BY DEF DoneX86, Done
<1>3. MaskInv'
  BY <1>2 DEF MaskInv, ArmSteps
<1>4. ArmInv'
  BY DEF ArmInv, ArmSteps
<1>5. ReturnInv'
  BY DEF AnswerInv, ReturnInv, Done
<1>6. QED
  BY <1>1, <1>3, <1>4, <1>5

LEMMA MatchedAnswer ==
  ASSUME AnswerInv, Matching, Matched, last' = last
  PROVE  X86Inv' /\ MaskInv' /\ ArmInv' /\ ReturnInv'
<1>1. /\ pc = "match" /\ k > Len(Table) /\ UNCHANGED <<raw, host, internal, last>>
      /\ data' = [data EXCEPT !.codename = Table[best.index].name]
      /\ \/ Asks(data, raw) /\ pc' = "sgx" /\ k' = 0
         \/ ~Asks(data, raw) /\ pc' = "returned" /\ ret' = "ERR_OK"
  BY DEF Matched, Return, Asks
<1>2. /\ raw \in RawRecords /\ host \in Hosts /\ raw.arch = "x86"
      /\ data = Decoded(raw, host) /\ internal = InternalOf(raw) /\ Settled(raw)
      /\ Routine(data.vendor) # "none" /\ BestSoFar
  BY <1>1 DEF AnswerInv, StepsOfArch, X86Inv, MaskInv, X86Steps, Matching
<1>3. FirstBestOf(data, raw, best.index)
  <2>1. /\ Len(Table) \in Nat \ {0} /\ DOMAIN Table = 1 .. Len(Table)
    BY <1>2, TableHasEntries
  <2>2. k - 1 = Len(Table) /\ k # 1
    BY <1>1, <1>2, <2>1 DEF BestSoFar
  <2>3. /\ best.index \in 1 .. Len(Table)
        /\ best.score = Score(Table[best.index], data, raw.brand)
        /\ \A j \in 1 .. Len(Table) : Score(Table[j], data, raw.brand) <= best.score
        /\ \A j \in 1 .. best.index - 1 : Score(Table[j], data, raw.brand) < best.score
    BY <1>2, <2>2 DEF BestSoFar
  <2>4. TableOf(data) = Table
    BY DEF TableOf, Table
  <2>5. QED
    BY <2>1, <2>3, <2>4 DEF FirstBestOf
<1>4. data' = NamedOf(raw, host)
  <2>1. best.index \in DOMAIN TableOf(data)
    BY <1>3 DEF FirstBestOf
  <2>2. (CHOOSE i \in DOMAIN TableOf(data) : FirstBestOf(data, raw, i)) = best.index
    <3> DEFINE first == CHOOSE i \in DOMAIN TableOf(data) : FirstBestOf(data, raw, i)
    <3>1. FirstBestOf(data, raw, first)
      BY <1>3, <2>1
    <3> HIDE DEF first
    <3>2. first = best.index
      BY <1>2, <1>3, <3>1, FirstBestIsOne
    <3>3. QED
      BY <3>2 DEF first
  <2>3. data' = WithName(data, raw)
    BY <1>1, <2>2 DEF WithName, TableOf, Table
  <2>4. QED
    BY <1>2, <2>3 DEF NamedOf
<1>5. data'.arch = "x86" /\ data'.vendor = data.vendor /\ data'.flags = data.flags
      /\ data.vendor = raw.vendor
  BY <1>2, <1>4, DecodedFields DEF Fields, CpuIdConstructor
<1>6. Asks(data', raw) <=> Asks(data, raw)
  BY <1>5 DEF Asks
<1>7. CASE pc' = "sgx"
  <2>1. Asks(data', raw) /\ k' = 0
    BY <1>1, <1>6, <1>7
  <2>2. k' \in 0 .. EpcBound /\ \A i \in 0 .. EpcBound : ~(i < k')
    BY <2>1, TablesAssumption
  <2>3. X86Inv'
    BY <1>1, <1>2, <1>4, <1>7, <2>1, <2>2 DEF X86Inv
  <2>4. MaskInv'
    BY <1>1, <1>2, <1>7 DEF MaskInv, DoneX86, Done, ArmSteps
  <2>5. QED
    BY <1>1, <1>7, <2>3, <2>4, StillX86 DEF X86Steps
<1>8. CASE pc' = "returned"
  <2>1. ~Asks(data', raw) /\ ret' = "ERR_OK"
    BY <1>1, <1>6, <1>8
  <2>2. Answer(data', raw, host)
    BY <1>2, <1>4, <1>5, <2>1 DEF Answer, X86Answer
  <2>3. QED
    BY <1>1, <1>2, <1>5, <1>8, <2>1, <2>2, ReturnsX86
<1>9. QED
  BY <1>1, <1>7, <1>8

LEMMA CountSectionAnswer ==
  ASSUME AnswerInv, CountSection, last' = last
  PROVE  X86Inv' /\ MaskInv' /\ ArmInv' /\ ReturnInv'
<1>1. /\ pc = "sgx" /\ pc' = "sgx" /\ k < EpcBound /\ k' = k + 1 /\ Section(raw, host, k)
      /\ UNCHANGED <<raw, host, data, internal, last>>
  BY DEF CountSection, SectionExists, Section
<1>2. /\ raw \in RawRecords /\ host \in Hosts /\ raw.arch = "x86"
      /\ data = NamedOf(raw, host) /\ Asks(data, raw)
      /\ k \in 0 .. EpcBound /\ \A i \in 0 .. EpcBound : i < k => Section(raw, host, i)
      /\ internal = InternalOf(raw) /\ Settled(raw)
  BY <1>1 DEF AnswerInv, X86Inv, MaskInv, X86Steps
<1>3. k + 1 \in 0 .. EpcBound /\ \A i \in 0 .. EpcBound : i < k + 1 => i < k \/ i = k
  BY <1>1, <1>2, TablesAssumption
<1>4. k' \in 0 .. EpcBound /\ \A i \in 0 .. EpcBound : i < k' => Section(raw, host, i)
  BY <1>1, <1>2, <1>3
<1>5. X86Inv'
  BY <1>1, <1>2, <1>4 DEF X86Inv
<1>6. MaskInv'
  BY <1>1, <1>2 DEF MaskInv, DoneX86, Done, ArmSteps
<1>7. QED
  BY <1>1, <1>5, <1>6, StillX86 DEF X86Steps

LEMMA SectionsDoneAnswer ==
  ASSUME AnswerInv, SectionsDone, last' = last
  PROVE  X86Inv' /\ MaskInv' /\ ArmInv' /\ ReturnInv'
<1>1. /\ pc = "sgx" /\ pc' = "returned" /\ ret' = "ERR_OK"
      /\ k >= EpcBound \/ ~Section(raw, host, k)
      /\ data' = [data EXCEPT !.epc = k]
      /\ UNCHANGED <<raw, host, internal, last>>
  BY DEF SectionsDone, SectionExists, Section, Return
<1>2. /\ raw \in RawRecords /\ host \in Hosts /\ raw.arch = "x86"
      /\ data = NamedOf(raw, host) /\ Asks(data, raw) /\ Routine(data.vendor) # "none"
      /\ k \in 0 .. EpcBound /\ \A i \in 0 .. EpcBound : i < k => Section(raw, host, i)
      /\ internal = InternalOf(raw) /\ Settled(raw)
  BY <1>1 DEF AnswerInv, StepsOfArch, X86Inv, MaskInv, X86Steps
<1>3. Sections(raw, host, k)
  BY <1>1, <1>2 DEF Sections
<1>4. X86Answer(data', raw, host)
  BY <1>1, <1>2, <1>3 DEF X86Answer
<1>5. data.vendor = raw.vendor /\ data'.arch = "x86" /\ data'.vendor = data.vendor
  BY <1>1, <1>2, DecodedFields DEF Fields, CpuIdConstructor
<1>6. Answer(data', raw, host)
  BY <1>2, <1>4, <1>5 DEF Answer
<1>7. QED
  BY <1>1, <1>2, <1>5, <1>6, ReturnsX86

-----------------------------------------------------------------------------
(* The steps of an ARM CPU. *)

LEMMA ArmBasicFields ==
  ASSUME NEW r
  PROVE  /\ DOMAIN ArmBasic(r) = Fields /\ ArmBasic(r).arch = r.arch
         /\ ArmBasic(r) = [f \in Fields |-> ArmBasic(r)[f]]
         /\ ArmBasic(r).purpose = r.purpose
<1>1. DOMAIN ArmBasic(r) = Fields /\ ArmBasic(r).arch = r.arch
  BY DEF ArmBasic, Constructed, CpuIdConstructor, Fields
<1>2. ArmBasic(r) = [f \in DOMAIN ArmBasic(r) |-> ArmBasic(r)[f]]
  BY DEF ArmBasic
<1>3. ArmBasic(r).purpose = r.purpose
  BY DEF ArmBasic, Constructed, CpuIdConstructor
<1>4. QED
  BY <1>1, <1>2, <1>3

LEMMA SetFields ==
  ASSUME NEW d, DOMAIN d = Fields, NEW x
  PROVE  /\ DOMAIN [d EXCEPT !.flags = x] = Fields
         /\ [d EXCEPT !.flags = x].flags = x
         /\ [d EXCEPT !.flags = x].arch = d.arch /\ [d EXCEPT !.flags = x].purpose = d.purpose
         /\ DOMAIN [d EXCEPT !.level = x] = Fields
         /\ [d EXCEPT !.level = x].arch = d.arch /\ [d EXCEPT !.level = x].purpose = d.purpose
BY DEF Fields, CpuIdConstructor

LEMMA SetTwice ==
  ASSUME NEW d, NEW x, NEW y
  PROVE  [[d EXCEPT !.flags = x] EXCEPT !.flags = y] = [d EXCEPT !.flags = y]
OBVIOUS

LEMMA LevelTwice ==
  ASSUME NEW d, NEW x, NEW y
  PROVE  [[d EXCEPT !.level = x] EXCEPT !.level = y] = [d EXCEPT !.level = y]
OBVIOUS

LEMMA SameFlags ==
  ASSUME NEW d, d = [f \in Fields |-> d[f]], NEW c, d.flags = c
  PROVE  [d EXCEPT !.flags = c] = d
BY DEF Fields, CpuIdConstructor

Sizes(s) == [v \in Versions |-> Cardinality(s[v])]

(* Counting one more counts the number of the feature that is counted.     *)
LEMMA SizesNext ==
  ASSUME NEW n \in Nat, NEW s \in [Versions -> SUBSET (1 .. n)], NEW t, NEW v \in Versions
  PROVE  /\ t[v] = s[v] => Sizes(t)[v] = Sizes(s)[v]
         /\ t[v] = s[v] \union {n + 1} => Sizes(t)[v] = Sizes(s)[v] + 1
<1>1. s[v] \subseteq 1 .. n
  OBVIOUS
<1>2. IsFiniteSet(s[v]) /\ n + 1 \notin s[v]
  <2>1. IsFiniteSet(1 .. n)
    BY FS_Interval
  <2>2. QED
    BY <1>1, <2>1, FS_Subset
<1>3. Cardinality(s[v] \union {n + 1}) = Cardinality(s[v]) + 1
  BY <1>2, FS_CardinalityType, FS_AddElement
<1>4. QED
  BY <1>3 DEF Sizes

LEMMA PresentNext ==
  ASSUME NEW r, NEW n \in Nat
  PROVE  PresentUpTo(r, n + 1) =
           IF IsPresent(r, FeatureMap[n + 1]) THEN PresentUpTo(r, n) \union {n + 1}
           ELSE PresentUpTo(r, n)
<1>1. 1 .. n + 1 = (1 .. n) \union {n + 1}
  OBVIOUS
<1>2. QED
  BY <1>1 DEF PresentUpTo

LEMMA FlagsNext ==
  ASSUME NEW r, NEW n \in Nat
  PROVE  ArmFlags(r, n + 1) =
           SetFlag(ArmFlags(r, n), FeatureMap[n + 1].feature, IsPresent(r, FeatureMap[n + 1]))
<1>1. CASE IsPresent(r, FeatureMap[n + 1])
  <2>1. PresentUpTo(r, n + 1) = PresentUpTo(r, n) \union {n + 1}
    BY <1>1, PresentNext
  <2>2. QED
    BY <1>1, <2>1 DEF ArmFlags, SetFlag
<1>2. CASE ~IsPresent(r, FeatureMap[n + 1])
  <2>1. PresentUpTo(r, n + 1) = PresentUpTo(r, n)
    BY <1>2, PresentNext
  <2>2. QED
    BY <1>2, <2>1 DEF ArmFlags, SetFlag
<1>3. QED
  BY <1>1, <1>2

LEMMA CountsNext ==
  ASSUME NEW r, NEW n \in Nat
  PROVE  CountsUpTo(r, n + 1) =
           SetStatus(CountsUpTo(r, n), IsPresent(r, FeatureMap[n + 1]),
                     FeatureMap[n + 1].optional, FeatureMap[n + 1].mandatory)
<1> DEFINE f  == FeatureMap[n + 1]
           is == IsPresent(r, f)
           all(m)   == 1 .. m
           found(m) == PresentUpTo(r, m)
           o1(m) == [v \in Versions |-> OptionalFrom(all(m), v)]
           m1(m) == [v \in Versions |-> RequiredFrom(all(m), v)]
           o2(m) == [v \in Versions |-> OptionalFrom(found(m), v)]
           m2(m) == [v \in Versions |-> RequiredFrom(Optional(found(m)), v)]
<1>0. n \in Nat
  OBVIOUS
<1>1. is \in BOOLEAN /\ (is /\ f.optional # NoVersion) \in BOOLEAN /\ TRUE \in BOOLEAN
  BY DEF IsPresent
<1>2. all(n + 1) = all(n) \union {n + 1}
  OBVIOUS
<1>3. found(n + 1) = IF is THEN found(n) \union {n + 1} ELSE found(n)
  BY PresentNext
<1>4. /\ all(n) \subseteq 1 .. n /\ found(n) \subseteq 1 .. n
      /\ o1(n) \in [Versions -> SUBSET (1 .. n)] /\ m1(n) \in [Versions -> SUBSET (1 .. n)]
      /\ o2(n) \in [Versions -> SUBSET (1 .. n)] /\ m2(n) \in [Versions -> SUBSET (1 .. n)]
  BY DEF PresentUpTo, OptionalFrom, RequiredFrom, Optional
<1> HIDE DEF is, all, found
<1>5. Bump(Sizes(o1(n)), f.optional, TRUE) = Sizes(o1(n + 1))
  <2> DEFINE s == o1(n)
             t == o1(n + 1)
             w == f.optional
  <2>1. \A v \in Versions : /\ v = w => t[v] = s[v] \union {n + 1}
                            /\ ~(v = w) => t[v] = s[v]
    BY <1>2 DEF OptionalFrom
  <2>2. s \in [Versions -> SUBSET (1 .. n)]
    BY <1>4
  <2> HIDE DEF s, t, w
  <2>3. \A v \in Versions : /\ v = w => Sizes(t)[v] = Sizes(s)[v] + 1
                            /\ ~(v = w) => Sizes(t)[v] = Sizes(s)[v]
    BY ONLY <1>0, <2>1, <2>2, SizesNext
  <2>4. Bump(Sizes(s), w, TRUE) =
          [v \in Versions |-> IF v = w THEN Sizes(s)[v] + 1 ELSE Sizes(s)[v]]
    BY DEF Bump, Sizes
  <2>5. Sizes(t) = [v \in Versions |-> Sizes(t)[v]]
    BY DEF Sizes
  <2>6. Bump(Sizes(s), w, TRUE) = Sizes(t)
    BY ONLY <2>3, <2>4, <2>5
  <2>7. QED
    BY <2>6 DEF s, t, w
<1>6. Bump(Sizes(m1(n)), f.mandatory, TRUE) = Sizes(m1(n + 1))
  <2> DEFINE s == m1(n)
             t == m1(n + 1)
             w == f.mandatory
  <2>1. \A v \in Versions : /\ v = w => t[v] = s[v] \union {n + 1}
                            /\ ~(v = w) => t[v] = s[v]
    BY <1>2 DEF RequiredFrom
  <2>2. s \in [Versions -> SUBSET (1 .. n)]
    BY <1>4
  <2> HIDE DEF s, t, w
  <2>3. \A v \in Versions : /\ v = w => Sizes(t)[v] = Sizes(s)[v] + 1
                            /\ ~(v = w) => Sizes(t)[v] = Sizes(s)[v]
    BY ONLY <1>0, <2>1, <2>2, SizesNext
  <2>4. Bump(Sizes(s), w, TRUE) =
          [v \in Versions |-> IF v = w THEN Sizes(s)[v] + 1 ELSE Sizes(s)[v]]
    BY DEF Bump, Sizes
  <2>5. Sizes(t) = [v \in Versions |-> Sizes(t)[v]]
    BY DEF Sizes
  <2>6. Bump(Sizes(s), w, TRUE) = Sizes(t)
    BY ONLY <2>3, <2>4, <2>5
  <2>7. QED
    BY <2>6 DEF s, t, w
<1>7. Bump(Sizes(o2(n)), f.optional, is) = Sizes(o2(n + 1))
  <2> DEFINE s == o2(n)
             t == o2(n + 1)
             w == f.optional
  <2>1. \A v \in Versions : /\ is /\ v = w => t[v] = s[v] \union {n + 1}
                            /\ ~(is /\ v = w) => t[v] = s[v]
    BY <1>1, <1>3 DEF OptionalFrom
  <2>2. s \in [Versions -> SUBSET (1 .. n)]
    BY <1>4
  <2> HIDE DEF s, t, w
  <2>3. \A v \in Versions : /\ is /\ v = w => Sizes(t)[v] = Sizes(s)[v] + 1
                            /\ ~(is /\ v = w) => Sizes(t)[v] = Sizes(s)[v]
    BY ONLY <1>0, <2>1, <2>2, SizesNext
  <2>4. Bump(Sizes(s), w, is) =
          [v \in Versions |-> IF is /\ v = w THEN Sizes(s)[v] + 1 ELSE Sizes(s)[v]]
    BY DEF Bump, Sizes
  <2>5. Sizes(t) = [v \in Versions |-> Sizes(t)[v]]
    BY DEF Sizes
  <2>6. Bump(Sizes(s), w, is) = Sizes(t)
    BY ONLY <2>3, <2>4, <2>5
  <2>7. QED
    BY <2>6 DEF s, t, w
<1>8. Bump(Sizes(m2(n)), f.mandatory, is /\ f.optional # NoVersion) = Sizes(m2(n + 1))
  <2> DEFINE s == m2(n)
             t == m2(n + 1)
             w == f.mandatory
  <2>1. \A v \in Versions : /\ is /\ f.optional # NoVersion /\ v = w => t[v] = s[v] \union {n + 1}
                            /\ ~(is /\ f.optional # NoVersion /\ v = w) => t[v] = s[v]
    BY <1>1, <1>3 DEF RequiredFrom, Optional
  <2>2. s \in [Versions -> SUBSET (1 .. n)]
    BY <1>4
  <2> HIDE DEF s, t, w
  <2>3. \A v \in Versions : /\ is /\ f.optional # NoVersion /\ v = w => Sizes(t)[v] = Sizes(s)[v] + 1
                            /\ ~(is /\ f.optional # NoVersion /\ v = w) => Sizes(t)[v] = Sizes(s)[v]
    BY ONLY <1>0, <2>1, <2>2, SizesNext
  <2>4. Bump(Sizes(s), w, is /\ f.optional # NoVersion) =
          [v \in Versions |-> IF is /\ f.optional # NoVersion /\ v = w THEN Sizes(s)[v] + 1 ELSE Sizes(s)[v]]
    BY DEF Bump, Sizes
  <2>5. Sizes(t) = [v \in Versions |-> Sizes(t)[v]]
    BY DEF Sizes
  <2>6. Bump(Sizes(s), w, is /\ f.optional # NoVersion) = Sizes(t)
    BY ONLY <2>3, <2>4, <2>5
  <2>7. QED
    BY <2>6 DEF s, t, w
<1>9. \A m : CountsUpTo(r, m) =
        [total   |-> [optional |-> Sizes(o1(m)), mandatory |-> Sizes(m1(m))],
         present |-> [optional |-> Sizes(o2(m)), mandatory |-> Sizes(m2(m))]]
  BY DEF CountsUpTo, Sizes, all, found
<1> HIDE DEF o1, m1, o2, m2, f
<1>10. CountsUpTo(r, n + 1) = SetStatus(CountsUpTo(r, n), is, f.optional, f.mandatory)
  <2> DEFINE c == CountsUpTo(r, n)
  <2>1. /\ c.total.optional = Sizes(o1(n)) /\ c.total.mandatory = Sizes(m1(n))
        /\ c.present.optional = Sizes(o2(n)) /\ c.present.mandatory = Sizes(m2(n))
    BY <1>9
  <2>2. SetStatus(c, is, f.optional, f.mandatory) =
          [total   |-> [optional  |-> Bump(Sizes(o1(n)), f.optional, TRUE),
                        mandatory |-> Bump(Sizes(m1(n)), f.mandatory, TRUE)],
           present |-> [optional  |-> Bump(Sizes(o2(n)), f.optional, is),
                        mandatory |-> Bump(Sizes(m2(n)), f.mandatory, is /\ f.optional # NoVersion)]]
    BY <2>1, Zenon DEF SetStatus
  <2>3. QED
    BY <1>5, <1>6, <1>7, <1>8, <1>9, <2>2, Zenon
<1>11. QED
  BY <1>10 DEF is, f

LEMMA CountsStart ==
  ASSUME NEW r
  PROVE  CountsUpTo(r, 0) = NoCounts /\ ArmFlags(r, 0) = ArmBasic(r).flags
<1>1. PresentUpTo(r, 0) = {} /\ 1 .. 0 = {}
  BY DEF PresentUpTo
<1>2. \A v : /\ OptionalFrom({}, v) = {} /\ RequiredFrom({}, v) = {}
             /\ RequiredFrom(Optional({}), v) = {}
  BY DEF OptionalFrom, RequiredFrom, Optional
<1>3. Cardinality({}) = 0
  BY FS_EmptySet
<1>4. CountsUpTo(r, 0) = NoCounts
  BY <1>1, <1>2, <1>3 DEF CountsUpTo, NoCounts
<1>5. ArmFlags(r, 0) = ArmBasic(r).flags
  BY <1>1 DEF ArmFlags
<1>6. QED
  BY <1>4, <1>5

(* The loop over the versions ends at one of them. *)
LEMMA ReachedIs ==
  ASSUME NEW e, NEW n \in Nat, Complete(e, n), StopsAt(e, n + 1)
  PROVE  Reached(e) = n
<1> DEFINE S == 0 .. Len(VersionList(e))
<1>1. n \in S
  <2>1. Len(VersionList(e)) \in Nat
    BY ListIsWellFormed
  <2>2. n # 0 => ~StopsAt(e, n)
    BY DEF Complete
  <2>3. n # 0 => n <= Len(VersionList(e))
    BY <2>2 DEF StopsAt
  <2>4. QED
    BY <2>1, <2>3
<1>2. \A m \in S : Complete(e, m) /\ StopsAt(e, m + 1) => m = n
  <2> SUFFICES ASSUME NEW m \in S, Complete(e, m), StopsAt(e, m + 1), m # n PROVE FALSE
    OBVIOUS
  <2>1. m < n => m + 1 \in 1 .. n
    OBVIOUS
  <2>2. n < m => n + 1 \in 1 .. m
    OBVIOUS
  <2>3. QED
    BY <2>1, <2>2 DEF Complete
<1>3. QED
  BY <1>1, <1>2 DEF Reached

(* Where a step goes on with an ARM CPU, nothing has been returned yet.    *)
LEMMA StillArm ==
  ASSUME AnswerInv, UNCHANGED <<raw, host, internal, last>>, pc \in ArmSteps, pc' \in ArmSteps
  PROVE  X86Inv' /\ MaskInv' /\ ReturnInv'
<1>1. X86Inv'
  BY DEF AnswerInv, X86Inv, X86Steps, ArmSteps
<1>2. MaskInv'
  BY DEF AnswerInv, MaskInv, DoneX86, Done, ArmSteps
<1>3. ReturnInv'
  BY DEF AnswerInv, ReturnInv, Done, ArmSteps
<1>4. QED
  BY <1>1, <1>2, <1>3

LEMMA ReturnsArm ==
  ASSUME AnswerInv, UNCHANGED <<raw, host, internal, last>>, pc \in ArmSteps,
         pc' = "returned", ret' = "ERR_OK", data'.arch = "arm", data' = ArmAnswer(raw)
  PROVE  X86Inv' /\ MaskInv' /\ ArmInv' /\ ReturnInv'
<1>1. X86Inv'
  BY DEF AnswerInv, X86Inv, X86Steps
<1>2. ~DoneX86'
  BY DEF DoneX86, Done
<1>3. MaskInv'
  BY <1>2 DEF AnswerInv, MaskInv, ArmSteps
<1>4. ArmInv'
  BY DEF ArmInv, ArmSteps
<1>5. raw.arch = "arm"
  BY DEF AnswerInv, ArmInv
<1>6. ReturnInv'
  BY <1>5 DEF AnswerInv, ReturnInv, Done, Answer
<1>7. QED
  BY <1>1, <1>3, <1>4, <1>6

LEMMA ArmBasicAnswer ==
  ASSUME AnswerInv, ArmBasicIdentify, last' = last
  PROVE  X86Inv' /\ MaskInv' /\ ArmInv' /\ ReturnInv'
<1>1. /\ pc = "arm" /\ pc' = "features" /\ k' = 1 /\ ext' = NoCounts
      /\ UNCHANGED <<raw, host, internal, last>>
  BY DEF ArmBasicIdentify
<1>2. data = Constructed(raw.arch) /\ raw.arch = "arm"
  BY <1>1 DEF AnswerInv, ArmInv, ArmSteps
<1>3. data' = ArmBasic(raw)
  BY <1>2 DEF ArmBasicIdentify, ArmBasic
<1>4. data' = [ArmBasic(raw) EXCEPT !.flags = ArmFlags(raw, 0)]
  <2>1. ArmFlags(raw, 0) = ArmBasic(raw).flags
    BY CountsStart
  <2>2. QED
    BY <1>3, <2>1, ArmBasicFields, SameFlags
<1>5. k' - 1 = 0 /\ k' \in 1 .. Len(FeatureMap) + 1
  BY <1>1, FeatureMapIsList
<1>6. ext' = CountsUpTo(raw, 0)
  BY <1>1, CountsStart
<1>7. ArmInv'
  BY <1>1, <1>2, <1>4, <1>5, <1>6 DEF ArmInv
<1>8. QED
  BY <1>1, <1>7, StillArm DEF ArmSteps

LEMMA MatchFeatureAnswer ==
  ASSUME AnswerInv, MatchFeature, last' = last
  PROVE  X86Inv' /\ MaskInv' /\ ArmInv' /\ ReturnInv'
<1> DEFINE f  == FeatureMap[k]
           is == IsPresent(raw, f)
           b  == ArmBasic(raw)
<1>1. /\ pc = "features" /\ pc' = "features" /\ k <= Len(FeatureMap) /\ k' = k + 1
      /\ ext' = SetStatus(ext, is, f.optional, f.mandatory)
      /\ data' = [data EXCEPT !.flags = SetFlag(@, f.feature, is)]
      /\ UNCHANGED <<raw, host, internal, last>>
  BY DEF MatchFeature
<1>2. /\ raw.arch = "arm" /\ k \in 1 .. Len(FeatureMap) + 1
      /\ data = [b EXCEPT !.flags = ArmFlags(raw, k - 1)]
      /\ ext = CountsUpTo(raw, k - 1)
  BY <1>1 DEF AnswerInv, ArmInv, ArmSteps
<1>3. PICK n \in Nat : k = n + 1
  <2>1. k \in 1 .. Len(FeatureMap) + 1 /\ Len(FeatureMap) \in Nat
    BY <1>2, FeatureMapIsList
  <2>2. k - 1 \in Nat /\ k = (k - 1) + 1
    BY ONLY <2>1
  <2>3. QED
    BY ONLY <2>2
<1>4. k - 1 = n /\ k' - 1 = n + 1 /\ k' \in 1 .. Len(FeatureMap) + 1
  BY <1>1, <1>2, <1>3, FeatureMapIsList
<1>5. ext' = CountsUpTo(raw, n + 1)
  <2>1. ext = CountsUpTo(raw, n) /\ f = FeatureMap[n + 1]
    BY <1>2, <1>3, <1>4
  <2>2. QED
    BY <1>1, <2>1, CountsNext
<1>6. data' = [b EXCEPT !.flags = ArmFlags(raw, n + 1)]
  <2>1. data = [b EXCEPT !.flags = ArmFlags(raw, n)]
    BY <1>2, <1>4
  <2>2. data.flags = ArmFlags(raw, n)
    BY <2>1, ArmBasicFields, SetFields
  <2>3. SetFlag(data.flags, f.feature, is) = ArmFlags(raw, n + 1)
    BY <1>3, <2>2, FlagsNext
  <2>4. data' = [data EXCEPT !.flags = ArmFlags(raw, n + 1)]
    BY <1>1, <2>3
  <2> HIDE DEF b
  <2>5. QED
    BY <2>1, <2>4, SetTwice
<1> HIDE DEF b
<1>7. ArmInv'
  BY <1>1, <1>2, <1>4, <1>5, <1>6 DEF ArmInv, b
<1>8. QED
  BY <1>1, <1>7, StillArm DEF ArmSteps

LEMMA ArmAllFields ==
  ASSUME NEW r
  PROVE  /\ DOMAIN ArmAll(r) = Fields /\ ArmAll(r).arch = r.arch /\ ArmAll(r).purpose = r.purpose
         /\ DOMAIN ArmAnswer(r) = Fields /\ ArmAnswer(r).arch = r.arch
         /\ ArmAnswer(r).purpose = r.purpose
<1>1. /\ DOMAIN ArmAll(r) = Fields /\ ArmAll(r).arch = r.arch /\ ArmAll(r).purpose = r.purpose
  BY ArmBasicFields, SetFields DEF ArmAll
<1>2. CASE r.midr = "by-cpuid"
  <2>1. ArmAnswer(r) = [ArmAll(r) EXCEPT !.level = LevelOf(r)]
    BY <1>2 DEF ArmAnswer
  <2>2. QED
    BY <1>1, <2>1, SetFields
<1>3. CASE r.midr # "by-cpuid"
  BY <1>1, <1>3 DEF ArmAnswer
<1>4. QED
  BY <1>2, <1>3

LEMMA SpecialAnswer ==
  ASSUME AnswerInv, MatchSpecialFeatures, last' = last
  PROVE  X86Inv' /\ MaskInv' /\ ArmInv' /\ ReturnInv'
<1> DEFINE b == ArmBasic(raw)
           N == Len(FeatureMap)
<1>1. /\ pc = "features" /\ k > N
      /\ data' = [data EXCEPT !.flags = SpecialFlags(raw, @)]
      /\ ext' = WithMte(WithMpam(WithPauth(ext, data.flags), raw), raw,
                        data.flags \union MteFlags(raw))
      /\ \/ raw.midr = "by-cpuid" /\ pc' = "version"
         \/ raw.midr # "by-cpuid" /\ pc' = "returned" /\ ret' = "ERR_OK"
      /\ UNCHANGED <<raw, host, internal, last>>
  BY DEF MatchSpecialFeatures, Return
<1>2. /\ raw.arch = "arm" /\ k \in 1 .. N + 1
      /\ data = [b EXCEPT !.flags = ArmFlags(raw, k - 1)]
      /\ ext = CountsUpTo(raw, k - 1)
  BY <1>1 DEF AnswerInv, ArmInv, ArmSteps
<1>3. k - 1 = N
  BY <1>1, <1>2, FeatureMapIsList
<1>4. data = [b EXCEPT !.flags = AllFlags(raw)] /\ ext = CountsUpTo(raw, N)
  BY <1>2, <1>3 DEF AllFlags
<1>5. data.flags = AllFlags(raw)
  BY <1>4, ArmBasicFields, SetFields
<1>6. data' = ArmAll(raw)
  <2>1. data' = [data EXCEPT !.flags = SpecialFlags(raw, AllFlags(raw))]
    BY <1>1, <1>5
  <2> HIDE DEF b
  <2>2. data' = [b EXCEPT !.flags = SpecialFlags(raw, AllFlags(raw))]
    BY <1>4, <2>1, SetTwice
  <2>3. QED
    BY <2>2 DEF ArmAll, b
<1>7. ext' = ArmCounts(raw)
  BY <1>1, <1>4, <1>5 DEF ArmCounts
<1>8. CASE pc' = "version"
  <2>1. ArmInv'
    BY <1>1, <1>2, <1>6, <1>7, <1>8 DEF ArmInv
  <2>2. QED
    BY <1>1, <1>8, <2>1, StillArm DEF ArmSteps
<1>9. CASE pc' = "returned"
  <2>1. raw.midr # "by-cpuid" /\ ret' = "ERR_OK"
    BY <1>1, <1>9
  <2>2. data' = ArmAnswer(raw) /\ data'.arch = "arm"
    BY <1>2, <1>6, <2>1, ArmAllFields DEF ArmAnswer
  <2>3. QED
    BY <1>1, <1>9, <2>1, <2>2, ReturnsArm DEF ArmSteps
<1>10. QED
  BY <1>1, <1>8, <1>9

LEMMA ByProfileAnswer ==
  ASSUME AnswerInv, VersionByProfile, last' = last
  PROVE  X86Inv' /\ MaskInv' /\ ArmInv' /\ ReturnInv'
<1>1. /\ pc = "version" /\ k' = 1
      /\ data' = [data EXCEPT !.level = ProfileVersion(raw)]
      /\ \/ ProfileVersion(raw) = "unknown" /\ pc' = "versions"
         \/ ProfileVersion(raw) # "unknown" /\ pc' = "returned" /\ ret' = "ERR_OK"
      /\ UNCHANGED <<raw, host, internal, ext, last>>
  BY DEF VersionByProfile, Return
<1>2. /\ raw.arch = "arm" /\ raw.midr = "by-cpuid" /\ ext = ArmCounts(raw) /\ data = ArmAll(raw)
  BY <1>1 DEF AnswerInv, ArmInv, ArmSteps
<1>3. CASE pc' = "versions"
  <2>1. ProfileVersion(raw) = "unknown"
    BY <1>1, <1>3
  <2>2. k' - 1 = 0 /\ k' \in Nat \ {0}
    BY <1>1
  <2>3. data' = [ArmAll(raw) EXCEPT !.level = ReachedLevel(ext', 0)]
    BY <1>1, <1>2, <2>1 DEF ReachedLevel
  <2>4. Complete(ext', 0)
    BY DEF Complete
  <2>5. ArmInv'
    BY <1>1, <1>2, <1>3, <2>1, <2>2, <2>3, <2>4 DEF ArmInv
  <2>6. QED
    BY <1>1, <1>3, <2>5, StillArm DEF ArmSteps
<1>4. CASE pc' = "returned"
  <2>1. ProfileVersion(raw) # "unknown" /\ ret' = "ERR_OK"
    BY <1>1, <1>4
  <2>2. data' = ArmAnswer(raw)
    BY <1>1, <1>2, <2>1 DEF ArmAnswer, LevelOf
  <2>3. data'.arch = "arm"
    BY <1>2, <2>2, ArmAllFields
  <2>4. QED
    BY <1>1, <1>4, <2>1, <2>2, <2>3, ReturnsArm DEF ArmSteps
<1>5. QED
  BY <1>1, <1>3, <1>4

LEMMA NextVersionAnswer ==
  ASSUME AnswerInv, NextVersion, last' = last
  PROVE  X86Inv' /\ MaskInv' /\ ArmInv' /\ ReturnInv'
<1>1. /\ pc = "versions" /\ pc' = "versions" /\ k' = k + 1 /\ ~StopsAt(ext, k)
      /\ data' = [data EXCEPT !.level = VersionList(ext)[k]]
      /\ UNCHANGED <<raw, host, internal, ext, last>>
  BY DEF NextVersion, EndOfVersions, StopsAt
<1>2. /\ raw.arch = "arm" /\ raw.midr = "by-cpuid" /\ ext = ArmCounts(raw)
      /\ k \in Nat \ {0} /\ Complete(ext, k - 1) /\ ProfileVersion(raw) = "unknown"
      /\ data = [ArmAll(raw) EXCEPT !.level = ReachedLevel(ext, k - 1)]
  BY <1>1 DEF AnswerInv, ArmInv, ArmSteps
<1>3. k' \in Nat \ {0} /\ k' - 1 = k
  BY <1>1, <1>2
<1>4. Complete(ext, k)
  <2>1. \A i \in 1 .. k : i \in 1 .. k - 1 \/ i = k
    BY <1>2
  <2>2. QED
    BY <1>1, <1>2, <2>1 DEF Complete
<1>5. data' = [ArmAll(raw) EXCEPT !.level = ReachedLevel(ext, k)]
  <2>1. ReachedLevel(ext, k) = VersionList(ext)[k]
    BY <1>2 DEF ReachedLevel
  <2>2. data' = [data EXCEPT !.level = ReachedLevel(ext, k)]
    BY <1>1, <2>1
  <2>3. QED
    BY <1>2, <2>2, LevelTwice
<1>6. ArmInv'
  BY <1>1, <1>2, <1>3, <1>4, <1>5 DEF ArmInv
<1>7. QED
  BY <1>1, <1>6, StillArm DEF ArmSteps

LEMMA VersionsDoneAnswer ==
  ASSUME AnswerInv, VersionsDone, last' = last
  PROVE  X86Inv' /\ MaskInv' /\ ArmInv' /\ ReturnInv'
<1>1. /\ pc = "versions" /\ pc' = "returned" /\ ret' = "ERR_OK" /\ StopsAt(ext, k)
      /\ UNCHANGED <<raw, host, data, internal, ext, last>>
  BY DEF VersionsDone, EndOfVersions, StopsAt, Return
<1>2. /\ raw.arch = "arm" /\ raw.midr = "by-cpuid" /\ ext = ArmCounts(raw)
      /\ k \in Nat \ {0} /\ Complete(ext, k - 1) /\ ProfileVersion(raw) = "unknown"
      /\ data = [ArmAll(raw) EXCEPT !.level = ReachedLevel(ext, k - 1)]
  BY <1>1 DEF AnswerInv, ArmInv, ArmSteps
<1>3. PICK n \in Nat : k = n + 1
  <2>1. k \in Nat \ {0}
    BY <1>2
  <2>2. k - 1 \in Nat /\ k = (k - 1) + 1
    BY ONLY <2>1
  <2>3. QED
    BY ONLY <2>2
<1>4. k - 1 = n
  BY <1>3
<1>5. Reached(ArmCounts(raw)) = n
  BY <1>1, <1>2, <1>3, <1>4, ReachedIs
<1>6. data = ArmAnswer(raw)
  BY <1>2, <1>4, <1>5 DEF ArmAnswer, LevelOf
<1>7. data'.arch = "arm" /\ data' = ArmAnswer(raw)
  BY <1>1, <1>2, <1>6, ArmAllFields
<1>8. QED
  BY <1>1, <1>7, ReturnsArm DEF ArmSteps

-----------------------------------------------------------------------------
(* One call after the other. *)

LEMMA CallAnswer ==
  ASSUME AnswerInv, NEW r \in RawRecords, NEW h \in Hosts, Call(r, h)
  PROVE  X86Inv' /\ MaskInv' /\ ArmInv' /\ ReturnInv'
<1>1. /\ pc = "returned" /\ raw' = r /\ host' = h /\ data' = Constructed(r.arch)
      /\ internal' = Blank
      /\ last' = IF r = raw /\ ret = "ERR_OK" THEN <<data>> ELSE <<>>
  BY DEF Call, Blank
<1>2. \/ pc' = "basic" /\ r.arch = "x86"
      \/ pc' = "arm" /\ r.arch = "arm"
      \/ pc' = "returned" /\ ret' = "ERR_CPU_UNKN"
  BY DEF Call, Return
<1>3. X86Inv'
  BY <1>1, <1>2 DEF X86Inv, X86Steps
<1>4. MaskInv'
  BY <1>1, <1>2 DEF MaskInv, DoneX86, Done, ArmSteps
<1>5. ArmInv'
  BY <1>1, <1>2 DEF ArmInv, ArmSteps
<1>6. last' # <<>> => \E g \in Hosts : Answer(last'[1], raw', g)
  <2>1. SUFFICES ASSUME r = raw /\ ret = "ERR_OK"
                 PROVE  \E g \in Hosts : Answer(last'[1], raw', g)
    BY <1>1
  <2>2. Answer(data, raw, host) /\ host \in Hosts
    BY <1>1, <2>1 DEF AnswerInv, ReturnInv, X86Inv, Done
  <2>3. last'[1] = data
    BY <1>1, <2>1
  <2>4. QED
    BY <1>1, <2>1, <2>2, <2>3
<1>7. ReturnInv'
  BY <1>1, <1>2, <1>6 DEF ReturnInv, Done
<1>8. QED
  BY <1>3, <1>4, <1>5, <1>7

LEMMA InitAnswer == Init => X86Inv /\ MaskInv /\ ArmInv /\ ReturnInv
BY DEF Init, X86Inv, MaskInv, ArmInv, ReturnInv, X86Steps, ArmSteps, DoneX86, Done, Blank

LEMMA StepAnswer == AnswerInv /\ Matching /\ [Next]_vars => AnswerInv'
<1> SUFFICES ASSUME AnswerInv, Matching, [Next]_vars PROVE AnswerInv'
  OBVIOUS
<1> DEFINE Parts == X86Inv /\ MaskInv /\ ArmInv /\ ReturnInv
<1>1. ASSUME NextX86, last' = last PROVE Parts'
  <2>1. CASE UnknownVendor BY <1>1, <2>1, UnknownVendorAnswer
  <2>2. CASE BasicIdentify BY <1>1, <2>2, BasicIdentifyAnswer
  <2>3. CASE NoRoutine BY <1>1, <2>3, NoRoutineAnswer
  <2>4. CASE VendorIdentify BY <1>1, <2>4, VendorIdentifyAnswer
  <2>5. CASE DecodeCache BY <1>1, <2>5, DecodeCacheAnswer
  <2>6. CASE CachesDone BY <1>1, <2>6, CachesDoneAnswer
  <2>7. CASE DecodeCores BY <1>1, <2>7, DecodeCoresAnswer
  <2>8. CASE DecodeLevel BY <1>1, <2>8, DecodeLevelAnswer
  <2>9. CASE MatchEntry BY <1>1, <2>9, MatchEntryAnswer
  <2>10. CASE Matched BY <1>1, <2>10, MatchedAnswer
  <2>11. CASE CountSection BY <1>1, <2>11, CountSectionAnswer
  <2>12. CASE SectionsDone BY <1>1, <2>12, SectionsDoneAnswer
  <2>13. CASE DivideByZero BY <1>1, <2>13, DivideByZeroAnswer
  <2>14. QED
    BY <1>1, <2>1, <2>2, <2>3, <2>4, <2>5, <2>6, <2>7, <2>8, <2>9, <2>10, <2>11, <2>12, <2>13
    DEF NextX86
<1>2. ASSUME NextArm, last' = last PROVE Parts'
  <2>1. CASE ArmBasicIdentify BY <1>2, <2>1, ArmBasicAnswer
  <2>2. CASE MatchFeature BY <1>2, <2>2, MatchFeatureAnswer
  <2>3. CASE MatchSpecialFeatures BY <1>2, <2>3, SpecialAnswer
  <2>4. CASE VersionByProfile BY <1>2, <2>4, ByProfileAnswer
  <2>5. CASE NextVersion BY <1>2, <2>5, NextVersionAnswer
  <2>6. CASE VersionsDone BY <1>2, <2>6, VersionsDoneAnswer
  <2>7. QED
    BY <1>2, <2>1, <2>2, <2>3, <2>4, <2>5, <2>6 DEF NextArm
<1>3. ASSUME NEW r \in RawRecords, NEW h \in Hosts, Call(r, h) PROVE AnswerInv'
  BY <1>3, CallAnswer, CallSteps DEF AnswerInv
<1>4. CASE UNCHANGED vars
  <2>1. UNCHANGED <<pc, raw, host, data, internal, k, ext, ret, last>>
    BY <1>4 DEF vars
  <2>2. StepsOfArch'
    BY <2>1 DEF AnswerInv, StepsOfArch
  <2>3. X86Inv'
    BY <2>1 DEF AnswerInv, X86Inv
  <2>4. MaskInv'
    BY <2>1 DEF AnswerInv, MaskInv, DoneX86, Done
  <2>5. ArmInv'
    BY <2>1 DEF AnswerInv, ArmInv
  <2>6. ReturnInv'
    BY <2>1 DEF AnswerInv, ReturnInv, Done
  <2>7. QED
    BY <2>2, <2>3, <2>4, <2>5, <2>6 DEF AnswerInv
<1>5. CASE Run
  <2>1. last' = last /\ (NextX86 \/ NextArm)
    BY <1>5 DEF Run
  <2>2. StepsOfArch'
    BY <2>1, X86StepsKeep, ArmStepsKeep DEF AnswerInv
  <2>3. Parts'
    BY <1>1, <1>2, <2>1
  <2>4. QED
    BY <2>2, <2>3 DEF AnswerInv
<1>6. QED
  BY <1>3, <1>4, <1>5 DEF Next

(* What cpu_ident_internal leaves in data is a function of the record, and *)
(* of the machine it runs on for the number of CPUs and the EPC sections   *)
(* the record does not hold: it is the answer of Answer, at whatever point *)
(* of whatever sequence of calls it returns.                               *)
THEOREM AnswerInvariance == Spec => []AnswerInv
<1>1. Init => AnswerInv
  BY InitAnswer, InitSteps DEF AnswerInv
<1>2. IInv /\ AnswerInv /\ [Next]_vars => AnswerInv'
  BY StepAnswer DEF IInv
<1>3. QED
  BY <1>1, <1>2, IdentInvariant, PTL DEF Spec

-----------------------------------------------------------------------------
(* What follows from the answer. *)

(* An x86 CPU whose vendor has a routine.                                  *)
LEMMA X86Answered ==
  ASSUME AnswerInv, DoneX86
  PROVE  /\ raw \in RawRecords /\ raw.arch = "x86" /\ Routine(raw.vendor) # "none"
         /\ data.vendor = raw.vendor
         /\ data.flags = Decoded(raw, host).flags
         /\ data.purpose = Decoded(raw, host).purpose
<1> DEFINE d == NamedOf(raw, host)
<1>1. /\ raw \in RawRecords /\ Answer(data, raw, host)
      /\ data.arch = "x86" /\ Routine(data.vendor) # "none"
  BY DEF AnswerInv, X86Inv, ReturnInv, DoneX86
<1>2. /\ DOMAIN d = Fields /\ d.vendor = raw.vendor /\ d.flags = Decoded(raw, host).flags
      /\ d.purpose = Decoded(raw, host).purpose
  BY DecodedFields DEF Fields, CpuIdConstructor
<1>3. CASE raw.arch = "x86" /\ Routine(raw.vendor) = "none" /\ data = Basic(raw, host)
  <2>1. data.vendor = raw.vendor
    BY <1>3, BasicFields
  <2>2. QED
    BY <1>1, <1>3, <2>1
<1>4. CASE raw.arch = "x86" /\ Routine(raw.vendor) # "none" /\ X86Answer(data, raw, host)
  <2>1. data = d \/ \E n \in 0 .. EpcBound : data = [d EXCEPT !.epc = n]
    BY <1>4 DEF X86Answer
  <2> HIDE DEF d
  <2>2. data.vendor = d.vendor /\ data.flags = d.flags /\ data.purpose = d.purpose
    BY <1>2, <2>1 DEF Fields, CpuIdConstructor
  <2>3. QED
    BY <1>1, <1>2, <1>4, <2>2
<1>5. CASE raw.arch = "arm" /\ data = ArmAnswer(raw)
  <2>1. data.arch = "arm"
    BY <1>5, ArmAllFields
  <2>2. QED
    BY <1>1, <2>1
<1>6. QED
  BY <1>1, <1>3, <1>4, <1>5 DEF Answer

LEMMA LeavesAreLeaves ==
  ASSUME NEW r \in RawRecords, r.arch = "x86"
  PROVE  /\ CacheLeaves(r) \in Seq(CacheLeaf)
         /\ Len(CacheLeaves(r)) \in Nat /\ DOMAIN CacheLeaves(r) = 1 .. Len(CacheLeaves(r))
         /\ \A i \in DOMAIN CacheLeaves(r) : CacheLeaves(r)[i] \in CacheLeaf
<1>1. CacheLeaves(r) \in Seq(CacheLeaf)
  BY RecordsAssumption DEF CacheLeaves
<1>2. QED
  BY <1>1

(* Nothing of an earlier call is left in data or in the cache masks, and   *)
(* an unknown CPU leaves both as they were constructed.                    *)
THEOREM NothingEverLeftOver == Spec => [](NothingLeftOver)
<1>1. ASSUME AnswerInv PROVE NothingLeftOver
  <2>1. ASSUME pc = "returned" /\ ret = "ERR_CPU_UNKN"
        PROVE  data = [CpuIdConstructor EXCEPT !.arch = raw.arch] /\ internal.mask = NoMasks
    <3>1. data = Constructed(raw.arch)
      BY <1>1, <2>1 DEF AnswerInv, ReturnInv
    <3>2. internal = Blank
      BY <1>1, <2>1 DEF AnswerInv, MaskInv, DoneX86, Done
    <3>3. QED
      BY <3>1, <3>2 DEF Constructed, Blank
  <2>2. ASSUME DoneX86 PROVE data.flags \subseteq raw.bits
    BY <1>1, <2>2, X86Answered, DecodedFields
  <2>3. ASSUME pc = "returned", NEW i \in 0 .. 4, internal.mask[i] # NoMask
        PROVE  /\ ListsCaches(raw)
               /\ i + 1 \in DOMAIN CacheLeaves(raw) /\ CacheKind(CacheLeaves(raw)[i + 1]) # ""
    <3>1. internal # Blank
      BY <2>3 DEF Blank, NoMasks
    <3>2. DoneX86 \/ ret = "SIGFPE"
      BY <1>1, <2>3, <3>1 DEF AnswerInv, MaskInv
    <3>3. internal = InternalOf(raw) /\ Settled(raw)
      BY <1>1, <2>3, <3>2 DEF AnswerInv, MaskInv
    <3>4. ListsCaches(raw)
      BY <3>1, <3>3 DEF InternalOf
    <3>5. /\ internal = InternalUpTo(raw, NumCaches(raw))
          /\ NumCaches(raw) \in 0 .. Len(CacheLeaves(raw))
      BY <3>3, <3>4 DEF InternalOf, Settled
    <3>6. i + 1 <= NumCaches(raw) /\ CacheKind(CacheLeaves(raw)[i + 1]) # ""
      BY <2>3, <3>5 DEF InternalUpTo
    <3>7. DOMAIN CacheLeaves(raw) = 1 .. Len(CacheLeaves(raw)) /\ Len(CacheLeaves(raw)) \in Nat
      BY <1>1, <3>2, X86Answered, LeavesAreLeaves
    <3>8. i + 1 \in DOMAIN CacheLeaves(raw)
      <4>1. PICK m : m = NumCaches(raw) /\ m \in 0 .. Len(CacheLeaves(raw)) /\ i + 1 <= m
        BY <3>5, <3>6
      <4>2. i + 1 \in 1 .. Len(CacheLeaves(raw))
        BY ONLY <2>3, <3>7, <4>1
      <4>3. QED
        BY ONLY <3>7, <4>2
    <3>9. QED
      BY <3>4, <3>6, <3>8
  <2>4. QED
    BY <2>1, <2>2, <2>3 DEF NothingLeftOver, DoneX86, Done
<1>2. QED
  BY <1>1, AnswerInvariance, PTL

(* cpu_ident_internal reports the purpose by which cpu_identify_all sorts  *)
(* the CPUs, for every record but one of Hygon.                            *)
THEOREM PurposeAlwaysAgrees == Spec => [](PurposeAgrees)
<1>1. ASSUME AnswerInv, Done, data.vendor # "hygon" PROVE data.purpose = CpuIdentPurpose(raw)
  <2>1. Answer(data, raw, host)
    BY <1>1 DEF AnswerInv, ReturnInv
  <2>2. CASE raw.arch = "x86" /\ Routine(raw.vendor) = "none" /\ data = Basic(raw, host)
    <3>1. data.purpose = "general"
      BY <2>2, BasicFields
    <3>2. raw.vendor \notin {"intel", "amd"}
      BY <2>2 DEF Routine
    <3>3. QED
      BY <2>2, <3>1, <3>2 DEF CpuIdentPurpose
  <2>3. CASE raw.arch = "x86" /\ Routine(raw.vendor) # "none" /\ X86Answer(data, raw, host)
    <3>1. data.arch = "x86" /\ data.vendor = raw.vendor
      <4>1. NamedOf(raw, host).arch = "x86" /\ NamedOf(raw, host).vendor = raw.vendor
            /\ DOMAIN NamedOf(raw, host) = Fields
        BY <2>3, DecodedFields DEF Fields, CpuIdConstructor
      <4>2. \/ data = NamedOf(raw, host)
            \/ \E n \in 0 .. EpcBound : data = [NamedOf(raw, host) EXCEPT !.epc = n]
        BY <2>3 DEF X86Answer
      <4>3. QED
        BY <4>1, <4>2 DEF Fields, CpuIdConstructor
    <3>2. DoneX86
      BY <1>1, <2>3, <3>1 DEF DoneX86
    <3>3. data.purpose = Decoded(raw, host).purpose
      BY <1>1, <3>2, X86Answered
    <3>4. Decoded(raw, host).purpose = IF raw.vendor = "centaur" THEN "general" ELSE Purpose(raw)
      BY DecodedFields
    <3>5. raw.vendor \in {"intel", "amd", "centaur"}
      BY <1>1, <2>3, <3>1 DEF Routine
    <3>6. QED
      BY <2>3, <3>3, <3>4, <3>5 DEF CpuIdentPurpose
  <2>4. CASE raw.arch = "arm" /\ data = ArmAnswer(raw)
    BY <2>4, ArmAllFields DEF CpuIdentPurpose
  <2>5. QED
    BY <2>1, <2>2, <2>3, <2>4 DEF Answer
<1>2. AnswerInv => PurposeAgrees
  BY <1>1 DEF PurposeAgrees
<1>3. QED
  BY <1>2, AnswerInvariance, PTL

-----------------------------------------------------------------------------
(* The answers on two machines. *)

(* d and e say the same, but for the number of CPUs of the machine.        *)
Alike(d, e) ==
  DOMAIN d = Fields /\ DOMAIN e = Fields /\ \A f \in Fields \ {"total"} : d[f] = e[f]

LEMMA BasicAlike ==
  ASSUME NEW r, NEW g, NEW h
  PROVE  Alike(Basic(r, g), Basic(r, h))
<1>1. DOMAIN Basic(r, g) = Fields /\ DOMAIN Basic(r, h) = Fields
  BY BasicFields
<1>2. \A f \in DOMAIN CpuIdConstructor \ {"total"} : Basic(r, g)[f] = Basic(r, h)[f]
  BY DEF Basic, Constructed
<1>3. QED
  BY <1>1, <1>2 DEF Alike, Fields

LEMMA VendoredAlike ==
  ASSUME NEW r, NEW d, NEW e, Alike(d, e)
  PROVE  Alike(Vendored(d, r), Vendored(e, r))
<1> DEFINE x == Vendored(d, r)
           y == Vendored(e, r)
<1>1. /\ DOMAIN d = Fields /\ DOMAIN e = Fields
      /\ d.vendor = e.vendor /\ d.flags = e.flags /\ d.cache = e.cache
  BY DEF Alike, Fields, CpuIdConstructor
<1>2. DOMAIN x = Fields /\ DOMAIN y = Fields
  BY <1>1, VendoredRest
<1>3. \A f \in Fields \ {"flags", "cache"} : x[f] = d[f] /\ y[f] = e[f]
  BY <1>1, VendoredRest
<1>4. x.flags = y.flags /\ x.cache = y.cache
  <2>1. /\ x.flags = (IF d.vendor = "intel" THEN d.flags \union IntelFeatures(r) ELSE d.flags)
        /\ x.cache = (IF ListsCaches(r) THEN d.cache ELSE UnlistedCaches(r))
        /\ y.flags = (IF e.vendor = "intel" THEN e.flags \union IntelFeatures(r) ELSE e.flags)
        /\ y.cache = (IF ListsCaches(r) THEN e.cache ELSE UnlistedCaches(r))
    BY <1>1, VendoredFields
  <2> HIDE DEF x, y
  <2>2. QED
    BY <1>1, <2>1
<1> HIDE DEF x, y
<1>5. Alike(x, y)
  BY <1>2, <1>3, <1>4 DEF Alike
<1>6. QED
  BY <1>5 DEF x, y

LEMMA CachedAlike ==
  ASSUME NEW r, NEW d, NEW e, Alike(d, e)
  PROVE  Alike(Cached(d, r), Cached(e, r))
<1> DEFINE x == Cached(d, r)
           y == Cached(e, r)
<1>1. DOMAIN d = Fields /\ DOMAIN e = Fields /\ d.cache = e.cache
  BY DEF Alike, Fields, CpuIdConstructor
<1>2. /\ DOMAIN x = Fields /\ DOMAIN y = Fields
      /\ \A f \in Fields \ {"cache"} : x[f] = d[f] /\ y[f] = e[f]
  BY <1>1, CachedFields
<1>3. x.cache = y.cache
  <2>1. /\ x.cache = (IF ListsCaches(r) THEN CachesUpTo(r, NumCaches(r)) ELSE d.cache)
        /\ y.cache = (IF ListsCaches(r) THEN CachesUpTo(r, NumCaches(r)) ELSE e.cache)
    BY <1>1, CachedFields
  <2> HIDE DEF x, y
  <2>2. QED
    BY <1>1, <2>1
<1> HIDE DEF x, y
<1>4. Alike(x, y)
  BY <1>2, <1>3 DEF Alike
<1>5. QED
  BY <1>4 DEF x, y

LEMMA CoredAlike ==
  ASSUME NEW r, NEW d, NEW e, Alike(d, e)
  PROVE  Alike(Cored(d, r), Cored(e, r))
<1> DEFINE x == Cored(d, r)
           y == Cored(e, r)
<1>1. /\ DOMAIN d = Fields /\ DOMAIN e = Fields
      /\ d.flags = e.flags /\ d.extFamily = e.extFamily
  BY DEF Alike, Fields, CpuIdConstructor
<1>2. Cores(r, d) = Cores(r, e)
  BY <1>1, Zenon DEF Cores
<1>3. /\ DOMAIN x = Fields /\ DOMAIN y = Fields
      /\ \A f \in Fields \ {"flags", "cores", "logical"} : x[f] = d[f] /\ y[f] = e[f]
  BY <1>1, CoredRest
<1>4. x.cores = y.cores /\ x.logical = y.logical
  <2>1. x.cores = Cores(r, d).cores /\ x.logical = Cores(r, d).logical
    BY <1>1, CoredFields
  <2>2. y.cores = Cores(r, e).cores /\ y.logical = Cores(r, e).logical
    BY <1>1, CoredFields
  <2> HIDE DEF x, y
  <2>3. QED
    BY ONLY <1>2, <2>1, <2>2, Zenon
<1>5. x.flags = y.flags
  <2>1. /\ x.flags = (IF Cores(r, d).ht THEN d.flags ELSE d.flags \ {"HT"})
        /\ y.flags = (IF Cores(r, e).ht THEN e.flags ELSE e.flags \ {"HT"})
    BY <1>1, CoredFields
  <2> HIDE DEF x, y
  <2>2. QED
    BY <1>1, <1>2, <2>1, Zenon
<1> HIDE DEF x, y
<1>6. Alike(x, y)
  BY <1>3, <1>4, <1>5 DEF Alike
<1>7. QED
  BY <1>6 DEF x, y

LEMMA LeveledAlike ==
  ASSUME NEW r, NEW d, NEW e, Alike(d, e)
  PROVE  Alike(Leveled(d, r), Leveled(e, r))
<1> DEFINE x == Leveled(d, r)
           y == Leveled(e, r)
<1>1. /\ DOMAIN d = Fields /\ DOMAIN e = Fields
      /\ d.flags = e.flags /\ d.family = e.family /\ d.vendor = e.vendor /\ d.purpose = e.purpose
  BY DEF Alike, Fields, CpuIdConstructor
<1>2. FeatureLevelX86(d) = FeatureLevelX86(e)
  BY <1>1, Zenon DEF FeatureLevelX86
<1>3. /\ DOMAIN x = Fields /\ DOMAIN y = Fields
      /\ \A f \in Fields \ {"level", "purpose"} : x[f] = d[f] /\ y[f] = e[f]
      /\ x.level = FeatureLevelX86(d) /\ y.level = FeatureLevelX86(e)
  BY <1>1, LeveledFields
<1>4. x.purpose = y.purpose
  <2>1. /\ x.purpose = (IF d.vendor = "centaur" THEN d.purpose ELSE Purpose(r))
        /\ y.purpose = (IF e.vendor = "centaur" THEN e.purpose ELSE Purpose(r))
    BY <1>1, LeveledFields
  <2> HIDE DEF x, y
  <2>2. QED
    BY <1>1, <2>1
<1> HIDE DEF x, y
<1>5. Alike(x, y)
  BY <1>2, <1>3, <1>4 DEF Alike
<1>6. QED
  BY <1>5 DEF x, y

LEMMA WithNameAlike ==
  ASSUME NEW r, NEW d, NEW e, Alike(d, e)
  PROVE  Alike(WithName(d, r), WithName(e, r))
<1> DEFINE x == WithName(d, r)
           y == WithName(e, r)
           name(c) == TableOf(c)[CHOOSE i \in DOMAIN TableOf(c) : FirstBestOf(c, r, i)].name
<1>1. /\ DOMAIN d = Fields /\ DOMAIN e = Fields /\ d.vendor = e.vendor
      /\ \A f \in {"family", "model", "stepping", "extFamily", "extModel", "cores", "cache"} :
           d[f] = e[f]
  BY DEF Alike, Fields, CpuIdConstructor
<1>2. TableOf(d) = TableOf(e)
  BY <1>1 DEF TableOf
<1>3. \A entry : Score(entry, d, r.brand) = Score(entry, e, r.brand)
  BY <1>1, ScoreDepends
<1>4. \A i : FirstBestOf(d, r, i) <=> FirstBestOf(e, r, i)
  BY <1>2, <1>3 DEF FirstBestOf
<1>5. name(d) = name(e)
  BY <1>2, <1>4
<1>6. x.codename = name(d) /\ y.codename = name(e)
  BY <1>1 DEF WithName, Fields, CpuIdConstructor
<1>7. /\ DOMAIN x = Fields /\ DOMAIN y = Fields
      /\ \A f \in Fields \ {"codename"} : x[f] = d[f] /\ y[f] = e[f]
  BY <1>1, WithNameFields
<1> HIDE DEF x, y, name
<1>8. Alike(x, y)
  BY <1>5, <1>6, <1>7 DEF Alike
<1>9. QED
  BY <1>8 DEF x, y

LEMMA NamedAlike ==
  ASSUME NEW r, NEW g, NEW h
  PROVE  Alike(NamedOf(r, g), NamedOf(r, h))
<1>1. Alike(Vendored(Basic(r, g), r), Vendored(Basic(r, h), r))
  BY BasicAlike, VendoredAlike
<1>2. Alike(CachedOf(r, g), CachedOf(r, h))
  BY <1>1, CachedAlike DEF CachedOf
<1>3. Alike(CoredOf(r, g), CoredOf(r, h))
  BY <1>2, CoredAlike DEF CoredOf
<1>4. Alike(Decoded(r, g), Decoded(r, h))
  BY <1>3, LeveledAlike DEF Decoded
<1>5. QED
  BY <1>4, WithNameAlike DEF NamedOf

(* The sections a record holds are counted alike on every machine.         *)
LEMMA SectionsBound ==
  ASSUME NEW r, r.epc \in Nat, r.epc < EpcCached, NEW g, NEW h,
         NEW n \in 0 .. EpcBound, NEW m \in 0 .. EpcBound,
         Sections(r, g, n), Sections(r, h, m)
  PROVE  ~(n < m)
<1> SUFFICES ASSUME n < m PROVE FALSE
  OBVIOUS
<1>0. EpcCached \in Nat /\ EpcBound \in Nat
  BY TablesAssumption
<1>1. ~(n >= EpcBound)
  BY <1>0
<1>2. ~Section(r, g, n) /\ Section(r, h, n)
  BY <1>1 DEF Sections
<1>3. ~(n < EpcCached)
  BY <1>0, <1>2 DEF Section
<1>4. r.epc \in 0 .. EpcBound /\ r.epc < n
  BY <1>0, <1>3
<1>5. Section(r, g, r.epc)
  BY <1>4 DEF Sections
<1>6. r.epc < r.epc
  BY <1>0, <1>5 DEF Section
<1>7. QED
  BY <1>6

LEMMA AnswersAlike ==
  ASSUME NEW r, r.arch = "x86" => r.epc \in Nat,
         NEW g, NEW h, NEW d, NEW e, Answer(d, r, g), Answer(e, r, h),
         NEW f \in DOMAIN d, d[f] # e[f]
  PROVE  f = "total" \/ (f = "epc" /\ "SGX" \in d.flags /\ r.epc >= EpcCached)
<1>1. CASE r.arch = "arm"
  <2>1. d = ArmAnswer(r) /\ e = ArmAnswer(r)
    BY <1>1 DEF Answer
  <2>2. QED
    BY <2>1
<1>2. CASE r.arch = "x86" /\ Routine(r.vendor) = "none"
  <2>1. d = Basic(r, g) /\ e = Basic(r, h)
    BY <1>2 DEF Answer
  <2>2. Alike(d, e)
    BY <2>1, BasicAlike
  <2>3. QED
    BY <2>2 DEF Alike
<1>3. CASE r.arch = "x86" /\ Routine(r.vendor) # "none"
  <2> DEFINE x == NamedOf(r, g)
             y == NamedOf(r, h)
  <2>1. X86Answer(d, r, g) /\ X86Answer(e, r, h)
    BY <1>3 DEF Answer
  <2>2. Alike(x, y)
    BY NamedAlike
  <2>3. x.vendor = y.vendor /\ x.flags = y.flags /\ DOMAIN x = Fields /\ DOMAIN y = Fields
    BY <2>2 DEF Alike, Fields, CpuIdConstructor
  <2>4. Asks(x, r) <=> Asks(y, r)
    BY <2>3 DEF Asks
  <2>5. CASE ~Asks(x, r)
    <3>1. d = x /\ e = y
      BY <2>1, <2>4, <2>5 DEF X86Answer
    <3> HIDE DEF x, y
    <3>2. QED
      BY <2>2, <3>1 DEF Alike
  <2>6. CASE Asks(x, r)
    <3>1. PICK n \in 0 .. EpcBound : Sections(r, g, n) /\ d = [x EXCEPT !.epc = n]
      BY <2>1, <2>6 DEF X86Answer
    <3>2. PICK m \in 0 .. EpcBound : Sections(r, h, m) /\ e = [y EXCEPT !.epc = m]
      BY <2>1, <2>4, <2>6 DEF X86Answer
    <3>3. "SGX" \in x.flags
      BY <2>6 DEF Asks
    <3> HIDE DEF x, y
    <3>4. /\ DOMAIN d = Fields /\ d.flags = x.flags /\ d.epc = n /\ e.epc = m
          /\ \A c \in Fields \ {"epc"} : d[c] = x[c] /\ e[c] = y[c]
      BY <2>3, <3>1, <3>2 DEF Fields, CpuIdConstructor
    <3>5. CASE f # "epc"
      BY <2>2, <3>4, <3>5 DEF Alike
    <3>6. CASE f = "epc"
      <4>1. n # m
        BY <3>4, <3>6
      <4>2. EpcBound \in Nat /\ EpcCached \in Nat /\ r.epc \in Nat
        BY <1>3, TablesAssumption
      <4>3. n < m \/ m < n
        BY <4>1, <4>2
      <4>4. ~(r.epc < EpcCached)
        BY <3>1, <3>2, <4>2, <4>3, SectionsBound
      <4>5. QED
        BY <3>3, <3>4, <3>6, <4>2, <4>4
    <3>7. QED
      BY <3>5, <3>6
  <2>7. QED
    BY <2>5, <2>6
<1>4. QED
  BY <1>1, <1>2, <1>3 DEF Answer

(* To identify a record again answers the same, on whichever machine and   *)
(* after whatever calls, but for the number of CPUs and for EPC sections   *)
(* beyond those the record holds.                                          *)
THEOREM SameRecordAlwaysSameId == Spec => [](SameRecordSameId)
<1>1. ASSUME AnswerInv, Done, last # <<>>, NEW f \in DOMAIN data, data[f] # last[1][f]
      PROVE  f = "total" \/ (f = "epc" /\ EpcFromHost)
  <2>1. Answer(data, raw, host) /\ raw \in RawRecords
    BY <1>1 DEF AnswerInv, ReturnInv, X86Inv
  <2>2. PICK h \in Hosts : Answer(last[1], raw, h)
    BY <1>1 DEF AnswerInv, ReturnInv
  <2>3. raw.arch = "x86" => raw.epc \in Nat
    BY <2>1, RecordsAssumption
  <2>4. f = "total" \/ (f = "epc" /\ "SGX" \in data.flags /\ raw.epc >= EpcCached)
    BY <1>1, <2>1, <2>2, <2>3, AnswersAlike
  <2>5. QED
    BY <2>4 DEF EpcFromHost
<1>2. AnswerInv => SameRecordSameId
  BY <1>1 DEF SameRecordSameId
<1>3. QED
  BY <1>2, AnswerInvariance, PTL

-----------------------------------------------------------------------------
(* The masks of the caches. *)

(* 2^m is x rounded up to a power of two. *)
RoundsUp(m, x) == m >= 0 /\ 2^m >= x /\ (m = 0 \/ 2^(m - 1) < x)

SharingCpus == 1 .. 4096

(* get_count_order rounds up to a power of two.                            *)
LEMMA CountOrderIs ==
  ASSUME NEW x \in SharingCpus
  PROVE  RoundsUp(CountOrder(x), x)
<1> USE DEF SharingCpus
<1> DEFINE P(n) == 2^n >= x /\ (n = 0 \/ 2^(n - 1) < x)
<1>1. \E n \in 0 .. 31 : P(n)
  <2>1. CASE x <= 1
    <3>1. P(0)
      BY <2>1
    <3>2. QED
      BY <3>1
  <2>2. CASE 1 < x /\ x <= 2
    <3>1. P(1)
      BY <2>2
    <3>2. QED
      BY <3>1
  <2>3. CASE 2 < x /\ x <= 4
    <3>1. P(2)
      BY <2>3
    <3>2. QED
      BY <3>1
  <2>4. CASE 4 < x /\ x <= 8
    <3>1. P(3)
      BY <2>4
    <3>2. QED
      BY <3>1
  <2>5. CASE 8 < x /\ x <= 16
    <3>1. P(4)
      BY <2>5
    <3>2. QED
      BY <3>1
  <2>6. CASE 16 < x /\ x <= 32
    <3>1. P(5)
      BY <2>6
    <3>2. QED
      BY <3>1
  <2>7. CASE 32 < x /\ x <= 64
    <3>1. P(6)
      BY <2>7
    <3>2. QED
      BY <3>1
  <2>8. CASE 64 < x /\ x <= 128
    <3>1. P(7)
      BY <2>8
    <3>2. QED
      BY <3>1
  <2>9. CASE 128 < x /\ x <= 256
    <3>1. P(8)
      BY <2>9
    <3>2. QED
      BY <3>1
  <2>10. CASE 256 < x /\ x <= 512
    <3>1. P(9)
      BY <2>10
    <3>2. QED
      BY <3>1
  <2>11. CASE 512 < x /\ x <= 1024
    <3>1. P(10)
      BY <2>11
    <3>2. QED
      BY <3>1
  <2>12. CASE 1024 < x /\ x <= 2048
    <3>1. P(11)
      BY <2>12
    <3>2. QED
      BY <3>1
  <2>13. CASE 2048 < x
    <3>1. P(12)
      BY <2>13
    <3>2. QED
      BY <3>1
  <2>14. QED
    BY <2>1, <2>2, <2>3, <2>4, <2>5, <2>6, <2>7, <2>8, <2>9, <2>10, <2>11, <2>12, <2>13
<1>2. CountOrder(x) = CHOOSE n \in 0 .. 31 : P(n)
  <2> DEFINE q == CHOOSE n \in 0 .. 31 : P(n)
  <2>1. CountOrder(x) = IF x = 0 THEN -1 ELSE q
    BY DEF CountOrder
  <2> HIDE DEF q
  <2>2. CountOrder(x) = q
    BY <2>1
  <2>3. QED
    BY <2>2 DEF q
<1>3. CountOrder(x) \in 0 .. 31 /\ P(CountOrder(x))
  <2> HIDE DEF P
  <2>1. QED
    BY <1>1, <1>2
<1>4. QED
  BY <1>3 DEF RoundsUp

UsualKinds == <<"L1D", "L1I", "L2", "L3", "L4">>

LEMMA UsualKind ==
  /\ UsualKinds[1] # "" /\ UsualKinds[2] # "" /\ UsualKinds[3] # ""
  /\ UsualKinds[4] # "" /\ UsualKinds[5] # ""
  /\ CacheIndex[UsualKinds[1]] = 1 /\ CacheIndex[UsualKinds[2]] = 0
  /\ CacheIndex[UsualKinds[3]] = 2 /\ CacheIndex[UsualKinds[4]] = 3
  /\ CacheIndex[UsualKinds[5]] = 4
<1>1. /\ UsualKinds[1] = "L1D" /\ UsualKinds[2] = "L1I" /\ UsualKinds[3] = "L2"
      /\ UsualKinds[4] = "L3" /\ UsualKinds[5] = "L4"
  BY DEF UsualKinds
<1>2. /\ CacheIndex["L1D"] = 1 /\ CacheIndex["L1I"] = 0 /\ CacheIndex["L2"] = 2
      /\ CacheIndex["L3"] = 3 /\ CacheIndex["L4"] = 4
  BY DEF CacheIndex
<1>3. QED
  BY <1>1, <1>2

LEMMA UsualOrderIs ==
  ASSUME NEW leaves, UsualOrder(leaves)
  PROVE  /\ Len(leaves) <= 5 /\ Len(leaves) >= 2
         /\ \A i \in DOMAIN leaves : CacheKind(leaves[i]) = UsualKinds[i]
         /\ leaves[1].sharing = leaves[2].sharing
BY Zenon DEF UsualOrder, UsualKinds

(* In the usual order every sub-leaf is read, and none beyond the masks.   *)
LEMMA UsualOrderRead ==
  ASSUME NEW r \in RawRecords, r.arch = "x86", ListsCaches(r), UsualOrder(CacheLeaves(r)),
         Settled(r)
  PROVE  /\ NumCaches(r) = Len(CacheLeaves(r)) /\ Len(CacheLeaves(r)) \in 2 .. 5
         /\ \A i \in 1 .. Len(CacheLeaves(r)) : CacheKind(CacheLeaves(r)[i]) # ""
<1> DEFINE leaves == CacheLeaves(r)
           n == NumCaches(r)
<1>1. /\ Len(leaves) \in Nat /\ DOMAIN leaves = 1 .. Len(leaves)
  BY LeavesAreLeaves
<1>2. Len(leaves) <= 5 /\ Len(leaves) >= 2
  BY UsualOrderIs
<1>3. \A i \in {1, 2, 3, 4, 5} : UsualKinds[i] # ""
  BY UsualKind, Zenon
<1>4. \A i \in 1 .. Len(leaves) : CacheKind(leaves[i]) # ""
  <2> SUFFICES ASSUME NEW i \in 1 .. Len(leaves) PROVE CacheKind(leaves[i]) # ""
    OBVIOUS
  <2>1. CacheKind(leaves[i]) = UsualKinds[i]
    BY <1>1, UsualOrderIs
  <2>2. i \in {1, 2, 3, 4, 5}
    BY <1>1, <1>2
  <2>3. QED
    BY <1>3, <2>1, <2>2
<1>5. n \in 0 .. Len(leaves) /\ EndAt(r, n + 1)
  BY DEF Settled
<1>6. \A leaf : leaf.level = 0 \/ leaf.type = 0 => CacheKind(leaf) = ""
  BY DEF CacheKind
<1>7. n = Len(leaves)
  <2> SUFFICES ASSUME n # Len(leaves) PROVE FALSE
    OBVIOUS
  <2>1. n + 1 \in 1 .. Len(leaves) /\ n + 1 <= Len(leaves)
    BY <1>1, <1>5
  <2>2. leaves[n + 1].level = 0 \/ leaves[n + 1].type = 0
    BY <1>5, <2>1 DEF EndAt
  <2>3. QED
    BY <1>4, <1>6, <2>1, <2>2
<1>8. Len(leaves) \in 2 .. 5
  BY ONLY <1>1, <1>2
<1>9. QED
  BY <1>4, <1>7, <1>8

LEMMA SharingField ==
  ASSUME NEW S, NEW x \in [level : Nat, type : Nat, sharing : S, size : Nat]
  PROVE  x.sharing \in S
OBVIOUS

LEMMA SharingOf ==
  ASSUME NEW x \in CacheLeaf
  PROVE  x.sharing \in SharingCpus
<1>1. CacheLeaf = [level : Nat, type : Nat, sharing : SharingCpus, size : Nat]
  BY DEF CacheLeaf, SharingCpus
<1>2. QED
  BY <1>1, SharingField

LEMMA MasksUpTo ==
  ASSUME NEW r, NEW n, NEW j \in 0 .. 4, j + 1 <= n, CacheKind(CacheLeaves(r)[j + 1]) # ""
  PROVE  InternalUpTo(r, n).mask[j] = CountOrder(CacheLeaves(r)[j + 1].sharing)
<1> DEFINE masks == [i \in 0 .. 4 |-> IF i + 1 <= n /\ CacheKind(CacheLeaves(r)[i + 1]) # ""
                                      THEN CountOrder(CacheLeaves(r)[i + 1].sharing) ELSE NoMask]
           over  == \E i \in 6 .. n : CacheKind(CacheLeaves(r)[i]) # ""
<1>1. PICK m, o : m = masks /\ InternalUpTo(r, n) = [mask |-> m, overrun |-> o]
  BY Zenon DEF InternalUpTo
<1>2. masks[j] = CountOrder(CacheLeaves(r)[j + 1].sharing)
  OBVIOUS
<1> HIDE DEF masks, over
<1>3. InternalUpTo(r, n).mask = masks
  BY ONLY <1>1
<1>4. QED
  BY <1>2, <1>3

(* The mask where a cache looks for it is that of its own sub-leaf.        *)
LEMMA UsualOrderMask ==
  ASSUME NEW r \in RawRecords, r.arch = "x86", ListsCaches(r), UsualOrder(CacheLeaves(r)),
         Settled(r), NEW i \in DOMAIN CacheLeaves(r)
  PROVE  /\ CacheLeaves(r)[i].sharing \in SharingCpus
         /\ InternalOf(r).mask[CacheIndex[CacheKind(CacheLeaves(r)[i])]] =
              CountOrder(CacheLeaves(r)[i].sharing)
<1> DEFINE leaves == CacheLeaves(r)
           n == Len(leaves)
           mask == InternalOf(r).mask
<1>0. \A j \in 1 .. n : CacheKind(leaves[j]) # ""
  BY UsualOrderRead
<1>1. n \in 2 .. 5 /\ NumCaches(r) = n /\ DOMAIN leaves = 1 .. n
  BY UsualOrderRead, LeavesAreLeaves
<1>2. \A j \in 0 .. 4 : j + 1 <= n => mask[j] = CountOrder(leaves[j + 1].sharing)
  <2>1. InternalOf(r) = InternalUpTo(r, n)
    BY <1>1, Zenon DEF InternalOf
  <2>2. \A j \in 0 .. 4 : j + 1 <= n => j + 1 \in 1 .. n
    BY <1>1
  <2>3. \A j \in 0 .. 4 : j + 1 <= n => CacheKind(leaves[j + 1]) # ""
    BY <1>0, <2>2
  <2>4. ASSUME NEW j \in 0 .. 4, j + 1 <= n
        PROVE  mask[j] = CountOrder(leaves[j + 1].sharing)
    <3>1. CacheKind(CacheLeaves(r)[j + 1]) # ""
      BY <2>3, <2>4
    <3>2. InternalUpTo(r, n).mask[j] = CountOrder(CacheLeaves(r)[j + 1].sharing)
      BY <2>4, <3>1, MasksUpTo
    <3>3. QED
      BY <2>1, <3>2
  <2>5. QED
    BY <2>4
<1>3. leaves[1].sharing = leaves[2].sharing
  BY UsualOrderIs
<1>4. CacheKind(leaves[i]) = UsualKinds[i]
  BY UsualOrderIs
<1>5. leaves[i].sharing \in SharingCpus
  <2>1. leaves[i] \in CacheLeaf
    BY LeavesAreLeaves
  <2>2. QED
    BY ONLY <2>1, SharingOf
<1>6. i \in 1 .. n /\ i \in {1, 2, 3, 4, 5}
  BY <1>1
<1> HIDE DEF mask, n
<1>7. mask[CacheIndex[CacheKind(leaves[i])]] = CountOrder(leaves[i].sharing)
  <2>1. CASE i = 1
    <3>1. CacheIndex[CacheKind(leaves[i])] = 1
      <4>1. CacheIndex[UsualKinds[1]] = 1
        BY ONLY UsualKind
      <4>2. QED
        BY <1>4, <2>1, <4>1
    <3>2. mask[1] = CountOrder(leaves[2].sharing)
      <4>1. 1 + 1 <= n
        BY <1>1
      <4>2. QED
        BY <1>2, <4>1
    <3>3. QED
      BY <1>3, <2>1, <3>1, <3>2
  <2>2. CASE i = 2
    <3>1. CacheIndex[CacheKind(leaves[i])] = 0
      <4>1. CacheIndex[UsualKinds[2]] = 0
        BY ONLY UsualKind
      <4>2. QED
        BY <1>4, <2>2, <4>1
    <3>2. mask[0] = CountOrder(leaves[1].sharing)
      <4>1. 0 + 1 <= n
        BY <1>1
      <4>2. QED
        BY <1>2, <4>1
    <3>3. QED
      BY <1>3, <2>2, <3>1, <3>2
  <2>3. CASE i \in {3, 4, 5}
    <3>1. CacheIndex[CacheKind(leaves[i])] = i - 1
      <4>1. 2 = 3 - 1 /\ 3 = 4 - 1 /\ 4 = 5 - 1
        BY ONLY TRUE
      <4>2. CacheIndex[UsualKinds[i]] = i - 1
        BY ONLY <2>3, <4>1, UsualKind, Zenon
      <4>3. QED
        BY <1>4, <4>2
    <3>2. i - 1 \in 0 .. 4 /\ (i - 1) + 1 = i /\ (i - 1) + 1 <= n
      BY <1>1, <1>6, <2>3
    <3>3. mask[i - 1] = CountOrder(leaves[i].sharing)
      BY <1>2, <3>2
    <3>4. QED
      BY <3>1, <3>3
  <2>4. QED
    BY <1>6, <2>1, <2>2, <2>3
<1>8. QED
  BY <1>5, <1>7 DEF mask

(* Where the first-level caches are shared alike and the sub-leaves come   *)
(* in the usual order, every cache finds the mask of its own sub-leaf, the *)
(* CPUs that share it rounded up to a power of two, and nothing is written *)
(* past the masks.                                                         *)
THEOREM MaskAlwaysOfItsCache == Spec => [](MaskIsOfItsCache)
<1>1. ASSUME AnswerInv, DoneX86, ListsCaches(raw), UsualOrder(CacheLeaves(raw))
      PROVE  /\ ~internal.overrun
             /\ \A i \in DOMAIN CacheLeaves(raw) :
                  LET leaf == CacheLeaves(raw)[i]
                      m    == internal.mask[CacheIndex[CacheKind(leaf)]]
                  IN  m >= 0 /\ 2^m >= leaf.sharing /\ (m = 0 \/ 2^(m - 1) < leaf.sharing)
  <2>1. raw \in RawRecords /\ raw.arch = "x86"
    BY <1>1, X86Answered
  <2>2. internal = InternalOf(raw) /\ Settled(raw)
    BY <1>1 DEF AnswerInv, MaskInv
  <2>3. ~internal.overrun
    <3>1. internal = InternalUpTo(raw, NumCaches(raw)) /\ NumCaches(raw) \in 2 .. 5
      BY <1>1, <2>1, <2>2, UsualOrderRead DEF InternalOf
    <3>2. 6 .. NumCaches(raw) = {}
      BY <3>1
    <3>3. internal.overrun = (\E i \in 6 .. NumCaches(raw) : CacheKind(CacheLeaves(raw)[i]) # "")
      BY <3>1, Zenon DEF InternalUpTo
    <3>4. QED
      BY <3>2, <3>3
  <2>4. ASSUME NEW i \in DOMAIN CacheLeaves(raw)
        PROVE  LET leaf == CacheLeaves(raw)[i]
                   m    == internal.mask[CacheIndex[CacheKind(leaf)]]
               IN  m >= 0 /\ 2^m >= leaf.sharing /\ (m = 0 \/ 2^(m - 1) < leaf.sharing)
    <3> DEFINE x == CacheLeaves(raw)[i].sharing
               m == internal.mask[CacheIndex[CacheKind(CacheLeaves(raw)[i])]]
    <3>1. x \in SharingCpus /\ m = CountOrder(x)
      BY <1>1, <2>1, <2>2, <2>4, UsualOrderMask
    <3> HIDE DEF x, m
    <3>2. RoundsUp(m, x)
      BY ONLY <3>1, CountOrderIs
    <3>3. QED
      BY ONLY <3>2, Zenon DEF RoundsUp, x, m
  <2>5. QED
    BY <2>3, <2>4
<1>2. AnswerInv => MaskIsOfItsCache
  BY <1>1, Zenon DEF MaskIsOfItsCache
<1>3. QED
  BY <1>2, AnswerInvariance, PTL
=============================================================================
