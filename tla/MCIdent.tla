------------------------------- MODULE MCIdent ------------------------------
(* Instances of Ident for TLC: records of real and of odd CPUs. *)
EXTENDS Ident, ArmFeatureMap, TLC

Leaf4(level, type, sharing, size) ==
  [level |-> level, type |-> type, sharing |-> sharing, size |-> size]
NoLeaf4 == Leaf4(0, 0, 1, 0)

UsualCaches == <<Leaf4(1, 1, 2, 32), Leaf4(1, 2, 2, 32), Leaf4(2, 3, 2, 256), Leaf4(3, 3, 8, 4096)>>

UpTo(n) == UNION {{LevelFeatures[i][f] : f \in DOMAIN LevelFeatures[i]} : i \in 1 .. n}

(* An Intel CPU with two cores of two threads. *)
Intel ==
  [arch |-> "x86", vendor |-> "intel", family |-> 6, xfamily |-> 0, model |-> 6,
   xmodel |-> 1, stepping |-> 3,
   basic |-> 18, ext |-> 8, bits |-> UpTo(3) \union {"LM", "HT", "SGX"},
   threads |-> 4, cores4 |-> 1, cores8 |-> 0, tpc |-> 0,
   fn4 |-> UsualCaches, fn1d |-> <<>>, topoext |-> FALSE, desc |-> {},
   amdCache |-> [L1I |-> 32, L1D |-> 16, L2 |-> 512, L3 |-> 4],
   fn11 |-> <<[shift |-> 1, count |-> 2, reserved |-> 0, type |-> 1],
              [shift |-> 3, count |-> 4, reserved |-> 0, type |-> 2]>>,
   hybrid |-> FALSE, coreType |-> "core", fn26 |-> <<>>,
   sgx |-> TRUE, epc |-> 1, brand |-> "i5"]

Amd == [Intel EXCEPT !.vendor = "amd", !.family = 15, !.xfamily = 8, !.cores8 = 3, !.tpc = 1,
                     !.fn4 = <<>>, !.fn1d = UsualCaches, !.topoext = TRUE, !.brand = "Ryzen 5"]
Centaur == [Intel EXCEPT !.vendor = "centaur", !.brand = "C7"]

(* Leaves that are not there, or hold what a virtual machine may put there *)
Leaves(cpu) ==
  {[cpu EXCEPT !.basic = b, !.ext = e] : b \in {0, 1, 4, 7, 11}, e \in {-1, 0, 8}}
IntelThreads ==
  {[Intel EXCEPT !.threads = t, !.cores4 = c, !.fn11 = f, !.bits = @ \ no] :
     t \in {0, 1, 4}, c \in {0, 1}, no \in {{}, {"HT"}},
     f \in {<<>>, [Intel.fn11 EXCEPT ![1].shift = 0], [Intel.fn11 EXCEPT ![1].count = 0],
            [Intel.fn11 EXCEPT ![1].count = 8], [Intel.fn11 EXCEPT ![1].count = 0, ![1].reserved = 1],
            [Intel.fn11 EXCEPT ![2].count = 0, ![2].reserved = 1]}}
AmdThreads ==
  {[Amd EXCEPT !.threads = t, !.cores8 = c, !.tpc = p, !.bits = @ \ no] :
     t \in {0, 4}, c \in {0, 1, 3}, p \in {0, 1, 4}, no \in {{}, {"HT"}}}
CentaurThreads ==
  {[Centaur EXCEPT !.threads = t, !.cores4 = c, !.bits = @ \ no] :
     t \in {0, 1, 4}, c \in {0, 1}, no \in {{}, {"HT"}}}
Caches(cpu) ==
  {[cpu EXCEPT !.fn4 = l, !.fn1d = SubSeq(l, 1, IF Len(l) <= 4 THEN Len(l) ELSE 4)] :
     l \in {<<>>, <<NoLeaf4>>, SubSeq(UsualCaches, 1, 2) \o <<NoLeaf4, UsualCaches[3]>>,
            <<UsualCaches[1], Leaf4(2, 1, 2, 9), UsualCaches[3]>>, SubSeq(UsualCaches, 1, 3),
            SubSeq(UsualCaches, 1, 3) \o <<Leaf4(3, 3, 6, 4096), Leaf4(4, 3, 16, 9999)>>,
            UsualCaches \o <<Leaf4(4, 3, 16, 9999), Leaf4(3, 3, 1, 7)>>}}
IntelOldCaches ==
  {[Intel EXCEPT !.basic = 2, !.desc = d, !.family = f] :
     d \in {{6, 10, 65}, {44, 48, 122, 70}, {64}, {64, 65}, {73}, {73, 64}}, f \in {6, 15}}
AmdOldCaches ==
  {[Amd EXCEPT !.ext = 6, !.topoext = FALSE, !.amdCache.L3 = s, !.family = f] :
     s \in {0, 4}, f \in {6, 15}}
Features(cpu, levels, families) ==
  {[cpu EXCEPT !.bits = (UpTo(n) \union lm) \ miss, !.family = f] :
     n \in levels, f \in families, lm \in {{}, {"LM"}},
     miss \in {{}, {"SSE2"}, {"CX8"}, {"SSSE3"}, {"OSXSAVE"}, {"AVX512F"}}}
IntelPurposes ==
  {[Intel EXCEPT !.hybrid = TRUE, !.coreType = t, !.fn4 = l] :
     t \in {"atom", "core", "other"}, l \in {UsualCaches, SubSeq(UsualCaches, 1, 3)}}
AmdPurposes ==
  {[Amd EXCEPT !.fn26 = <<[hetero |-> h, type |-> t, coreType |-> c]>>] :
     h \in BOOLEAN, t \in {1, 2}, c \in 0 .. 2}
Sections == {[Intel EXCEPT !.epc = n, !.sgx = s] : n \in 0 .. 2, s \in BOOLEAN}

X86Records ==
  UNION {Leaves(Intel), IntelThreads, Caches(Intel), IntelOldCaches, IntelPurposes, Sections,
         Leaves(Amd), AmdThreads, Caches(Amd), AmdOldCaches, AmdPurposes,
         CentaurThreads, Features(Centaur, {0, 4}, {3, 6}),
         {[Amd EXCEPT !.vendor = "hygon", !.fn26 = <<[hetero |-> TRUE, type |-> 1, coreType |-> 0]>>],
          [Amd EXCEPT !.vendor = "cyrix"], [Amd EXCEPT !.vendor = "unknown"],
          [Intel EXCEPT !.arch = "none"]}}
X86Levels == Features(Intel, 0 .. 4, {3, 4, 5, 6, 7, 15})

Entry(family, extFamily, extModel, ncores, l2, l3, brands, score, name) ==
  [family |-> family, model |-> -1, stepping |-> -1, extFamily |-> extFamily,
   extModel |-> extModel, ncores |-> ncores, l2cache |-> l2, l3cache |-> l3,
   brands |-> brands, score |-> score, name |-> name]
MCMatchTable ==
  [intel   |-> <<Entry(-1, -1, -1, -1, -1, -1, {}, 0, "Unknown Intel CPU"),
                 Entry(6, -1, -1, 2, 256, -1, {}, 0, "two cores"),
                 Entry(6, -1, -1, 2, -1, 4096, {}, 0, "two cores, L3"),
                 Entry(6, -1, -1, -1, -1, -1, {"i5"}, 2, "Core i5"),
                 Entry(6, 6, 22, 1, -1, -1, {}, 0, "one core")>>,
   amd     |-> <<Entry(-1, -1, -1, -1, -1, -1, {}, 0, "Unknown AMD CPU"),
                 Entry(15, 23, -1, 2, -1, -1, {"Ryzen 5"}, 4, "Zen"),
                 Entry(15, -1, -1, -1, 512, 2048, {}, 0, "K8"),
                 Entry(6, 6, -1, -1, -1, -1, {}, 0, "K7")>>,
   centaur |-> <<Entry(6, -1, -1, -1, -1, -1, {}, 0, "VIA")>>]

(* ARM records are given by the fields of ID registers that are not zero.   *)
FieldNames ==
  LET map == FeatureMap
      fields == UNION {{map[j].fields[i] : i \in DOMAIN map[j].fields} : j \in DOMAIN map}
  IN  UNION {{f.aarch32, f.aarch64} : f \in fields}
Value(nonzero, name) ==
  IF \E p \in nonzero : p[1] = name THEN (CHOOSE p \in nonzero : p[1] = name)[2] ELSE 0
With(nonzero, name, value) == {p \in nonzero : p[1] # name} \union {<<name, value>>}

ArmRecord(aarch64, codename, purpose, nonzero) ==
  [arch |-> "arm", vendor |-> "arm", midr |-> "by-cpuid", purpose |-> purpose,
   codename |-> codename, aarch64 |-> aarch64,
   field     |-> [n \in FieldNames |-> Value(nonzero, n)],
   copdbg    |-> Value(nonzero, "dfr0[3:0]"),       simd     |-> Value(nonzero, "isar3[7:4]"),
   psr_m     |-> Value(nonzero, "isar4[27:24]"),    vmsa     |-> Value(nonzero, "mmfr0[3:0]"),
   pmsa      |-> Value(nonzero, "mmfr0[7:4]"),      ras      |-> Value(nonzero, "pfr0[31:28]"),
   mprogmod  |-> Value(nonzero, "pfr1[11:8]"),      mpam     |-> Value(nonzero, "aa64pfr0[43:40]"),
   mpam_frac |-> Value(nonzero, "aa64pfr1[19:16]"), mte      |-> Value(nonzero, "aa64pfr1[11:8]"),
   mte_frac  |-> Value(nonzero, "aa64pfr1[43:40]"), mtex     |-> Value(nonzero, "aa64pfr1[55:52]")]

(* The records of tests/arm, and the level and flags the tests expect. *)
Test(aarch64, codename, purpose, level, nonzero, flags) ==
  [record |-> ArmRecord(aarch64, codename, purpose, nonzero), level |-> level, flags |-> flags]

CortexA15 == Test(FALSE, "Eagle", "general", "v7-A",
  {<<"dfr0[3:0]", 5>>, <<"dfr0[27:24]", 2>>, <<"isar0[27:24]", 2>>, <<"isar2[19:16]", 3>>,
   <<"isar2[23:20]", 2>>, <<"isar3[7:4]", 3>>, <<"mmfr0[3:0]", 5>>, <<"pfr0[7:4]", 3>>,
   <<"pfr0[11:8]", 1>>, <<"pfr0[15:12]", 1>>},
  {"ADVMULTU", "ADVMULTS", "JAZELLE", "THUMB2", "DEBUGV7P1", "THUMBEE", "DIVIDE", "LPAE"})

CortexA53 == Test(TRUE, "Apollo", "efficiency", "v8.0-A",
  {<<"aa64dfr0[3:0]", 6>>, <<"aa64isar0[19:16]", 1>>, <<"aa64mmfr0[31:28]", 15>>},
  {"ADVSIMD", "CRC32", "DOUBLELOCK", "FP", "BBM", "E2H0"})

CortexA57 == Test(TRUE, "Atlas", "performance", "v8.0-A",
  {<<"aa64dfr0[3:0]", 6>>, <<"aa64isar0[7:4]", 2>>, <<"aa64isar0[11:8]", 1>>,
   <<"aa64isar0[15:12]", 1>>, <<"aa64isar0[19:16]", 1>>, <<"aa64mmfr0[31:28]", 15>>},
  {"ADVSIMD", "CRC32", "DOUBLELOCK", "FP", "PMULL", "SHA1", "SHA256", "BBM", "E2H0"})

CortexA72 == Test(FALSE, "Maia", "performance", "v8.0-A",
  {<<"dfr0[3:0]", 6>>, <<"dfr0[7:4]", 6>>, <<"dfr0[27:24]", 3>>, <<"isar0[27:24]", 2>>,
   <<"isar2[19:16]", 3>>, <<"isar2[23:20]", 2>>, <<"isar3[7:4]", 3>>, <<"isar5[19:16]", 1>>,
   <<"mmfr0[3:0]", 5>>, <<"pfr0[7:4]", 3>>, <<"pfr0[11:8]", 1>>},
  {"ADVMULTU", "ADVMULTS", "JAZELLE", "THUMB2", "DIVIDE", "LPAE", "CRC32"})

NeoverseN2 == Test(TRUE, "Perseus", "general", "v9.0-A",
  {<<"aa64dfr0[3:0]", 6>>, <<"aa64isar0[7:4]", 2>>, <<"aa64isar0[11:8]", 1>>,
   <<"aa64isar0[15:12]", 2>>, <<"aa64isar0[19:16]", 1>>, <<"aa64isar0[23:20]", 2>>,
   <<"aa64isar0[31:28]", 1>>, <<"aa64isar0[35:32]", 1>>, <<"aa64isar0[39:36]", 1>>,
   <<"aa64isar0[43:40]", 1>>, <<"aa64isar0[47:44]", 1>>, <<"aa64isar0[51:48]", 1>>,
   <<"aa64isar0[55:52]", 2>>, <<"aa64isar0[63:60]", 1>>, <<"aa64isar1[3:0]", 2>>,
   <<"aa64isar1[7:3]", 10>>, <<"aa64isar1[7:4]", 5>>, <<"aa64isar1[15:12]", 1>>,
   <<"aa64isar1[19:16]", 1>>, <<"aa64isar1[23:20]", 2>>, <<"aa64isar1[27:24]", 1>>,
   <<"aa64isar1[35:32]", 1>>, <<"aa64isar1[39:36]", 1>>, <<"aa64isar1[47:44]", 1>>,
   <<"aa64isar1[51:48]", 1>>, <<"aa64isar1[55:52]", 1>>, <<"aa64mmfr0[31:28]", 15>>,
   <<"aa64mmfr2[35:32]", 1>>, <<"aa64pfr0[19:16]", 1>>, <<"aa64pfr0[23:20]", 1>>,
   <<"aa64pfr0[35:32]", 1>>, <<"aa64pfr0[51:48]", 1>>, <<"aa64pfr1[3:0]", 1>>,
   <<"aa64pfr1[7:4]", 2>>, <<"aa64pfr1[11:8]", 1>>, <<"aa64zfr0[3:0]", 1>>, <<"aa64zfr0[7:4]", 2>>,
   <<"aa64zfr0[19:16]", 1>>, <<"aa64zfr0[23:20]", 1>>, <<"aa64zfr0[35:32]", 1>>,
   <<"aa64zfr0[43:40]", 1>>, <<"aa64zfr0[47:44]", 1>>},
  {"ADVSIMD", "CRC32", "DOUBLELOCK", "PMULL", "SHA1", "LSE", "RDM", "FP16", "I8MM", "SHA3",
   "SHA512", "SM3", "SM4", "SVE", "FCMA", "FPACCOMBINE", "JSCVT", "PACQARMA5", "PAUTH", "BBM",
   "DIT", "DOTPROD", "FHM", "LRCPC2", "LSE2", "BTI", "DPB2", "FRINTTS", "FLAGM2", "MTE", "RNG",
   "SB", "SSBS2", "BF16", "DGH", "SVE2", "SVE_BITPERM", "SVE_PMULL128", "SVE_SHA3", "SVE_SM4",
   "E2H0"})

Tests == {CortexA15, CortexA53, CortexA57, CortexA72, NeoverseN2}
TestArm == {t.record : t \in Tests}

(* A CPU with the mandatory features of the versions up to v8.(n-1), whose *)
(* fields have the greatest of the values these features ask for.          *)
Mandatory ==
  LET map == FeatureMap
      From(n) == {j \in DOMAIN map : \E m \in 1 .. n : map[j].mandatory = V8A[m]}
  IN  [n \in DOMAIN V8A |-> {map[j].fields[1] : j \in From(n)}]
Greatest(fields) ==
  {<<f.aarch64, f.value>> :
     f \in {g \in fields : \A h \in fields : h.aarch64 = g.aarch64 => h.value <= g.value}}
ArmV8 == [n \in DOMAIN V8A |-> Greatest(Mandatory[n])]

(* ... and with one feature that is optional from each of v9.0 to v9.(m-1) *)
Optional(v) ==
  LET map == FeatureMap
      Is(j) == map[j].optional = v
  IN  map[CHOOSE j \in DOMAIN map : Is(j) /\ \A i \in 1 .. j - 1 : ~Is(i)].fields[1]
OptionalV9 == [m \in DOMAIN V9A |-> {Optional(V9A[i]) : i \in 1 .. m}]
ArmV9 == [n \in {1, 3, 6}, m \in DOMAIN V9A |->
            ArmV8[n] \union {<<f.aarch64, f.value>> : f \in OptionalV9[m]}]

Armv8Cpus ==
  {ArmRecord(TRUE, "", "general", ArmV8[n]) : n \in DOMAIN V8A}
    \union {ArmRecord(TRUE, "", "general", With(ArmV8[n], "aa64mmfr1[23:20]", pan)) :
              n \in {2, 3, 8}, pan \in 0 .. 3}
    \union {ArmRecord(TRUE, "", "general", {p \in ArmV8[2] : p[1] # f.aarch64}) : f \in Mandatory[2]}
Armv9Cpus == {ArmRecord(TRUE, "", "general", ArmV9[n, m]) : n \in {1, 3, 6}, m \in DOMAIN V9A}
Aarch32Cpus ==
  {ArmRecord(FALSE, "", "general", {<<"dfr0[3:0]", 6>>, <<"isar5[19:16]", c>>, <<"mmfr3[19:16]", p>>}) :
     c \in {0, 1}, p \in 0 .. 2}

(* CPUs of other profiles, and fields that do not follow the ID scheme. *)
Arm(nonzero) == ArmRecord(TRUE, "", "general", nonzero)
OddArm ==
  {[NeoverseN2.record EXCEPT !.midr = m] : m \in {"unknown", "v4", "v4T", "v5TEJ", "v6"}}
    \union {Arm({<<"dfr0[3:0]", c>>, <<"isar4[27:24]", p>>, <<"isar3[7:4]", s>>,
                  <<"pfr0[31:28]", s - 1>>, <<"pfr1[11:8]", m>>}) :
              c \in {2, 4, 6}, p \in {0, 1}, s \in {1, 3}, m \in {0, 2}}
    \union {Arm({<<"dfr0[3:0]", c>>, <<"mmfr0[3:0]", v>>, <<"mmfr0[7:4]", q>>}) :
              c \in {4, 6}, v \in {0, 3}, q \in {0, 1}}
    \union {Arm({<<"aa64pfr0[43:40]", a>>, <<"aa64pfr1[19:16]", b>>}) : a, b \in {0, 1}}
    \union {Arm({<<"aa64pfr1[11:8]", c>>, <<"aa64pfr1[43:40]", d>>, <<"aa64pfr1[55:52]", e>>,
                  <<"aa64pfr2[7:4]", e>>, <<"aa64pfr2[11:8]", e>>}) :
              c \in {0, 2}, d, e \in {0, 1}}
    \union {Arm({<<"aa64isar1[27:24]", g>>, <<"aa64isar2[11:8]", h>>, <<"aa64isar1[7:4]", a>>,
                  <<"aa64isar1[7:3]", 2 * a>>}) : g, h \in {0, 1}, a \in {0, 1, 3}}

ArmRecords == TestArm \union Armv8Cpus \union Armv9Cpus \union Aarch32Cpus \union OddArm
AllRecords == X86Records \union ArmRecords
MCHosts == {[cpus |-> 2, epc |-> 0], [cpus |-> 8, epc |-> 3]}

(* The model decodes the records of the repository's tests as the tests    *)
(* expect: the version and every feature flag of five ARM CPUs.            *)
TestsPass ==
  \A t \in Tests : DoneArm /\ raw = t.record => data.level = t.level /\ data.flags = t.flags
=============================================================================
