--------------------------- MODULE ArmFeatureMap ---------------------------
(***************************************************************************)
(* features_map of load_arm_features (libcpuid/recog_arm.c): one entry per *)
(* feature, with the version it is optional from, the version it is        *)
(* mandatory from, and the fields of ID registers that tell it.  A field   *)
(* is named as in the Arm manuals, by register and bits; it has a register *)
(* in AArch32, in AArch64 or in both.  The sentinel that ends the fields   *)
(* of an entry is the end of the sequence.  The groups are those of the    *)
(* comments in the source; the last one is split where the features of     *)
(* ARMv9.5 begin.                                                          *)
(***************************************************************************)
EXTENDS IdentArm

Feature(feature, optional, mandatory, fields) ==
  [feature |-> feature, optional |-> optional, mandatory |-> mandatory, fields |-> fields]
Both(a32, a64, value) == [aarch32 |-> a32, aarch64 |-> a64, value |-> value]
A32(field, value) == Both(field, NoField, value)
A64(field, value) == Both(NoField, field, value)

Armv5Features ==
  <<Feature("SWAP", NoVersion, NoVersion, <<A32("isar0[3:0]", 1)>>),
    Feature("THUMB", NoVersion, NoVersion, <<A32("pfr0[7:4]", 1)>>),
    Feature("ADVMULTU", NoVersion, NoVersion, <<A32("isar2[23:20]", 1), A32("isar2[23:20]", 2)>>),
    Feature("ADVMULTS", NoVersion, NoVersion,
             <<A32("isar2[19:16]", 1), A32("isar2[19:16]", 2), A32("isar2[19:16]", 3)>>),
    Feature("JAZELLE", NoVersion, NoVersion, <<A32("pfr0[11:8]", 1), A32("pfr0[11:8]", 2)>>)>>

Armv6Features ==
  <<Feature("DEBUGV6", "v6", NoVersion, <<A32("dfr0[3:0]", 2)>>),
    Feature("DEBUGV6P1", "v6", NoVersion, <<A32("dfr0[3:0]", 3)>>),
    Feature("THUMB2", "v6", NoVersion, <<A32("pfr0[7:4]", 3)>>)>>

Armv7Features ==
  <<Feature("DEBUGV7", "v7-A", NoVersion, <<A32("dfr0[3:0]", 4)>>),
    Feature("DEBUGV7P1", "v7-A", NoVersion, <<A32("dfr0[3:0]", 5)>>),
    Feature("THUMBEE", "v7-A", NoVersion, <<A32("pfr0[15:12]", 1)>>),
    Feature("DIVIDE", "v7-A", NoVersion, <<A32("isar0[27:24]", 1), A32("isar0[27:24]", 2)>>),
    Feature("LPAE", "v7-A", NoVersion, <<A32("mmfr0[3:0]", 5)>>),
    Feature("PMUV1", "v7-A", NoVersion, <<A32("dfr0[31:28]", 1)>>),
    Feature("PMUV2", "v7-A", NoVersion, <<A32("dfr0[31:28]", 2)>>)>>

Armv80Features ==
  <<Feature("AES", "v8.0-A", NoVersion, <<A64("aa64isar0[7:4]", 1)>>),
    Feature("ASID16", "v8.0-A", NoVersion, <<A64("aa64mmfr0[7:4]", 2)>>),
    Feature("ADVSIMD", "v8.0-A", NoVersion, <<A64("aa64pfr0[23:20]", 0), A64("aa64pfr0[23:20]", 1)>>),
    Feature("CRC32", "v8.0-A", "v8.1-A", <<Both("isar5[19:16]", "aa64isar0[19:16]", 1)>>),
    Feature("CSV2_1P1", "v8.0-A", NoVersion, <<A64("aa64pfr1[35:32]", 1)>>),
    Feature("CSV2_1P2", "v8.0-A", NoVersion, <<A64("aa64pfr1[35:32]", 2)>>),
    Feature("CSV2_2", "v8.0-A", NoVersion, <<A64("aa64pfr0[59:56]", 2)>>),
    Feature("CSV2_3", "v8.0-A", NoVersion, <<A64("aa64pfr0[59:56]", 3)>>),
    Feature("DOUBLELOCK", "v8.0-A", NoVersion, <<A64("aa64dfr0[39:36]", 0)>>),
    Feature("ETS2", "v8.0-A", "v8.8-A", <<A64("aa64mmfr1[39:36]", 2), A32("mmfr5[3:0]", 2)>>),
    Feature("FP", "v8.0-A", NoVersion, <<A64("aa64pfr0[19:16]", 0)>>),
    Feature("MIXEDEND", "v8.0-A", NoVersion, <<A64("aa64mmfr0[11:8]", 1)>>),
    Feature("MIXEDENDEL0", "v8.0-A", NoVersion, <<A64("aa64mmfr0[19:16]", 1)>>),
    Feature("PMULL", "v8.0-A", NoVersion, <<A64("aa64isar0[7:4]", 2)>>),
    Feature("PMUV3", "v8.0-A", NoVersion, <<A64("aa64dfr0[11:8]", 1), A32("dfr0[27:24]", 3)>>),
    Feature("SHA1", "v8.0-A", NoVersion, <<A64("aa64isar0[11:8]", 1)>>),
    Feature("SHA256", "v8.0-A", NoVersion, <<A64("aa64isar0[15:12]", 1)>>),
    Feature("NTLBPA", "v8.0-A", NoVersion, <<A64("aa64mmfr1[51:48]", 1), A32("mmfr5[7:4]", 1)>>)>>

Armv81Features ==
  <<Feature("HAFDBS", "v8.0-A", NoVersion, <<A64("aa64mmfr1[3:0]", 1), A64("aa64mmfr1[3:0]", 2)>>),
    Feature("HPDS", "v8.0-A", "v8.1-A", <<A64("aa64mmfr1[15:12]", 1)>>),
    Feature("LOR", "v8.0-A", "v8.1-A", <<A64("aa64mmfr1[19:16]", 1)>>),
    Feature("LSE", "v8.0-A", "v8.1-A", <<A64("aa64isar0[23:20]", 2)>>),
    Feature("PAN", "v8.0-A", "v8.1-A", <<A64("aa64mmfr1[23:20]", 1), A32("mmfr3[19:16]", 1)>>),
    Feature("PMUV3P1", "v8.1-A", NoVersion, <<A64("aa64dfr0[11:8]", 4), A32("dfr0[27:24]", 4)>>),
    Feature("RDM", "v8.0-A", NoVersion, <<A64("aa64isar0[31:28]", 1), A32("isar5[27:24]", 1)>>),
    Feature("VHE", "v8.0-A", NoVersion,
             <<A64("aa64mmfr1[11:8]", 1), Both("dfr0[3:0]", "aa64dfr0[3:0]", 7)>>),
    Feature("VMID16", "v8.0-A", NoVersion, <<A64("aa64mmfr1[7:4]", 2)>>)>>

Armv82FeaturesAtoI ==
  <<Feature("AA32HPD", "v8.1-A", NoVersion, <<A32("mmfr4[19:16]", 1)>>),
    Feature("AA32I8MM", "v8.1-A", NoVersion, <<A32("isar6[27:24]", 1)>>),
    Feature("DPB", "v8.1-A", "v8.2-A", <<A64("aa64isar1[3:0]", 1)>>),
    Feature("DEBUGV8P2", "v8.1-A", "v8.2-A", <<Both("dfr0[3:0]", "aa64dfr0[3:0]", 8)>>),
    Feature("F32MM", "v8.2-A", NoVersion, <<A64("aa64zfr0[55:52]", 1)>>),
    Feature("F64MM", "v8.2-A", NoVersion, <<A64("aa64zfr0[59:56]", 1)>>),
    Feature("FP16", "v8.2-A", NoVersion, <<A64("aa64pfr0[23:20]", 1), A64("aa64pfr0[19:16]", 1)>>),
    Feature("HPDS2", "v8.1-A", NoVersion, <<A64("aa64mmfr1[15:12]", 2), A32("mmfr4[19:16]", 2)>>),
    Feature("I8MM", "v8.1-A", "v8.6-A", <<A64("aa64isar1[55:52]", 1), A64("aa64zfr0[47:44]", 1)>>),
    Feature("IESB", "v8.1-A", NoVersion, <<A64("aa64mmfr2[15:12]", 1)>>)>>

Armv82FeaturesLtoX ==
  <<Feature("LPA", "v8.1-A", NoVersion, <<A64("aa64mmfr0[3:0]", 6)>>),
    Feature("LSMAOC", "v8.1-A", NoVersion, <<A64("aa64mmfr2[11:8]", 1), A32("mmfr4[23:20]", 1)>>),
    Feature("LVA", "v8.1-A", NoVersion, <<A64("aa64mmfr2[19:16]", 1)>>),
    Feature("PAN2", "v8.1-A", "v8.2-A", <<A64("aa64mmfr1[23:20]", 2), A32("mmfr3[19:16]", 2)>>),
    Feature("RAS", "v8.0-A", "v8.2-A", <<Both("pfr0[31:28]", "aa64pfr0[31:28]", 1)>>),
    Feature("SHA3", "v8.1-A", NoVersion, <<A64("aa64isar0[35:32]", 1)>>),
    Feature("SHA512", "v8.1-A", NoVersion, <<A64("aa64isar0[15:12]", 2)>>),
    Feature("SM3", "v8.1-A", NoVersion, <<A64("aa64isar0[39:36]", 1)>>),
    Feature("SM4", "v8.1-A", NoVersion, <<A64("aa64isar0[43:40]", 1)>>),
    Feature("SPE", "v8.1-A", NoVersion, <<A64("aa64dfr0[35:32]", 1)>>),
    Feature("SVE", "v8.2-A", NoVersion, <<A64("aa64pfr0[35:32]", 1)>>),
    Feature("TTCNP", "v8.1-A", "v8.2-A", <<A64("aa64mmfr2[3:0]", 1), A32("mmfr4[15:12]", 1)>>),
    Feature("UAO", "v8.1-A", "v8.2-A", <<A64("aa64mmfr2[7:4]", 1)>>),
    Feature("XNX", "v8.1-A", NoVersion, <<A64("aa64mmfr1[31:28]", 1), A32("mmfr4[11:8]", 1)>>)>>

Armv83Features ==
  <<Feature("CCIDX", "v8.2-A", NoVersion, <<A64("aa64mmfr2[23:20]", 1), A32("mmfr4[27:24]", 1)>>),
    Feature("CONSTPACFIELD", "v8.2-A", NoVersion, <<A64("aa64isar2[27:24]", 1)>>),
    Feature("EPAC", "v8.2-A", NoVersion,
             <<A64("aa64isar1[11:8]", 2), A64("aa64isar1[7:4]", 2), A64("aa64isar2[15:12]", 2)>>),
    Feature("FCMA", "v8.2-A", NoVersion, <<A64("aa64isar1[19:16]", 1), A32("isar5[31:28]", 1)>>),
    Feature("FPAC", "v8.2-A", NoVersion,
             <<A64("aa64isar1[11:8]", 4), A64("aa64isar1[7:4]", 4), A64("aa64isar2[15:12]", 4)>>),
    Feature("FPACCOMBINE", "v8.2-A", NoVersion,
             <<A64("aa64isar1[11:8]", 5), A64("aa64isar1[7:4]", 5), A64("aa64isar2[15:12]", 5)>>),
    Feature("JSCVT", "v8.2-A", NoVersion, <<A64("aa64isar1[15:12]", 1), A32("isar6[3:0]", 1)>>),
    Feature("LRCPC", "v8.2-A", "v8.3-A", <<A64("aa64isar1[23:20]", 1)>>),
    Feature("PACIMP", "v8.2-A", NoVersion, <<A64("aa64isar1[31:28]", 1)>>),
    Feature("PACQARMA3", "v8.2-A", NoVersion, <<A64("aa64isar2[11:8]", 1)>>),
    Feature("PACQARMA5", "v8.2-A", NoVersion, <<A64("aa64isar1[27:24]", 1)>>),
    Feature("PAUTH", "v8.2-A", "v8.3-A",
             <<A64("aa64isar1[11:8]", 1), A64("aa64isar1[7:4]", 1), A64("aa64isar2[15:12]", 1)>>),
    Feature("SPEV1P1", "v8.2-A", NoVersion, <<A64("aa64dfr0[35:32]", 2)>>)>>

Armv84FeaturesAtoI ==
  <<Feature("AMUV1", "v8.3-A", NoVersion, <<A64("aa64pfr0[47:44]", 1), A32("pfr0[23:20]", 1)>>),
    Feature("BBM", "v8.3-A", "v8.4-A",
             <<A64("aa64mmfr2[55:52]", 0), A64("aa64mmfr2[55:52]", 1), A64("aa64mmfr2[55:52]", 2)>>),
    Feature("DIT", "v8.3-A", "v8.4-A", <<A64("aa64pfr0[51:48]", 1), A32("pfr0[27:24]", 1)>>),
    Feature("DEBUGV8P4", "v8.3-A", "v8.4-A", <<Both("dfr0[3:0]", "aa64dfr0[3:0]", 9)>>),
    Feature("DOTPROD", "v8.1-A", NoVersion, <<A64("aa64isar0[47:44]", 1), A32("isar6[7:4]", 1)>>),
    Feature("DOUBLEFAULT", "v8.4-A", NoVersion, <<A64("aa64pfr0[31:28]", 2)>>),
    Feature("FHM", "v8.1-A", NoVersion, <<A64("aa64isar0[51:48]", 1), A32("isar6[11:8]", 1)>>),
    Feature("FLAGM", "v8.1-A", "v8.4-A", <<A64("aa64isar0[55:52]", 1)>>),
    Feature("IDST", "v8.3-A", "v8.4-A", <<A64("aa64mmfr2[39:36]", 1)>>)>>

Armv84FeaturesLtoT ==
  <<Feature("LRCPC2", "v8.2-A", "v8.4-A", <<A64("aa64isar1[23:20]", 2)>>),
    Feature("LSE2", "v8.2-A", "v8.4-A", <<A64("aa64mmfr2[35:32]", 1)>>),
    Feature("PMUV3P4", "v8.3-A", NoVersion, <<A64("aa64dfr0[11:8]", 5), A32("dfr0[27:24]", 5)>>),
    Feature("RASV1P1", "v8.2-A", NoVersion, <<Both("pfr0[31:28]", "aa64pfr0[31:28]", 2)>>),
    Feature("S2FWB", "v8.3-A", NoVersion, <<A64("aa64mmfr2[43:40]", 1)>>),
    Feature("SEL2", "v8.3-A", NoVersion, <<A64("aa64pfr0[39:36]", 1)>>),
    Feature("TLBIOS", "v8.3-A", "v8.4-A", <<A64("aa64isar0[59:56]", 1), A64("aa64isar0[59:56]", 2)>>),
    Feature("TLBIRANGE", "v8.3-A", "v8.4-A", <<A64("aa64isar0[59:56]", 2)>>),
    Feature("TRF", "v8.3-A", NoVersion, <<A64("aa64dfr0[43:40]", 1), A32("dfr0[31:28]", 1)>>),
    Feature("TTL", "v8.3-A", "v8.4-A", <<A64("aa64mmfr2[51:48]", 1)>>),
    Feature("TTST", "v8.3-A", NoVersion, <<A64("aa64mmfr2[31:28]", 1)>>)>>

Armv85FeaturesBtoM ==
  <<Feature("BTI", "v8.4-A", "v8.5-A", <<A64("aa64pfr1[3:0]", 1)>>),
    Feature("CSV2", "v8.0-A", "v8.5-A", <<A64("aa64pfr0[59:56]", 1), A32("pfr0[19:16]", 1)>>),
    Feature("CSV3", "v8.0-A", "v8.5-A", <<A64("aa64pfr0[63:60]", 1)>>),
    Feature("DPB2", "v8.1-A", "v8.5-A", <<A64("aa64isar1[3:0]", 2)>>),
    Feature("E0PD", "v8.4-A", "v8.5-A", <<A64("aa64mmfr2[63:60]", 1)>>),
    Feature("EVT", "v8.2-A", NoVersion,
             <<A64("aa64mmfr2[59:56]", 1), A64("aa64mmfr2[59:56]", 2), A32("mmfr4[31:28]", 1), A32("mmfr4[31:28]", 2)>>),
    Feature("EXS", "v8.4-A", NoVersion, <<A64("aa64mmfr0[47:44]", 1)>>),
    Feature("FRINTTS", "v8.4-A", NoVersion, <<A64("aa64isar1[35:32]", 1)>>),
    Feature("FLAGM2", "v8.4-A", NoVersion, <<A64("aa64isar0[55:52]", 2)>>),
    Feature("MTE", "v8.4-A", NoVersion, <<A64("aa64pfr1[11:8]", 1)>>),
    Feature("MTE2", "v8.4-A", NoVersion, <<A64("aa64pfr1[11:8]", 2)>>)>>

Armv85FeaturesPtoS ==
  <<Feature("PMUV3P5", "v8.4-A", NoVersion, <<A64("aa64dfr0[11:8]", 6), A32("dfr0[27:24]", 6)>>),
    Feature("RNG", "v8.4-A", NoVersion, <<A64("aa64isar0[63:60]", 1)>>),
    Feature("RNG_TRAP", "v8.4-A", NoVersion, <<A64("aa64pfr1[31:28]", 1)>>),
    Feature("SB", "v8.0-A", "v8.5-A", <<A64("aa64isar1[39:36]", 1), A32("isar6[15:12]", 1)>>),
    Feature("SPECRES", "v8.0-A", "v8.5-A", <<A64("aa64isar1[43:40]", 1), A32("isar6[19:16]", 1)>>),
    Feature("SSBS", "v8.0-A", NoVersion, <<Both("pfr2[7:4]", "aa64pfr1[7:4]", 1)>>),
    Feature("SSBS2", "v8.0-A", NoVersion, <<A64("aa64pfr1[7:4]", 2)>>)>>

Armv86Features ==
  <<Feature("AA32BF16", "v8.2-A", NoVersion, <<A32("isar6[23:20]", 1)>>),
    Feature("AMUV1P1", "v8.5-A", NoVersion, <<A64("aa64pfr0[47:44]", 2), A32("pfr0[23:20]", 2)>>),
    Feature("BF16", "v8.2-A", "v8.6-A", <<A64("aa64isar1[47:44]", 1), A64("aa64zfr0[23:20]", 1)>>),
    Feature("DGH", "v8.0-A", NoVersion, <<A64("aa64isar1[51:48]", 1)>>),
    Feature("ECV", "v8.5-A", "v8.6-A", <<A64("aa64mmfr0[63:60]", 1), A64("aa64mmfr0[63:60]", 2)>>),
    Feature("FGT", "v8.5-A", NoVersion, <<A64("aa64mmfr0[59:56]", 1)>>),
    Feature("HPMN0", "v8.5-A", NoVersion, <<A64("aa64dfr0[63:60]", 1), A32("dfr0[7:4]", 1)>>),
    Feature("MTPMU", "v8.5-A", NoVersion, <<A64("aa64dfr0[51:48]", 1), A32("dfr1[3:0]", 1)>>),
    Feature("PAUTH2", "v8.2-A", "v8.6-A",
             <<A64("aa64isar1[11:8]", 3), A64("aa64isar1[7:4]", 3), A64("aa64isar2[15:12]", 3)>>),
    Feature("TWED", "v8.5-A", NoVersion, <<A64("aa64mmfr1[35:32]", 1)>>)>>

Armv87Features ==
  <<Feature("AFP", "v8.6-A", NoVersion, <<A64("aa64mmfr1[47:44]", 1)>>),
    Feature("EBF16", "v8.2-A", NoVersion, <<A64("aa64isar1[47:44]", 2), A64("aa64zfr0[23:20]", 2)>>),
    Feature("HCX", "v8.6-A", NoVersion, <<A64("aa64mmfr1[43:40]", 1)>>),
    Feature("LPA2", "v8.6-A", NoVersion, <<A64("aa64mmfr0[31:28]", 1), A64("aa64mmfr0[23:20]", 1)>>),
    Feature("LS64", "v8.6-A", NoVersion, <<A64("aa64isar1[63:60]", 1)>>),
    Feature("LS64_ACCDATA", "v8.6-A", NoVersion, <<A64("aa64isar1[63:60]", 3)>>),
    Feature("LS64_V", "v8.6-A", NoVersion, <<A64("aa64isar1[63:60]", 2)>>),
    Feature("MTE3", "v8.5-A", NoVersion, <<A64("aa64pfr1[11:8]", 3)>>),
    Feature("MTE_ASYM_FAULT", "v8.7-A", NoVersion, <<A64("aa64pfr1[11:8]", 3)>>),
    Feature("PAN3", "v8.0-A", "v8.7-A", <<A64("aa64mmfr1[23:20]", 3)>>),
    Feature("PMUV3P7", "v8.6-A", NoVersion, <<A64("aa64dfr0[11:8]", 7), A32("dfr0[27:24]", 7)>>),
    Feature("RPRES", "v8.6-A", NoVersion, <<A64("aa64isar2[7:4]", 1)>>),
    Feature("SPEV1P2", "v8.6-A", NoVersion, <<A64("aa64dfr0[35:32]", 3)>>),
    Feature("WFXT", "v8.6-A", "v8.7-A", <<A64("aa64isar2[3:0]", 2)>>),
    Feature("XS", "v8.6-A", "v8.7-A", <<A64("aa64isar1[59:56]", 1)>>)>>

Armv88Features ==
  <<Feature("CMOW", "v8.7-A", "v8.8-A", <<A64("aa64mmfr1[59:56]", 1)>>),
    Feature("DEBUGV8P8", "v8.7-A", "v8.8-A", <<Both("dfr0[3:0]", "aa64dfr0[3:0]", 10)>>),
    Feature("HBC", "v8.7-A", "v8.8-A", <<A64("aa64isar2[23:20]", 1)>>),
    Feature("MOPS", "v8.7-A", "v8.8-A", <<A64("aa64isar2[19:16]", 1)>>),
    Feature("NMI", "v8.7-A", "v8.8-A", <<A64("aa64pfr1[39:36]", 1)>>),
    Feature("PMUV3P8", "v8.7-A", NoVersion, <<A64("aa64dfr0[11:8]", 8), A32("dfr0[27:24]", 8)>>),
    Feature("SCTLR2", "v8.0-A", "v8.9-A", <<A64("aa64mmfr3[7:4]", 1)>>),
    Feature("SPEV1P3", "v8.7-A", NoVersion, <<A64("aa64dfr0[35:32]", 4)>>),
    Feature("TCR2", "v8.0-A", "v8.9-A", <<A64("aa64mmfr3[3:0]", 1)>>),
    Feature("TIDCP1", "v8.7-A", "v8.8-A", <<A64("aa64mmfr1[55:52]", 1)>>)>>

Armv89FeaturesAtoM ==
  <<Feature("ADERR", "v8.8-A", NoVersion, <<A64("aa64mmfr3[59:56]", 2), A64("aa64mmfr3[55:52]", 2)>>),
    Feature("AIE", "v8.8-A", NoVersion, <<A64("aa64mmfr3[27:24]", 1)>>),
    Feature("ANERR", "v8.8-A", NoVersion, <<A64("aa64mmfr3[47:44]", 2), A64("aa64mmfr3[43:40]", 2)>>),
    Feature("ATS1A", "v8.8-A", NoVersion, <<A64("aa64isar2[63:60]", 1)>>),
    Feature("CLRBHB", "v8.0-A", "v8.9-A", <<Both("isar6[31:28]", "aa64isar2[31:28]", 1)>>),
    Feature("CSSC", "v8.7-A", NoVersion, <<A64("aa64isar2[55:52]", 1)>>),
    Feature("DEBUGV8P9", "v8.8-A", "v8.9-A", <<Both("dfr0[3:0]", "aa64dfr0[3:0]", 11)>>),
    Feature("DOUBLEFAULT2", "v8.8-A", NoVersion, <<A64("aa64pfr1[59:56]", 1)>>),
    Feature("ECBHB", "v8.0-A", "v8.9-A", <<A64("aa64mmfr1[63:60]", 1)>>),
    Feature("FGT2", "v8.8-A", NoVersion, <<A64("aa64mmfr0[59:56]", 2)>>),
    Feature("HAFT", "v8.7-A", NoVersion, <<A64("aa64mmfr1[3:0]", 3)>>),
    Feature("LRCPC3", "v8.2-A", NoVersion, <<A64("aa64isar1[23:20]", 3)>>),
    Feature("MTE_PERM", "v8.7-A", NoVersion, <<A64("aa64pfr2[3:0]", 1)>>),
    Feature("MTE_STORE_ONLY", "v8.7-A", NoVersion, <<A64("aa64pfr2[7:4]", 1)>>),
    Feature("MTE_TAGGED_FAR", "v8.7-A", NoVersion, <<A64("aa64pfr2[11:8]", 1)>>)>>

Armv89FeaturesPtoT ==
  <<Feature("PFAR", "v8.8-A", NoVersion, <<A64("aa64pfr1[63:60]", 1)>>),
    Feature("PMUV3_ICNTR", "v8.8-A", NoVersion, <<A64("aa64dfr1[39:36]", 1)>>),
    Feature("PMUV3_SS", "v8.8-A", NoVersion, <<A64("aa64dfr0[19:16]", 1)>>),
    Feature("PMUV3P9", "v8.8-A", NoVersion, <<A64("aa64dfr0[11:8]", 9), A32("dfr0[27:24]", 9)>>),
    Feature("PRFMSLC", "v8.0-A", NoVersion, <<A64("aa64isar2[43:40]", 1)>>),
    Feature("RASV2", "v8.8-A", NoVersion, <<Both("pfr0[31:28]", "aa64pfr0[31:28]", 3)>>),
    Feature("RPRFM", "v8.0-A", NoVersion, <<A64("aa64isar2[51:48]", 1)>>),
    Feature("S1PIE", "v8.8-A", NoVersion, <<A64("aa64mmfr3[11:8]", 1)>>),
    Feature("S1POE", "v8.8-A", NoVersion, <<A64("aa64mmfr3[19:16]", 1)>>),
    Feature("S2PIE", "v8.8-A", NoVersion, <<A64("aa64mmfr3[15:12]", 1)>>),
    Feature("S2POE", "v8.8-A", NoVersion, <<A64("aa64mmfr3[23:20]", 1)>>),
    Feature("SPECRES2", "v8.0-A", "v8.9-A", <<A64("aa64isar1[43:40]", 2), A32("isar6[19:16]", 2)>>),
    Feature("SPE_DPFZS", "v8.6-A", NoVersion, <<A64("aa64dfr1[55:52]", 1)>>),
    Feature("SPEV1P4", "v8.8-A", NoVersion, <<A64("aa64dfr0[35:32]", 5)>>),
    Feature("SPMU", "v8.8-A", NoVersion, <<A64("aa64dfr1[35:32]", 1)>>),
    Feature("THE", "v8.8-A", NoVersion, <<A64("aa64dfr1[51:48]", 1)>>)>>

Armv90Features ==
  <<Feature("SVE2", "v9.0-A", NoVersion, <<A64("aa64zfr0[3:0]", 1)>>),
    Feature("SVE_AES", "v9.0-A", NoVersion, <<A64("aa64zfr0[7:4]", 1)>>),
    Feature("SVE_BITPERM", "v9.0-A", NoVersion, <<A64("aa64zfr0[19:16]", 1)>>),
    Feature("SVE_PMULL128", "v9.0-A", NoVersion, <<A64("aa64zfr0[7:4]", 2)>>),
    Feature("SVE_SHA3", "v9.0-A", NoVersion, <<A64("aa64zfr0[35:32]", 1)>>),
    Feature("SVE_SM4", "v9.0-A", NoVersion, <<A64("aa64zfr0[43:40]", 1)>>),
    Feature("TME", "v9.0-A", NoVersion, <<A64("aa64isar0[27:24]", 1)>>),
    Feature("TRBE", "v9.0-A", NoVersion, <<A64("aa64dfr0[47:44]", 1)>>)>>

Armv92Features ==
  <<Feature("BRBE", "v9.1-A", NoVersion, <<A64("aa64dfr0[55:52]", 1)>>),
    Feature("RME", "v9.1-A", NoVersion, <<A64("aa64pfr0[55:52]", 1)>>),
    Feature("SME", "v9.2-A", NoVersion, <<A64("aa64pfr1[27:24]", 1)>>),
    Feature("SME_F64F64", "v9.2-A", NoVersion, <<A64("aa64smfr0[48:48]", 1)>>),
    Feature("SME_FA64", "v9.2-A", NoVersion, <<A64("aa64smfr0[63:63]", 1)>>),
    Feature("SME_I16I64", "v9.2-A", NoVersion, <<A64("aa64smfr0[55:52]", 15)>>)>>

Armv93Features ==
  <<Feature("BRBEV1P1", "v9.2-A", NoVersion, <<A64("aa64dfr0[55:52]", 2)>>),
    Feature("MEC", "v9.2-A", NoVersion, <<A64("aa64mmfr3[31:28]", 1)>>),
    Feature("SME2", "v9.2-A", NoVersion, <<A64("aa64smfr0[59:56]", 1), A64("aa64pfr1[27:24]", 2)>>)>>

Armv94Features ==
  <<Feature("ABLE", "v9.3-A", NoVersion, <<A64("aa64dfr1[43:40]", 1)>>),
    Feature("BWE", "v9.3-A", NoVersion, <<A64("aa64dfr1[43:40]", 1)>>),
    Feature("D128", "v9.3-A", NoVersion, <<A64("aa64mmfr3[35:32]", 1)>>),
    Feature("EBEP", "v9.3-A", NoVersion, <<A64("aa64dfr1[51:48]", 1)>>),
    Feature("GCS", "v9.3-A", NoVersion, <<A64("aa64pfr1[47:44]", 1)>>),
    Feature("ITE", "v9.3-A", NoVersion, <<A64("aa64dfr1[47:44]", 1)>>),
    Feature("LSE128", "v9.3-A", NoVersion, <<A64("aa64dfr1[23:20]", 3)>>),
    Feature("LVA3", "v9.3-A", NoVersion, <<A64("aa64mmfr2[19:16]", 2)>>),
    Feature("SEBEP", "v9.3-A", NoVersion, <<A64("aa64dfr0[27:24]", 1)>>),
    Feature("SME2P1", "v9.2-A", NoVersion, <<A64("aa64smfr0[59:56]", 2)>>),
    Feature("SME_F16F16", "v9.2-A", NoVersion, <<A64("aa64smfr0[42:42]", 1)>>),
    Feature("SVE2P1", "v9.2-A", NoVersion, <<A64("aa64zfr0[3:0]", 2)>>),
    Feature("SVE_B16B16", "v9.2-A", NoVersion, <<A64("aa64smfr0[43:43]", 1), A64("aa64zfr0[27:24]", 1)>>),
    Feature("SYSINSTR128", "v9.3-A", NoVersion, <<A64("aa64isar2[39:36]", 1)>>),
    Feature("SYSREG128", "v9.3-A", NoVersion, <<A64("aa64isar2[35:32]", 1)>>),
    Feature("TRBE_EXT", "v9.3-A", NoVersion, <<A64("aa64dfr0[59:56]", 1)>>)>>

Armv95FeaturesAtoF ==
  <<Feature("ASID2", "v9.4-A", "v9.5-A", <<A64("aa64mmfr4[11:8]", 1)>>),
    Feature("BWE2", "v9.4-A", NoVersion, <<A64("aa64dfr2[7:4]", 2)>>),
    Feature("CPA", "v9.4-A", "v9.5-A", <<A64("aa64isar3[3:0]", 1)>>),
    Feature("CPA2", "v9.4-A", NoVersion, <<A64("aa64isar3[3:0]", 1)>>),
    Feature("E2H0", "v8.0-A", NoVersion, <<A64("aa64mmfr4[27:24]", 0)>>),
    Feature("E3DSE", "v9.4-A", NoVersion, <<A64("aa64mmfr4[39:36]", 1)>>),
    Feature("ETS3", "v9.4-A", "v9.5-A", <<A64("aa64mmfr1[39:36]", 3), A32("mmfr5[3:0]", 3)>>),
    Feature("FAMINMAX", "v9.2-A", NoVersion, <<A64("aa64isar3[7:4]", 1)>>),
    Feature("FGWTE3", "v9.4-A", NoVersion, <<A64("aa64mmfr4[19:16]", 1)>>),
    Feature("FP8", "v9.2-A", NoVersion,
             <<A64("aa64fpfr0[31:31]", 1), A64("aa64fpfr0[1:1]", 1), A64("aa64fpfr0[0:0]", 1)>>),
    Feature("FP8DOT2", "v9.2-A", NoVersion, <<A64("aa64fpfr0[28:28]", 1)>>),
    Feature("FP8DOT4", "v9.2-A", NoVersion, <<A64("aa64fpfr0[29:29]", 1)>>),
    Feature("FP8FMA", "v9.2-A", NoVersion, <<A64("aa64fpfr0[30:30]", 1)>>),
    Feature("FPMR", "v9.2-A", NoVersion, <<A64("aa64pfr2[35:32]", 1)>>)>>

Armv95FeaturesHtoT ==
  <<Feature("HACDBS", "v9.4-A", NoVersion, <<A64("aa64mmfr4[15:12]", 1)>>),
    Feature("HDBSS", "v9.4-A", NoVersion, <<A64("aa64mmfr1[3:0]", 4)>>),
    Feature("LUT", "v9.2-A", NoVersion, <<A64("aa64isar2[59:56]", 1)>>),
    Feature("PAUTH_LR", "v9.4-A", NoVersion,
             <<A64("aa64isar1[7:3]", 6), A64("aa64isar1[11:8]", 6), A64("aa64isar2[15:12]", 6)>>),
    Feature("RME_GPC2", "v9.4-A", NoVersion, <<A64("aa64pfr0[55:52]", 2)>>),
    Feature("SME_F8F16", "v9.2-A", NoVersion, <<A64("aa64smfr0[41:41]", 1)>>),
    Feature("SME_F8F32", "v9.2-A", NoVersion, <<A64("aa64smfr0[40:40]", 1)>>),
    Feature("SME_LUTV2", "v9.2-A", NoVersion, <<A64("aa64smfr0[60:60]", 1)>>),
    Feature("SPMU2", "v9.4-A", NoVersion, <<A64("aa64dfr1[35:32]", 2)>>),
    Feature("SSVE_FP8DOT2", "v9.2-A", NoVersion, <<A64("aa64smfr0[28:28]", 1)>>),
    Feature("SSVE_FP8DOT4", "v9.2-A", NoVersion, <<A64("aa64smfr0[29:29]", 1)>>),
    Feature("SSVE_FP8FMA", "v9.2-A", NoVersion, <<A64("aa64smfr0[30:30]", 1)>>),
    Feature("STEP2", "v9.4-A", "v9.5-A", <<A64("aa64dfr2[3:0]", 1)>>),
    Feature("TLBIW", "v9.4-A", NoVersion, <<A64("aa64isar3[11:8]", 1)>>)>>

FeaturesMap ==
  Armv5Features \o Armv6Features \o Armv7Features \o Armv80Features \o Armv81Features \o
    Armv82FeaturesAtoI \o Armv82FeaturesLtoX \o Armv83Features \o Armv84FeaturesAtoI \o
    Armv84FeaturesLtoT \o Armv85FeaturesBtoM \o Armv85FeaturesPtoS \o Armv86Features \o
    Armv87Features \o Armv88Features \o Armv89FeaturesAtoM \o Armv89FeaturesPtoT \o
    Armv90Features \o Armv92Features \o Armv93Features \o Armv94Features \o
    Armv95FeaturesAtoF \o Armv95FeaturesHtoT
=============================================================================
