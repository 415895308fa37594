------------------------------ MODULE IdentArm ------------------------------
(***************************************************************************)
(* Identification of an ARM CPU (libcpuid/recog_arm.c): the architecture   *)
(* version is read from the MIDR or found by counting features.  Every     *)
(* feature of the table is matched against fields of ID registers and      *)
(* counted for the version it is optional from and the one it is mandatory *)
(* from; a version is reported when all of its mandatory features were     *)
(* counted.  Of a raw record it looks at                                   *)
(*   midr      the version the MIDR names, or "by-cpuid"                   *)
(*   vendor, codename, purpose   what the implementer and the part say     *)
(*   aarch64   whether one of the AArch64 registers is not zero            *)
(*   field     the value of every register field                           *)
(*   copdbg, simd, psr_m, vmsa, pmsa, ras, mprogmod, mpam, mpam_frac,      *)
(*   mte, mte_frac, mtex       fields that are looked at by themselves     *)
(***************************************************************************)
EXTENDS IdentState

CONSTANTS FeatureMap  \* features_map of load_arm_features, in its order

(* No register of one of the two execution states, no version. *)
NoField == "none"
NoVersion == "none"

V8A == <<"v8.0-A", "v8.1-A", "v8.2-A", "v8.3-A", "v8.4-A", "v8.5-A", "v8.6-A",
         "v8.7-A", "v8.8-A", "v8.9-A">>
V9A == <<"v9.0-A", "v9.1-A", "v9.2-A", "v9.3-A", "v9.4-A">>
OtherVersions == {"v4T", "v5T", "v5TE", "v5TEJ", "v6", "v6-M", "v7-M", "v7E-M", "v7-A",
                  "v7-R", "v8.0-M", "v8.1-M", "v8.0-R", "v9.5-A"}
Versions == {V8A[i] : i \in DOMAIN V8A} \union {V9A[i] : i \in DOMAIN V9A}
              \union OtherVersions

FeatureFields == [aarch32 : STRING, aarch64 : STRING, value : Nat]
FeatureEntries ==
  [feature : STRING, optional : Versions \union {NoVersion},
   mandatory : Versions \union {NoVersion}, fields : Seq(FeatureFields)]
ASSUME FeatureMapAssumption == FeatureMap \in Seq(FeatureEntries)

NoCounts == [total    |-> [optional |-> [v \in Versions |-> 0], mandatory |-> [v \in Versions |-> 0]],
             present  |-> [optional |-> [v \in Versions |-> 0], mandatory |-> [v \in Versions |-> 0]]]

-----------------------------------------------------------------------------
(* set_feature_status: the counts after a feature, and the flags.  A       *)
(* feature without an optional version is not counted as present.          *)

Bump(count, version, really) ==
  [v \in DOMAIN count |-> IF really /\ v = version THEN count[v] + 1 ELSE count[v]]

SetStatus(e, present, optional, mandatory) ==
  [total   |-> [optional  |-> Bump(e.total.optional, optional, TRUE),
                mandatory |-> Bump(e.total.mandatory, mandatory, TRUE)],
   present |-> [optional  |-> Bump(e.present.optional, optional, present),
                mandatory |-> Bump(e.present.mandatory, mandatory,
                                   present /\ optional # NoVersion)]]

SetFlag(flags, feature, present) == IF present THEN flags \union {feature} ELSE flags

(* match_arm_features: the fields are tried until one of them has no       *)
(* register in this execution state.                                       *)
RegisterOf(r, f) == IF r.aarch64 THEN f.aarch64 ELSE f.aarch32

Tried(r, entry) ==
  {i \in DOMAIN entry.fields : \A j \in 1 .. i : RegisterOf(r, entry.fields[j]) # NoField}

\* Mutant: a field above the value matches too, as in the standard ID scheme.
FieldAtLeast(r, f) == r.field[RegisterOf(r, f)] >= f.value

FieldMatches(r, f) == r.field[RegisterOf(r, f)] = f.value

IsPresent(r, entry) == \E i \in Tried(r, entry) : FieldMatches(r, entry.fields[i])

-----------------------------------------------------------------------------
(* Features that do not follow the standard ID scheme. *)

HasPac(flags) == flags \intersect {"PACIMP", "PACQARMA3", "PACQARMA5"} # {}

(* load_arm_feature_pauth counts PAUTH, which the table has counted too.   *)
WithPauth(e, flags) == SetStatus(e, HasPac(flags), "v8.2-A", "v8.3-A")

(* load_arm_feature_mpam *)
WithMpam(e, r) ==
  IF r.mpam = 0 /\ r.mpam_frac = 0 THEN e
  ELSE SetStatus(
         SetStatus(SetStatus(e, TRUE, "v8.2-A", NoVersion),
                   r.mpam = 0 /\ r.mpam_frac = 1, "v8.5-A", NoVersion),
         r.mpam = 1 /\ r.mpam_frac = 1, "v8.5-A", NoVersion)
MpamFlags(r) ==
  (IF r.mpam # 0 \/ r.mpam_frac # 0 THEN {"MPAM"} ELSE {})
    \union (IF r.mpam = 0 /\ r.mpam_frac = 1 THEN {"MPAMV0P1"} ELSE {})
    \union (IF r.mpam = 1 /\ r.mpam_frac = 1 THEN {"MPAMV1P1"} ELSE {})

(* load_arm_feature_mte4 *)
MteFlags(r) ==
  IF r.mte < 2 THEN {}
  ELSE (IF r.mte_frac = 0 THEN {"MTE_ASYNC"} ELSE {})
         \union (IF r.mtex = 1 THEN {"MTE_CANONICAL_TAGS", "MTE_NO_ADDRESS_TAGS"} ELSE {})
HasMte4(flags) ==
  {"MTE_CANONICAL_TAGS", "MTE_NO_ADDRESS_TAGS", "MTE_TAGGED_FAR", "MTE_STORE_ONLY"} \subseteq flags
WithMte(e, r, flags) ==
  LET counted == IF r.mte < 2 THEN e
                 ELSE SetStatus(
                        SetStatus(SetStatus(e, r.mte_frac = 0, "v8.5-A", NoVersion),
                                  r.mtex = 1, "v8.7-A", NoVersion),
                        r.mtex = 1, "v8.7-A", NoVersion)
  IN  SetStatus(counted, HasMte4(flags), "v8.7-A", NoVersion)

-----------------------------------------------------------------------------
(* decode_arm_architecture_version_by_cpuid *)

(* ARMv6, ARMv7 and the M and R profiles are told by single fields. *)
ProfileVersion(r) ==
  CASE r.copdbg \in {2, 3} -> IF r.psr_m = 1 THEN "v6-M" ELSE "v6"
    [] r.copdbg \in {4, 5} /\ r.psr_m = 1 -> IF r.simd = 3 THEN "v7E-M" ELSE "v7-M"
    [] r.copdbg \in {4, 5} /\ r.psr_m # 1 /\ r.vmsa # 0 -> "v7-A"
    [] r.copdbg \in {4, 5} /\ r.psr_m # 1 /\ r.vmsa = 0 /\ r.pmsa # 0 -> "v7-R"
    [] r.copdbg \notin 2 .. 5 /\ r.psr_m = 1 /\ r.mprogmod = 2 ->
         IF r.ras = 2 THEN "v8.1-M" ELSE "v8.0-M"
    [] r.copdbg \notin 2 .. 5 /\ ~(r.psr_m = 1 /\ r.mprogmod = 2) /\ r.pmsa # 0 -> "v8.0-R"
    [] OTHER -> "unknown"

Counted(e, v) == e.present.optional[v] > 0 \/ e.present.mandatory[v] > 0

(* The versions that are tried, oldest first. *)
VersionList(e) ==
  CASE Counted(e, "v9.0-A") -> V9A
    [] ~Counted(e, "v9.0-A") /\ Counted(e, "v8.0-A") -> V8A
    [] OTHER -> <<>>

\* Mutant: one mandatory feature is enough.
NoneOf(e, v) ==
  \/ e.present.mandatory[v] = 0 /\ e.total.mandatory[v] > 0
  \/ e.total.mandatory[v] = 0 /\ e.present.optional[v] = 0

(* What ends the loop over the versions. *)
Missing(e, v) ==
  \/ e.present.mandatory[v] < e.total.mandatory[v]
  \/ e.total.mandatory[v] = 0 /\ e.present.optional[v] = 0

-----------------------------------------------------------------------------
(* The steps. *)

ThumbVersions == {"v4T", "v5T", "v5TE", "v5TEJ"}

(* cpuid_identify_arm up to the loop over the table: the version is set    *)
(* here when the MIDR names it, and Thumb and Jazelle follow from it.      *)
ArmBasicIdentify ==
  /\ pc = "arm"
  /\ data' = [data EXCEPT
       !.vendor  = raw.vendor, !.purpose = raw.purpose, !.codename = raw.codename,
       !.level   = IF raw.midr = "by-cpuid" THEN @ ELSE raw.midr,
       !.flags   = (IF raw.midr \in ThumbVersions THEN {"THUMB"} ELSE {})
                     \union (IF raw.midr = "v5TEJ" THEN {"JAZELLE"} ELSE {})]
  /\ ext' = NoCounts
  /\ pc' = "features"
  /\ k' = 1
  /\ UNCHANGED <<raw, host, internal, best, ret>>

(* One iteration of the loop over the table: match_arm_features. *)
MatchFeature ==
  /\ pc = "features"
  /\ k <= Len(FeatureMap)
  /\ LET f == FeatureMap[k]
     IN  /\ ext' = SetStatus(ext, IsPresent(raw, f), f.optional, f.mandatory)
         /\ data' = [data EXCEPT !.flags = SetFlag(@, f.feature, IsPresent(raw, f))]
  /\ k' = k + 1
  /\ UNCHANGED <<pc, raw, host, internal, best, ret>>

SpecialFlags(r, flags) ==
  LET all == SetFlag(flags, "PAUTH", HasPac(flags)) \union MpamFlags(r) \union MteFlags(r)
  IN  SetFlag(all, "MTE4", HasMte4(all))

MatchSpecialFeatures ==
  /\ pc = "features"
  /\ k > Len(FeatureMap)
  /\ data' = [data EXCEPT !.flags = SpecialFlags(raw, @)]
  /\ ext' = WithMte(WithMpam(WithPauth(ext, data.flags), raw), raw,
                    data.flags \union MteFlags(raw))
  /\ IF raw.midr = "by-cpuid" THEN pc' = "version" /\ UNCHANGED ret
     ELSE Return("ERR_OK")
  /\ UNCHANGED <<raw, host, internal, k, best>>

(* A version told by single fields ends the search. *)
VersionByProfile ==
  /\ pc = "version"
  /\ data' = [data EXCEPT !.level = ProfileVersion(raw)]
  /\ IF ProfileVersion(raw) = "unknown" THEN pc' = "versions" /\ UNCHANGED ret
     ELSE Return("ERR_OK")
  /\ k' = 1
  /\ UNCHANGED <<raw, host, internal, best, ext>>

(* One iteration of the loop over the versions.  The local feature_level,  *)
(* which becomes data->feature_level when the loop ends, is data.level.    *)
EndOfVersions == k <= Len(VersionList(ext)) => Missing(ext, VersionList(ext)[k])

NextVersion ==
  /\ pc = "versions"
  /\ ~EndOfVersions
  /\ data' = [data EXCEPT !.level = VersionList(ext)[k]]
  /\ k' = k + 1
  /\ UNCHANGED <<pc, raw, host, internal, best, ext, ret>>

VersionsDone ==
  /\ pc = "versions"
  /\ EndOfVersions
  /\ Return("ERR_OK")
  /\ UNCHANGED <<raw, host, data, internal, k, best, ext>>

NextArm ==
  \/ ArmBasicIdentify \/ MatchFeature \/ MatchSpecialFeatures
  \/ VersionByProfile \/ NextVersion \/ VersionsDone
=============================================================================
