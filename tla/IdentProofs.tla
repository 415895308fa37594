----------------------------- MODULE IdentProofs ----------------------------
(***************************************************************************)
(* What holds of the identification of every record, on every machine and  *)
(* for every match table and feature table: the codename is that of the    *)
(* first best entry, and a reported ARM version has its mandatory features *)
(***************************************************************************)
EXTENDS Ident, TLAPS

-----------------------------------------------------------------------------
(* Lemmas about the operators. *)

(* A score is a natural number. *)
LEMMA ScoreIsNat ==
  ASSUME NEW v \in DOMAIN MatchTable, NEW j \in DOMAIN MatchTable[v], NEW d, NEW brand
  PROVE  Score(MatchTable[v][j], d, brand) \in Nat
<1> DEFINE entry == MatchTable[v][j]
<1>a. MatchTable[v] \in Seq(MatchEntries)
  BY TablesAssumption
<1>b. entry \in MatchEntries
  BY <1>a
<1>1. entry.score \in Nat
  BY <1>b DEF MatchEntries
<1>2. \A w, f : Points(w, f, 2) \in Nat /\ Points(w, f, 1) \in Nat
  BY DEF Points
<1> HIDE DEF entry
<1>3. Score(entry, d, brand) \in Nat
  BY <1>1, <1>2 DEF Score
<1> QED BY <1>3 DEF entry

(* A score only looks at what the table can ask for. *)
LEMMA ScoreDepends ==
  ASSUME NEW entry, NEW d, NEW e, NEW brand,
         \A f \in {"family", "model", "stepping", "extFamily", "extModel", "cores", "cache"} :
           d[f] = e[f]
  PROVE  Score(entry, d, brand) = Score(entry, e, brand)
BY DEF Score

(* The table of a vendor that has a routine is not empty. *)
LEMMA RoutineHasEntries ==
  ASSUME NEW vendor, Routine(vendor) # "none"
  PROVE  /\ Routine(vendor) \in DOMAIN MatchTable
         /\ Len(MatchTable[Routine(vendor)]) \in Nat \ {0}
         /\ DOMAIN MatchTable[Routine(vendor)] = 1 .. Len(MatchTable[Routine(vendor)])
<1>1. Routine(vendor) \in {"intel", "amd", "centaur"}
  BY DEF Routine
<1>2. Routine(vendor) \in DOMAIN MatchTable
  BY <1>1, TablesAssumption
<1>3. \A v \in DOMAIN MatchTable :
        Len(MatchTable[v]) \in Nat \ {0} /\ DOMAIN MatchTable[v] = 1 .. Len(MatchTable[v])
  BY TablesAssumption
<1> QED BY <1>2, <1>3

(* The table of the CPU at hand. *)
LEMMA TableHasEntries ==
  ASSUME Routine(data.vendor) # "none"
  PROVE  /\ Routine(data.vendor) \in DOMAIN MatchTable
         /\ Len(Table) \in Nat \ {0}
         /\ DOMAIN Table = 1 .. Len(Table)
BY RoutineHasEntries DEF Table

(* A score of the table of the CPU at hand. *)
LEMMA ScoreOfTable ==
  ASSUME Routine(data.vendor) # "none", NEW j \in 1 .. Len(Table), NEW d, NEW brand
  PROVE  Score(Table[j], d, brand) \in Nat
BY TableHasEntries, ScoreIsNat DEF Table

-----------------------------------------------------------------------------
(* Every step follows the architecture it found. *)

(* Every call starts with the steps of no architecture, takes those of the
   one it found, and changes it at no step. *)
LEMMA InitSteps == Init => StepsOfArch
BY DEF Init, StepsOfArch, X86Steps, ArmSteps, CpuIdConstructor

LEMMA CallSteps ==
  ASSUME StepsOfArch, NEW r \in RawRecords, NEW h \in Hosts, Call(r, h)
  PROVE  StepsOfArch'
<1>1. data' = [CpuIdConstructor EXCEPT !.arch = r.arch]
  BY DEF Call, Constructed
<1>2. DOMAIN data' = DOMAIN CpuIdConstructor /\ data'.arch = r.arch
  BY <1>1 DEF CpuIdConstructor
<1>3. \/ pc' = "basic" /\ r.arch = "x86"
      \/ pc' = "arm" /\ r.arch = "arm"
      \/ pc' = "returned"
  BY DEF Call, Return
<1> QED BY <1>2, <1>3 DEF StepsOfArch, X86Steps, ArmSteps

LEMMA X86StepsKeep == StepsOfArch /\ NextX86 => StepsOfArch'
<1> SUFFICES ASSUME StepsOfArch, NextX86 PROVE StepsOfArch'
  OBVIOUS
<1> USE DEF StepsOfArch, X86Steps, ArmSteps, CpuIdConstructor
<1>1. CASE UnknownVendor BY <1>1 DEF UnknownVendor, Return
<1>2. CASE BasicIdentify BY <1>2 DEF BasicIdentify
<1>3. CASE NoRoutine BY <1>3 DEF NoRoutine, Return
<1>4. CASE VendorIdentify BY <1>4 DEF VendorIdentify
<1>5. CASE DecodeCache BY <1>5 DEF DecodeCache
<1>6. CASE CachesDone BY <1>6 DEF CachesDone
<1>7. CASE DecodeCores BY <1>7 DEF DecodeCores
<1>8. CASE DecodeLevel BY <1>8 DEF DecodeLevel
<1>9. CASE MatchEntry BY <1>9 DEF MatchEntry
<1>10. CASE Matched BY <1>10 DEF Matched, Return
<1>11. CASE CountSection BY <1>11 DEF CountSection
<1>12. CASE SectionsDone BY <1>12 DEF SectionsDone, Return
<1>13. CASE DivideByZero BY <1>13 DEF DivideByZero, Return
<1> QED BY <1>1, <1>2, <1>3, <1>4, <1>5, <1>6, <1>7, <1>8, <1>9, <1>10, <1>11, <1>12, <1>13
        DEF NextX86

LEMMA ArmStepsKeep == StepsOfArch /\ NextArm => StepsOfArch'
<1> SUFFICES ASSUME StepsOfArch, NextArm PROVE StepsOfArch'
  OBVIOUS
<1> USE DEF StepsOfArch, X86Steps, ArmSteps, CpuIdConstructor
<1>1. CASE ArmBasicIdentify BY <1>1 DEF ArmBasicIdentify
<1>2. CASE MatchFeature BY <1>2 DEF MatchFeature
<1>3. CASE MatchSpecialFeatures BY <1>3 DEF MatchSpecialFeatures, Return
<1>4. CASE VersionByProfile BY <1>4 DEF VersionByProfile, Return
<1>5. CASE NextVersion BY <1>5 DEF NextVersion
<1>6. CASE VersionsDone BY <1>6 DEF VersionsDone, Return
<1> QED BY <1>1, <1>2, <1>3, <1>4, <1>5, <1>6 DEF NextArm

-----------------------------------------------------------------------------
(* match_cpu_codename finds the first best entry. *)

(* A call that has just begun has not matched anything. *)
LEMMA CallMatching ==
  ASSUME StepsOfArch, NEW r \in RawRecords, NEW h \in Hosts, Call(r, h)
  PROVE  Matching'
<1>1. /\ pc' = "basic" \/ pc' = "arm" \/ (pc' = "returned" /\ ret' = "ERR_CPU_UNKN")
  BY DEF Call, Return
<1> QED BY <1>1 DEF Matching, DoneX86, Done

(* One more entry is compared. *)
LEMMA MatchEntryMatching ==
  ASSUME StepsOfArch, Matching, MatchEntry
  PROVE  Matching'
<1> DEFINE n == Len(Table)
           s == Score(Table[k], data, raw.brand)
<1>1. /\ pc = "match" /\ k <= n /\ k' = k + 1
      /\ best' = IF s > best.score THEN [score |-> s, index |-> k] ELSE best
      /\ pc' = "match" /\ data' = data /\ raw' = raw
  BY DEF MatchEntry, Better
<1>2. Routine(data.vendor) # "none" /\ BestSoFar
  BY <1>1 DEF StepsOfArch, X86Steps, Matching
<1>3. n \in Nat
  BY <1>2, TableHasEntries
<1>4. k \in 1 .. n
  BY <1>1, <1>2, <1>3 DEF BestSoFar
<1>5. \A j \in 1 .. n : Score(Table[j], data, raw.brand) \in Nat
  BY <1>2, ScoreOfTable
<1>6. Table' = Table
  BY <1>1 DEF Table
<1> DEFINE sc(j) == Score(Table[j], data, raw.brand)
<1>7. \A j : Score(Table'[j], data', raw'.brand) = sc(j)
  BY <1>1, <1>6
<1>8. \A j \in 1 .. n : sc(j) \in Nat
  BY <1>5
<1>9. /\ best'.index \in 1 .. k
      /\ best'.score = sc(best'.index)
      /\ \A j \in 1 .. k : sc(j) <= best'.score
      /\ \A j \in 1 .. best'.index - 1 : sc(j) < best'.score
  <2>1. CASE k = 1
    <3>1. best.score = -1
      BY <2>1, <1>2 DEF BestSoFar, NoBest
    <3>2. best' = [score |-> sc(1), index |-> 1]
      BY <1>1, <1>4, <1>8, <2>1, <3>1
    <3> HIDE DEF sc
    <3> QED BY <2>1, <3>2, <1>4, <1>8
  <2>2. CASE k # 1
    <3>1. /\ best.index \in 1 .. k - 1
          /\ best.score = sc(best.index)
          /\ \A j \in 1 .. k - 1 : sc(j) <= best.score
          /\ \A j \in 1 .. best.index - 1 : sc(j) < best.score
      BY <2>2, <1>2 DEF BestSoFar
    <3>2. best' = IF sc(k) > best.score THEN [score |-> sc(k), index |-> k] ELSE best
      BY <1>1
    <3> HIDE DEF sc, n
    <3>3. CASE sc(k) > best.score
      BY <3>1, <3>2, <3>3, <1>3, <1>4, <1>8
    <3>4. CASE ~(sc(k) > best.score)
      BY <3>1, <3>2, <3>4, <1>3, <1>4, <1>8
    <3> QED BY <3>3, <3>4
  <2> QED BY <2>1, <2>2
<1>10. BestSoFar'
  <2>1. k' \in 1 .. n + 1 /\ k' # 1 /\ k' - 1 = k
    BY <1>1, <1>3, <1>4
  <2> HIDE DEF sc
  <2> QED BY <2>1, <1>6, <1>7, <1>9 DEF BestSoFar, n
<1> QED BY <1>1, <1>10 DEF Matching, DoneX86, Done

(* The name of the best entry is what is reported. *)
LEMMA MatchedMatching ==
  ASSUME StepsOfArch, Matching, Matched
  PROVE  Named'
<1> DEFINE n == Len(Table)
           sc(j) == Score(Table[j], data, raw.brand)
<1>1. /\ pc = "match" /\ k > n /\ best' = best /\ raw' = raw
      /\ data' = [data EXCEPT !.codename = Table[best.index].name]
  BY DEF Matched
<1>2. Routine(data.vendor) # "none" /\ BestSoFar /\ DOMAIN data = DOMAIN CpuIdConstructor
  BY <1>1 DEF StepsOfArch, X86Steps, Matching
<1>3. n \in Nat \ {0} /\ DOMAIN Table = 1 .. n
  BY <1>2, TableHasEntries
<1>4. k = n + 1 /\ k # 1
  BY <1>1, <1>2, <1>3 DEF BestSoFar
<1>5. /\ best.index \in 1 .. n
      /\ best.score = sc(best.index)
      /\ \A j \in 1 .. n : sc(j) <= best.score
      /\ \A j \in 1 .. best.index - 1 : sc(j) < best.score
  <2>1. k - 1 = n
    BY <1>3, <1>4
  <2> HIDE DEF n
  <2> QED BY <2>1, <1>2, <1>4 DEF BestSoFar
<1>6. \A f \in {"vendor", "family", "model", "stepping", "extFamily", "extModel", "cores", "cache"} :
        data'[f] = data[f]
  BY <1>1, <1>2 DEF CpuIdConstructor
<1>7. Table' = Table
  BY <1>6 DEF Table
<1>8. \A e, b : Score(e, data', b) = Score(e, data, b)
  BY <1>6, ScoreDepends
<1>9. \A j : Score(Table'[j], data', raw'.brand) = sc(j)
  BY <1>1, <1>7, <1>8
<1>10. data'.codename = Table'[best.index].name
  BY <1>1, <1>2, <1>7 DEF CpuIdConstructor
<1> HIDE DEF sc, n
<1>11. IsFirstBest(best.index)'
  BY <1>3, <1>5, <1>7, <1>9, <1>1 DEF IsFirstBest
<1> QED BY <1>10, <1>11, <1>5, <1>3, <1>7, <1>1 DEF Named

(* Counting EPC sections changes nothing that matters to the name. *)
LEMMA NameStays ==
  ASSUME Named, raw' = raw, DOMAIN data = DOMAIN CpuIdConstructor,
         \/ data' = data
         \/ \E n : data' = [data EXCEPT !.epc = n]
  PROVE  Named'
<1>1. \A f \in {"vendor", "family", "model", "stepping", "extFamily", "extModel", "cores",
                "cache", "codename"} : data'[f] = data[f]
  BY DEF CpuIdConstructor
<1>2. Table' = Table
  BY <1>1 DEF Table
<1>3. \A e, b : Score(e, data', b) = Score(e, data, b)
  BY <1>1, ScoreDepends
<1>4. \A i : IsFirstBest(i)' <=> IsFirstBest(i)
  BY <1>2, <1>3 DEF IsFirstBest
<1> QED BY <1>1, <1>2, <1>4 DEF Named

(* Only the steps above concern the match; ARM steps concern it never. *)
LEMMA X86Matching == StepsOfArch /\ Matching /\ NextX86 => Matching'
<1> SUFFICES ASSUME StepsOfArch, Matching, NextX86 PROVE Matching'
  OBVIOUS
<1> USE DEF Matching, DoneX86, Done
<1>1. CASE UnknownVendor BY <1>1 DEF UnknownVendor, Return
<1>2. CASE BasicIdentify BY <1>2 DEF BasicIdentify
<1>3. CASE NoRoutine BY <1>3 DEF NoRoutine, Return
<1>4. CASE VendorIdentify BY <1>4 DEF VendorIdentify
<1>5. CASE DecodeCache BY <1>5 DEF DecodeCache
<1>6. CASE CachesDone BY <1>6 DEF CachesDone
<1>7. CASE DecodeCores BY <1>7 DEF DecodeCores
<1>8. CASE DecodeLevel
  <2>1. pc' = "match" /\ k' = 1 /\ best' = NoBest
    BY <1>8 DEF DecodeLevel
  <2>2. Routine(data'.vendor) # "none"
    BY <1>8, X86StepsKeep, <2>1 DEF StepsOfArch, X86Steps
  <2>3. Len(Table)' \in Nat \ {0}
    BY <2>2, RoutineHasEntries DEF Table
  <2> QED BY <2>1, <2>3 DEF BestSoFar
<1>9. CASE MatchEntry BY <1>9, MatchEntryMatching
<1>10. CASE Matched BY <1>10, MatchedMatching DEF Matched, Return
<1>11. CASE CountSection
  <2>1. pc = "sgx" /\ pc' = "sgx" /\ data' = data /\ raw' = raw
    BY <1>11 DEF CountSection
  <2> QED BY <2>1, NameStays DEF StepsOfArch
<1>12. CASE SectionsDone
  <2>1. pc = "sgx" /\ pc' = "returned" /\ raw' = raw /\ data' = [data EXCEPT !.epc = k]
    BY <1>12 DEF SectionsDone, Return
  <2> QED BY <2>1, NameStays DEF StepsOfArch
<1>13. CASE DivideByZero BY <1>13 DEF DivideByZero, Return
<1> QED BY <1>1, <1>2, <1>3, <1>4, <1>5, <1>6, <1>7, <1>8, <1>9, <1>10, <1>11, <1>12, <1>13
        DEF NextX86

LEMMA ArmMatching == StepsOfArch /\ NextArm => Matching'
<1> SUFFICES ASSUME StepsOfArch, NextArm PROVE Matching'
  OBVIOUS
<1>1. pc \in ArmSteps
  BY DEF NextArm, ArmBasicIdentify, MatchFeature, MatchSpecialFeatures, VersionByProfile,
         NextVersion, VersionsDone, ArmSteps
<1>2. pc' \in ArmSteps \/ pc' = "returned"
  BY DEF NextArm, ArmBasicIdentify, MatchFeature, MatchSpecialFeatures, VersionByProfile,
         NextVersion, VersionsDone, Return, ArmSteps
<1>3. data'.arch = data.arch
  BY DEF NextArm, ArmBasicIdentify, MatchFeature, MatchSpecialFeatures, VersionByProfile,
         NextVersion, VersionsDone, StepsOfArch, CpuIdConstructor
<1> QED BY <1>1, <1>2, <1>3 DEF StepsOfArch, ArmSteps, Matching, DoneX86, Done

-----------------------------------------------------------------------------
(* Counting of ARM features. *)

(* Counts of mandatory features, and what never changes about them: a      *)
(* version that misses one goes on missing one.                            *)
Counts(e) ==
  /\ e.present.mandatory \in [Versions -> Nat]
  /\ e.total.mandatory \in [Versions -> Nat]
Agree(e, v) == e.present.mandatory[v] = e.total.mandatory[v]
Below(e) == \A v \in Versions : e.present.mandatory[v] <= e.total.mandatory[v]
Follows(f, e) == Counts(f) /\ Below(f) /\ \A v \in Versions : Agree(f, v) => Agree(e, v)

LEMMA BumpCounts ==
  ASSUME NEW c \in [Versions -> Nat], NEW w, NEW really
  PROVE  /\ Bump(c, w, really) \in [Versions -> Nat]
         /\ \A v \in Versions : Bump(c, w, really)[v] =
              IF really /\ v = w THEN c[v] + 1 ELSE c[v]
<1>1. DOMAIN c = Versions /\ \A v \in Versions : c[v] \in Nat /\ c[v] + 1 \in Nat
  OBVIOUS
<1>2. CASE really
  <2>1. Bump(c, w, really) = [v \in Versions |-> IF v = w THEN c[v] + 1 ELSE c[v]]
    BY <1>1, <1>2 DEF Bump
  <2>2. \A v \in Versions : Bump(c, w, really)[v] = IF v = w THEN c[v] + 1 ELSE c[v]
    BY <2>1
  <2> QED BY <1>1, <1>2, <2>1, <2>2
<1>3. CASE ~really
  <2>1. Bump(c, w, really) = [v \in Versions |-> c[v]]
    BY <1>1, <1>3 DEF Bump
  <2>2. Bump(c, w, really) = c
    BY <2>1
  <2> QED BY <1>3, <2>2
<1> QED BY <1>2, <1>3

LEMMA BumpAlways ==
  ASSUME NEW c \in [Versions -> Nat], NEW w
  PROVE  /\ Bump(c, w, TRUE) \in [Versions -> Nat]
         /\ \A v \in Versions : Bump(c, w, TRUE)[v] = IF v = w THEN c[v] + 1 ELSE c[v]
<1>1. \A v \in Versions : c[v] \in Nat /\ c[v] + 1 \in Nat
  OBVIOUS
<1>2. Bump(c, w, TRUE) = [v \in Versions |-> IF v = w THEN c[v] + 1 ELSE c[v]]
  BY DEF Bump
<1>3. \A v \in Versions : Bump(c, w, TRUE)[v] = IF v = w THEN c[v] + 1 ELSE c[v]
  BY <1>2
<1> QED BY <1>1, <1>2, <1>3

(* set_feature_status *)
LEMMA StatusFollows ==
  ASSUME NEW e, Counts(e), Below(e), NEW present \in BOOLEAN, NEW o, NEW m
  PROVE  /\ Follows(SetStatus(e, present, o, m), e)
         /\ m \in Versions /\ Agree(SetStatus(e, present, o, m), m) => present
<1> DEFINE p == e.present.mandatory
           t == e.total.mandatory
           f == SetStatus(e, present, o, m)
           counted == present /\ o # NoVersion
<1>1. p \in [Versions -> Nat] /\ t \in [Versions -> Nat]
  BY DEF Counts
<1>2. f.present.mandatory = Bump(p, m, counted) /\ f.total.mandatory = Bump(t, m, TRUE)
  BY DEF SetStatus
<1>3. \A v \in Versions : p[v] \in Nat /\ t[v] \in Nat /\ p[v] <= t[v]
  BY <1>1 DEF Below
<1> HIDE DEF p, t, f, counted
<1>4. /\ f.present.mandatory \in [Versions -> Nat]
      /\ f.total.mandatory \in [Versions -> Nat]
      /\ \A v \in Versions : f.total.mandatory[v] = IF v = m THEN t[v] + 1 ELSE t[v]
      /\ \A v \in Versions : f.present.mandatory[v] = IF counted /\ v = m THEN p[v] + 1 ELSE p[v]
  <2>1. /\ Bump(t, m, TRUE) \in [Versions -> Nat]
        /\ \A v \in Versions : Bump(t, m, TRUE)[v] = IF v = m THEN t[v] + 1 ELSE t[v]
    BY <1>1, BumpAlways
  <2>2. /\ Bump(p, m, counted) \in [Versions -> Nat]
        /\ \A v \in Versions :
             Bump(p, m, counted)[v] = IF counted /\ v = m THEN p[v] + 1 ELSE p[v]
    BY <1>1, BumpCounts
  <2> QED BY <1>2, <2>1, <2>2
<1>5. CASE counted
  <2>1. \A v \in Versions : f.present.mandatory[v] = IF v = m THEN p[v] + 1 ELSE p[v]
    BY <1>4, <1>5
  <2>2. \A v \in Versions : /\ f.present.mandatory[v] <= f.total.mandatory[v]
                           /\ f.present.mandatory[v] = f.total.mandatory[v] => p[v] = t[v]
    BY <2>1, <1>3, <1>4
  <2>3. Follows(f, e)
    BY <1>4, <2>2 DEF Follows, Counts, Below, Agree, p, t
  <2> QED BY <2>3, <1>5 DEF f, counted
<1>6. CASE ~counted
  <2>1. \A v \in Versions : f.present.mandatory[v] = p[v]
    BY <1>4, <1>6
  <2>2. \A v \in Versions : /\ f.present.mandatory[v] <= f.total.mandatory[v]
                           /\ f.present.mandatory[v] = f.total.mandatory[v] => p[v] = t[v]
    BY <2>1, <1>3, <1>4
  <2>3. Follows(f, e)
    BY <1>4, <2>2 DEF Follows, Counts, Below, Agree, p, t
  <2>4. ASSUME m \in Versions PROVE ~Agree(f, m)
    <3>1. f.present.mandatory[m] = p[m] /\ f.total.mandatory[m] = t[m] + 1
      BY <2>1, <2>4, <1>4
    <3>2. p[m] \in Nat /\ t[m] \in Nat /\ p[m] <= t[m]
      BY <2>4, <1>3
    <3>3. f.present.mandatory[m] # f.total.mandatory[m]
      BY <3>1, <3>2
    <3> QED BY <3>3 DEF Agree
  <2> QED BY <2>3, <2>4 DEF f
<1> QED BY <1>5, <1>6

(* Following is transitive and reflexive. *)
LEMMA FollowsTwice ==
  ASSUME NEW e, NEW f, NEW g, Follows(f, e), Follows(g, f)
  PROVE  Follows(g, e)
BY DEF Follows

LEMMA FollowsItself ==
  ASSUME NEW e, Counts(e), Below(e)
  PROVE  Follows(e, e)
BY DEF Follows

(* The features outside the table are counted the same way. *)
LEMMA PauthFollows ==
  ASSUME NEW e, Counts(e), Below(e), NEW flags
  PROVE  Follows(WithPauth(e, flags), e)
<1>1. HasPac(flags) \in BOOLEAN
  BY DEF HasPac
<1> QED BY <1>1, StatusFollows DEF WithPauth

LEMMA MpamFollows ==
  ASSUME NEW e, Counts(e), Below(e), NEW r
  PROVE  Follows(WithMpam(e, r), e)
<1> DEFINE e1 == SetStatus(e, TRUE, "v8.2-A", NoVersion)
           e2 == SetStatus(e1, r.mpam = 0 /\ r.mpam_frac = 1, "v8.5-A", NoVersion)
           e3 == SetStatus(e2, r.mpam = 1 /\ r.mpam_frac = 1, "v8.5-A", NoVersion)
<1>1. Follows(e1, e)
  BY StatusFollows
<1>2. Counts(e1) /\ Below(e1)
  BY <1>1 DEF Follows
<1> HIDE DEF e1
<1>3. Follows(e2, e1)
  BY <1>2, StatusFollows
<1>4. Counts(e2) /\ Below(e2)
  BY <1>3 DEF Follows
<1> HIDE DEF e2
<1>5. Follows(e3, e2)
  BY <1>4, StatusFollows
<1> HIDE DEF e3
<1>6. Follows(e3, e)
  BY <1>1, <1>3, <1>5, FollowsTwice
<1>7. WithMpam(e, r) = e \/ WithMpam(e, r) = e3
  BY DEF WithMpam, e1, e2, e3
<1> QED BY <1>6, <1>7, FollowsItself

LEMMA MteFollows ==
  ASSUME NEW e, Counts(e), Below(e), NEW r, NEW flags
  PROVE  Follows(WithMte(e, r, flags), e)
<1> DEFINE e1 == SetStatus(e, r.mte_frac = 0, "v8.5-A", NoVersion)
           e2 == SetStatus(e1, r.mtex = 1, "v8.7-A", NoVersion)
           e3 == SetStatus(e2, r.mtex = 1, "v8.7-A", NoVersion)
           counted == IF r.mte < 2 THEN e ELSE e3
<1>1. Follows(e1, e)
  BY StatusFollows
<1>2. Counts(e1) /\ Below(e1)
  BY <1>1 DEF Follows
<1> HIDE DEF e1
<1>3. Follows(e2, e1)
  BY <1>2, StatusFollows
<1>4. Counts(e2) /\ Below(e2)
  BY <1>3 DEF Follows
<1> HIDE DEF e2
<1>5. Follows(e3, e2)
  BY <1>4, StatusFollows
<1> HIDE DEF e3
<1>6. Follows(counted, e)
  BY <1>1, <1>3, <1>5, FollowsTwice, FollowsItself
<1>7. HasMte4(flags) \in BOOLEAN /\ Counts(counted) /\ Below(counted)
  BY <1>6 DEF HasMte4, Follows
<1>8. WithMte(e, r, flags) = SetStatus(counted, HasMte4(flags), "v8.7-A", NoVersion)
  BY DEF WithMte, e1, e2, e3
<1> HIDE DEF counted
<1>9. Follows(SetStatus(counted, HasMte4(flags), "v8.7-A", NoVersion), counted)
  BY <1>7, StatusFollows
<1> QED BY <1>6, <1>8, <1>9, FollowsTwice

-----------------------------------------------------------------------------
(* The invariant of the counting. *)

(* A version that single fields name is in neither of the two lists. *)
LEMMA ProfilesAreOther ==
  ASSUME NEW r, NEW e
  PROVE  /\ \A m \in DOMAIN VersionList(e) : VersionList(e)[m] # ProfileVersion(r)
         /\ ProfileVersion(r) \notin {V8A[i] : i \in DOMAIN V8A}
<1>1. ProfileVersion(r) \in {"v6-M", "v6", "v7E-M", "v7-M", "v7-A", "v7-R", "v8.1-M", "v8.0-M",
                            "v8.0-R", "unknown"}
  BY DEF ProfileVersion
<1>2. VersionList(e) \in {V9A, V8A, <<>>}
  BY DEF VersionList
<1>3. \A m \in 1 .. 10 : V8A[m] \notin {"v6-M", "v6", "v7E-M", "v7-M", "v7-A", "v7-R", "v8.1-M",
                                        "v8.0-M", "v8.0-R", "unknown"}
  BY DEF V8A
<1>4. \A m \in 1 .. 5 : V9A[m] \notin {"v6-M", "v6", "v7E-M", "v7-M", "v7-A", "v7-R", "v8.1-M",
                                       "v8.0-M", "v8.0-R", "unknown"}
  BY DEF V9A
<1>5. DOMAIN V8A = 1 .. 10 /\ DOMAIN V9A = 1 .. 5 /\ DOMAIN <<>> = {}
  BY DEF V8A, V9A
<1> QED BY <1>1, <1>2, <1>3, <1>4, <1>5

(* A list names no version twice, and its versions are counted. *)
LEMMA ListIsWellFormed ==
  ASSUME NEW e
  PROVE  /\ Len(VersionList(e)) \in Nat
         /\ DOMAIN VersionList(e) = 1 .. Len(VersionList(e))
         /\ \A m, n \in DOMAIN VersionList(e) : VersionList(e)[m] = VersionList(e)[n] => m = n
         /\ \A m \in DOMAIN VersionList(e) :
              VersionList(e)[m] \in Versions /\ VersionList(e)[m] # "unknown"
<1>1. VersionList(e) \in {V9A, V8A, <<>>}
  BY DEF VersionList
<1>2. DOMAIN V8A = 1 .. 10 /\ Len(V8A) = 10
  BY DEF V8A
<1>3. \A m, n \in 1 .. 10 : V8A[m] = V8A[n] => m = n
  BY DEF V8A
<1>4. DOMAIN V9A = 1 .. 5 /\ Len(V9A) = 5
  BY DEF V9A
<1>5. \A m, n \in 1 .. 5 : V9A[m] = V9A[n] => m = n
  BY DEF V9A
<1>6. \A m \in 1 .. 10 : V8A[m] \in Versions /\ V8A[m] # "unknown"
  <2>1. \A m \in DOMAIN V8A : V8A[m] \in Versions
    BY DEF Versions
  <2>2. \A m \in 1 .. 10 : V8A[m] # "unknown"
    BY DEF V8A
  <2> QED BY <1>2, <2>1, <2>2
<1>7. \A m \in 1 .. 5 : V9A[m] \in Versions /\ V9A[m] # "unknown"
  <2>1. \A m \in DOMAIN V9A : V9A[m] \in Versions
    BY DEF Versions
  <2>2. \A m \in 1 .. 5 : V9A[m] # "unknown"
    BY DEF V9A
  <2> QED BY <1>4, <2>1, <2>2
<1>8. CASE VersionList(e) = V8A
  BY <1>8, <1>2, <1>3, <1>6
<1>9. CASE VersionList(e) = V9A
  BY <1>9, <1>4, <1>5, <1>7
<1>10. CASE VersionList(e) = <<>>
  BY <1>10
<1> QED BY <1>1, <1>8, <1>9, <1>10

LEMMA FeatureMapIsList ==
  Len(FeatureMap) \in Nat /\ DOMAIN FeatureMap = 1 .. Len(FeatureMap)
BY FeatureMapAssumption

(* What was accounted for stays so under counts that follow. *)
LEMMA AccountedFollows ==
  ASSUME NEW n, Accounted(n), raw' = raw, Follows(ext', ext)
  PROVE  Accounted(n)'
BY DEF Accounted, Follows, Counts, Below, Agree, Present, Total

LEMMA AccountedCounts == ASSUME NEW n, Accounted(n) PROVE Counts(ext) /\ Below(ext)
BY DEF Accounted, Counts, Below, Present, Total

(* One more feature of the table is matched. *)
LEMMA MatchFeatureCounting ==
  ASSUME StepsOfArch, Counting, MatchFeature
  PROVE  Counting'
<1> DEFINE f == FeatureMap[k]
           is == IsPresent(raw, f)
<1>1. /\ pc = "features" /\ pc' = "features" /\ k' = k + 1 /\ raw' = raw
      /\ k <= Len(FeatureMap)
      /\ ext' = SetStatus(ext, is, f.optional, f.mandatory)
      /\ data' = [data EXCEPT !.flags = SetFlag(@, f.feature, is)]
  BY DEF MatchFeature
<1>2. k \in 1 .. Len(FeatureMap) + 1 /\ Accounted(k - 1) /\ Flagged(k - 1)
  BY <1>1 DEF Counting
<1>3. k \in 1 .. Len(FeatureMap) /\ k' \in 1 .. Len(FeatureMap) + 1 /\ k' - 1 = k
  BY <1>1, <1>2, FeatureMapIsList
<1>4. Counts(ext) /\ Below(ext)
  BY <1>2, AccountedCounts
<1>5. is \in BOOLEAN
  BY DEF IsPresent
<1>6. /\ Follows(ext', ext)
      /\ f.mandatory \in Versions /\ Agree(ext', f.mandatory) => is
  <2> HIDE DEF is, f
  <2> QED BY <1>1, <1>4, <1>5, StatusFollows
<1>7. PICK n \in Nat : k = n + 1
  BY <1>3
<1>8. Accounted(n)'
  BY <1>1, <1>2, <1>6, <1>7, AccountedFollows
<1>9. \A j \in 1 .. n + 1 : j \in 1 .. n \/ j = k
  BY <1>7
<1>10. Accounted(n + 1)'
  <2>1. /\ ext'.present.mandatory \in [Versions -> Nat]
        /\ ext'.total.mandatory \in [Versions -> Nat]
        /\ \A v \in Versions : ext'.present.mandatory[v] <= ext'.total.mandatory[v]
    BY <1>8 DEF Accounted, Present, Total
  <2>2. ASSUME NEW v \in Versions, ext'.present.mandatory[v] = ext'.total.mandatory[v],
               NEW j \in 1 .. n + 1, FeatureMap[j].mandatory = v
        PROVE  IsPresent(raw, FeatureMap[j])
    <3>1. CASE j \in 1 .. n
      BY <2>2, <3>1, <1>1, <1>8 DEF Accounted, Present, Total
    <3>2. CASE j = k
      BY <2>2, <3>2, <1>6 DEF Agree
    <3> QED BY <3>1, <3>2, <1>9
  <2> QED BY <2>1, <2>2, <1>1 DEF Accounted, Present, Total
<1>11. Flagged(n + 1)'
  <2>1. data'.flags = SetFlag(data.flags, f.feature, is)
    BY <1>1 DEF StepsOfArch, CpuIdConstructor
  <2>2. Flagged(n)
    BY <1>2, <1>7
  <2>3. ASSUME NEW j \in 1 .. n + 1, IsPresent(raw, FeatureMap[j])
        PROVE  FeatureMap[j].feature \in data'.flags
    <3>1. CASE j \in 1 .. n
      BY <2>1, <2>2, <2>3, <3>1 DEF Flagged, SetFlag
    <3>2. CASE j = k
      BY <2>1, <2>3, <3>2 DEF SetFlag
    <3> QED BY <3>1, <3>2, <1>9
  <2> QED BY <2>3, <1>1 DEF Flagged
<1>12. k' - 1 = n + 1
  BY <1>3, <1>7
<1> QED BY <1>1, <1>3, <1>10, <1>11, <1>12 DEF Counting, DoneArm, Done

(* The features outside the table are matched. *)
LEMMA SpecialCounting ==
  ASSUME StepsOfArch, Counting, MatchSpecialFeatures
  PROVE  Counting'
<1> DEFINE N == Len(FeatureMap)
           e1 == WithPauth(ext, data.flags)
           e2 == WithMpam(e1, raw)
           e3 == WithMte(e2, raw, data.flags \union MteFlags(raw))
<1>1. /\ pc = "features" /\ k > N /\ raw' = raw /\ ext' = e3
      /\ data' = [data EXCEPT !.flags = SpecialFlags(raw, @)]
      /\ \/ pc' = "version"
         \/ pc' = "returned" /\ raw.midr # "by-cpuid"
  BY DEF MatchSpecialFeatures, Return
<1>2. k \in 1 .. N + 1 /\ Accounted(k - 1) /\ Flagged(k - 1)
  BY <1>1 DEF Counting
<1>3. N \in Nat /\ k - 1 = N
  BY <1>1, <1>2, FeatureMapIsList
<1>4. Accounted(N) /\ Flagged(N)
  BY <1>2, <1>3
<1>5. Counts(ext) /\ Below(ext)
  BY <1>4, AccountedCounts
<1>6. Follows(e1, ext)
  BY <1>5, PauthFollows
<1>7. Counts(e1) /\ Below(e1)
  BY <1>6 DEF Follows
<1> HIDE DEF e1
<1>8. Follows(e2, e1)
  BY <1>7, MpamFollows
<1>9. Counts(e2) /\ Below(e2)
  BY <1>8 DEF Follows
<1> HIDE DEF e2
<1>10. Follows(e3, e2)
  BY <1>9, MteFollows
<1> HIDE DEF e3
<1>11. Follows(ext', ext)
  BY <1>1, <1>6, <1>8, <1>10, FollowsTwice
<1>12. Accounted(N)'
  BY <1>1, <1>4, <1>11, AccountedFollows
<1>13. data.flags \subseteq data'.flags
  <2>1. data'.flags = SpecialFlags(raw, data.flags)
    BY <1>1 DEF StepsOfArch, CpuIdConstructor
  <2> QED BY <2>1 DEF SpecialFlags, SetFlag
<1>14. Flagged(N)'
  BY <1>1, <1>4, <1>13 DEF Flagged
<1> QED BY <1>1, <1>12, <1>14 DEF Counting, DoneArm, Done

(* Counts, record and flags stay: so does what was accounted for. *)
LEMMA AccountsStay ==
  ASSUME ext' = ext, raw' = raw, data'.flags = data.flags
  PROVE  /\ Accounted(Len(FeatureMap)) => Accounted(Len(FeatureMap))'
         /\ Flagged(Len(FeatureMap)) => Flagged(Len(FeatureMap))'
         /\ VersionList(ext)' = VersionList(ext)
         /\ \A n : NoneMissingUpTo(n)' <=> NoneMissingUpTo(n)
BY DEF Accounted, Present, Total, Flagged, NoneMissingUpTo

(* A version named by single fields ends the search, or the list begins. *)
LEMMA ProfileCounting ==
  ASSUME StepsOfArch, Counting, VersionByProfile
  PROVE  Counting'
<1>1. /\ pc = "version" /\ raw' = raw /\ ext' = ext /\ k' = 1
      /\ data' = [data EXCEPT !.level = ProfileVersion(raw)]
      /\ \/ pc' = "versions" /\ ProfileVersion(raw) = "unknown"
         \/ pc' = "returned"
  BY DEF VersionByProfile, Return
<1>2. data'.flags = data.flags /\ data'.level = ProfileVersion(raw)
  BY <1>1 DEF StepsOfArch, CpuIdConstructor
<1>3. /\ Accounted(Len(FeatureMap))' /\ Flagged(Len(FeatureMap))'
      /\ VersionList(ext)' = VersionList(ext)
  BY <1>1, <1>2, AccountsStay DEF Counting
<1>4. NoneMissingUpTo(0)'
  BY DEF NoneMissingUpTo
<1>5. \A m \in DOMAIN VersionList(ext)' : data'.level # VersionList(ext)'[m]
  BY <1>2, <1>3, ProfilesAreOther
<1>6. pc' = "versions" =>
        /\ k' \in 1 .. Len(VersionList(ext)') + 1
        /\ NoneMissingUpTo(k - 1)'
        /\ data'.level = "unknown"
  <2>1. Len(VersionList(ext)') \in Nat
    BY <1>3, ListIsWellFormed
  <2>2. k' - 1 = 0 /\ k' \in 1 .. Len(VersionList(ext)') + 1
    BY <1>1, <2>1
  <2>3. NoneMissingUpTo(k - 1)'
    BY <2>2, <1>4 DEF NoneMissingUpTo
  <2> QED BY <1>1, <1>2, <2>2, <2>3
<1>7. Listed'
  BY <1>2, ProfilesAreOther DEF Listed
<1> QED BY <1>1, <1>3, <1>5, <1>6, <1>7 DEF Counting, DoneArm, Done

(* No version that is passed misses a feature. *)
LEMMA NextVersionCounting ==
  ASSUME StepsOfArch, Counting, NextVersion
  PROVE  Counting'
<1> DEFINE list == VersionList(ext)
           n == Len(list)
<1>1. /\ pc = "versions" /\ pc' = "versions" /\ raw' = raw /\ ext' = ext /\ k' = k + 1
      /\ data' = [data EXCEPT !.level = list[k]]
      /\ k <= n /\ ~Missing(ext, list[k])
  BY DEF NextVersion, EndOfVersions
<1>2. data'.flags = data.flags /\ data'.level = list[k]
  BY <1>1 DEF StepsOfArch, CpuIdConstructor
<1>3. /\ Accounted(Len(FeatureMap))' /\ Flagged(Len(FeatureMap))'
      /\ VersionList(ext)' = list
  BY <1>1, <1>2, AccountsStay DEF Counting
<1>4. k \in 1 .. n + 1 /\ NoneMissingUpTo(k - 1)
  BY <1>1 DEF Counting
<1>5. n \in Nat
  BY ListIsWellFormed
<1>6. k \in Nat /\ k' \in 1 .. n + 1 /\ k' # 1 /\ k' - 1 = k
  BY <1>1, <1>4, <1>5
<1>7. NoneMissingUpTo(k - 1)'
  <2>1. \A i \in 1 .. k : i \in 1 .. k - 1 \/ i = k
    BY <1>6
  <2>2. \A i \in 1 .. k : ~Missing(ext, list[i])
    BY <2>1, <1>1, <1>4 DEF NoneMissingUpTo
  <2> QED BY <2>2, <1>1, <1>3, <1>6 DEF NoneMissingUpTo
<1> QED BY <1>1, <1>2, <1>3, <1>6, <1>7 DEF Counting, DoneArm, Done, NoneMissingUpTo

LEMMA VersionsDoneCounting ==
  ASSUME StepsOfArch, Counting, VersionsDone
  PROVE  Counting'
<1> DEFINE list == VersionList(ext)
<1>1. pc = "versions" /\ pc' = "returned" /\ raw' = raw /\ ext' = ext /\ data' = data
  BY DEF VersionsDone, Return
<1>2. /\ Accounted(Len(FeatureMap))' /\ Flagged(Len(FeatureMap))'
      /\ VersionList(ext)' = list
  BY <1>1, AccountsStay DEF Counting
<1>3. /\ k \in 1 .. Len(list) + 1
      /\ NoneMissingUpTo(k - 1)
      /\ data.level = IF k = 1 THEN "unknown" ELSE list[k - 1]
  BY <1>1 DEF Counting
<1>4. ASSUME NEW m \in DOMAIN list, data.level = list[m]
      PROVE  NoneMissingUpTo(m)
  <2>1. k # 1
    BY <1>3, <1>4, ListIsWellFormed
  <2>2. k - 1 \in DOMAIN list
    BY <1>3, <2>1, ListIsWellFormed
  <2>3. list[k - 1] = list[m]
    BY <1>3, <1>4, <2>1
  <2>4. m = k - 1
    BY <2>2, <2>3, ListIsWellFormed
  <2> QED BY <2>4, <1>3
<1>5. \A m \in DOMAIN list : data.level = list[m] => NoneMissingUpTo(m)'
  BY <1>1, <1>4 DEF NoneMissingUpTo
<1>6. Listed
  <2>1. CASE k = 1
    <3>1. data.level = "unknown"
      BY <1>3, <2>1
    <3>2. \A i \in DOMAIN V8A : V8A[i] # "unknown"
      BY DEF V8A
    <3> QED BY <3>1, <3>2 DEF Listed
  <2>2. CASE k # 1
    <3>1. k - 1 \in DOMAIN list
      BY <1>3, <2>2, ListIsWellFormed
    <3> QED BY <1>3, <2>2, <3>1 DEF Listed
  <2> QED BY <2>1, <2>2
<1>7. Listed'
  BY <1>1, <1>6 DEF Listed
<1> QED BY <1>1, <1>2, <1>5, <1>7 DEF Counting, DoneArm, Done

(* All steps, with those that do not count. *)
LEMMA ArmCounting == StepsOfArch /\ Counting /\ NextArm => Counting'
<1> SUFFICES ASSUME StepsOfArch, Counting, NextArm PROVE Counting'
  OBVIOUS
<1>1. CASE ArmBasicIdentify
  <2>1. pc' = "features" /\ k' = 1 /\ ext' = NoCounts /\ raw' = raw
    BY <1>1 DEF ArmBasicIdentify
  <2>2. 1 \in 1 .. Len(FeatureMap) + 1
    BY FeatureMapIsList
  <2>3. k' - 1 = 0
    BY <2>1
  <2>4. Accounted(0)' /\ Flagged(0)'
    BY <2>1 DEF Accounted, Flagged, Present, Total, NoCounts
  <2> QED BY <2>1, <2>2, <2>3, <2>4 DEF Counting, DoneArm, Done
<1>2. CASE MatchFeature BY <1>2, MatchFeatureCounting
<1>3. CASE MatchSpecialFeatures BY <1>3, SpecialCounting
<1>4. CASE VersionByProfile BY <1>4, ProfileCounting
<1>5. CASE NextVersion BY <1>5, NextVersionCounting
<1>6. CASE VersionsDone BY <1>6, VersionsDoneCounting
<1> QED BY <1>1, <1>2, <1>3, <1>4, <1>5, <1>6 DEF NextArm

LEMMA X86Counting == StepsOfArch /\ NextX86 => Counting'
<1> SUFFICES ASSUME StepsOfArch, NextX86 PROVE Counting'
  OBVIOUS
<1>1. pc \in X86Steps
  BY DEF NextX86, UnknownVendor, BasicIdentify, NoRoutine, VendorIdentify, DecodeCache,
         CachesDone, DecodeCores, DivideByZero, DecodeLevel, MatchEntry, Matched, CountSection,
         SectionsDone, X86Steps
<1>2. pc' \in X86Steps \/ pc' = "returned"
  BY DEF NextX86, UnknownVendor, BasicIdentify, NoRoutine, VendorIdentify, DecodeCache,
         CachesDone, DecodeCores, DivideByZero, DecodeLevel, MatchEntry, Matched, CountSection,
         SectionsDone, Return, X86Steps
<1>3. data'.arch = data.arch
  <2> USE DEF StepsOfArch, CpuIdConstructor
  <2>1. CASE BasicIdentify BY <2>1 DEF BasicIdentify
  <2>2. CASE VendorIdentify BY <2>2 DEF VendorIdentify
  <2>3. CASE DecodeCache BY <2>3 DEF DecodeCache
  <2>4. CASE DecodeCores BY <2>4 DEF DecodeCores
  <2>5. CASE DecodeLevel BY <2>5 DEF DecodeLevel
  <2>6. CASE Matched BY <2>6 DEF Matched
  <2>7. CASE SectionsDone BY <2>7 DEF SectionsDone
  <2>8. CASE UnknownVendor \/ NoRoutine \/ CachesDone \/ DivideByZero \/ MatchEntry \/ CountSection
    BY <2>8 DEF UnknownVendor, NoRoutine, CachesDone, DivideByZero, MatchEntry, CountSection
  <2> QED BY <2>1, <2>2, <2>3, <2>4, <2>5, <2>6, <2>7, <2>8 DEF NextX86
<1> QED BY <1>1, <1>2, <1>3 DEF StepsOfArch, X86Steps, Counting, DoneArm, Done

LEMMA CallCounting ==
  ASSUME NEW r \in RawRecords, NEW h \in Hosts, Call(r, h)
  PROVE  Counting'
<1>1. /\ pc' = "basic" \/ pc' = "arm" \/ (pc' = "returned" /\ ret' = "ERR_CPU_UNKN")
  BY DEF Call, Return
<1> QED BY <1>1 DEF Counting, DoneArm, Done

-----------------------------------------------------------------------------
(* The theorems. *)

(* The invariant holds at first and is kept. *)
LEMMA InitIInv == Init => IInv
BY InitSteps DEF Init, IInv, Matching, Counting, DoneX86, DoneArm, Done

LEMMA StepIInv == IInv /\ [Next]_vars => IInv'
<1> SUFFICES ASSUME IInv, [Next]_vars PROVE IInv'
  OBVIOUS
<1>1. CASE NextX86
  BY <1>1, X86StepsKeep, X86Matching, X86Counting DEF IInv
<1>2. CASE NextArm
  BY <1>2, ArmStepsKeep, ArmMatching, ArmCounting DEF IInv
<1>3. ASSUME NEW r \in RawRecords, NEW h \in Hosts, Call(r, h) PROVE IInv'
  BY <1>3, CallSteps, CallMatching, CallCounting DEF IInv
<1>4. CASE UNCHANGED vars
  <2>1. UNCHANGED <<pc, raw, data, k, best, ext, ret>>
    BY <1>4 DEF vars
  <2>2. StepsOfArch'
    BY <2>1 DEF IInv, StepsOfArch
  <2>3. Matching'
    BY <2>1 DEF IInv, Matching, BestSoFar, Named, IsFirstBest, DoneX86, Done, Table
  <2>4. Counting'
    BY <2>1 DEF IInv, Counting, Listed, Accounted, Flagged, NoneMissingUpTo, Present, Total,
                DoneArm, Done
  <2> QED BY <2>2, <2>3, <2>4 DEF IInv
<1> QED BY <1>1, <1>2, <1>3, <1>4 DEF Next, Run

(* The inductive invariant of identification: the match loop keeps the     *)
(* first best entry, and counts of ARM features only agree for a version   *)
(* whose mandatory features are all present.                               *)
THEOREM IdentInvariant == Spec => []IInv
<1>1. Init => IInv BY InitIInv
<1>2. IInv /\ [Next]_vars => IInv' BY StepIInv
<1> QED BY <1>1, <1>2, PTL DEF Spec

(* match_cpu_codename names every x86 CPU after the first of the entries   *)
(* that score best for it, whatever the table holds.                       *)
THEOREM CodenameCorrect == Spec => []CodenameIsFirstBest
<1>1. IInv => CodenameIsFirstBest
  BY DEF IInv, Matching, CodenameIsFirstBest, Named
<1> QED BY <1>1, IdentInvariant, PTL

(* The mandatory features of the versions up to a reported one are present *)
LEMMA ReportedHasFeatures ==
  ASSUME IInv, NEW n \in DOMAIN VersionList(ext), ReportedUpTo(n),
         NEW j \in DOMAIN FeatureMap, FeatureMap[j].mandatory = VersionList(ext)[n]
  PROVE  IsPresent(raw, FeatureMap[j]) /\ FeatureMap[j].feature \in data.flags
<1> DEFINE list == VersionList(ext)
           v == list[n]
<1>1. DoneArm /\ raw.midr = "by-cpuid"
  BY DEF ReportedUpTo
<1>2. PICK m \in DOMAIN list : n <= m /\ data.level = list[m]
  BY DEF ReportedUpTo
<1>3. Accounted(Len(FeatureMap)) /\ Flagged(Len(FeatureMap)) /\ NoneMissingUpTo(m)
  BY <1>1, <1>2 DEF IInv, Counting
<1>4. n \in 1 .. m /\ v \in Versions
  BY <1>2, ListIsWellFormed
<1>5. ~Missing(ext, v)
  BY <1>3, <1>4 DEF NoneMissingUpTo
<1>6. ~(Present(v) < Total(v))
  BY <1>5 DEF Missing, Present, Total
<1>7. Present(v) \in Nat /\ Total(v) \in Nat /\ Present(v) <= Total(v)
  BY <1>3, <1>4 DEF Accounted, Present, Total
<1>8. Present(v) = Total(v)
  BY <1>6, <1>7
<1>9. j \in 1 .. Len(FeatureMap)
  BY FeatureMapIsList
<1>10. IsPresent(raw, FeatureMap[j])
  BY <1>3, <1>4, <1>8, <1>9 DEF Accounted
<1> QED BY <1>3, <1>9, <1>10 DEF Flagged

(* A version that is reported has its mandatory features, and so have the  *)
(* versions before it in the list.                                         *)
THEOREM ArmLevelCorrect == Spec => []ArmLevelIsCompliant
<1>1. IInv => ArmLevelIsCompliant
  BY ReportedHasFeatures DEF ArmLevelIsCompliant
<1> QED BY <1>1, IdentInvariant, PTL

(* Two features in conflict are not both found. *)
LEMMA ConflictExcludes ==
  ASSUME NEW i \in DOMAIN FeatureMap, NEW j \in DOMAIN FeatureMap, Conflict(i, j)
  PROVE  ~(IsPresent(raw, FeatureMap[i]) /\ IsPresent(raw, FeatureMap[j]))
<1> SUFFICES ASSUME IsPresent(raw, FeatureMap[i]), IsPresent(raw, FeatureMap[j]) PROVE FALSE
  OBVIOUS
<1>1. PICK a \in Tried(raw, FeatureMap[i]) : FieldMatches(raw, FeatureMap[i].fields[a])
  BY DEF IsPresent
<1>2. PICK b \in Tried(raw, FeatureMap[j]) : FieldMatches(raw, FeatureMap[j].fields[b])
  BY DEF IsPresent
<1>3. /\ RegisterOf(raw, FeatureMap[i].fields[a]) = RegisterOf(raw, FeatureMap[j].fields[b])
      /\ FeatureMap[i].fields[a].value # FeatureMap[j].fields[b].value
  BY <1>1, <1>2 DEF Conflict
<1> QED BY <1>1, <1>2, <1>3 DEF FieldMatches

(* No version is reported that would need two features which want          *)
(* different values of one field.                                          *)
THEOREM ConflictIsNeverReported == Spec => []ConflictCapsVersion
<1>1. ASSUME IInv PROVE ConflictCapsVersion
  <2> SUFFICES ASSUME NEW m \in DOMAIN VersionList(ext), NEW n \in DOMAIN VersionList(ext),
                      ReportedUpTo(m), ReportedUpTo(n),
                      NEW i \in MandatoryFrom(VersionList(ext)[m]),
                      NEW j \in MandatoryFrom(VersionList(ext)[n]),
                      Conflict(i, j)
               PROVE  FALSE
    BY DEF ConflictCapsVersion
  <2>1. /\ i \in DOMAIN FeatureMap /\ FeatureMap[i].mandatory = VersionList(ext)[m]
        /\ j \in DOMAIN FeatureMap /\ FeatureMap[j].mandatory = VersionList(ext)[n]
    BY DEF MandatoryFrom
  <2>2. IsPresent(raw, FeatureMap[i]) /\ IsPresent(raw, FeatureMap[j])
    BY <1>1, <2>1, ReportedHasFeatures
  <2> QED BY <2>1, <2>2, ConflictExcludes
<1> QED BY <1>1, IdentInvariant, PTL

(* The entries of PAN and PAN2 in features_map (recog_arm.c, 1015, 1169).  *)
AccessNever(feature, optional, mandatory, value) ==
  [feature |-> feature, optional |-> optional, mandatory |-> mandatory,
   fields |-> <<[aarch32 |-> NoField, aarch64 |-> "aa64mmfr1[23:20]", value |-> value],
                [aarch32 |-> "mmfr3[19:16]", aarch64 |-> NoField, value |-> value]>>]
Pan  == AccessNever("PAN", "v8.0-A", "v8.1-A", 1)
Pan2 == AccessNever("PAN2", "v8.1-A", "v8.2-A", 2)

LEMMA PanConflicts ==
  ASSUME NEW i \in DOMAIN FeatureMap, NEW j \in DOMAIN FeatureMap,
         FeatureMap[i] = Pan, FeatureMap[j] = Pan2
  PROVE  Conflict(i, j)
<1> SUFFICES ASSUME NEW a \in Tried(raw, FeatureMap[i]), NEW b \in Tried(raw, FeatureMap[j])
             PROVE  /\ RegisterOf(raw, Pan.fields[a]) = RegisterOf(raw, Pan2.fields[b])
                    /\ Pan.fields[a].value # Pan2.fields[b].value
  BY DEF Conflict
<1>1. raw.aarch64 => a = 1 /\ b = 1
  BY DEF Tried, RegisterOf, NoField, Pan, Pan2, AccessNever
<1>2. ~raw.aarch64 => FALSE
  BY DEF Tried, RegisterOf, NoField, Pan, Pan2, AccessNever
<1> QED BY <1>1, <1>2 DEF RegisterOf, Pan, Pan2, AccessNever

(* With these two entries in the table, no CPU is ever reported as v8.2 or *)
(* a later version of ARMv8, whatever features it has.                     *)
THEOREM NothingAboveV81 ==
  ASSUME NEW i \in DOMAIN FeatureMap, NEW j \in DOMAIN FeatureMap,
         FeatureMap[i] = Pan, FeatureMap[j] = Pan2
  PROVE  Spec => [](DoneArm /\ raw.midr = "by-cpuid" =>
                      \A n \in 3 .. 10 : data.level # V8A[n])
<1>1. ASSUME IInv, DoneArm, raw.midr = "by-cpuid", NEW n \in 3 .. 10, data.level = V8A[n]
      PROVE  FALSE
  <2>1. PICK m \in DOMAIN VersionList(ext) : data.level = VersionList(ext)[m]
    <3>1. n \in DOMAIN V8A
      BY DEF V8A
    <3> QED BY <1>1, <3>1 DEF IInv, Counting, Listed
  <2>2. VersionList(ext) = V8A
    <3>1. VersionList(ext) \in {V9A, V8A, <<>>}
      BY DEF VersionList
    <3>2. \A x \in DOMAIN V9A, y \in 1 .. 10 : V9A[x] # V8A[y]
      BY DEF V9A, V8A
    <3>3. CASE VersionList(ext) = V9A
      <4>1. V9A[m] = V8A[n]
        BY <1>1, <2>1, <3>3
      <4> QED BY <2>1, <3>2, <3>3, <4>1
    <3>4. CASE VersionList(ext) = <<>>
      <4>1. DOMAIN VersionList(ext) = {}
        BY <3>4
      <4> QED BY <2>1, <4>1
    <3> QED BY <3>1, <3>3, <3>4
  <2>3. m = n /\ DOMAIN V8A = 1 .. 10
    <3>1. DOMAIN V8A = 1 .. 10 /\ \A x, y \in 1 .. 10 : V8A[x] = V8A[y] => x = y
      BY DEF V8A
    <3>2. V8A[m] = V8A[n] /\ m \in DOMAIN V8A
      BY <1>1, <2>1, <2>2
    <3>3. m \in 1 .. 10 /\ n \in 1 .. 10
      BY <3>1, <3>2
    <3> QED BY <3>1, <3>2, <3>3
  <2>4. ReportedUpTo(2) /\ ReportedUpTo(3)
    BY <1>1, <2>1, <2>2, <2>3 DEF ReportedUpTo
  <2>5. FeatureMap[i].mandatory = V8A[2] /\ FeatureMap[j].mandatory = V8A[3]
    BY DEF Pan, Pan2, AccessNever, V8A
  <2>6. IsPresent(raw, FeatureMap[i]) /\ IsPresent(raw, FeatureMap[j])
    BY <1>1, <2>2, <2>3, <2>4, <2>5, ReportedHasFeatures
  <2> QED BY <2>6, PanConflicts, ConflictExcludes
<1>2. IInv => (DoneArm /\ raw.midr = "by-cpuid" => \A n \in 3 .. 10 : data.level # V8A[n])
  BY <1>1
<1> QED BY <1>2, IdentInvariant, PTL
=============================================================================
