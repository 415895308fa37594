----------------------------- MODULE IdentState -----------------------------
(***************************************************************************)
(* What one call of cpu_ident_internal (libcpuid/cpuid_main.c) works on:   *)
(* the raw record it is given, the cpu_id_t and the internal_id_info_t it  *)
(* fills, and the locals of the function that runs.  IdentX86 and IdentArm *)
(* hold the steps for the two architectures, Ident puts them together.     *)
(***************************************************************************)
EXTENDS Integers, Sequences, FiniteSets

CONSTANTS
  RawRecords,  \* records that may be identified
  Hosts        \* machines the program may run on: [cpus, epc]

VARIABLES
  pc,        \* where in the identification the call is
  raw,       \* the raw record
  host,      \* the machine that runs the program
  data,      \* cpu_id_t
  internal,  \* internal_id_info_t, and whether it was written past its end
  k,         \* counter of the loop that runs
  best,      \* bestscore and bestindex of match_cpu_codename
  ext,       \* struct arm_arch_extension_t
  ret        \* what the call returned

callVars == <<pc, raw, host, data, internal, k, best, ext, ret>>

CacheTypes == {"L1I", "L1D", "L2", "L3", "L4"}

(* The position of a cache type in the enumeration, an index of cache_mask *)
CacheIndex == [L1I |-> 0, L1D |-> 1, L2 |-> 2, L3 |-> 3, L4 |-> 4]

(* A cache_mask of zero, and a size that could not be determined. *)
NoMask == -1
Undetermined == -1

(* cpu_id_t_constructor *)
CpuIdConstructor ==
  [arch |-> "unknown", vendor |-> "unknown", family |-> 0, model |-> 0,
   stepping |-> 0, extFamily |-> 0, extModel |-> 0,
   flags |-> {}, cache |-> [c \in CacheTypes |-> Undetermined],
   cores |-> 0, logical |-> 0, total |-> 0, level |-> "unknown",
   purpose |-> "general", codename |-> "", epc |-> 0]

(* bestscore and bestindex before the first entry. *)
NoBest == [score |-> -1, index |-> 1]

NoMasks == [i \in 0 .. 4 |-> NoMask]

(* The call ends with code, and cpuid_set_error remembers it. *)
Return(code) ==
  /\ pc' = "returned"
  /\ ret' = code
=============================================================================
