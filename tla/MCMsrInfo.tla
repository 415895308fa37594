----------------------------- MODULE MCMsrInfo ------------------------------
(* Instances of MsrInfo for TLC: machines of every vendor and setting. *)
EXTENDS MsrInfo, TLC
CONSTANTS t1, t2

Amd(top, boosted) ==
  [vendor |-> "amd", msr |-> TRUE, kernelMsr |-> TRUE, platformInfo |-> FALSE, coreVoltage |-> FALSE,
   multipliers |-> TRUE,
   enabled |-> 0 .. top, maxVal |-> top - boosted, absent |-> {Reg("PERF_STATUS")},
   root |-> TRUE, module |-> TRUE]

Intel(modern) ==
  [vendor |-> "intel", msr |-> TRUE, kernelMsr |-> TRUE, platformInfo |-> modern, coreVoltage |-> modern,
   multipliers |-> FALSE,
   enabled |-> {0}, maxVal |-> 0, absent |-> {Reg("PSTATE_S"), Reg("TURBO_RATIO_LIMIT")},
   root |-> TRUE, module |-> TRUE]

(* P-states that are all enabled and none of them boosted, a family that   *)
(* get_amd_multipliers does not know, a hypervisor that shows no P-state,  *)
(* Intel CPUs in the lists of rdmsr.c and out of them, no access to the    *)
(* device file, no module for it, a CPU that has no MSRs by CPUID or for   *)
(* the kernel alone, one of a vendor without a list of registers and one   *)
(* of a vendor that is not known at all.                                   *)
MCMachines ==
  {Amd(1, 0), [Amd(0, 0) EXCEPT !.enabled = {}], Intel(TRUE),
   Intel(FALSE),
   [Amd(1, 0) EXCEPT !.root = FALSE], [Amd(1, 0) EXCEPT !.module = FALSE],
   [Amd(1, 0) EXCEPT !.msr = FALSE], [Amd(1, 1) EXCEPT !.multipliers = FALSE],
   [Amd(1, 0) EXCEPT !.kernelMsr = FALSE],
   [Amd(1, 0) EXCEPT !.vendor = "other"], [Amd(1, 0) EXCEPT !.vendor = "unknown"]}

ThreadSymmetry == Permutations(Threads)
=============================================================================
