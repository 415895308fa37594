----------------------------- MODULE MCArmDriver -----------------------------
(* An instance of ArmDriver for TLC: machines with two CPUs. *)
EXTENDS ArmDriver, TLC

Base == [os |-> "linux", kernel |-> "aarch64", arch |-> "aarch64", root |-> TRUE,
         readable |-> TRUE, hwcap |-> TRUE, affinity |-> TRUE, module |-> TRUE,
         enabled |-> Cpus]

(* Linux; 32-bit processes on a 64-bit kernel that may not read the device *)
(* files, or not load the module and have no affinity; no module and no    *)
(* kernel that emulates mrs; FreeBSD, and 32-bit without affinity and with *)
(* a CPU it does not use.                                                  *)
MCMachines ==
  {Base,
   [Base EXCEPT !.arch = "aarch32", !.root = FALSE, !.readable = FALSE],
   [Base EXCEPT !.arch = "aarch32", !.root = FALSE, !.affinity = FALSE],
   [Base EXCEPT !.module = FALSE, !.hwcap = FALSE],
   [Base EXCEPT !.os = "freebsd"],
   [Base EXCEPT !.os = "freebsd", !.arch = "aarch32", !.kernel = "aarch32",
                !.affinity = FALSE, !.enabled = {0}]}
=============================================================================
