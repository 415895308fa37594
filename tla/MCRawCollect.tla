---------------------------- MODULE MCRawCollect ----------------------------
(* Instances of RawCollect for TLC. *)
EXTENDS RawCollect, TLC

CONSTANTS t1, t2

(* The mask of a thread nobody restricted. *)
FreeMask == {Cpus}

(* Affinity may be set to any CPU, to those of a cpuset, to none. *)
SomeAllowances == {Cpus, {0, 1}, {}}

(* A free thread, or one the user pinned to CPU 0 (taskset). *)
SomeMasks == {Cpus, {0}}

ThreadSymmetry == Permutations(Threads)
=============================================================================
