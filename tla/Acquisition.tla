----------------------------- MODULE Acquisition ----------------------------
(***************************************************************************)
(* What raw data acquisition promises the threads that call it, without    *)
(* affinities, scheduling or the order of system calls: a call delivers    *)
(* records one CPU after the other, starting at CPU 0, each of them        *)
(* describing the CPU it stands for, and ends where the machine ends.      *)
(***************************************************************************)
EXTENDS Integers, Sequences

CONSTANTS Threads, NumCpus, NumLeaves, IndexMod

VARIABLES
  busy,     \* busy[t]: thread t is inside a call
  all,      \* all[t]: that call is for every CPU
  logical,  \* logical[t]: the CPU in work
  got,      \* got[t]: records delivered
  ret,      \* ret[t]: result of the last call
  suspect   \* CPUs that were offline at some moment or cannot be bound to

vars == <<busy, all, logical, got, ret, suspect>>

Cpus    == 0 .. NumCpus - 1
AnyCpu  == IndexMod - 1
Records == [1 .. NumLeaves -> Cpus]

(* A record describes CPU c when each of its groups was read there. *)
Describes(rec, c) ==
  c \notin suspect \union {AnyCpu} => \A g \in DOMAIN rec : rec[g] = c

Init ==
  /\ busy = [t \in Threads |-> FALSE]
  /\ all = [t \in Threads |-> FALSE]
  /\ logical = [t \in Threads |-> 0]
  /\ got = [t \in Threads |-> <<>>]
  /\ ret = [t \in Threads |-> "ERR_OK"]
  /\ suspect \in SUBSET Cpus

Start(t) ==
  /\ ~busy[t]
  /\ busy' = [busy EXCEPT ![t] = TRUE]
  /\ \E a \in BOOLEAN, c \in (0 .. NumCpus) \union {AnyCpu} :
       /\ a => c = 0
       /\ all' = [all EXCEPT ![t] = a]
       /\ logical' = [logical EXCEPT ![t] = c]
  /\ got' = [got EXCEPT ![t] = <<>>]
  /\ UNCHANGED <<ret, suspect>>

(* The next CPU of a call for all of them. *)
Deliver(t) ==
  /\ busy[t] /\ all[t]
  /\ logical[t] = Len(got[t]) /\ logical[t] \in Cpus
  /\ \E rec \in Records :
       /\ Describes(rec, logical[t])
       /\ got' = [got EXCEPT ![t] = Append(@, rec)]
  /\ logical' = [logical EXCEPT ![t] = @ + 1]
  /\ UNCHANGED <<busy, all, ret, suspect>>

FinishAll(t, r) ==
  /\ busy[t] /\ all[t]
  /\ \/ r = "ERR_OK" /\ got[t] # <<>>
        /\ (Len(got[t]) = NumCpus \/ Len(got[t]) \in suspect)
     \/ r = "ERR_NO_CPUID" /\ got[t] = <<>>
  /\ UNCHANGED got

FinishOne(t, r) ==
  /\ busy[t] /\ ~all[t]
  /\ \/ /\ r = "ERR_OK" /\ logical[t] \in Cpus \union {AnyCpu}
        /\ \E rec \in Records : /\ Describes(rec, logical[t])
                                 /\ got' = [got EXCEPT ![t] = <<rec>>]
     \/ r = "ERR_NO_CPUID" /\ UNCHANGED got
     \/ /\ r = "ERR_INVCNB" /\ UNCHANGED got
        /\ logical[t] # 0 /\ (logical[t] \in suspect \/ logical[t] \notin Cpus)

Finish(t) ==
  /\ \E r \in {"ERR_OK", "ERR_NO_CPUID", "ERR_INVCNB"} :
       /\ FinishAll(t, r) \/ FinishOne(t, r)
       /\ ret' = [ret EXCEPT ![t] = r]
  /\ busy' = [busy EXCEPT ![t] = FALSE]
  /\ UNCHANGED <<all, logical, suspect>>

LoseCpu ==
  /\ \E c \in Cpus : suspect' = suspect \union {c}
  /\ UNCHANGED <<busy, all, logical, got, ret>>

Next == LoseCpu \/ \E t \in Threads : Start(t) \/ Deliver(t) \/ Finish(t)

Spec == Init /\ [][Next]_vars
=============================================================================
