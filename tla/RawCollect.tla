----------------------------- MODULE RawCollect -----------------------------
(***************************************************************************)
(* Raw data acquisition of libcpuid on x86 (libcpuid/cpuid_main.c):        *)
(* cpuid_get_raw_data, cpuid_get_raw_data_core and cpuid_get_all_raw_data, *)
(* called by several threads of one process while the operating system     *)
(* migrates the threads and takes processors offline and online.           *)
(*                                                                         *)
(* One action is what a thread does between two points where another       *)
(* thread or the scheduler can interfere: the kernel calls of set_/save_/  *)
(* restore_cpu_affinity, each group of CPUID instructions, and the copy of *)
(* a finished record into the caller's array.  A record of CPUID registers *)
(* is abstracted to the sequence of processors its groups were read on.    *)
(***************************************************************************)
EXTENDS Integers, Sequences, FiniteSets

CONSTANTS
  Threads,      \* threads of the process that call the library
  NumCpus,      \* logical CPUs the machine can have, numbered from 0
  NumLeaves,    \* groups of CPUID leaves that are read one after the other
  IndexMod,     \* number of values of logical_cpu_t (65536 in the code)
  BindLimit,    \* highest CPU number set_cpu_affinity hands to the system
  StaticScope,  \* TRUE: INTERNAL_SCOPE is "static", FALSE: thread-local
  Allowances,   \* sets of CPUs to which a thread may be bound, see allowed
  InitMasks,    \* affinity masks a thread may have before its first call
  MaxPlug,      \* bound on hot-plug events
  MaxCalls      \* bound on the calls one thread makes

Cpus == 0 .. NumCpus - 1

(* (logical_cpu_t) -1: "do not change the affinity". *)
AnyCpu == IndexMod - 1

ASSUME ConstantsAssumption ==
  /\ NumCpus \in Nat \ {0}
  /\ NumLeaves \in Nat \ {0}
  /\ IndexMod \in Nat /\ IndexMod > 1
  /\ BindLimit \in Nat
  /\ StaticScope \in BOOLEAN
  /\ Allowances \subseteq SUBSET Cpus
  /\ InitMasks \subseteq SUBSET Cpus
  /\ MaxPlug \in Nat
  /\ MaxCalls \in Nat

(* The error codes the functions return, and that cpuid_set_error records. *)
Results == {"ERR_OK", "ERR_NO_CPUID", "ERR_INVCNB"}
Errors  == Results \union {"ERR_NO_MEM"}

Steps == {"idle", "set", "save", "read", "restore", "store", "ub"}

(* Mutant: no thread-local storage, every thread sees one copy. *)
ScopeShared(t) == "process"

(* The copy of a variable declared INTERNAL_SCOPE that thread t sees. *)
Scopes   == Threads \union {"process"}
Scope(t) == IF StaticScope THEN "process" ELSE t

VARIABLES
  online,        \* CPUs the kernel schedules on
  allowed,       \* CPUs it lets the process bind a thread to: all, those of a
                 \* cpuset, none where set_cpu_affinity is not supported or
                 \* (NetBSD) not permitted to the user
  everOffline,   \* history: CPUs that were offline at some moment
  plugs,         \* hot-plug events so far
  cpuidPresent,  \* what cpuid_present() answers on this machine
  mask,          \* mask[t]: kernel affinity mask of thread t
  oncpu,         \* oncpu[t]: CPU thread t runs on
  savedAffinity, \* saved_affinity, one per scope
  errno,         \* _libcpuid_errno, one per scope
  pc,            \* where thread t is in cpuid_get_raw_data_core and its caller
  all,           \* TRUE: t is (or was last) in cpuid_get_all_raw_data
  logical,       \* argument logical_cpu of the (last) call of the core function
  affinitySaved, \* local variable affinity_saved
  record,        \* the record being filled: CPU each group was read on
  data,          \* records the caller was given, in array order
  ret,           \* value the last finished call returned
  calls          \* calls started by each thread

kernelVars == <<online, allowed, everOffline, plugs, cpuidPresent>>
vars == <<online, allowed, everOffline, plugs, cpuidPresent, mask, oncpu,
          savedAffinity, errno, pc, all, logical, affinitySaved, record,
          data, ret, calls>>

(* The mask of a thread nobody restricts. *)
Unbound == IF allowed = {} THEN Cpus ELSE allowed

Init ==
  /\ allowed \in Allowances
  /\ online \in (SUBSET Cpus) \ {{}}
  /\ everOffline = Cpus \ online
  /\ plugs = 0
  /\ cpuidPresent \in BOOLEAN
  /\ mask \in [Threads -> {m \cap Unbound : m \in InitMasks}]
  /\ oncpu \in [Threads -> online]
  /\ \A t \in Threads : oncpu[t] \in mask[t]
  /\ savedAffinity = [s \in Scopes |-> {}]
  /\ errno = [s \in Scopes |-> "ERR_OK"]
  /\ pc = [t \in Threads |-> "idle"]
  /\ all = [t \in Threads |-> FALSE]
  /\ logical = [t \in Threads |-> 0]
  /\ affinitySaved = [t \in Threads |-> FALSE]
  /\ record = [t \in Threads |-> <<>>]
  /\ data = [t \in Threads |-> <<>>]
  /\ ret = [t \in Threads |-> "ERR_OK"]
  /\ calls = [t \in Threads |-> 0]

-----------------------------------------------------------------------------
(* The operating system. *)

(* sched_setaffinity(0, m): refused when m names no allowed CPU that is   *)
(* up, else the thread is moved to a CPU of m before the call returns.    *)
Bind(t, m) ==
  /\ mask' = [mask EXCEPT ![t] = m]
  /\ \E c \in m \cap online : oncpu' = [oncpu EXCEPT ![t] = c]

(* The scheduler moves a thread within its mask. *)
Migrate(t) ==
  /\ \E c \in (mask[t] \cap online) \ {oncpu[t]} :
        oncpu' = [oncpu EXCEPT ![t] = c]
  /\ UNCHANGED <<kernelVars, mask, savedAffinity, errno, pc, all, logical,
                 affinitySaved, record, data, ret, calls>>

(* A CPU goes offline.  A thread left without a CPU loses its affinity:   *)
(* the kernel falls back to the CPUs of its cpuset, and to every CPU when *)
(* none of those is up.                                                   *)
Unplug(c) ==
  /\ plugs < MaxPlug
  /\ c \in online /\ online # {c}
  /\ plugs' = plugs + 1
  /\ online' = online \ {c}
  /\ everOffline' = everOffline \union {c}
  /\ mask' = [t \in Threads |-> IF mask[t] \cap online' # {} THEN mask[t]
                                ELSE IF Unbound \cap online' # {} THEN Unbound
                                ELSE Cpus]
  /\ oncpu' \in [Threads -> online']
  /\ \A t \in Threads : IF oncpu[t] = c THEN oncpu'[t] \in mask'[t]
                                        ELSE oncpu'[t] = oncpu[t]
  /\ UNCHANGED <<allowed, cpuidPresent, savedAffinity, errno, pc, all, logical,
                 affinitySaved, record, data, ret, calls>>

(* A CPU comes (back) online. *)
Plug(c) ==
  /\ plugs < MaxPlug
  /\ c \in Cpus \ online
  /\ plugs' = plugs + 1
  /\ online' = online \union {c}
  /\ UNCHANGED <<allowed, everOffline, cpuidPresent, mask, oncpu,
                 savedAffinity, errno, pc, all, logical, affinitySaved, record, data, ret, calls>>

-----------------------------------------------------------------------------
(* The calls an application makes. *)

(* What every call starts with. *)
Enter(t, isAll, cpu) ==
  /\ pc[t] = "idle" /\ calls[t] < MaxCalls
  /\ calls' = [calls EXCEPT ![t] = @ + 1]
  /\ pc' = [pc EXCEPT ![t] = "set"]
  /\ all' = [all EXCEPT ![t] = isAll]
  /\ logical' = [logical EXCEPT ![t] = cpu]
  /\ data' = [data EXCEPT ![t] = <<>>]
  /\ UNCHANGED <<kernelVars, mask, oncpu, savedAffinity, errno, affinitySaved,
                 record, ret>>

(* cpuid_get_all_raw_data(data): constructs the array, starts at CPU 0. *)
CallAll(t) == Enter(t, TRUE, 0)

(* cpuid_get_raw_data_core(data, cpu). *)
CallCore(t) == \E cpu \in 0 .. NumCpus : cpu # AnyCpu /\ Enter(t, FALSE, cpu)

(* cpuid_get_raw_data(data) passes -1. *)
CallCurrent(t) == Enter(t, FALSE, AnyCpu)

(* Mutant: the end of the machine is reported as an error. *)
CoreReturnsInvcnb(t, err) ==
  LET ends == ~(all[t] /\ err = "ERR_OK")
  IN  /\ errno' = [errno EXCEPT ![Scope(t)] = err]
      /\ pc' = [pc EXCEPT ![t] = IF ends THEN "idle" ELSE "store"]
      /\ ret' = IF ends THEN [ret EXCEPT ![t] = err] ELSE ret
      /\ affinitySaved' = [affinitySaved EXCEPT ![t] = FALSE]
      /\ data' = IF ~all[t] /\ err = "ERR_OK"
                 THEN [data EXCEPT ![t] = <<record[t]>>] ELSE data
      /\ record' = IF ends THEN [record EXCEPT ![t] = <<>>] ELSE record

(* cpuid_set_error(err) and the return to the caller.  The loop of         *)
(* cpuid_get_all_raw_data goes on after ERR_OK, ends at any error and      *)
(* reports ERR_INVCNB, the end of the machine, as success.                 *)
CoreReturns(t, err) ==
  LET ends == ~(all[t] /\ err = "ERR_OK")
      r    == IF all[t] /\ err = "ERR_INVCNB" THEN "ERR_OK" ELSE err
  IN  /\ errno' = [errno EXCEPT ![Scope(t)] = r]
      /\ pc' = [pc EXCEPT ![t] = IF ends THEN "idle" ELSE "store"]
      /\ ret' = IF ends THEN [ret EXCEPT ![t] = r] ELSE ret
      /\ affinitySaved' = [affinitySaved EXCEPT ![t] = FALSE]
      /\ data' = IF ~all[t] /\ err = "ERR_OK"
                 THEN [data EXCEPT ![t] = <<record[t]>>] ELSE data
      /\ record' = IF ends THEN [record EXCEPT ![t] = <<>>] ELSE record

-----------------------------------------------------------------------------
(* cpuid_get_raw_data_core, step by step. *)

(* set_cpu_affinity succeeds for a CPU that is up and allowed. *)
KernelAccepts(cpu) == cpu \in online \cap allowed

(* logical_cpu == -1: read wherever the thread happens to run. *)
SkipAffinity(t) ==
  /\ pc[t] = "set" /\ logical[t] = AnyCpu
  /\ pc' = [pc EXCEPT ![t] = "read"]
  /\ UNCHANGED <<kernelVars, mask, oncpu, savedAffinity, errno, all, logical,
                 affinitySaved, record, data, ret, calls>>

(* set_cpu_affinity pins the thread and returns true. *)
Pin(t) ==
  /\ pc[t] = "set" /\ logical[t] # AnyCpu
  /\ logical[t] <= BindLimit /\ KernelAccepts(logical[t])
  /\ Bind(t, {logical[t]})
  /\ pc' = [pc EXCEPT ![t] = "save"]
  /\ UNCHANGED <<kernelVars, savedAffinity, errno, all, logical,
                 affinitySaved, record, data, ret, calls>>

(* Mutant: the highest supported CPU is taken for an unsupported one. *)
PinUnsupportedEarly(t) ==
  /\ pc[t] = "set" /\ logical[t] # AnyCpu
  /\ logical[t] >= BindLimit
  /\ pc' = [pc EXCEPT ![t] = "save"]
  /\ UNCHANGED <<kernelVars, mask, oncpu, savedAffinity, errno, all, logical,
                 affinitySaved, record, data, ret, calls>>

(* Above BindLimit set_cpu_affinity warns and returns -1, which is "true"  *)
(* for its bool result: the thread is not pinned.                          *)
PinUnsupported(t) ==
  /\ pc[t] = "set" /\ logical[t] # AnyCpu
  /\ logical[t] > BindLimit
  /\ pc' = [pc EXCEPT ![t] = "save"]
  /\ UNCHANGED <<kernelVars, mask, oncpu, savedAffinity, errno, all, logical,
                 affinitySaved, record, data, ret, calls>>

(* set_cpu_affinity returns false for CPU 0: the data is read unpinned. *)
PinFailsOnZero(t) ==
  /\ pc[t] = "set" /\ logical[t] = 0 /\ logical[t] # AnyCpu
  /\ ~KernelAccepts(0)
  /\ pc' = [pc EXCEPT ![t] = "read"]
  /\ UNCHANGED <<kernelVars, mask, oncpu, savedAffinity, errno, all, logical,
                 affinitySaved, record, data, ret, calls>>

(* Mutants: CPU 0 is not exempt from ERR_INVCNB; a failure is retried. *)
PinFailsAnywhere(t) ==
  /\ pc[t] = "set" /\ logical[t] # AnyCpu
  /\ logical[t] <= BindLimit /\ ~KernelAccepts(logical[t])
  /\ CoreReturns(t, "ERR_INVCNB")
  /\ UNCHANGED <<kernelVars, mask, oncpu, savedAffinity, all, logical, calls>>

PinFailsRetries(t) ==
  /\ pc[t] = "set" /\ logical[t] > 0 /\ logical[t] # AnyCpu
  /\ logical[t] <= BindLimit /\ ~KernelAccepts(logical[t])
  /\ UNCHANGED vars

(* set_cpu_affinity returns false for another CPU: ERR_INVCNB. *)
PinFails(t) ==
  /\ pc[t] = "set" /\ logical[t] > 0 /\ logical[t] # AnyCpu
  /\ logical[t] <= BindLimit /\ ~KernelAccepts(logical[t])
  /\ CoreReturns(t, "ERR_INVCNB")
  /\ UNCHANGED <<kernelVars, mask, oncpu, savedAffinity, all, logical, calls>>

(* save_cpu_affinity, called once the new mask is in force.  The kernel    *)
(* reports the CPUs of the mask that are up.                               *)
SaveAffinity(t) ==
  /\ pc[t] = "save"
  /\ savedAffinity' = [savedAffinity EXCEPT ![Scope(t)] = mask[t] \cap online]
  /\ affinitySaved' = [affinitySaved EXCEPT ![t] = TRUE]
  /\ pc' = [pc EXCEPT ![t] = "read"]
  /\ UNCHANGED <<kernelVars, mask, oncpu, errno, all, logical, record, data,
                 ret, calls>>

(* !cpuid_present(): return at once, the affinity is not restored. *)
NoCpuid(t) ==
  /\ pc[t] = "read" /\ ~cpuidPresent
  /\ CoreReturns(t, "ERR_NO_CPUID")
  /\ UNCHANGED <<kernelVars, mask, oncpu, savedAffinity, all, logical, calls>>

(* One group of cpu_exec_cpuid / cpu_exec_cpuid_ext. *)
ReadLeaves(t) ==
  /\ pc[t] = "read" /\ cpuidPresent
  /\ record' = [record EXCEPT ![t] = Append(@, oncpu[t])]
  /\ pc' = [pc EXCEPT ![t] = IF Len(record[t]) + 1 = NumLeaves THEN "restore"
                                                               ELSE "read"]
  /\ UNCHANGED <<kernelVars, mask, oncpu, savedAffinity, errno, all, logical,
                 affinitySaved, data, ret, calls>>

(* restore_cpu_affinity if affinity_saved (its result is not looked at),   *)
(* then return ERR_OK.                                                     *)
Restore(t) ==
  /\ pc[t] = "restore"
  /\ LET saved == savedAffinity[Scope(t)] \cap allowed
     IN IF affinitySaved[t] /\ saved \cap online # {} THEN Bind(t, saved)
        ELSE UNCHANGED <<mask, oncpu>>
  /\ CoreReturns(t, "ERR_OK")
  /\ UNCHANGED <<kernelVars, savedAffinity, all, logical, calls>>

-----------------------------------------------------------------------------
(* cpuid_get_all_raw_data: keep the record and go on with the next CPU. *)

(* num_raw after cpuid_grow_raw_data_array(data, n): n is a logical_cpu_t, *)
(* the call does nothing when it is 0 or smaller than num_raw.             *)
Grown(num_raw, n) ==
  LET w == n % IndexMod IN IF w = 0 \/ w < num_raw THEN num_raw ELSE w

(* realloc gives the room that is asked for, or fails.  memcpy then writes *)
(* into data->raw[logical_cpu]: undefined past the end of the array.       *)
Store(t) ==
  LET room == Grown(Len(data[t]), logical[t] + 1)
  IN  /\ pc[t] = "store"
      /\ \/ /\ logical[t] < room
            /\ data' = [data EXCEPT ![t] = Append(@, record[t])]
            /\ logical' = [logical EXCEPT ![t] = (@ + 1) % IndexMod]
            /\ pc' = [pc EXCEPT ![t] = "set"]
            /\ UNCHANGED errno
         \/ /\ logical[t] >= room
            /\ pc' = [pc EXCEPT ![t] = "ub"]
            /\ UNCHANGED <<data, logical, errno>>
         \/ /\ room # Len(data[t])
            /\ errno' = [errno EXCEPT ![Scope(t)] = "ERR_NO_MEM"]
            /\ pc' = [pc EXCEPT ![t] = "ub"]
            /\ UNCHANGED <<data, logical>>
      /\ record' = [record EXCEPT ![t] = <<>>]
      /\ UNCHANGED <<kernelVars, mask, oncpu, savedAffinity, all, affinitySaved,
                     ret, calls>>

-----------------------------------------------------------------------------
Call(t) == CallAll(t) \/ CallCore(t) \/ CallCurrent(t)

(* A step of the library in thread t. *)
Run(t) ==
  \/ SkipAffinity(t)
  \/ Pin(t)
  \/ PinUnsupported(t)
  \/ PinFailsOnZero(t)
  \/ PinFails(t)
  \/ SaveAffinity(t)
  \/ NoCpuid(t)
  \/ ReadLeaves(t)
  \/ Restore(t)
  \/ Store(t)

System ==
  \/ \E t \in Threads : Migrate(t)
  \/ \E c \in Cpus : Unplug(c) \/ Plug(c)

Next == System \/ \E t \in Threads : Call(t) \/ Run(t)

Spec == Init /\ [][Next]_vars

(* The kernel runs every runnable thread sooner or later. *)
FairSpec == Spec /\ \A t \in Threads : WF_vars(Run(t))
-----------------------------------------------------------------------------
(* Properties. *)

TypeOK ==
  /\ online \in (SUBSET Cpus) \ {{}}
  /\ allowed \in SUBSET Cpus
  /\ everOffline \in SUBSET Cpus
  /\ plugs \in 0 .. MaxPlug
  /\ cpuidPresent \in BOOLEAN
  /\ mask \in [Threads -> SUBSET Cpus]
  /\ oncpu \in [Threads -> Cpus]
  /\ savedAffinity \in [Scopes -> SUBSET Cpus]
  /\ errno \in [Scopes -> Errors]
  /\ pc \in [Threads -> Steps]
  /\ all \in [Threads -> BOOLEAN]
  /\ logical \in [Threads -> Nat]
  /\ affinitySaved \in [Threads -> BOOLEAN]
  /\ record \in [Threads -> Seq(Cpus)]
  /\ data \in [Threads -> Seq(Seq(Cpus))]
  /\ ret \in [Threads -> Results]
  /\ calls \in [Threads -> 0 .. MaxCalls]

Finished(t) == pc[t] = "idle" /\ calls[t] > 0

(* The CPU the i-th record of the caller is meant to describe. *)
NamedCpu(t, i) == IF all[t] THEN i - 1 ELSE logical[t]

(* CPUs that set_cpu_affinity may refuse or may have refused. *)
Suspect == everOffline \union (Cpus \ allowed)

(* CPUs a thread can be held on: not "the current CPU", within what        *)
(* set_cpu_affinity supports, and never refused.                           *)
Reachable(c) == c # AnyCpu /\ c <= BindLimit /\ c \notin Suspect

DeliveredPure(t) ==
  \A i \in DOMAIN data[t] :
    Reachable(NamedCpu(t, i)) =>
      \A g \in DOMAIN data[t][i] : data[t][i][g] = NamedCpu(t, i)

(* A record handed to the caller for a reachable CPU was read on that CPU  *)
(* from its first group to its last, whatever the scheduler and the other  *)
(* threads did in between.                                                 *)
DataFromNamedCpu == \A t \in Threads : DeliveredPure(t)

EndsAtEnd(t) ==
  Finished(t) /\ all[t] /\ ret[t] = "ERR_OK" =>
    /\ Len(data[t]) >= 1
    /\ Len(data[t]) = NumCpus \/ Len(data[t]) \in Suspect

(* cpuid_get_all_raw_data succeeds with at least the record of CPU 0 (even *)
(* when the affinity of CPU 0 cannot be set), and it stops before the last *)
(* CPU only at one that was offline or that the process may not be bound   *)
(* to: after CPU 0 where set_cpu_affinity is not supported.                *)
StopsAtEnd == \A t \in Threads : EndsAtEnd(t)

SaysWhy(t) ==
  Finished(t) /\ ~all[t] =>
    /\ ret[t] = "ERR_INVCNB" => \/ logical[t] \in Suspect \ {0}
                                \/ logical[t] \in Nat \ Cpus
    /\ ret[t] = "ERR_OK" <=> Len(data[t]) = 1
    /\ ret[t] = "ERR_OK" => logical[t] \in Cpus \union {AnyCpu}

(* cpuid_get_raw_data_core: ERR_INVCNB means the CPU does not exist, was   *)
(* offline or may not be bound to, and is never the answer for CPU 0; a    *)
(* record comes back exactly on ERR_OK.                                    *)
CoreVerdict == \A t \in Threads : SaysWhy(t)

(* The array is written past the records it was grown to only when the     *)
(* memory for more ran out, which the error recorded just before says:     *)
(* neither the wrap of the index nor hot-plug leads there.                 *)
NoOverrun ==
  \A t \in Threads : pc[t] = "ub" => errno[Scope(t)] = "ERR_NO_MEM"

(* cpuid_get_error after a call answers what that call of the same thread  *)
(* returned, whatever other threads called in the meantime.                *)
ErrnoIsOwnResult ==
  \A t \in Threads : Finished(t) => errno[Scope(t)] = ret[t]

(* Between save_cpu_affinity and restore_cpu_affinity of a thread nobody   *)
(* overwrites the mask it saved.                                           *)
SavedMaskStable ==
  [][\A t \in Threads : affinitySaved[t] /\ affinitySaved'[t] =>
        savedAffinity'[Scope(t)] = savedAffinity[Scope(t)]]_vars

(* Every call returns, unless its memory ran out: the loop of              *)
(* cpuid_get_all_raw_data ends.                                            *)
CallsReturn == \A t \in Threads : pc[t] # "idle" ~> pc[t] \in {"idle", "ub"}

-----------------------------------------------------------------------------
(* The inductive invariant behind DataFromNamedCpu and NoOverrun. *)

Working == {"set", "save", "read", "restore", "store"}

(* The kernel runs every thread on a CPU of its mask that is up. *)
Placed ==
  /\ Cpus \ online \subseteq everOffline
  /\ \A t \in Threads : oncpu[t] \in mask[t] \cap online

(* A thread that reads for a reachable CPU is held on it... *)
Held(t) ==
  pc[t] \in {"save", "read"} /\ Reachable(logical[t]) => mask[t] = {logical[t]}

(* ... so what it has read so far comes from there. *)
RecordPure(t) ==
  /\ pc[t] \notin {"read", "restore", "store"} => record[t] = <<>>
  /\ Reachable(logical[t]) => \A g \in DOMAIN record[t] :
                                record[t][g] = logical[t]

(* The array is dense: the next record belongs at its end. *)
Dense(t) ==
  /\ all[t] => logical[t] = Len(data[t])
  /\ ~all[t] => \/ pc[t] \in {"set", "save", "read", "restore"} /\ data[t] = <<>>
                \/ pc[t] = "idle" /\ Len(data[t]) \in {0, 1}

ThreadInv(t) == Held(t) /\ RecordPure(t) /\ Dense(t) /\ DeliveredPure(t)

IInv == TypeOK /\ Placed /\ \A t \in Threads : ThreadInv(t)

(* Records leave the core function complete, and only where CPUID exists;  *)
(* affinity_saved is set for the time between save and restore.            *)
Complete(t) ==
  /\ pc[t] = "read" => Len(record[t]) < NumLeaves
  /\ pc[t] \in {"restore", "store"} =>
       Len(record[t]) = NumLeaves /\ cpuidPresent
  /\ data[t] # <<>> => cpuidPresent
  /\ pc[t] \in {"idle", "set", "save", "store"} => ~affinitySaved[t]

(* Room for every CPU: the index after the last CPU is neither -1 nor out  *)
(* of what set_cpu_affinity supports.                                      *)
Capacity == NumCpus < AnyCpu /\ NumCpus <= BindLimit

(* With that room the loop never leaves the CPUs of the machine. *)
InRange(t) ==
  /\ logical[t] \in 0 .. NumCpus \/ (logical[t] = AnyCpu /\ ~all[t])
  /\ pc[t] \in {"save", "read", "restore", "store"} =>
       logical[t] \in Cpus \/ (logical[t] = AnyCpu /\ ~all[t])

EndInv(t) == InRange(t) /\ EndsAtEnd(t) /\ SaysWhy(t)

-----------------------------------------------------------------------------
(* What the documentation says and the code does not do. *)

(* ChangeLog 0.6.3 and libcpuid.h: cpuid_get_all_raw_data restores the     *)
(* affinity the thread had.  (Stated for instances without hot-plug, whose *)
(* threads make one call.)                                                 *)
AffinityRestored ==
  \A t \in Threads :
    Finished(t) /\ all[t] /\ ret[t] = "ERR_OK" => mask[t] \in InitMasks

-----------------------------------------------------------------------------
(* What an acquisition promises its caller. *)

Abstract == INSTANCE Acquisition WITH
  busy    <- [t \in Threads |-> pc[t] # "idle"],
  got     <- data,
  suspect <- Suspect

Implements == Abstract!Spec
=============================================================================
