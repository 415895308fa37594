------------------------------- MODULE MsrInfo -------------------------------
(***************************************************************************)
(* Model specific registers (libcpuid/rdmsr.c): threads open handles on    *)
(* CPUs, read registers, ask cpu_msrinfo for clock ratios and voltages and *)
(* dump registers, while CPUs change their P-state and go offline.         *)
(*                                                                         *)
(* The process-wide statics are variables of their own: the cached id of   *)
(* get_cached_cpuid (which nothing protects), and info and last_addr of    *)
(* cpu_msrinfo (which callers guard by a mutex, as libcpuid.h asks).  A    *)
(* value is abstracted to the register and the CPU it was read from; one   *)
(* step is one register read, or the code up to the next shared variable.  *)
(***************************************************************************)
EXTENDS Integers, Sequences, FiniteSets

CONSTANTS
  Threads,       \* threads of the process
  Cores,         \* CPUs that have a device file, 0 .. n - 1
  MaxPstate,     \* P-states are numbered 0 .. MaxPstate (7 in the code)
  Machines,      \* machines to look at, see Machine
  ClosesOnNoMem, \* TRUE: Linux, FALSE: FreeBSD (see OpenDevice)
  MaxCalls,      \* bound on the calls of one thread
  MaxEvents      \* bound on P-state changes and CPUs going offline

Requests == {"perf", "min", "cur", "max", "temperature", "voltage", "bus"}

Reg(name)  == [name |-> name, n |-> 0]
Pstate(n)  == [name |-> "PSTATE", n |-> n]
PstateRegs == {Pstate(n) : n \in 0 .. MaxPstate}
Registers  == PstateRegs \union
  {Reg(name) : name \in {"PSTATE_L", "PSTATE_S", "PERF", "PERF_STATUS", "THERM_STATUS",
                         "EBL_CR_POWERON", "TURBO_RATIO_LIMIT", "TEMPERATURE_TARGET",
                         "PLATFORM_INFO"}}

(* vendor, msr: what CPUID says; cpu_identify fails for an unknown vendor. *)
(* kernelMsr: the kernel, too, holds the CPU for one with MSRs.            *)
(* platformInfo, coreVoltage: the model is in the lists of                 *)
(* msr_platform_info_supported, msr_intel_core_supported.                  *)
(* multipliers: get_amd_multipliers knows the family.                      *)
(* enabled, maxVal: PstateEn bits and PstateMaxVal.  absent: registers the *)
(* CPU does not have.  root, module: what load_driver may and can do.      *)
Machine == [vendor : {"amd", "intel", "other", "unknown"}, msr : BOOLEAN,
            kernelMsr : BOOLEAN, platformInfo : BOOLEAN, coreVoltage : BOOLEAN, multipliers : BOOLEAN,
            enabled : SUBSET (0 .. MaxPstate), maxVal : 0 .. MaxPstate,
            absent : SUBSET Registers, root : BOOLEAN, module : BOOLEAN]

ASSUME ConstantsAssumption ==
  /\ IsFiniteSet(Threads)
  /\ Cores \subseteq Nat /\ IsFiniteSet(Cores)
  /\ MaxPstate \in Nat
  /\ Machines \subseteq Machine
  /\ ClosesOnNoMem \in BOOLEAN
  /\ MaxCalls \in Nat /\ MaxEvents \in Nat

VARIABLES
  machine,     \* the machine, constant
  online,      \* CPUs that are up
  pstate,      \* pstate[c]: CurPstate of CPU c
  events,      \* environment events so far
  loaded,      \* the kernel module is loaded
  initialized, \* get_cached_cpuid: initialized
  cachedId,    \* get_cached_cpuid: id, "blank" or "filled"
  init,        \* cpu_msrinfo: init
  infoHandle,  \* cpu_msrinfo: info.handle, as the CPU it was opened on
  lastAddr,    \* get_amd_last_pstate_addr: last_addr as a P-state, -1 for 0
  fds,         \* device files the process has open
  pc,          \* where thread t is
  op,          \* the function it is in, or was in last
  core,        \* the CPU of its handle or of the one it asks for
  open,        \* it has a handle
  which,       \* the request of cpu_msrinfo
  got,         \* the readings of this call
  lines,       \* the lines msr_serialize_raw_data printed
  ret,         \* what its last call returned
  errno,       \* its _libcpuid_errno
  calls,       \* calls it has made
  scanFailed,  \* history: a read failed while last_addr was looked up
  during       \* history: P-states of the CPU since the call began

environment == <<machine, online, pstate, events>>
cache   == <<initialized, cachedId>>
statics == <<init, infoHandle, lastAddr, scanFailed>>
device  == <<loaded, fds, open>>
vars == <<environment, cache, statics, device, pc, op, core, which, got, lines,
          ret, errno, calls, during>>

(* Steps in which get_cached_cpuid has found that id is not initialized. *)
FirstUse == {"construct", "fill", "publish"}

Init ==
  /\ machine \in Machines
  /\ online = Cores /\ pstate = [c \in Cores |-> 0] /\ events = 0
  /\ loaded \in {FALSE, machine.module}
  /\ initialized = FALSE /\ cachedId = "blank"
  /\ init = FALSE /\ infoHandle = -1 /\ lastAddr = -1 /\ scanFailed = FALSE
  /\ fds = 0 /\ open = [t \in Threads |-> FALSE]
  /\ pc = [t \in Threads |-> "idle"] /\ op = [t \in Threads |-> "none"]
  /\ core = [t \in Threads |-> 0] /\ which = [t \in Threads |-> "perf"]
  /\ got = [t \in Threads |-> <<>>] /\ lines = [t \in Threads |-> <<>>]
  /\ ret = [t \in Threads |-> "none"] /\ errno = [t \in Threads |-> "ERR_OK"]
  /\ calls = [t \in Threads |-> 0] /\ during = [t \in Threads |-> {}]

-----------------------------------------------------------------------------
(* The machine. *)

SwitchPstate(c) ==
  /\ events < MaxEvents /\ events' = events + 1
  /\ \E p \in machine.enabled : pstate' = [pstate EXCEPT ![c] = p]
  /\ during' = [t \in Threads |-> IF core[t] = c /\ pc[t] # "idle"
                               THEN during[t] \union {pstate'[c]} ELSE during[t]]
  /\ UNCHANGED <<machine, online, cache, statics, device, pc, op, core, which,
                 got, lines, ret, errno, calls>>

GoOffline(c) ==
  /\ events < MaxEvents /\ events' = events + 1
  /\ c \in online /\ online' = online \ {c}
  /\ UNCHANGED <<machine, pstate, cache, statics, device, pc, op, core, which,
                 got, lines, ret, errno, calls, during>>

Readable(c, r) == c \in online /\ r \notin machine.absent

(* The field the code extracts: CurPstate, PstateMaxVal, PstateEn, the     *)
(* "reading valid" bit of a temperature, else nothing of interest.         *)
FieldValues(c, r) ==
  CASE r.name = "PSTATE_S"     -> {pstate[c]}
    [] r.name = "PSTATE_L"     -> {machine.maxVal}
    [] r.name = "PSTATE"       -> {IF r.n \in machine.enabled THEN 1 ELSE 0}
    [] r.name = "THERM_STATUS" -> {0, 1}
    [] OTHER                   -> {1}

(* What cpu_rdmsr can make of register r on CPU c. *)
Readings(c, r) ==
  IF Readable(c, r)
  THEN {[reg |-> r, core |-> c, ok |-> TRUE, value |-> v] : v \in FieldValues(c, r)}
  ELSE {[reg |-> r, core |-> c, ok |-> FALSE, value |-> 0]}

-----------------------------------------------------------------------------
(* Calls and returns. *)

Enter(t, f, first) ==
  /\ pc[t] = "idle" /\ calls[t] < MaxCalls
  /\ calls' = [calls EXCEPT ![t] = @ + 1]
  /\ op' = [op EXCEPT ![t] = f]
  /\ pc' = [pc EXCEPT ![t] = first]
  /\ got' = [got EXCEPT ![t] = <<>>] /\ lines' = [lines EXCEPT ![t] = <<>>]

Leave(t, answer) ==
  /\ pc' = [pc EXCEPT ![t] = "idle"]
  /\ ret' = [ret EXCEPT ![t] = answer]

(* return cpuid_set_error(err), or the same with NULL. *)
Fail(t, err) == Leave(t, err) /\ errno' = [errno EXCEPT ![t] = err]

(* get_total_cpus: the number of CPUs that are up (_SC_NPROCESSORS_ONLN).   *)
TotalCpus == Cardinality(online)

(* cpu_msr_driver_open_core(c): a number that is not below the number of    *)
(* CPUs is refused, also that of a CPU that is up when one before it is not. *)
CallOpen(t, c) ==
  /\ ~open[t] /\ Enter(t, "open", IF c < TotalCpus THEN "lookup" ELSE "refuse")
  /\ core' = [core EXCEPT ![t] = c]
  /\ UNCHANGED <<environment, cache, statics, device, which, ret, errno, during>>

RefuseCore(t) ==
  /\ pc[t] = "refuse" /\ Fail(t, "ERR_INVCNB")
  /\ UNCHANGED <<environment, cache, statics, device, op, core, which, got,
                 lines, calls, during>>

(* cpu_msrinfo, called with the mutex held that libcpuid.h asks for.       *)
CallInfo(t, w) ==
  /\ open[t] /\ \A u \in Threads : op[u] = "info" => pc[u] = "idle"
  /\ Enter(t, "info", "enter")
  /\ which' = [which EXCEPT ![t] = w]
  /\ during' = [during EXCEPT ![t] = {pstate[core[t]]}]
  /\ UNCHANGED <<environment, cache, statics, device, core, ret, errno>>

CallSerialize(t) ==
  /\ open[t] /\ Enter(t, "serialize", "lookup")
  /\ UNCHANGED <<environment, cache, statics, device, core, which, ret, errno, during>>

(* cpu_msr_driver_close *)
CallClose(t) ==
  /\ open[t] /\ Enter(t, "close", "close")
  /\ UNCHANGED <<environment, cache, statics, device, core, which, ret, errno, during>>

Close(t) ==
  /\ pc[t] = "close" /\ Leave(t, "ERR_OK")
  /\ fds' = fds - 1 /\ open' = [open EXCEPT ![t] = FALSE]
  /\ UNCHANGED <<environment, cache, statics, loaded, op, core, which, got,
                 lines, errno, calls, during>>

(* The same functions with NULL for a handle; closing it is no error. *)
CallWithoutHandle(t) ==
  /\ ~open[t] /\ pc[t] = "idle" /\ calls[t] < MaxCalls
  /\ calls' = [calls EXCEPT ![t] = @ + 1]
  /\ got' = [got EXCEPT ![t] = <<>>] /\ lines' = [lines EXCEPT ![t] = <<>>]
  /\ \/ /\ op' = [op EXCEPT ![t] = "close"]
        /\ Leave(t, "ERR_OK") /\ UNCHANGED errno
     \/ \E f \in {"read", "serialize"} :
          op' = [op EXCEPT ![t] = f] /\ Fail(t, "ERR_HANDLE")
     \/ /\ op' = [op EXCEPT ![t] = "info"]
        /\ Leave(t, "CPU_INVALID_VALUE") /\ errno' = [errno EXCEPT ![t] = "ERR_HANDLE"]
  /\ UNCHANGED <<environment, cache, statics, device, core, which, during>>

-----------------------------------------------------------------------------
(* get_cached_cpuid, called by rdmsr_supported and msr_serialize_raw_data. *)

(* Mutant: id passes for initialized before it is identified. *)
LookupPublishes(t) ==
  /\ pc[t] = "lookup"
  /\ pc' = [pc EXCEPT ![t] = IF initialized THEN "decide" ELSE "construct"]
  /\ initialized' = TRUE
  /\ UNCHANGED <<environment, cachedId, statics, device, op, core, which, got,
                 lines, ret, errno, calls, during>>

Lookup(t) ==
  /\ pc[t] = "lookup"
  /\ pc' = [pc EXCEPT ![t] = IF initialized THEN "decide" ELSE "construct"]
  /\ UNCHANGED <<environment, cache, statics, device, op, core, which, got,
                 lines, ret, errno, calls, during>>

(* The raw data has been obtained; cpu_id_t_constructor clears id. *)
Construct(t) ==
  /\ pc[t] = "construct" /\ pc' = [pc EXCEPT ![t] = "fill"]
  /\ cachedId' = "blank"
  /\ UNCHANGED <<environment, initialized, statics, device, op, core, which,
                 got, lines, ret, errno, calls, during>>

(* What becomes of id: one whose identification fails is cleared again,    *)
(* with VENDOR_UNKNOWN and no flags.                                       *)
Identified == IF machine.vendor = "unknown" THEN "blank" ELSE "filled"

(* Identification fills id in place and sets the error code. *)
Fill(t) ==
  /\ pc[t] = "fill" /\ pc' = [pc EXCEPT ![t] = "publish"]
  /\ cachedId' = Identified
  /\ errno' = [errno EXCEPT ![t] = IF Identified = "blank" THEN "ERR_CPU_UNKN"
                                                         ELSE "ERR_OK"]
  /\ UNCHANGED <<environment, initialized, statics, device, op, core, which,
                 got, lines, ret, calls, during>>

Publish(t) ==
  /\ pc[t] = "publish" /\ pc' = [pc EXCEPT ![t] = "decide"]
  /\ initialized' = TRUE
  /\ UNCHANGED <<environment, cachedId, statics, device, op, core, which,
                 got, lines, ret, errno, calls, during>>

-----------------------------------------------------------------------------
(* cpu_msr_driver_open_core, once rdmsr_supported has the cached id. *)

FlagsHaveMsr == cachedId = "filled" /\ machine.msr

(* load_driver: the device file of a CPU that is up exists when the module *)
(* is loaded; only root may read it, or load the module.                   *)
DriverReady(c) == machine.root /\ ((loaded /\ c \in online) \/ machine.module)

OpenUnsupported(t) ==
  /\ pc[t] = "decide" /\ op[t] = "open" /\ ~FlagsHaveMsr
  /\ Fail(t, "ERR_NO_RDMSR")
  /\ UNCHANGED <<environment, cache, statics, device, op, core, which, got,
                 lines, calls, during>>

(* load_driver fails, or open() does: with EIO where the kernel knows of   *)
(* no MSRs.                                                                *)
OpenFails(t) ==
  /\ pc[t] = "decide" /\ op[t] = "open" /\ FlagsHaveMsr
  /\ LET exists == DriverReady(core[t]) /\ core[t] \in online
     IN  /\ ~(exists /\ machine.kernelMsr)
         /\ Fail(t, IF exists THEN "ERR_NO_RDMSR" ELSE "ERR_NO_DRIVER")
  /\ loaded' = (loaded \/ DriverReady(core[t]))
  /\ UNCHANGED <<environment, cache, statics, fds, open, op, core, which, got,
                 lines, calls, during>>

(* open() works; malloc() may not, and then FreeBSD forgets to close.      *)
OpenDevice(t) ==
  /\ pc[t] = "decide" /\ op[t] = "open" /\ FlagsHaveMsr
  /\ DriverReady(core[t]) /\ core[t] \in online /\ machine.kernelMsr
  /\ loaded' = TRUE
  /\ \/ /\ Leave(t, "handle") /\ UNCHANGED errno
        /\ fds' = fds + 1 /\ open' = [open EXCEPT ![t] = TRUE]
     \/ /\ Fail(t, "ERR_NO_MEM")
        /\ fds' = IF ClosesOnNoMem THEN fds ELSE fds + 1
        /\ UNCHANGED open
  /\ UNCHANGED <<environment, cache, statics, op, core, which, got, lines,
                 calls, during>>

(* cpu_rdmsr with the thread's own handle. *)
Rdmsr(t) ==
  /\ open[t] /\ pc[t] = "idle" /\ calls[t] < MaxCalls
  /\ calls' = [calls EXCEPT ![t] = @ + 1]
  /\ op' = [op EXCEPT ![t] = "read"]
  /\ got' = [got EXCEPT ![t] = <<>>] /\ lines' = [lines EXCEPT ![t] = <<>>]
  /\ \E r \in Registers :
       IF Readable(core[t], r) THEN Leave(t, "ERR_OK") /\ UNCHANGED errno
                               ELSE Fail(t, "ERR_INVMSR")
  /\ UNCHANGED <<environment, cache, statics, device, core, which, during>>

-----------------------------------------------------------------------------
(* cpu_msrinfo *)

(* Mutant: the handle is kept with the rest of what the first call finds.  *)
EnterInfoOnce(t) ==
  /\ pc[t] = "enter" /\ pc' = [pc EXCEPT ![t] = "info"]
  /\ infoHandle' = IF init THEN infoHandle ELSE core[t]
  /\ init' = TRUE
  /\ errno' = IF init THEN errno ELSE [errno EXCEPT ![t] = "ERR_OK"]
  /\ UNCHANGED <<environment, cache, lastAddr, scanFailed, device, op, core,
                 which, got, lines, ret, calls, during>>

(* The handle is set in every call; identification (which cannot fail where *)
(* a handle could be opened) and the clock only in the first.              *)
EnterInfo(t) ==
  /\ pc[t] = "enter" /\ pc' = [pc EXCEPT ![t] = "info"]
  /\ infoHandle' = core[t]
  /\ init' = TRUE
  /\ errno' = IF init THEN errno ELSE [errno EXCEPT ![t] = "ERR_OK"]
  /\ UNCHANGED <<environment, cache, lastAddr, scanFailed, device, op, core,
                 which, got, lines, ret, calls, during>>

MsrPlatformInfoSupported == machine.platformInfo
MsrIntelCoreSupported    == machine.coreVoltage

(* The registers that the get_info_ functions read for an Intel CPU.       *)
IntelPlan(w) ==
  CASE w \in {"min", "bus"} /\ MsrPlatformInfoSupported   -> <<Reg("PLATFORM_INFO")>>
    [] w = "cur" /\ ~MsrIntelCoreSupported               -> <<Reg("EBL_CR_POWERON")>>
    [] w = "max" /\ ~MsrIntelCoreSupported               -> <<Reg("PERF_STATUS")>>
    [] w \in {"cur", "voltage"} /\ MsrIntelCoreSupported -> <<Reg("PERF_STATUS")>>
    [] w = "max" /\ MsrIntelCoreSupported                -> <<Reg("TURBO_RATIO_LIMIT")>>
    [] w = "temperature" /\ MsrIntelCoreSupported        ->
         <<Reg("THERM_STATUS"), Reg("THERM_STATUS"), Reg("TEMPERATURE_TARGET")>>
    [] OTHER                                             -> <<>>

IntelNext(w, read) == IF Len(read) < Len(IntelPlan(w))
                      THEN {IntelPlan(w)[Len(read) + 1]} ELSE {}

\* Mutant: one too high.
CurrentPstateOffByOne(x) == Pstate(x.value + 1)

(* The P-state in a reading of PSTATE_S, and the fastest one that is not   *)
(* boosted, by a reading of PSTATE_L.                                      *)
CurrentPstate(x) == Pstate(x.value)
BasePstate(x)    == Pstate(lastAddr - x.value)

(* For an AMD CPU; the multiplier and the voltage of a P-state are fields  *)
(* of its register.                                                        *)
AmdNext(w, read) ==
  CASE w = "max" /\ read = <<>>                     -> {Pstate(0)}
    [] w = "min" /\ read = <<>>                     -> {Pstate(lastAddr)}
    [] w \in {"cur", "voltage"} /\ read = <<>>      -> {Reg("PSTATE_S")}
    [] w \in {"cur", "voltage"} /\ Len(read) = 1    -> {CurrentPstate(read[1])}
    [] w = "bus" /\ read = <<>>                     -> {Reg("PSTATE_L")}
    [] w = "bus" /\ Len(read) = 1                   -> {BasePstate(read[1])}
    [] OTHER                                        -> {}

NextRegister(t) ==
  CASE which[t] = "perf" -> IF Len(got[t]) < 2 THEN {Reg("PERF")} ELSE {}
    [] which[t] # "perf" /\ machine.vendor = "amd"   -> AmdNext(which[t], got[t])
    [] which[t] # "perf" /\ machine.vendor = "intel" -> IntelNext(which[t], got[t])
    [] OTHER -> {}

(* perfmsr_measure takes the handle from its caller, the others from info. *)
HandleUsed(t) == IF which[t] = "perf" THEN core[t] ELSE infoHandle

(* cpu_rdmsr records its error. *)
NoteError(t, x) ==
  errno' = IF x.ok THEN errno ELSE [errno EXCEPT ![t] = "ERR_INVMSR"]

ScanDue(t) == /\ machine.vendor = "amd" /\ which[t] \in {"min", "bus"}
              /\ got[t] = <<>> /\ lastAddr = -1

(* An error of perfmsr_measure's second reading is not looked at. *)
Unreadable(t) ==
  \E i \in DOMAIN got[t] : ~got[t][i].ok /\ ~(which[t] = "perf" /\ i = 2)

(* get_amd_multipliers refuses P-states that do not exist, and every one of *)
(* a family it does not know.                                              *)
RefusedPstate(t) ==
  \E r \in NextRegister(t) :
    r.name = "PSTATE" /\ (r \notin Registers \/ (which[t] # "voltage" /\ ~machine.multipliers))

(* After an error the registers read in addition change nothing. *)
Impossible(t) ==
  \/ Unreadable(t)
  \/ RefusedPstate(t)
  \/ NextRegister(t) = {} /\ got[t] = <<>>
  \/ which[t] = "temperature" /\ Len(got[t]) = 3 /\ got[t][2].value = 0

ReadRegister(t) ==
  /\ pc[t] = "info" /\ ~ScanDue(t) /\ ~Impossible(t)
  /\ \E r \in NextRegister(t) : \E x \in Readings(HandleUsed(t), r) :
       got' = [got EXCEPT ![t] = Append(@, x)] /\ NoteError(t, x)
  /\ UNCHANGED <<environment, cache, statics, device, pc, op, core, which,
                 lines, ret, calls, during>>

InfoInvalid(t) ==
  /\ pc[t] = "info" /\ ~ScanDue(t)
  /\ Impossible(t) \/ (which[t] = "perf" /\ Len(got[t]) = 2)
  /\ Leave(t, "CPU_INVALID_VALUE")
  /\ UNCHANGED <<environment, cache, statics, device, op, core, which, got,
                 lines, errno, calls, during>>

InfoAnswers(t) ==
  /\ pc[t] = "info" /\ ~ScanDue(t) /\ ~Impossible(t) /\ NextRegister(t) = {}
  /\ Leave(t, "value")
  /\ UNCHANGED <<environment, cache, statics, device, op, core, which, got,
                 lines, errno, calls, during>>

(* get_amd_last_pstate_addr: last_addr itself counts down. *)
BeginScan(t) ==
  /\ pc[t] = "info" /\ ScanDue(t)
  /\ lastAddr' = MaxPstate + 1 /\ pc' = [pc EXCEPT ![t] = "scan"]
  /\ UNCHANGED <<environment, cache, init, infoHandle, scanFailed, device, op,
                 core, which, got, lines, ret, errno, calls, during>>

(* Mutant: the scan stops above P-state 0.                                 *)
ScanStopsEarly(t) ==
  /\ pc[t] = "scan"
  /\ lastAddr' = lastAddr - 1
  /\ \E x \in Readings(infoHandle, Pstate(lastAddr')) :
       /\ scanFailed' = (scanFailed \/ ~x.ok)
       /\ NoteError(t, x)
       /\ pc' = [pc EXCEPT ![t] = IF x.value = 0 /\ lastAddr' > 1 THEN "scan" ELSE "info"]
  /\ UNCHANGED <<environment, cache, init, infoHandle, device, op, core, which,
                 got, lines, ret, calls, during>>

(* The result of the read is not looked at: a failed one leaves reg at 0.  *)
Scan(t) ==
  /\ pc[t] = "scan"
  /\ lastAddr' = lastAddr - 1
  /\ \E x \in Readings(infoHandle, Pstate(lastAddr')) :
       /\ scanFailed' = (scanFailed \/ ~x.ok)
       /\ NoteError(t, x)
       /\ pc' = [pc EXCEPT ![t] = IF x.value = 0 /\ lastAddr' > 0 THEN "scan" ELSE "info"]
  /\ UNCHANGED <<environment, cache, init, infoHandle, device, op, core, which,
                 got, lines, ret, calls, during>>

-----------------------------------------------------------------------------
(* msr_serialize_raw_data *)

DumpedRegisters ==
  IF machine.vendor = "amd"
  THEN [i \in 1 .. MaxPstate + 3 |-> CASE i = 1 -> Reg("PSTATE_L")
                                       [] i = 2 -> Reg("PSTATE_S")
                                       [] i > 2 -> Pstate(i - 3)]
  ELSE <<Reg("PERF"), Reg("PERF"), Reg("PERF_STATUS"), Reg("THERM_STATUS"),
         Reg("EBL_CR_POWERON"), Reg("TURBO_RATIO_LIMIT"), Reg("TEMPERATURE_TARGET"),
         Reg("PERF_STATUS"), Reg("PLATFORM_INFO")>>

SerializeOpenFails(t) ==
  /\ pc[t] = "lookup" /\ op[t] = "serialize"
  /\ Fail(t, "ERR_OPEN")
  /\ UNCHANGED <<environment, cache, statics, device, op, core, which, got,
                 lines, calls, during>>

(* An unknown vendor: return cpuid_get_error(), whatever that is.          *)
SerializeDecide(t) ==
  /\ pc[t] = "decide" /\ op[t] = "serialize"
  /\ IF cachedId = "blank" THEN Leave(t, errno[t])
     ELSE pc' = [pc EXCEPT ![t] = "vendor"] /\ UNCHANGED ret
  /\ UNCHANGED <<environment, cache, statics, device, op, core, which, got,
                 lines, errno, calls, during>>

(* After a second of cpu_clock_measure the vendor is looked at again.      *)
SerializeVendor(t) ==
  /\ pc[t] = "vendor"
  /\ IF cachedId = "blank" \/ machine.vendor = "other" THEN Fail(t, "ERR_CPU_UNKN")
     ELSE pc' = [pc EXCEPT ![t] = "lines"] /\ UNCHANGED <<ret, errno>>
  /\ UNCHANGED <<environment, cache, statics, device, op, core, which, got,
                 lines, calls, during>>

(* The result of cpu_rdmsr is not looked at: reg keeps the reading before, *)
(* or what was on the stack.                                               *)
PrintLine(t) ==
  /\ pc[t] = "lines" /\ Len(lines[t]) < Len(DumpedRegisters)
  /\ LET n == Len(lines[t])
         r == DumpedRegisters[n + 1]
         before == IF n = 0 THEN Reg("none") ELSE lines[t][n].shown
     IN  \E x \in Readings(core[t], r) :
           /\ lines' = [lines EXCEPT ![t] = Append(@,
                [reg |-> r, shown |-> IF x.ok THEN r ELSE before])]
           /\ NoteError(t, x)
  /\ UNCHANGED <<environment, cache, statics, device, pc, op, core, which, got,
                 ret, calls, during>>

SerializeDone(t) ==
  /\ pc[t] = "lines" /\ Len(lines[t]) = Len(DumpedRegisters)
  /\ Fail(t, "ERR_OK")
  /\ UNCHANGED <<environment, cache, statics, device, op, core, which, got,
                 lines, calls, during>>

-----------------------------------------------------------------------------
Call(t) == \/ \E c \in Cores \union {Cardinality(Cores)} : CallOpen(t, c)
           \/ \E w \in Requests : CallInfo(t, w)
           \/ Rdmsr(t) \/ CallSerialize(t) \/ CallClose(t) \/ CallWithoutHandle(t)

(* A step of the library in thread t. *)
Run(t) == \/ RefuseCore(t) \/ Close(t)
          \/ Lookup(t) \/ Construct(t) \/ Fill(t) \/ Publish(t)
          \/ OpenUnsupported(t) \/ OpenFails(t) \/ OpenDevice(t)
          \/ EnterInfo(t) \/ ReadRegister(t) \/ InfoInvalid(t) \/ InfoAnswers(t)
          \/ BeginScan(t) \/ Scan(t)
          \/ SerializeOpenFails(t) \/ SerializeDecide(t) \/ SerializeVendor(t)
          \/ PrintLine(t) \/ SerializeDone(t)

Next == \/ \E t \in Threads : Call(t) \/ Run(t)
        \/ \E c \in Cores : SwitchPstate(c) \/ GoOffline(c)

Spec == Init /\ [][Next]_vars
-----------------------------------------------------------------------------
(* Properties. *)

Reading == [reg : Registers, core : Cores \union {-1}, ok : BOOLEAN, value : Nat]
Line    == [reg : Registers, shown : Registers \union {Reg("none")}]

Returns == {"none", "ERR_OK", "handle", "value", "CPU_INVALID_VALUE", "ERR_INVCNB",
            "ERR_NO_RDMSR", "ERR_NO_DRIVER", "ERR_NO_MEM", "ERR_INVMSR", "ERR_OPEN",
            "ERR_CPU_UNKN", "ERR_HANDLE"}

TypeOK ==
  /\ machine \in Machines
  /\ online \subseteq Cores
  /\ pstate \in [Cores -> 0 .. MaxPstate]
  /\ events \in 0 .. MaxEvents
  /\ loaded \in BOOLEAN /\ initialized \in BOOLEAN /\ init \in BOOLEAN
  /\ cachedId \in {"blank", "filled"}
  /\ infoHandle \in Cores \union {-1}
  /\ lastAddr \in -1 .. MaxPstate + 1
  /\ fds \in Nat
  /\ pc \in [Threads -> FirstUse \union
              {"idle", "refuse", "lookup", "decide", "enter", "info", "scan",
               "vendor", "lines", "close"}]
  /\ op \in [Threads -> {"none", "open", "info", "serialize", "close", "read"}]
  /\ core \in [Threads -> Nat]
  /\ open \in [Threads -> BOOLEAN]
  /\ which \in [Threads -> Requests]
  /\ got \in [Threads -> Seq(Reading)]
  /\ lines \in [Threads -> Seq(Line)]
  /\ ret \in [Threads -> Returns] /\ errno \in [Threads -> Returns]
  /\ calls \in [Threads -> 0 .. MaxCalls]
  /\ scanFailed \in BOOLEAN
  /\ during \in [Threads -> SUBSET (0 .. MaxPstate)]

Answered(t, W) ==
  pc[t] = "idle" /\ op[t] = "info" /\ which[t] \in W /\ ret[t] = "value"

(* With cpu_msrinfo guarded by a mutex, a value is derived from registers  *)
(* of the CPU the handle of the caller was opened on, whichever handles    *)
(* other threads use; all of them could be read, but for the second        *)
(* reading of a performance counter.                                       *)
OwnCore ==
  \A t \in Threads : Answered(t, Requests) =>
    /\ got[t] # <<>>
    /\ \A i \in DOMAIN got[t] :
         got[t][i].core = core[t] /\ (got[t][i].ok \/ (which[t] = "perf" /\ i = 2))

(* The slowest P-state that is enabled; a hypervisor may show none.        *)
LastPstate == CHOOSE p \in machine.enabled \union {0} :
                \A q \in machine.enabled : q <= p

(* The minimum multiplier is that of the last P-state, in this call and in *)
(* the calls that reuse last_addr, unless a read failed in the search: the *)
(* search then ends too low, for good.                                     *)
MinIsLast ==
  \A t \in Threads :
    Answered(t, {"min"}) /\ machine.vendor = "amd" /\ ~scanFailed =>
      got[t][1].reg = Pstate(LastPstate)

(* The bus clock is the measured clock over the multiplier of the fastest  *)
(* P-state that is not boosted, PstateMaxVal above the last one.           *)
BusFromBase ==
  \A t \in Threads :
    Answered(t, {"bus"}) /\ machine.vendor = "amd" /\ ~scanFailed =>
      got[t][2].reg = Pstate(LastPstate - machine.maxVal)

(* A CPU changes its P-state between the two reads of a request: the       *)
(* multiplier and the voltage still are those of one P-state, which the    *)
(* CPU was in during the call.                                             *)
CurrentDuringCall ==
  \A t \in Threads :
    Answered(t, {"cur", "voltage"}) /\ machine.vendor = "amd" =>
      got[t][2].reg.n \in during[t]

(* While a thread is in cpu_id_t_constructor and what follows it the id it *)
(* fills, which others may already use, is blank.                          *)
BeingFilled == \E t \in Threads : pc[t] = "fill"

(* ERR_NO_RDMSR means that CPUID or the kernel says there are no MSRs, or  *)
(* that the CPU is of no vendor libcpuid knows.  get_cached_cpuid has no   *)
(* lock: a thread that looks at the id while another fills it a second     *)
(* time may be told the same of any CPU, but only then; the threads that   *)
(* were first at once leave behind the id one alone would have left.       *)
UnsupportedIsTrue ==
  [][\A t \in Threads :
       pc[t] = "decide" /\ op[t] = "open" /\ pc'[t] = "idle" /\ ret'[t] = "ERR_NO_RDMSR" =>
         \/ ~machine.msr \/ ~machine.kernelMsr \/ machine.vendor = "unknown"
         \/ BeingFilled]_vars

(* msr_serialize_raw_data returns ERR_OK only when it printed a line for   *)
(* every register of the list, again unless the id was being filled.       *)
DumpComplete ==
  [][\A t \in Threads :
       pc[t] # "idle" /\ op'[t] = "serialize" /\ pc'[t] = "idle" /\ ret'[t] = "ERR_OK" =>
         \/ [i \in DOMAIN lines'[t] |-> lines'[t][i].reg] = DumpedRegisters
         \/ BeingFilled]_vars

(* No device file stays open without a handle, whatever fails on the way.  *)
(* (For Linux: ClosesOnNoMem.)                                             *)
FilesAreHandles == fds = Cardinality({t \in Threads : open[t]})

-----------------------------------------------------------------------------
(* The inductive invariant behind these properties. *)

InInfo(t) == pc[t] \in {"enter", "info", "scan"}

(* A thread is in the function it called, with the handle it needs. *)
Placed ==
  \A t \in Threads :
    /\ InInfo(t) => op[t] = "info"
    /\ pc[t] \in {"vendor", "lines"} => op[t] = "serialize"
    /\ pc[t] = "close" => op[t] = "close"
    /\ pc[t] = "refuse" => op[t] = "open"
    /\ pc[t] \in FirstUse \union {"lookup", "decide"} => op[t] \in {"open", "serialize"}
    /\ open[t] => core[t] \in Cores
    /\ pc[t] # "idle" => (open[t] <=> op[t] # "open")

Mutex == \A t, u \in Threads : InInfo(t) /\ InInfo(u) => t = u

OwnHandle ==
  \A t \in Threads :
    /\ pc[t] \in {"info", "scan"} => infoHandle = core[t]
    /\ InInfo(t) => pstate[core[t]] \in during[t]

(* While last_addr counts down, the P-states from it on are off; then it   *)
(* stands at the last one that is enabled.                                 *)
LastFound ==
  /\ \A t \in Threads : pc[t] = "scan" =>
       lastAddr > 0 /\ (scanFailed \/ \A p \in machine.enabled : p < lastAddr)
  /\ (\A t \in Threads : pc[t] # "scan") =>
       lastAddr = -1 \/ (lastAddr >= 0 /\ (scanFailed \/ lastAddr = LastPstate))

(* What has been read so far in a request to cpu_msrinfo. *)
MinRead(t) == which[t] = "min" /\ got[t] # <<>> =>
                scanFailed \/ got[t][1].reg = Pstate(LastPstate)
BusRead(t) == which[t] = "bus" =>
  /\ Len(got[t]) > 0 => lastAddr # -1
  /\ Len(got[t]) > 0 /\ got[t][1].ok => got[t][1].value = machine.maxVal
  /\ Len(got[t]) > 1 => scanFailed \/ got[t][2].reg = Pstate(LastPstate - machine.maxVal)
CurRead(t) == which[t] \in {"cur", "voltage"} =>
  /\ Len(got[t]) > 0 /\ got[t][1].ok => got[t][1].value \in during[t]
  /\ Len(got[t]) > 1 => got[t][2].reg.n \in during[t]

ReadSoFar ==
  \A t \in Threads : op[t] = "info" =>
    /\ \A i \in DOMAIN got[t] : got[t][i].core = core[t]
    /\ machine.vendor = "amd" => MinRead(t) /\ BusRead(t) /\ CurRead(t)

(* A request that has its answer has read all it needs. *)
AllRead ==
  \A t \in Threads : Answered(t, Requests) =>
    /\ got[t] # <<>> /\ ~Unreadable(t)
    /\ machine.vendor = "amd" /\ which[t] \in {"bus", "cur", "voltage"} => Len(got[t]) > 1

(* Whoever was first in get_cached_cpuid, and however many were, id holds  *)
(* the outcome of the identification before it is taken for initialized    *)
(* and whenever nobody fills it.                                           *)
FilledInTheEnd ==
  /\ cachedId \in {"blank", Identified}
  /\ \A t \in Threads : pc[t] \in {"decide", "vendor", "lines"} => initialized
  /\ ~BeingFilled /\ (initialized \/ \E t \in Threads : pc[t] = "publish") =>
       cachedId = Identified
  /\ \A t \in Threads : open[t] => Identified = "filled"

Dumped ==
  \A t \in Threads : op[t] = "serialize" =>
    /\ Len(lines[t]) <= Len(DumpedRegisters)
    /\ \A i \in DOMAIN lines[t] : lines[t][i].reg = DumpedRegisters[i]

Handles == {t \in Threads : open[t]}

Files == fds >= Cardinality(Handles) /\ (ClosesOnNoMem => fds = Cardinality(Handles))

IInv == /\ TypeOK /\ Placed /\ Mutex /\ OwnHandle /\ LastFound /\ ReadSoFar
        /\ AllRead /\ FilledInTheEnd /\ Dumped /\ Files

-----------------------------------------------------------------------------
(* What the documentation says and the code does not do. *)

(* libcpuid.h: the dump has pairs something=value.  The value after a      *)
(* register is the value of that register.                                 *)
DumpedValuesAreTheirOwn ==
  \A t \in Threads : \A i \in DOMAIN lines[t] :
    lines[t][i].shown = lines[t][i].reg
=============================================================================
