------------------------------ MODULE ArmDriver ------------------------------
(***************************************************************************)
(* The ARM register driver: its Linux and FreeBSD kernel modules           *)
(* (drivers/arm), the library's side of it (libcpuid/rdcpuid.c) and the    *)
(* ARM branch of cpuid_get_raw_data_core.  One thread acquires a record    *)
(* while the administrator loads and unloads the module, other processes   *)
(* hold device files open and, on Linux, CPUs go offline and online.       *)
(*                                                                         *)
(* A register is a family and a number, <<"AA64DFR", 2>>; what a read of   *)
(* it gives is the CRm and op2 it was encoded with and the CPU that ran    *)
(* the instruction.  A step reads one register: with the driver an ioctl   *)
(* is made for every element of every field of cpu_raw_data_t, and its     *)
(* failure is not looked at.                                               *)
(***************************************************************************)
EXTENDS Integers, Sequences, FiniteSets

CONSTANTS
  NumCpus,    \* CPUs of the machine
  IndexMod,   \* number of values of logical_cpu_t (65536)
  Machines,   \* machines to look at, see Machine
  MaxCalls,   \* bound on acquisitions
  MaxEvents   \* bound on hot-plug, load, unload, migrations, files others open

Cpus   == 0 .. NumCpus - 1
AnyCpu == IndexMod - 1
NoCpu  == -1

(* kernel, arch: execution state of the kernel and of the process.         *)
(* root, readable: user 0, may read the device files.  hwcap: what         *)
(* cpuid_present answers.  affinity: threads can be bound to a CPU.        *)
(* module: modprobe or kldload finds it.  enabled: FreeBSD's CPUs in use.  *)
Machine == [os : {"linux", "freebsd"}, kernel : {"aarch32", "aarch64"},
            arch : {"aarch32", "aarch64"}, root : BOOLEAN, readable : BOOLEAN,
            hwcap : BOOLEAN, affinity : BOOLEAN, module : BOOLEAN,
            enabled : SUBSET Cpus]

(* A CPU is in use, and a 32-bit kernel has no 64-bit processes. *)
Sound(m) == m.enabled # {} /\ (m.arch = "aarch64" => m.kernel = "aarch64")

ASSUME ConstantsAssumption ==
  /\ NumCpus \in Nat \ {0}
  /\ IndexMod \in Nat /\ IndexMod > NumCpus
  /\ Machines \subseteq {m \in Machine : Sound(m)}
  /\ MaxCalls \in Nat /\ MaxEvents \in Nat

VARIABLES
  machine,   \* constant
  online,    \* CPUs that are up
  events,    \* what the environment did so far
  mod,       \* the module: "out", "live" or the step of its init or exit
  chrdev,    \* its major number is registered
  class,     \* its device class is
  hooked,    \* its hot-plug callbacks are
  devices,   \* CPUs with a device file
  others,    \* CPUs whose device file another process has open
  pc,        \* where the thread is
  calls,     \* acquisitions so far
  want,      \* logical_cpu
  fd,        \* CPU whose device file is open, or NoCpu
  field,     \* fields done so far
  element,   \* registers of the next field done so far
  data,      \* the record: what each element holds, Blank if never written
  ret,       \* cpuid_get_raw_data_core's result
  at,        \* CPU the thread runs on
  mask,      \* CPU its affinity allows, or AnyCpu
  bound,     \* CPU the kernel has bound it to, or NoCpu
  saved,     \* oldcpu and is_bound of FreeBSD's __read_reg_on_cpu
  entry,     \* history: bound when the call began
  viaDriver, \* history: the record came from the driver
  gone       \* history: during the call the CPU or its device went away

module   == <<mod, chrdev, class, hooked, devices>>
caller   == <<pc, calls, want, fd, field, element, data, ret, entry, viaDriver>>
thread   == <<at, mask, bound, saved>>
vars     == <<machine, online, events, module, others, caller, thread, gone>>

Linux == machine.os = "linux"

----------------------------------------------------------------------------
(* Registers: libcpuid_arm_driver.h, libcpuid_constants.h and the switch   *)
(* of __read_reg_on_cpu.                                                   *)

Family(name, n) == [i \in 1 .. n |-> <<name, i - 1>>]

(* reg_request_t, in the order of its values, without and with AArch64. *)
Requests32 ==
  Family("MIDR", 1) \o Family("MPIDR", 1) \o Family("REVIDR", 1) \o Family("AFR", 1)
  \o Family("DFR", 2) \o Family("ISAR", 7) \o Family("MMFR", 6) \o Family("PFR", 3)
Requests64 ==
  Requests32 \o Family("AA64AFR", 2) \o Family("AA64DFR", 3) \o Family("AA64FPFR", 1)
  \o Family("AA64ISAR", 4) \o Family("AA64MMFR", 5) \o Family("AA64PFR", 3)
  \o Family("AA64SMFR", 1) \o Family("AA64ZFR", 1)

(* The fields of cpu_raw_data_t in the order they are filled, with the     *)
(* number of their elements (MAX_ARM_ID_..._REGS).                         *)
Fields32 == << <<"MIDR", 1>>, <<"MPIDR", 1>>, <<"REVIDR", 1>>, <<"AFR", 1>>, <<"DFR", 2>>,
               <<"ISAR", 7>>, <<"MMFR", 6>>, <<"PFR", 3>> >>
Fields64 == Fields32 \o
            << <<"AA64AFR", 2>>, <<"AA64DFR", 3>>, <<"AA64FPFR", 1>>, <<"AA64ISAR", 4>>,
               <<"AA64MMFR", 5>>, <<"AA64PFR", 3>>, <<"AA64SMFR", 1>>, <<"AA64ZFR", 1>> >>

Fields     == IF machine.arch = "aarch64" THEN Fields64 ELSE Fields32
FieldNames == {Fields64[k][1] : k \in DOMAIN Fields64}

(* AARCH64_REG_...: CRm and op2 of S3_0_C0_Cm_op2. *)
Sysreg ==
  [MIDR |-> << <<0, 0>> >>, MPIDR |-> << <<0, 5>> >>, REVIDR |-> << <<0, 6>> >>,
   AFR |-> << <<1, 3>> >>, DFR |-> << <<1, 2>>, <<3, 5>> >>,
   ISAR |-> << <<2, 0>>, <<2, 1>>, <<2, 2>>, <<2, 3>>, <<2, 4>>, <<2, 5>>, <<2, 7>> >>,
   MMFR |-> << <<1, 4>>, <<1, 5>>, <<1, 6>>, <<1, 7>>, <<2, 6>>, <<3, 6>> >>,
   PFR |-> << <<1, 0>>, <<1, 1>>, <<3, 4>> >>,
   AA64AFR |-> << <<5, 4>>, <<5, 5>> >>, AA64DFR |-> << <<5, 0>>, <<5, 1>>, <<5, 2>> >>,
   AA64FPFR |-> << <<4, 7>> >>,
   AA64ISAR |-> << <<6, 0>>, <<6, 1>>, <<6, 2>>, <<6, 3>> >>,
   AA64MMFR |-> << <<7, 0>>, <<7, 1>>, <<7, 2>>, <<7, 3>>, <<7, 4>> >>,
   AA64PFR |-> << <<4, 0>>, <<4, 1>>, <<4, 2>> >>,
   AA64SMFR |-> << <<4, 5>> >>, AA64ZFR |-> << <<4, 4>> >>]

(* "p15, 0, %0, c0, cm, op2": the mrc the switch uses on AArch32. *)
Coprocessor ==
  [MIDR |-> << <<0, 0>> >>, MPIDR |-> << <<0, 5>> >>, REVIDR |-> << <<0, 6>> >>,
   AFR |-> << <<1, 3>> >>, DFR |-> << <<1, 2>>, <<3, 5>> >>,
   ISAR |-> << <<2, 0>>, <<2, 1>>, <<2, 2>>, <<2, 3>>, <<2, 4>>, <<2, 5>>, <<2, 7>> >>,
   MMFR |-> << <<1, 4>>, <<1, 5>>, <<1, 6>>, <<1, 7>>, <<2, 6>>, <<3, 6>> >>,
   PFR |-> << <<1, 0>>, <<1, 1>>, <<3, 4>> >>]

Invalid == <<-1, -1>>

(* __read_reg_on_cpu: the register of a request, unknown ones are invalid. *)
ReadReg(request) ==
  LET known == IF machine.kernel = "aarch64" THEN Requests64 ELSE Requests32
      reg   == known[request]
  IN IF request \notin DOMAIN known THEN Invalid
     ELSE IF machine.kernel = "aarch64" THEN Sysreg[reg[1]][reg[2] + 1]
     ELSE Coprocessor[reg[1]][reg[2] + 1]

Position(r, reqs) == CHOOSE k \in DOMAIN reqs : reqs[k] = r

(* REQ_ID_<f>0 + i, as a position in reg_request_t. *)
Request(f, i) == Position(<<f, 0>>, Requests64) + i

(* What element i (from 0) of a field holds when it was read on CPU c. *)
Blank == [cpu |-> NoCpu, reg |-> <<>>]
ByDriver(f, i, c) == [cpu |-> c, reg |-> ReadReg(Request(f[1], i))]
ByMrs(f, i, c)    == [cpu |-> c, reg |-> Sysreg[f[1]][i + 1]]

(* The memset of the caller. *)
BlankRecord == [x \in FieldNames |-> [i \in DOMAIN Sysreg[x] |-> Blank]]

----------------------------------------------------------------------------
Init ==
  /\ machine \in Machines
  /\ online = Cpus /\ events = 0
  /\ mod = "out" /\ chrdev = FALSE /\ class = FALSE /\ hooked = FALSE /\ devices = {}
  /\ others = {}
  /\ pc = "idle" /\ calls = 0 /\ want = AnyCpu /\ fd = NoCpu /\ field = 0 /\ element = 0
  /\ data = BlankRecord /\ ret = "ERR_OK"
  /\ at \in (IF Linux THEN Cpus ELSE machine.enabled)
  /\ mask = AnyCpu
  /\ bound \in {NoCpu} \union (IF Linux THEN {} ELSE {at})
  /\ saved = [cpu |-> NoCpu, isBound |-> FALSE]
  /\ entry = bound /\ viaDriver = FALSE /\ gone = FALSE

Event == events < MaxEvents /\ events' = events + 1

ModuleOnly ==
  UNCHANGED <<machine, online, others, calls, want, fd, field, element, data, entry, viaDriver, thread>>

\* Mutant: the status of modprobe is not waited for.
LoadIgnored == UNCHANGED <<pc, ret>>

(* What the waiting load_driver makes of the outcome. *)
LoadFailed ==
  IF pc = "modprobe" THEN pc' = "fallback" /\ ret' = "ERR_NO_DRIVER" ELSE UNCHANGED <<pc, ret>>

(* The module is asked for by the administrator or by load_driver. *)
StartLoad ==
  /\ mod = "out" /\ machine.module
  /\ Event \/ (pc = "modprobe" /\ UNCHANGED events)
  /\ mod' = "init"
  /\ ModuleOnly /\ UNCHANGED <<chrdev, class, hooked, devices, pc, ret, gone>>

(* cpuid_init of the Linux module; every step may fail. *)
InitChrdev ==
  /\ Linux /\ mod = "init"
  /\ \/ chrdev' = TRUE /\ mod' = "init_class" /\ UNCHANGED <<pc, ret>>
     \/ mod' = "out" /\ LoadFailed /\ UNCHANGED chrdev
  /\ ModuleOnly /\ UNCHANGED <<events, class, hooked, devices, gone>>

InitClass ==
  /\ Linux /\ mod = "init_class"
  /\ \/ class' = TRUE /\ mod' = "init_hook"
     \/ mod' = "out_chrdev" /\ UNCHANGED class
  /\ ModuleOnly /\ UNCHANGED <<events, chrdev, hooked, devices, pc, ret, gone>>

(* cpuhp_setup_state calls cpuid_device_create for every CPU that is up,   *)
(* and takes back what was created when one fails.                         *)
InitHook ==
  /\ Linux /\ mod = "init_hook"
  /\ \/ hooked' = TRUE /\ devices' = online /\ mod' = "live"
     \/ mod' = "out_class" /\ UNCHANGED <<hooked, devices>>
  /\ ModuleOnly /\ UNCHANGED <<events, chrdev, class, pc, ret, gone>>

(* The end of cpuid_exit and the error path of cpuid_init. *)
OutClass ==
  /\ mod = "out_class"
  /\ class' = FALSE /\ mod' = "out_chrdev"
  /\ ModuleOnly /\ UNCHANGED <<events, chrdev, hooked, devices, pc, ret, gone>>

OutChrdev ==
  /\ mod = "out_chrdev"
  /\ chrdev' = FALSE /\ mod' = "out"
  /\ LoadFailed
  /\ ModuleOnly /\ UNCHANGED <<events, class, hooked, devices, gone>>

\* Mutant: file operations that do not name their module.
NoOwner == TRUE

(* .owner = THIS_MODULE: an open file keeps the module. *)
Unused == fd = NoCpu /\ others = {}

(* cpuid_exit. *)
Exit ==
  /\ Linux /\ mod = "live" /\ Unused
  /\ Event
  /\ hooked' = FALSE /\ devices' = {} /\ mod' = "out_class"
  /\ ModuleOnly /\ UNCHANGED <<chrdev, class, pc, ret, gone>>

(* cpuid_modevent of the FreeBSD module: one device after the other. *)
Lowest(c, S) == c \in S /\ \A d \in S : c <= d

MakeDev ==
  /\ ~Linux /\ mod = "init"
  /\ \/ devices = machine.enabled /\ mod' = "live" /\ UNCHANGED devices
     \/ \E c \in machine.enabled :
          /\ Lowest(c, machine.enabled \ devices)
          /\ devices' = devices \union {c}
          /\ UNCHANGED mod
  /\ ModuleOnly /\ UNCHANGED <<events, chrdev, class, hooked, pc, ret, gone>>

(* destroy_dev waits for calls inside the driver. *)
InsideDriver == pc \in {"bind", "read_reg", "restore"}

Unload ==
  /\ ~Linux /\ mod = "live"
  /\ Event
  /\ mod' = "unload"
  /\ ModuleOnly /\ UNCHANGED <<chrdev, class, hooked, devices, pc, ret, gone>>

DestroyDev ==
  /\ ~Linux /\ mod = "unload"
  /\ \/ devices = {} /\ mod' = "out" /\ UNCHANGED <<devices, others, gone>>
     \/ \E c \in devices :
          /\ Lowest(c, devices)
          /\ (InsideDriver => fd # c)
          /\ devices' = devices \ {c}
          /\ others' = others \ {c}
          /\ gone' = (gone \/ c = want)
          /\ UNCHANGED mod
  /\ UNCHANGED <<machine, online, events, chrdev, class, hooked, caller, thread>>

----------------------------------------------------------------------------
(* Linux hot-plug: the callbacks run when they are installed, and a CPU    *)
(* whose device cannot be created stays offline.  A thread that may run    *)
(* nowhere else any more may run anywhere.                                 *)

\* Mutant: no teardown callback.
KeptDevices(c) == devices

(* cpuid_device_destroy *)
LeftDevices(c) == IF hooked THEN devices \ {c} ELSE devices

GoOffline(c) ==
  /\ Linux /\ c \in online /\ online # {c}
  /\ Event
  /\ online' = online \ {c}
  /\ devices' = LeftDevices(c)
  /\ gone' = (gone \/ c = want)
  /\ IF at = c THEN at' \in online' ELSE UNCHANGED at
  /\ mask' = IF mask = c THEN AnyCpu ELSE mask
  /\ UNCHANGED <<machine, mod, chrdev, class, hooked, others, caller, bound, saved>>

GoOnline(c) ==
  /\ Linux /\ c \in Cpus \ online
  /\ Event
  /\ online' = online \union {c}
  /\ devices' = IF hooked THEN devices \union {c} ELSE devices
  /\ UNCHANGED <<machine, mod, chrdev, class, hooked, others, caller, thread, gone>>

OtherOpens(c) ==
  /\ c \in devices \ others
  /\ Linux => mod = "live"
  /\ Event
  /\ others' = others \union {c}
  /\ UNCHANGED <<machine, online, module, caller, thread, gone>>

OtherCloses(c) ==
  /\ c \in others
  /\ others' = others \ {c}
  /\ UNCHANGED <<machine, online, events, module, caller, thread, gone>>

(* The scheduler moves the thread where its affinity and binding allow. *)
Migrate(c) ==
  /\ bound = NoCpu /\ c # at
  /\ c \in (IF Linux THEN online ELSE machine.enabled)
  /\ mask \in {AnyCpu, c}
  /\ Event
  /\ at' = c
  /\ UNCHANGED <<machine, online, module, others, caller, mask, bound, saved, gone>>

----------------------------------------------------------------------------
(* The calling thread. *)

Outside == <<machine, online, events, module, others, gone>>

Return(r) == pc' = "idle" /\ ret' = r

(* cpuid_get_raw_data_core(data, c) up to the driver.  The record was      *)
(* cleared by the caller.  CPU 0 is read even when it cannot be selected.  *)
(* An affinity does not move a thread that the kernel has bound.           *)
CanSelect(c) == machine.affinity /\ c \in online

Acquire(c) ==
  /\ pc = "idle" /\ calls < MaxCalls
  /\ calls' = calls + 1
  /\ want' = c
  /\ field' = 0 /\ element' = 0 /\ data' = BlankRecord
  /\ entry' = bound /\ viaDriver' = FALSE
  /\ gone' = (c \in Cpus \ online)
  /\ c \in Cpus /\ ~Linux => c \in machine.enabled
  /\ IF c = AnyCpu \/ (c = 0 /\ ~CanSelect(0)) THEN pc' = "open_core" /\ UNCHANGED <<at, mask, ret>>
     ELSE IF CanSelect(c) THEN /\ at' = IF bound = NoCpu THEN c ELSE at
                               /\ mask' = c
                               /\ pc' = "open_core" /\ UNCHANGED ret
     ELSE Return("ERR_INVCNB") /\ UNCHANGED <<at, mask>>
  /\ UNCHANGED <<machine, online, events, module, others, fd, bound, saved>>

CallerOnly == UNCHANGED <<Outside, calls, want, entry, thread>>

(* cpu_cpuid_driver_open_core *)
OpenCore ==
  /\ pc = "open_core"
  /\ IF want >= Cardinality(online) THEN pc' = "fallback" /\ ret' = "ERR_INVCNB"
     ELSE pc' = "access" /\ UNCHANGED ret
  /\ CallerOnly /\ UNCHANGED <<fd, field, element, data, viaDriver>>

(* load_driver: the two calls of access, then modprobe. *)
AccessExists ==
  /\ pc = "access"
  /\ IF want \in devices THEN pc' = "access_read" /\ UNCHANGED ret
     ELSE IF machine.root /\ machine.module THEN pc' = "modprobe" /\ UNCHANGED ret
     ELSE pc' = "fallback" /\ ret' = "ERR_NO_DRIVER"
  /\ CallerOnly /\ UNCHANGED <<fd, field, element, data, viaDriver>>

AccessRead ==
  /\ pc = "access_read"
  /\ IF want \in devices /\ machine.readable THEN pc' = "open" /\ UNCHANGED ret
     ELSE pc' = "fallback" /\ ret' = "ERR_NO_DRIVER"
  /\ CallerOnly /\ UNCHANGED <<fd, field, element, data, viaDriver>>

Modprobed ==
  /\ pc = "modprobe" /\ mod = "live"
  /\ pc' = "open"
  /\ CallerOnly /\ UNCHANGED <<fd, field, element, data, ret, viaDriver>>

Open ==
  /\ pc = "open"
  /\ IF want \in devices /\ machine.readable /\ (Linux => mod = "live")
     THEN fd' = want /\ pc' = "malloc" /\ UNCHANGED ret
     ELSE pc' = "fallback" /\ ret' = "ERR_NO_DRIVER" /\ UNCHANGED fd
  /\ CallerOnly /\ UNCHANGED <<field, element, data, viaDriver>>

Malloc ==
  /\ pc = "malloc"
  /\ \/ pc' = "ioctl" /\ viaDriver' = TRUE /\ UNCHANGED <<fd, ret>>
     \/ pc' = "fallback" /\ ret' = "ERR_NO_MEM" /\ fd' = NoCpu /\ UNCHANGED viaDriver
  /\ CallerOnly /\ UNCHANGED <<field, element, data>>

\* Mutant: the loop over the registers of a field ends one too early.
OneRegisterLess(f) == f[2] - 1

(* How many registers of a field are read. *)
RegistersOf(f) == f[2]

NextField == field' = field + 1 /\ element' = 0

(* On to the next element, or to the first of the next field. *)
NextRegister ==
  IF element + 1 < RegistersOf(Fields[field + 1]) THEN element' = element + 1 /\ UNCHANGED field
  ELSE NextField

(* The register is stored when the driver answers; an error is not looked  *)
(* at and leaves the element as it was.                                    *)
Store(f, i, value) == data' = [data EXCEPT ![f[1]][i + 1] = value]

\* Mutant: the registers are read where the call was made.
OnThisCpu(c) == at

(* The CPU smp_call_function_single runs on, and that set_cpu binds to. *)
TargetCpu(c) == c

(* cpuid_ioctl of the Linux module. *)
LinuxIoctl ==
  /\ Linux /\ pc = "ioctl" /\ field < Len(Fields)
  /\ IF fd \in online
     THEN Store(Fields[field + 1], element, ByDriver(Fields[field + 1], element, TargetCpu(fd)))
     ELSE UNCHANGED data
  /\ NextRegister
  /\ CallerOnly /\ UNCHANGED <<pc, fd, ret, viaDriver>>

(* cpuid_ioctl of the FreeBSD module: bind, read, restore. *)
BsdIoctl ==
  /\ ~Linux /\ pc = "ioctl" /\ field < Len(Fields)
  /\ IF fd \in devices /\ fd \in machine.enabled
     THEN /\ saved' = [cpu |-> at, isBound |-> bound # NoCpu]
          /\ pc' = "bind" /\ UNCHANGED <<field, element>>
     ELSE NextRegister /\ UNCHANGED <<pc, saved>>
  /\ UNCHANGED <<Outside, calls, want, fd, data, ret, entry, viaDriver, at, mask, bound>>

Bind ==
  /\ pc = "bind"
  /\ bound' = TargetCpu(fd) /\ at' = TargetCpu(fd)
  /\ pc' = "read_reg"
  /\ UNCHANGED <<Outside, calls, want, fd, field, element, data, ret, entry, viaDriver, mask, saved>>

ReadRegister ==
  /\ pc = "read_reg"
  /\ Store(Fields[field + 1], element, ByDriver(Fields[field + 1], element, at))
  /\ NextRegister
  /\ pc' = "restore"
  /\ CallerOnly /\ UNCHANGED <<fd, ret, viaDriver>>

\* Mutant: a thread that was bound is left bound to the CPU it was moved to.
RestoreTarget == IF saved.isBound THEN fd ELSE NoCpu

(* restore_cpu *)
Restored == IF saved.isBound THEN saved.cpu ELSE NoCpu

Restore ==
  /\ pc = "restore"
  /\ bound' = Restored
  /\ at' = IF Restored # NoCpu THEN Restored ELSE at
  /\ saved' = [cpu |-> NoCpu, isBound |-> FALSE]
  /\ pc' = "ioctl"
  /\ UNCHANGED <<Outside, calls, want, fd, field, element, data, ret, entry, viaDriver, mask>>

Close ==
  /\ pc = "ioctl" /\ field = Len(Fields)
  /\ fd' = NoCpu
  /\ Return("ERR_OK")
  /\ CallerOnly /\ UNCHANGED <<field, element, data, viaDriver>>

(* No driver: mrs on AArch64, where the kernel emulates it, else an error. *)
Fallback ==
  /\ pc = "fallback"
  /\ IF machine.arch = "aarch64" /\ machine.hwcap THEN pc' = "mrs" /\ UNCHANGED ret
     ELSE Return("ERR_NO_CPUID")
  /\ CallerOnly /\ UNCHANGED <<fd, field, element, data, viaDriver>>

(* The AArch32 registers other than the first three are not read. *)
MrsReads(f) == f[1] \in {"MIDR", "MPIDR", "REVIDR"} \/ f \notin {Fields32[k] : k \in DOMAIN Fields32}

Mrs ==
  /\ pc = "mrs"
  /\ LET f == Fields[field + 1] IN
     \/ field = Len(Fields) /\ Return("ERR_OK") /\ UNCHANGED <<field, element, data>>
     \/ /\ field # Len(Fields) /\ MrsReads(f)
        /\ Store(f, element, ByMrs(f, element, at)) /\ NextRegister
        /\ UNCHANGED <<pc, ret>>
     \/ /\ field # Len(Fields) /\ ~MrsReads(f)
        /\ NextField
        /\ UNCHANGED <<data, pc, ret>>
  /\ CallerOnly /\ UNCHANGED <<fd, viaDriver>>

Loader ==
  \/ StartLoad \/ InitChrdev \/ InitClass \/ InitHook \/ OutClass \/ OutChrdev
  \/ MakeDev \/ DestroyDev

Caller ==
  \/ OpenCore \/ AccessExists \/ AccessRead \/ Modprobed \/ Open \/ Malloc
  \/ LinuxIoctl \/ BsdIoctl \/ Bind \/ ReadRegister \/ Restore \/ Close \/ Fallback \/ Mrs

Next ==
  \/ Loader \/ Caller
  \/ Exit \/ Unload
  \/ \E c \in Cpus \union {AnyCpu} : Acquire(c)
  \/ \E c \in Cpus : \/ GoOffline(c) \/ GoOnline(c) \/ Migrate(c)
                     \/ OtherOpens(c) \/ OtherCloses(c)

(* The thread runs, and a module that is being loaded or unloaded gets on. *)
Fairness == WF_vars(Caller) /\ WF_vars(Loader)

Spec == Init /\ [][Next]_vars /\ Fairness

----------------------------------------------------------------------------
(* Properties. *)

(* While the Linux module is in place every CPU that is up has its device  *)
(* file and no other has one, through hot-plug; FreeBSD's has one for      *)
(* every enabled CPU.  Once it is out, also after a load that failed half  *)
(* way, nothing of it is registered (cpuid_init, cpuid_exit,               *)
(* cpuid_device_create, cpuid_device_destroy, cpuid_modevent).             *)
DevicesMirrorCpus ==
  /\ mod = "live" => devices = IF Linux THEN online ELSE machine.enabled
  /\ mod = "out" => ~chrdev /\ ~class /\ ~hooked /\ devices = {}

(* The Linux module is never taken apart under an open file: its code      *)
(* would be gone when the next ioctl comes (cpuid_fops, cpuid_exit).       *)
NoFileOnGoneModule == Linux /\ (fd # NoCpu \/ others # {}) => mod = "live" /\ chrdev /\ class

Acquired == pc = "idle" /\ calls > 0 /\ ret = "ERR_OK"

(* The thread can be moved to the CPU that is asked for. *)
Movable == machine.affinity /\ entry \in {NoCpu, want}

(* In a record that was returned with ERR_OK every element that was        *)
(* written holds its own register, whichever of reg_request_t, the switch  *)
(* of the kernel and the mrs sequence it came through.  With the driver it *)
(* is of the CPU that was asked for whatever happened to that CPU, to the  *)
(* thread's affinity and binding and to the module; without it, as long as *)
(* the CPU stayed online and the thread could be moved to it.              *)
FieldsAreOfTheirCpu ==
  Acquired => \A k \in DOMAIN Fields : \A i \in 1 .. Fields[k][2] :
    LET x == Fields[k][1]
    IN data[x][i] # Blank =>
         /\ data[x][i].reg = Sysreg[x][i]
         /\ want # AnyCpu /\ (viaDriver \/ (Movable /\ ~gone)) => data[x][i].cpu = want

(* The driver's answers are not looked at, and a record with holes in its  *)
(* fields, or with nothing in it, is ERR_OK as well; but a register is     *)
(* missing only when the CPU was offline or its device destroyed at some   *)
(* moment of the call.                                                     *)
BlankOnlyIfGone ==
  Acquired /\ viaDriver /\ ~gone =>
    \A k \in DOMAIN Fields : \A i \in 1 .. Fields[k][2] : data[Fields[k][1]][i] # Blank

(* Outside of FreeBSD's ioctl the thread is bound exactly as it was when   *)
(* it came, also when it was bound to another CPU than the one that is     *)
(* read (set_cpu, restore_cpu).                                            *)
BindingRestored == ~InsideDriver \/ pc = "bind" => bound = entry

(* An acquisition returns, also when it waits for a module that does not   *)
(* load.                                                                   *)
AcquisitionReturns == pc # "idle" ~> pc = "idle"
=============================================================================
