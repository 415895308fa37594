# TLA+ models of libcpuid

This directory holds TLA+ specifications of libcpuid, the TLC instances that
model-check them and TLAPS proofs about them. `PROJECT.json` lists components,
runs, mutants, findings, hazards, theorems and, under `map`, the source lines
every definition stands for.

## 1. Inventory

libcpuid identifies CPUs. A caller obtains *raw data* (the registers CPUID
returned, for one CPU or for each logical CPU), and the library decodes it into
a `cpu_id_t` per CPU type. Around that core there are text dumps of raw data,
access to model specific registers, and clock measurement.

| Component | State | Operations | Interaction | What is hard |
|---|---|---|---|---|
| Acquisition (`cpuid_main.c`: `cpuid_get_raw_data*`, affinity functions) | affinity mask and CPU of the calling thread (kernel), `saved_affinity`, `_libcpuid_errno`, the array being filled | one record, one record of a given CPU, one record per CPU | calls the kernel scheduler; feeds identification and dumps | migration between two CPUID instructions, hot-plug, two threads, the order of save and set, the end of the enumeration, the 16-bit index |
| Identification of all CPUs (`cpu_identify_all`, `cpu_request_core_type`) | `system_id_t`, `type_info` with hash tables of cores and caches, the flag `is_topology_supported` | one loop over the raw array, then a pass over the types | reads raw arrays; calls vendor recognition per new type | CPUs in any order, the topology lost half way, one CPU not identified, ids and counters of 8 bits |
| Dumps (`cpuid_serialize_*`, `cpuid_deserialize_*`) | the file, the record lines are assigned to, header flags | write one or all records, read one or all, read AIDA64 dumps | produces raw arrays for identification | a truncated file, a single dump read as an array and the reverse, CPU numbers that start at 1 |
| Codename matching, cache leaves, feature levels (`libcpuid_util.c`) | none; works on the caller's `cpu_id_t` | scoring, pattern match, decoding | called by vendor recognition | boundary values, the choice between equal scores, arrays indexed in two ways |
| Vendor recognition (`recog_*.c`, `cpu_ident_internal`) | the `cpu_id_t` and `internal_id_info_t` being filled | one routine per vendor, each a sequence of decoders that read what earlier ones wrote | called by identification; looks at the machine it runs on where the record ends | leaves that are missing or odd in virtual machines, the order of the decoders, features counted per version |
| MSR access (`rdmsr.c`, `msrdriver.c`) | an open device handle; function-level static caches in `cpu_msrinfo` and its helpers | open, read a register, derive clock, multiplier, voltage, temperature, close | kernel module or device files | process-wide statics used by several threads and several handles, sticky errors |
| Clock (`rdtsc.c`, `perfmsr_measure`) | readings of the counter and of the clock, the length of the busy loop | mark, unmark, clock by mark, by OS, by instruction count, by leaf 15h, measured; the delay | system clock, RDTSC, MSRs | preemption or migration between two readings that belong together, a clock that is set, loops that end by the clock alone, divisions in 32 bits |
| ARM kernel drivers and `rdcpuid.c` | device class, per-CPU devices, open files, the binding of a thread | load with error unwinding, hot-plug, register read on another CPU, unload | called by acquisition on ARM, which loads the module itself | a failure in the middle of loading, a CPU that goes offline between two registers, unload under an open file |
| Windows MSR driver, `asm-bits.c`, `cpuid_tool`, Python bindings | none of their own | I/O control dispatch, single instructions, printing, wrapping | | left out: no protocol of their own |

Properties that make the components correct: a record describes one CPU, the
one it was asked for; the enumeration ends at the end of the machine and
nowhere else, and always ends; a call leaves the thread as it found it;
identification partitions the CPUs into homogeneous types and counts cores and
caches as their definition says; a dump read back is the array that was
written; threads do not see each other's results.

## 2. Plan

1. `RawCollect` with the abstract `Acquisition`: done, proved.
2. `IdentifyAll`: done, proved (types, partition, homogeneity, counts).
3. `Dump`, serialization and deserialization as a writer and a reader of lines:
   done, proved.
4. `MsrInfo`, handles and static caches used by several threads: done, proved.
5. `Ident`, one identification with the routines of every vendor: done, proved
   (the whole answer, and from it all but one of the properties).
6. `ArmFeatureMap`, the whole table of ARM features, so that `IdentArm` runs on
   the table of the code and on the CPUs of `tests/arm`: done.
7. `ArmDriver`, the kernel modules for ARM registers, `rdcpuid.c` and the branch of
   acquisition that uses them: done, proved.
8. `Clock`, the clock algorithms as steps between two readings: done, proved (the
   measurements, the arithmetic, how long a call takes).
9. Worth doing next: a composition (the array `RawCollect` delivers is the input of
   `Dump` and of `IdentifyAll`, and the records of `Ident` decide the purposes
   `IdentifyAll` sorts by), and the list notation of CPU sets
   (`make_list_from_string` and the printing side) against a reference.

Proofs follow the models: the type invariant, then the safety invariant the
component exists for. Worth proving next: for a composition, that it implements its
parts.

## 3. Modules and how they correspond to the code

A step of a model is what the code does between two points where something else
can interfere (another thread, the scheduler, a device, the disk); where nothing
can, it is one iteration of the loop that matters. Data is abstracted to what the
properties tell apart. Definitions that begin with "Mutant:" in their comment are
not part of any specification: `PROJECT.json` names for every property one such
change of the code that breaks it.

### RawCollect, Acquisition

Code: `cpuid_get_raw_data`, `cpuid_get_raw_data_core`, `cpuid_get_all_raw_data`,
`set_`/`save_`/`restore_cpu_affinity`, `cpuid_grow_raw_data_array`,
`cpuid_set_error` in `libcpuid/cpuid_main.c`.

| State | Code |
|---|---|
| `mask`, `oncpu`, `online` | the kernel's view: affinity of each thread, where it runs, CPUs that are up |
| `allowed` | the CPUs to which `set_cpu_affinity` may bind: all of them, those of the process's cpuset, none where the platform's variant always returns false (line 460) or refuses an unprivileged process (NetBSD) |
| `savedAffinity`, `errno` | `saved_affinity`, `_libcpuid_errno`; one copy per `Scope`: `INTERNAL_SCOPE` is thread-local or plain `static`, depending on the compiler |
| `record` | the `cpu_raw_data_t` being filled, as the CPUs its groups of leaves were read on |
| `data`, `ret`, `logical`, `affinitySaved`, `all` | the caller's array, the result, `logical_cpu`, `affinity_saved`, which entry point |
| `pc` | where a thread is in the core function |

`SkipAffinity`, `Pin`, `PinUnsupported`, `PinFailsOnZero` and `PinFails` are the
outcomes of `set_cpu_affinity` (line 1356 on; `PinUnsupported` is the Solaris
variant whose `return -1` is `true`); `SaveAffinity` follows, as in the code, when
the new mask is in force; `ReadLeaves` is one group of CPUID instructions,
`NoCpuid` the early return, `Restore` the end of the core function together with
`cpuid_set_error`, `Store` one iteration of the loop over CPUs with the growth of
the array and its 16-bit index. When `realloc` fails in
`cpuid_grow_raw_data_array`, the error is recorded, nobody looks at it and the record
is copied past the array (`pc = "ub"`). `Migrate`, `Unplug` and `Plug` are the system.

`Acquisition` says what a caller may rely on, without affinities: records come one
CPU after the other from CPU 0, each describes its CPU unless that CPU was offline
at some time, and the call ends where the machine ends. `RawCollect!Implements` is
the refinement; the mapping hides the steps between two records.

### IdentifyAll

Code: `cpu_identify_all`, `cpu_request_core_type`, `cpu_ident_id*`,
`update_core_instances`, `update_cache_instances`, `cpuid_find_index_system_id`.
One step is one iteration over the raw array (`Identify`), then the pass over the
types (`Finish`) and a request (`RequestCoreType`). `types` is
`system->cpu_types` with `type_info.data`; a type's `cores` and `caches` are the
hash tables with the collision rule of the code (id 0 is also the mark of a free
slot). `phase = "ub"` is an access outside an array. A raw record is abstracted to
what the loop asks of it: architecture, purpose, whether it can be identified,
topology levels and APIC ID, or the MPIDR. `Kinds` are the pairs of purpose and
package the CPUs are told apart by; `StaysInArrays` says that tables and arrays are
never left as long as there are fewer kinds than `num_cpu_types` counts, which fails
as soon as CPUs of one kind start two types.

### Dump

Code: `cpuid_serialize_raw_data_internal`, `cpuid_deserialize_raw_data_internal`,
`cpuid_grow_raw_data_array` and their public wrappers. A file is a sequence of
lines, each with its kind and what it says. `Serialize` writes a file of which a
full disk may keep any prefix (`Remains`), a line cut inside a register included;
reading is a machine whose step is one line: `SelectCpu`, `SelectAidaCpu`,
`BeginSingle`, `AssignRegister`, `SkipLine`, and `Overrun` where the code writes
through a record pointer that is outside the array or, with an index the file gives,
past a field of the record (`Strays`): the lines of ARM registers (857-894) and the
sub-leaves of AIDA64 (931-938) do not check it, those of x86 do. `Foreign` are dumps of AIDA64
and files edited by hand.

### MsrInfo

Code: `libcpuid/rdmsr.c` on Linux and FreeBSD, and `get_cached_cpuid`.

| State | Code |
|---|---|
| `initialized`, `cachedId` | the statics of `get_cached_cpuid`, protected by nothing |
| `init`, `infoHandle` | the static `init` and `info.handle` of `cpu_msrinfo` |
| `lastAddr` | the static `last_addr` of `get_amd_last_pstate_addr`, as a P-state |
| `fds`, `open`, `loaded` | open device files, handles, the kernel module |
| `got`, `lines` | registers a request has read, lines a dump has printed |
| `scanFailed`, `during` | history variables, read by properties only |

`libcpuid.h:2006` asks callers to guard `cpu_msrinfo` by a mutex; `CallInfo` has
that obligation as its guard. Nothing asks callers to guard
`cpu_msr_driver_open_core` or `msr_serialize_raw_data`, and the model lets them
run at any time. One step is one register read, or the code up to the next shared
variable. `Fill` is `cpu_identify` of `get_cached_cpuid`: for a CPU of no known
vendor it fails, and the blank id is kept like any other. `OpenFails` keeps apart what
the kernel answers (`EIO` is `ERR_NO_RDMSR`, anything else `ERR_NO_DRIVER`).
`IntelNext` and `AmdNext` say which register a request needs next, given what it has
read, and `Scan` is one round of the search for the last P-state.

### IdentState, IdentX86, IdentArm, ArmFeatureMap, Ident

Code: `cpu_ident_internal` and `cpu_ident_purpose` in `libcpuid/cpuid_main.c`,
`recog_intel.c`, `recog_amd.c`, `recog_centaur.c`, `recog_arm.c`, and the decoders
of `libcpuid_util.c`. `IdentState` declares the state, `IdentX86` and `IdentArm`
hold the steps of an architecture, `Ident` makes calls one after the other into
the same memory and states the properties.

| State | Code |
|---|---|
| `raw`, `host` | the raw record; the machine the program runs on, which the code asks for the number of CPUs and for EPC sections the record does not hold |
| `data`, `internal` | `cpu_id_t`; `internal_id_info_t` with `cache_mask`, and whether a write went past it |
| `k` | the counter of the loop that runs |
| `best` | `bestscore` and `bestindex` of `match_cpu_codename` |
| `ext` | `struct arm_arch_extension_t`, the counts of features by version |
| `ret`, `pc` | the result; which decoder comes next |
| `last` | history variable: the answer of the call before, if it was for the same record |

A loop takes one step per iteration: sub-leaves of the cache leaves, entries of the
match table, EPC sections, entries of ARM's `features_map`, versions of the list.
The decoders in between are steps of their own in the order of the code, because
each reads what the earlier ones wrote: the codename is scored with the cores and
caches decoded before it, the feature level with the flags. A raw record holds the
fields the decoders read (the comment of `IdentX86` lists them), so a missing leaf,
a count of 0 or a cache leaf with an impossible type are records like any other. A
sub-leaf of leaf 0Bh that counts no threads, and does not end the list because the
reserved half of EBX is not 0, ends the program (`DivideByZero`).
The match tables, `features_map` and so the sets of names are constants, and the
proofs hold for any table. The runs use a match table of a few entries, in which
every kind of entry and every tie occurs, and `ArmFeatureMap!FeaturesMap`: the
entries of `features_map` that `load_arm_features` looks at, one row per feature,
with the version that has it as mandatory or optional and the register, bits and
value of every field it is looked for in, for AArch32 and AArch64. A raw
record holds the fields that are not zero, each named by its register and bits. The feature tables of x86 are restricted to the bits a decoder
reads again. A brand string is a member of a small set, and an entry of a match
table lists the brands it matches.

### Clock

Code: all of `rdtsc.c`, and `perfmsr_measure` of `rdmsr.c`.

| State | Code |
|---|---|
| `real`, `adj`, `core` | the time since the call began, what the clock of `sys_precise_clock` is ahead of it, the CPU the thread runs on |
| `k`, `cycles`, `outer`, `count` | `k` or `ri`, `cycles` or `cycles_inner`, `cycles_outer`, `c` |
| `begin`, `end`, `held` | the two marks or times a function compares (`begin[k]`, `t0`, `a`; `end[k]`, `t1`, `b`), and a reading whose partner is still to come |
| `results`, `ret` | `results[k]` or the `cur_value` of every run; the result |
| `faults`, `spoiled`, `set`, `back`, `paused` | history: how often the system interfered, which measurements it disturbed, how the clock was set and by how much back, how long the thread stood still |

Everything the code reads is a value of `Word` computed from `real`, `adj` and
`core`; subtraction wraps as `uint64_t` does and a result has to fit `int`
(`MaxInt`). A step is the code up to the next reading, so `Preempt`, `Move` (to a CPU
whose counter stands elsewhere) and `SetClock` come between the two readings of a
mark as well as inside the loop. `cpu_clock_by_tsc` and `cpu_clock_by_os` compute
from what they are given and are one step. A pass of the busy loop takes `BusyTime`:
`LoopTime` ticks for each of its cycles, since one `busy_loop(1)` is 65536 * 42
volatile loads, about a millisecond or a thousand ticks of the code's clock, and a
tick when it has no cycles. A measurement of a few milliseconds is therefore not
measured in eighths: its first pass may already be longer than the interval.

### ArmDriver

Code: `drivers/arm/linux/cpuid.c`, `drivers/arm/freebsd/cpuid.c`, `rdcpuid.c`,
`libcpuid_arm_driver.h` and the ARM branch of `cpuid_get_raw_data_core`.

| State | Code |
|---|---|
| `mod` | the module: out, live, or the step its init, error path or exit is at |
| `chrdev`, `class`, `hooked`, `devices` | what it has registered: major number, class, hot-plug callbacks, device files |
| `others`, `fd` | device files that other processes, and the caller, have open |
| `pc`, `want`, `field`, `element`, `data`, `ret` | where the caller is, `logical_cpu`, fields read so far, registers of the next field read so far, the record, the result |
| `at`, `mask`, `bound`, `saved`, `entry` | where the thread runs, its affinity, FreeBSD's `sched_bind`, `oldcpu` and `is_bound`, how it was bound when it came: to no CPU, to the one it asks for or to another |
| `online`, `machine`, `events` | CPUs that are up; the kind of machine; bound on the environment |
| `viaDriver`, `gone` | history: the driver was used; the CPU was offline or its device destroyed during the call |

The Linux init is one step per registration (`InitChrdev`, `InitClass`, `InitHook`),
each of which may fail and then goes down the labels `out_class` and `out_chrdev`;
FreeBSD makes and destroys one device per step (`MakeDev`, `DestroyDev`). The caller
loads the module itself (`Modprobed`) and falls back to MRS when it cannot. One
step reads one register of one field of `cpu_raw_data_t` (`NextRegister`), by an ioctl
whose error is not looked at or by MRS, so a CPU that goes offline may leave any part
of a field unread. A register is its family and number,
and what a read of it gives is the `CRm` and `op2` of the encoding with the CPU that
executed it, so that a shift in any of the parallel lists shows.

## 4. Runs

`tlc -config X.cfg M`; every run ends in less than three minutes.

| Run | Question | Bounds, and why they are enough |
|---|---|---|
| `threads` | do two threads disturb each other's records, masks and errors? | two threads (the state shared is per process or per thread, so a third adds nothing new), three CPUs of which set_cpu_affinity supports two, an index that wraps at 5, so that the unsupported, the last and the wrapped CPU all occur; two groups of leaves, so that a migration fits between them; a process that may be bound to every CPU, to CPUs 0 and 1, or to none |
| `hotplug` | where does the enumeration end, does it always end, does it refine `Acquisition`? | one thread, two calls, three CPUs, two plug events: enough for a CPU to leave and come back within a call, or one to leave in each call; the same three sets of CPUs the process may be bound to, so that `set_cpu_affinity` fails for every CPU, for the last or for none |
| `affinity` | does a call leave the thread as it found it? (finding) | the smallest instance that shows it |
| `groups` | are CPUs grouped and counted right? | every order of up to three of eight APIC IDs in two packages, plain and hybrid; whole machines of eight; the same with any one CPU without topology or unknown; ARM; tables of 10 entries, counters modulo 10 and at most 4 types, which the arrays reach |
| `dumps` | does a dump come back, whatever part of it was written? | all arrays of up to three records out of four kinds, and one of seven where a CPU number has three bits; every prefix; eighteen files libcpuid did not write |
| `msr` | do values come from the right CPU and P-state, do errors mean what they say? | two threads and two CPUs, two calls each, one event of the machine, two P-states (first, last, base and current can all differ), eleven kinds of machine, among them one of an unknown vendor and one whose kernel answers `EIO`; threads are symmetric |
| `stale` | is every value of a dump the register's own? (finding) | one thread |
| `identify` | is the answer a matter of the record alone, are codename, caches, purpose and ARM version what their definitions say, and do the ARM tests of the repository pass? | several hundred records of eight kinds of CPU (each field of a decoder at its boundaries, with the others of a usual CPU; ARM CPUs with the features of every version, one of them missing or in conflict; the records of `tests/arm`), the whole feature table, two hosts that differ in CPUs and EPC sections; any record may follow any other, so memory that is not reset shows |
| `level` | is an x86 level reported only for a CPU with its features? (finding) | Intel CPUs with the features of each level, with and without 64-bit mode, one feature missing |
| `armv9` | is a CPU that is reported as ARMv9.0-A compliant with ARMv8.5-A, as the comment says? (finding) | the CPUs of `tests/arm` |
| `clock` | what is a measured clock worth when the system interferes, how long does a call take, does it end? | every function; a millisecond of 8 ticks and a pass of one cycle of 3, so that intervals of 1, 2, 8, 16 and 32 ticks are shorter than a pass, such that a pass is more than a quarter of them, and such that the loop has to grow; 512 values of the clock and `int` up to 15, so that a clock set back wraps and a wrong counter does not fit; two CPUs whose counters differ by more than an interval; three faults of any kind anywhere, of which one may hit two of four measurements or two may hit the same; the clock set by less and by more than an interval, forward and back |
| `driver` | do the device files follow the machine, do the fields of a record come from the registers and the CPU they name, is the thread given back, does the call return? | two CPUs (the one asked for and another), six machines of both kernels and both execution states, one acquisition by a thread that comes unbound, bound to the CPU it asks for or to the other, two events of the environment, the scheduler moving the thread being one (enough for a CPU to leave and return, or an unload and a load, between any two registers) |

Deadlock is not checked where a run may stop: threads make a bounded number of
calls, and a machine whose calls are all made has nothing left to do. The bounds
(`MaxCalls`, `MaxPlug`, `MaxEvents`) are constants, and no proof depends on their
values.

Fairness is assumed in two places, and it is always that of the scheduler: a
thread that can run does so sooner or later. In `RawCollect!FairSpec` that is
`WF_vars(Run(t))` for `CallsReturn`, and in `ArmDriver` `WF_vars(Caller)` and
`WF_vars(Loader)` for `AcquisitionReturns`: the caller waits only for `modprobe`, a
process of its own whose steps never wait for the caller. Weak fairness is enough,
because a step that is enabled stays so until it is taken. Nothing is assumed of
callers, migration, hot-plug, preemption or the clock. `Clock` needs no fairness: that
its calls end is the invariant `EndsInTime`, a bound on the time a call can have taken
in whatever state it is, and as time moves with every pass the call cannot go on.

## 5. Findings

1. `affinity`: the mask is saved after it was changed, so
   `cpuid_get_all_raw_data` leaves the thread on the last CPU.
2. `stale`: a register that cannot be read is dumped with the previous value.
3. `level`: whether a CPU has an x86-64 level is decided by the last feature of
   the level's list, not by all of them.
4. `armv9`: one feature of ARMv9.0-A makes the list of ARMv9 replace that of ARMv8,
   and what ARMv8.5-A requires is not looked at, although the comment at
   `recog_arm.c:534` says so. The CPU that shows it is one of `tests/arm`.

Behaviour met on the way that no run states as a finding, because nothing in the repository
contradicts it or because it needs sizes no model check reaches:

- Acquisition: an offline CPU ends the enumeration, which is reported as success
  (`StopsAtEnd` says so), and so does the first CPU the process may not be bound to:
  where `set_cpu_affinity` is not supported, or NetBSD refuses it, every machine has
  one CPU (the comment at line 1358 knows of CPU 0 only); when memory runs out the
  record of a CPU is copied past the array; a thread of `cpuid_get_raw_data` may migrate between two
  CPUID instructions (the documentation only says "from the current CPU"); with
  65535 CPUs or more the 16-bit index wraps (`Capacity` excludes it);
  `set_cpu_affinity` on Solaris returns -1 as `true`.
  Every early return of the core function leaves the affinity changed.
- Identification of all CPUs: undetermined numbers of cache instances end up as 0;
  `cpu_request_core_type` ignores the error of identification. In a package with core
  ids 256 apart, or with core 0 beside core 256, cores are miscounted
  (in the run `groups` every id is below the size of the table).
- Dumps: the index of an ARM register and of an AIDA64 sub-leaf is taken from the file
  unchecked (`OverrunExplained` lists it among the causes); on a dump whose record 0 is blank every register is left out; a dump that a
  full disk cut short is reported as written, because no result of a write is looked
  at.
- MSRs: on a CPU of no known vendor the identification that `get_cached_cpuid` makes
  fails, the blank id is kept, and `ERR_NO_RDMSR` is answered whether or not the CPU
  has MSRs; while one thread fills the id, another may be told the same of any CPU
  (`UnsupportedIsTrue` has both as its exceptions); FreeBSD leaves the device file open when `malloc` fails (`ClosesOnNoMem`);
  with a CPU offline, the number of CPUs that are up is compared with a CPU number
  and the last CPU cannot be opened.
- One identification: `cache_mask` is filled by sub-leaf and read by cache type, so
  that it is right only for caches in the usual order, and a sixth sub-leaf is
  written past it (`MaskIsOfItsCache` has the order as its premise);
  `cpu_ident_purpose` has no case for Hygon; leaf 0Bh of a virtual machine that
  counts no threads, with something in the reserved half of EBX, is a division by
  zero (`recog_intel.c:817`).
- ARM features: values are compared with `==`, while the comments of the table
  describe a scheme where a greater value includes the smaller ones
  ("As for 0b0001, and adds ...", `recog_arm.c:722`), so a CPU with the greater value
  lacks the flag of the smaller: AES beside PMULL, DPB beside DPB2, LRCPC beside
  LRCPC2, and so on. Where both features are mandatory this caps the version: PAN and
  PAN2 want the values 1 and 2 of one field, PAN is mandatory from v8.1 and PAN2 from
  v8.2 (lines 1015 and 1169), so nothing from v8.2 of ARMv8 is ever reported
  (`NothingAboveV81`). On AArch32 the search of a feature's fields ends at the first
  field that AArch64 alone has, so PAN is not found there. THE is looked for in the
  field of EBEP (line 2244), CPA2 with the value of CPA (line 2550), PAUTH_LR in bits
  7 to 3 (line 2665). PAUTH is counted by the table and again by its own function.
- Clock: `cpu_clock_measure` of a few milliseconds lasts as long as its passes of at
  least a `busy_loop(1)` each, four of them with `quad_check`; two measurements that
  failed agree exactly, so two of four can be enough to return -1; a clock that is set back makes a run of
  `cpu_clock_by_ic` look fast, and the maximum keeps it; the length of the loop of
  `busy_loop_delay` starts at 0 and is doubled, so it does nothing but read the
  clock, and a negative delay never ends (the comparison is unsigned);
  `perfmsr_measure` does not look at the error of its second read.
- ARM drivers: `cpuid_get_raw_data` asks for CPU 65535, for which no driver is ever
  opened, and so always fails in AArch32 state; the errors of single reads are not
  looked at, and a record with nothing in it is `ERR_OK`; the registers of AArch32
  stay blank when a record is read with MRS.

## 6. Proofs

TLAPS checks every theorem for all values of the constants that satisfy the named
assumptions of each module. Where a component has a type invariant it is a conjunct
of its inductive invariant `IInv` (`ReaderInv` and `AidaInv` in DumpProofs, `CountsInv`
in IdentifyAllProofs, `AnswerInv` in IdentAnswerProofs; `TimeInv`, `AheadInv` and
`FastInv` come on top in ClockProofs). TLC found each of them to hold
on the instances above (`AnswerInv` on the records of `level` and `armv9`), and the
runs, which check what the proofs are for, leave it out. Several theorems state properties that no run checks any more because the
theorem says all of it: `NoOverrun`, `CoreVerdict`, `RequestAgrees`, `BusFromBase`,
`DumpComplete`, `FilesAreHandles`.

**RawCollectProofs.** The inductive invariant `IInv` is `TypeOK`, `Placed` (the
kernel keeps a thread on a CPU of its mask that is up) and for each thread `Held`
(a thread that reads for a reachable CPU has the mask of that CPU alone),
`RecordPure`, `Dense` (the next record belongs at the end of the array) and
`DeliveredPure`. `DataFromNamedCpu` alone is not inductive: it says nothing of the
record in work, and the record says nothing without the mask. A step of another
thread cannot disturb it (`OthersUntouched`), hot-plug can only shrink the set of
reachable CPUs (`ReachableShrinks`). `EndInv` (under `Capacity`: fewer CPUs than
the index can number, all of them supported) adds where the index can be and gives
`NoOverrun`, `StopsAtEnd` and `CoreVerdict`, for every set of CPUs the process may
be bound to, none included. `NoOverrun` allows the one overrun there is: when
`realloc` fails, with `ERR_NO_MEM` recorded. With thread-local variables
(`~StaticScope`), `SavedMaskStable` and `ErrnoIsOwnResult` hold.
`AcquisitionIsImplemented` combines these with `Complete` (records leave the core
function with all their groups): every step is a step of `Acquisition` or hides.

**IdentifyAllProofs.** `IInv` is `TypeOK`, `Groups` and `AnswerRight`. The
difficulty is that the criterion changes during the loop: types are told apart by
purpose and package until a CPU has no topology, by purpose alone afterwards.
`KeysDistinct` and `AllPackagesKnown` are what makes `TypesDistinct` survive the
change. A CPU joins a type it matches (`KnownJoins`) or starts one (`NewJoins`);
`JoinPartition`, `JoinHomogeneous`, `JoinKeys` and `JoinPurposes` say what joining
does to the groups, independent of the counters.
The counters have an invariant of their own, `CountsInv`: `Counts` says of a hash
table that it counts the distinct IDs of a set of CPUs, and `TableCounts` that every
table of the loop counts those of the CPUs identified so far, of its type or of all.
A set grows by one CPU at a time, so no induction over the array is needed.
`CountsAreOfTheType` follows under `Fits`: the IDs of the array do not collide in the
tables (an entry is found by the ID modulo the size, without probing), there are
fewer CPUs than a counter has values, and cache masks are there only where APIC IDs
are. Without `Fits` it is false, and `DerivedCoresPlausible` says what is left of it
when there is no topology.
That no array is left, `AlwaysStaysInArrays`, needs that there are not more types
than kinds of CPUs: by `KindsInv` every type has a CPU it was made for (`MadeFor`),
and no two types were made for one kind. The criterion changes here too: types made
after the topology was lost have purposes of their own, so the map from types to
kinds stays injective (`NewKind`, `KindsLeave`).

**MsrInfoProofs.** `IInv` relates the program points of threads to the statics:
`Mutex` (from the obligation of the callers) makes `infoHandle` the CPU of the
thread inside (`OwnHandle`); `LastFound` is the invariant of the search, all
P-states from `lastAddr` on being off; `ReadSoFar` says what each reading
of a request in progress is. `FilledInTheEnd` is about the unprotected cache: whoever
was first, and however many were, the id holds the outcome of the identification
before any thread takes it for initialized, except while somebody fills it again
(`BeingFilled`). Two exceptions are real and stay in the theorems: `BeingFilled`, for
a thread that looks at the id in that window (so `UnsupportedIsTrue` and
`DumpComplete` are about steps), and the history variable `scanFailed`, for a read
that failed in the search and left `last_addr` wrong for good.

**IdentProofs.** `IInv` is `StepsOfArch` (a call takes the steps of the
architecture and vendor it found), `Matching` and `Counting`. `Matching` holds the
invariant of the loop over the match table, `BestSoFar`, and what it gives at the
end, `Named`; the latter has to survive the steps after it, which change `data` but
none of the fields an entry is scored by (`ScoreDepends`, `NameStays`).
`Counting` rests on `Accounted`: the code counts, for each version, its mandatory
features and those present, and compares the counts only at the end. Once a
mandatory feature is missing the two counts of its version differ for good
(`StatusFollows`), whatever order the features come in and although PAUTH is
counted twice; so equal counts mean that no feature is missing, which gives
`ArmLevelCorrect`. `ConflictIsNeverReported` follows from it: two features cannot
both be there when they want different values of the same field, and
`NothingAboveV81` is what it says about the two PAN entries of the real table.

**IdentAnswerProofs.** Its first part is the answer of `cpu_ident_internal` as a
function of the record: `Decoded` composes what each decoder contributes, the loops
are given in closed form (`CachesUpTo`: of each kind the last sub-leaf counts;
`FirstBestOf`; `CountsUpTo`: cardinalities of sets of table entries; `Reached`), and
`Answer` adds what the machine contributes. `AnswerInv` says at every step how much of
the answer there is; that the loops compute their closed forms is one lemma about one
more iteration each (`CachesNext`, `InternalNext`, `SizesNext`, `CountsNext`). Then
nothing is left to argue about steps: `NothingLeftOver`, `SameRecordSameId` and
`PurposeAgrees` are facts about `Answer`. A call before leaves no trace because
`Answer` does not mention it; a second machine is the other argument of `Answer`
(`Alike` follows it through the decoders); the purpose is set by the last decoder
that touches it. `MaskIsOfItsCache` needs that the index of a sub-leaf is the index of
its cache in the usual order, and `CountOrderIs`: `get_count_order` finds the least
power of two (`RoundsUp`) for every value of the 12-bit field.
`RecordsAssumption` says that a cache sub-leaf is made of such fields and that the
number of EPC sections is a number. A call that ends in a signal (`DivideByZero`)
answers nothing, and nothing is claimed of it.

**ArmDriverProofs.** `IInv` is `ModuleInv` (what is registered at every step of init,
of its error path, of exit, for either kernel), `LiveHasClass`, `FilesInv` (an open
file keeps the Linux module), `BindingInv` (how the thread is bound at every step of
FreeBSD's ioctl, and what the driver remembers of it, wherever the thread was bound
when it came) and `RecordInv` (nothing is
written before the device is open, and what the driver wrote was read on the CPU of
the device). The record is filled register by register, so its invariants speak of fields and
elements: `FieldInv` (the record has its `Shape`, and how far it has come),
`FilledInv` (the registers the driver was asked for so far, `Done`, are there unless
the CPU went away), `RegsInv` (each element holds its own register), `WantInv` and
`MrsInv` (a CPU of a call that is not gone is where the thread runs). `RegsInv` rests on `RequestsAre`: the request numbers of a register
family are the same in `reg_request_t` with and without AArch64, so a 32-bit process
asks a 64-bit kernel for the right register; the other way round it could not, and
`Sound` says that a 32-bit kernel has no 64-bit processes. `DevicesMirrorCpus` is a statement about the two ends of init and exit
and says nothing of the steps in between, where a CPU may come or go; `ModuleInv`
does.

**ClockProofs.** `QuadOutvotesOne` is about the operator `MostConsistent`: if three of
four results agree, the pair with the smallest difference is a pair of them, whatever
the fourth is, ties included. `TscAlwaysBase` is `DivBounds` applied twice
(`ThereAndBack`): a division and the multiplication back lose less than one divisor,
which in MHz is at most 1 if the ratio is below 1000. `MeasuredAlwaysTrue` and
`PerfAlwaysTrue` follow from `IInv`, which says of each mark and each reading in hand
that there is a time since the call began at which counter and clock both showed it,
unless something fell into the interval. The quotient of two differences is then the
frequency exactly, because wrapping subtraction undoes the wrapping of counter and
clock as long as the difference itself fits: `FitsMeasure` for the signed
differences of `cpu_clock_by_mark`, `FitsPerf` for the unsigned ones.
How long a call takes needs a second inductive invariant, `TimeInv`, because the
loops end by the clock alone and their length is carried along: `MeasureTime` says
since when the interval under way is measured, what the intervals before it took
together and that a pass of the busy loop is at most a quarter of the interval, or one
`busy_loop(1)` when that is longer (`LongestPass`, for any `LoopTime`), from one
measurement to the next; `IcInv` and `IcTime` say the same of the runs of
`cpu_clock_by_ic` from below; `IcLasts` adds from above what the passes of the
calibration took together, which is bounded because the cycles double (a pass costs at
least nearly twice the pass before, `DoubledCycles`, `TwiceAsLong`), so that all passes
are bounded by the last one (`AllPasses`) and the last one by the eighth it looks for.
From below there is no premise: `CallsNeverShort` holds even when the clock wraps
during the call, since a wrapped difference only gets smaller and the loop waits longer.
From above (`LastsAlwaysAsAsked`) the time of the call has to fit the clock
(`real < Word`) and the first pass has to be short (`ShortStart`): shorter than the
eighth, and with its 12 instructions outside the loop not weighing more than the loop.
With the numbers of the code the second holds up to 43 ms; `cpuid_tool` asks for 25
(`src/cpuid_tool/cpuid_tool.c:533`). `IcAlwaysFastest` follows from `FastInv`: a run
takes on the clock at least what its passes took, so its rate is at most the frequency,
and exactly that when nothing fell into it; the maximum over the runs does the rest.
Its premises are the rates which the comment of `adjust_march_ic_multiplier` gives
(`RatesAreKnown`), a pass of a whole number of ticks (`WholePass`; else the model
rounds the time of a pass down, and a rate may come out above the frequency, by less
the longer the pass) and that the clock, as far forward as it may be set (`AheadInv`), does not pass the end of
`uint64_t`. `ConstantsAssumption` asks for a millisecond of at least 8 ticks, so
that an eighth of one is a tick (the code counts 1000), and no CPU executes nothing.

**DumpProofs.** The writer's half is arithmetic: `LinesOfAll` says which line of a dump
is the one of field `i` of CPU `c` (blocks of equal length, so a quotient and a
remainder), and `FileInv` that the file is a part of those lines with the last one
perhaps cut. The reader's half, `ReadingInv`, says what is held after each line:
after field `i` of CPU `c` the records before `c` are complete and record `c` has its
first `i` fields (`Holds`) over blank ones, or, when one record is read, over those of
the CPU before. That its fields are the same and are all overwritten is why a dump of
all CPUs read into one record is one CPU (`OneOfManyHolds`); it would be false if the
writer chose the fields for each record. `PointerInv` is about `raw_ptr` alone, for
any file: NULL only in the header of a libcpuid dump, past the array only after the
last number of `logical_cpu_t` or without memory. An index past a field of the record
(`Strays`) comes only from a file libcpuid did not write. `NumberComesBack` is the round trip
of a CPU number through `PRIi16` and `SCNu16`. For dumps of AIDA64 the inductive
invariant is `AidaInv`: in the header nothing has been read (`HeaderInv`), and after
it there are as many records as CPUs were named, `raw_ptr` is the last of them, the
offset is the number of the first one, and each record has what the lines read of its
CPU leave (`InOrder`). A name adds a record because its number less the offset, modulo
`CpuMod`, is the number of names before it (`NumberIs`), any other line changes the last
record only (`OtherStep`). `AidaNumberingHolds` follows at the end of the dump.
`AidaNumbering` speaks of files whose first line known to be of AIDA64 is not after the
first CPU (`Recognised`), whose numbers ascend by one and which name fewer CPUs than
`logical_cpu_t` counts. Without each of these it would be false: what a CPU named earlier
says is not read, a gap in the numbers leaves blank records between, and the last number
wraps to a length of 0.

Only model-checked:
- liveness (`CallsReturn`, `AcquisitionReturns`), which needs ENABLED;
- `EndsInTime`, the bound on every call of `Clock` while the clock may be set; the
  theorems bound the calls whose clock nobody set;
- `TestsPass`, which compares the tests of the repository with their expected output
  and is about these records only.

## 7. Not modelled

`asm-bits.c` (single instructions), `cpuid_tool` and the Python bindings (parsing
and printing), the Windows driver, `msrdriver.c` (a compiled image as bytes); the list
notation of CPU sets and the other string helpers. In `rdmsr.c` the arithmetic on
register fields, `INFO_THROTTLING` and the Windows variants. In `rdtsc.c` the variants
of `cpu_clock_by_os` that are one call of the system. In `ArmDriver`, what an ioctl
checks of its number, file mode and user pointer, which the library always gets
right. In `RawCollect`, NetBSD's comparison with the number of CPUs
that are up, and a cpuset that changes during a call. In `Dump`, lines longer than
the 100-byte buffer, and a `basic_cpuid` line of the header with an index outside its
array (it begins a record and sets nothing). In `IdentifyAll`, memory exhaustion. In
`Ident`, a processor on which a division by zero gives 0 (the model has the signal of
x86), the contents of the match tables of x86 and of ARM codenames,
the pattern language they are written in, features no decoder reads again,
`sse_size`, the normalisation of brand strings and the lists of CPUs known by name.
