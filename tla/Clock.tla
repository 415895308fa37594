-------------------------------- MODULE Clock --------------------------------
(***************************************************************************)
(* The clock functions of libcpuid/rdtsc.c and perfmsr_measure of rdmsr.c: *)
(* one thread calls one of them while the system preempts the thread,      *)
(* moves it to a CPU whose time stamp counter differs, and sets the clock  *)
(* of gettimeofday forward or back.                                        *)
(*                                                                         *)
(* real is the time since the call; everything the code reads is a word    *)
(* of Word values computed from it.  A step is the code up to the next     *)
(* reading of a counter or of the clock, because a preemption between two  *)
(* readings that belong together is what spoils a measurement.             *)
(***************************************************************************)
EXTENDS Integers, Sequences, FiniteSets

CONSTANTS
  Word,       \* number of values of uint64_t (2^64)
  MaxInt,     \* largest int (0x7fffffff)
  UIntWord,   \* number of values of uint32_t (2^32)
  Milli,      \* clock ticks in a millisecond (1000)
  LoopTime,   \* clock ticks of busy_loop(1), 65536 * 42 volatile loads
  InnerStart, \* cycles_inner before calibration (128)
  InnerMax,   \* where cycles_inner stops growing (1000000000)
  SseWork,    \* instructions in one cycle of busy_sse_loop (256)
  SseSetup,   \* and outside its cycles (12)
  TscFreq,    \* time stamp counter ticks per clock tick, what is to be measured
  TscBase,    \* TscBase[c]: where CPU c's counter stood at boot
  Start,      \* values of the clock when a call begins
  CpuIds,     \* CPUs for cpu_clock_by_ic, see CpuId
  RawClocks,  \* raw data for cpu_clock_by_tsc, see RawClock
  OsClocks,   \* what /proc/cpuinfo may hold, see ClockByOs
  Calls,      \* the calls made, see CallArgs
  Jumps,      \* amounts by which the clock is set
  Pauses,     \* lengths of a preemption
  MaxFaults   \* bound on preemptions, moves and clock settings in a call

Cores == DOMAIN TscBase

(* freq: the clock of the core.  ipc: SSE instructions it really executes  *)
(* in a clock cycle, as a fraction.                                        *)
CpuId == [sse : BOOLEAN, sseSize : Nat, vendor : {"intel", "amd", "hygon", "other"},
          family : Nat, model : Nat, freq : Nat \ {0},
          ipc : (Nat \ {0}) \X (Nat \ {0})]
(* crystal: CPUID.15H:ECX in kHz.  num, den: EBX and EAX.  base: leaf 16h. *)
RawClock == [readable : BOOLEAN, vendor : {"intel", "other"}, maxLeaf : Nat, num : Nat,
             den : Nat, crystal : Nat, base : Nat, family : Nat, model : Nat]

(* The arguments of a call, runs and quad where the function takes them.   *)
CallArgs == [fn : {"measure", "mark", "clock", "ic", "delay", "perf", "tsc"}, millis : Int,
             quad : BOOLEAN, runs : Int]

ASSUME ConstantsAssumption ==
  /\ Word \in Nat \ {0} /\ MaxInt \in Nat \ {0} /\ UIntWord \in Nat \ {0}
  /\ Milli \in Nat /\ Milli >= 8
  /\ LoopTime \in Nat \ {0}
  /\ InnerStart \in Nat \ {0} /\ InnerMax \in Nat
  /\ SseWork \in Nat \ {0} /\ SseSetup \in Nat
  /\ TscFreq \in Nat \ {0} /\ TscBase \in [Cores -> Nat]
  /\ Start \subseteq 0 .. Word - 1
  /\ CpuIds \subseteq CpuId /\ RawClocks \subseteq RawClock /\ Calls \subseteq CallArgs
  /\ \A c \in Calls : c.fn = "clock" => c.millis > 0
  /\ Jumps \subseteq Int /\ Pauses \subseteq Nat \ {0} /\ MaxFaults \in Nat

VARIABLES
  real,     \* time since the call began
  adj,      \* what the clock is ahead of real
  core,     \* CPU the thread runs on
  id,       \* the CPU, for cpu_clock_by_ic and cpu_clock_by_tsc
  pc,       \* where the call is
  call,     \* the call and its arguments
  k,        \* measurement, counted from 1 (k, ri)
  cycles,   \* cycles, cycles_inner
  outer,    \* cycles_outer
  count,    \* passes of a run (c)
  begin,    \* begin[k]; t0; in busy_loop_delay a
  end,      \* end[k]; t1; in busy_loop_delay b
  held,     \* perfmsr_measure: x and a
  results,  \* results[k]; cur_value of every run
  ret,      \* return value
  faults,   \* faults so far
  spoiled,  \* measurements a fault fell into
  set,      \* ways in which the clock was set during the call
  back,     \* how far it was set back in all
  paused    \* time the thread did not run

clocks  == <<real, adj, core>>
history == <<faults, spoiled, set, back, paused>>
env     == <<clocks, id, history>>
locals  == <<pc, call, k, cycles, outer, count, begin, end, held, results, ret>>
vars    == <<env, locals>>

----------------------------------------------------------------------------
(* Words, the clock and the counters. *)

Minus(a, b) == (a - b) % Word
Negative(a) == a >= Word \div 2

ClockAt(t) == (t + adj) % Word
TscAt(t)   == (TscBase[core] + TscFreq * t) % Word

sys_precise_clock == ClockAt(real)
cpu_rdtsc         == TscAt(real)
PerfCounter       == (TscFreq * real) % Word

CPU_INVALID_VALUE == MaxInt \div 2

Blank == [tsc |-> 0, sys |-> 0]
mark_t_subtract(a, b) == [tsc |-> Minus(a.tsc, b.tsc), sys |-> Minus(a.sys, b.sys)]

cpu_clock_by_mark(m) ==
  IF Negative(m.tsc) \/ Negative(m.sys) \/ m.sys = 0 \/ m.tsc \div m.sys > MaxInt
  THEN -1
  ELSE m.tsc \div m.sys

(* The lines of /proc/cpuinfo: the first one that names the MHz and has a  *)
(* number gives the result.                                                *)
cpu_clock_by_os(lines) ==
  LET good == {i \in DOMAIN lines : lines[i].mhz /\ lines[i].isNumber}
  IN IF good = {} THEN -1
     ELSE lines[CHOOSE i \in good : \A j \in good : i <= j].value

(* The average of the two results that differ least, the first such pair   *)
(* when several do; mdiff is never in the way, for four ints cannot all be *)
(* MaxInt apart.                                                           *)
Abs(x) == IF x < 0 THEN -x ELSE x
Pairs  == {p \in (1 .. 4) \X (1 .. 4) : p[1] < p[2]}

\* Mutant: the first two results are averaged whatever they are.
FirstPair(r) == <<1, 2>>

MostConsistent(r) ==
  LET diff(p)      == Abs(r[p[1]] - r[p[2]])
      before(p, q) == p[1] < q[1] \/ (p[1] = q[1] /\ p[2] <= q[2])
  IN CHOOSE p \in Pairs : \A q \in Pairs :
       diff(p) < diff(q) \/ (diff(p) = diff(q) /\ before(p, q))

MeasureResult(r) ==
  IF Len(r) = 1 THEN r[1]
  ELSE LET p == MostConsistent(r)
       IN IF r[p[1]] = -1 THEN -1 ELSE (r[p[1]] + r[p[2]]) \div 2

(* Numerator and denominator by which an instruction count is corrected. *)
adjust_march_ic_multiplier ==
  IF id.vendor = "intel" /\ id.model >= 94 THEN <<5, 8>>
  ELSE IF (id.vendor = "amd" /\ id.family >= 21) \/ id.vendor = "hygon" THEN <<5, 7>>
  ELSE IF id.sseSize < 128 THEN <<2, 1>>
  ELSE <<1, 1>>

(* cpu_Hz / 1000000 of a run of n passes that took t. *)
IcResult(n, t) ==
  LET mul == adjust_march_ic_multiplier
  IN ((cycles * SseWork + SseSetup) * outer * mul[1] * n) \div (t * mul[2])

(* Time a busy_loop(cycles) takes; a call with no cycle still takes a tick. *)
BusyTime == IF cycles = 0 THEN 1 ELSE cycles * LoopTime

(* Time the instructions of one pass really take on this CPU. *)
SseTime ==
  ((cycles * SseWork + SseSetup) * outer * id.ipc[2]) \div (id.ipc[1] * id.freq)

----------------------------------------------------------------------------
(* cpu_clock_by_tsc: the crystal of CPUID leaf 15h, or of the table of the *)
(* manual, or the base frequency of leaf 16h; 32-bit unsigned products.    *)

CrystalTable(model) ==
  IF model = 85 THEN 25000
  ELSE IF model \in {78, 94, 142, 158} THEN 24000
  ELSE IF model = 92 THEN 19200
  ELSE 0

\* Mutant: the base frequency is divided by the numerator alone.
CrystalNoDenominator(raw) ==
  IF raw.maxLeaf >= 22 THEN ((raw.base * 1000) % UIntWord) \div raw.num
  ELSE CrystalTable(raw.model)

Crystal(raw) ==
  LET table == IF raw.crystal = 0 /\ raw.family = 6 THEN CrystalTable(raw.model)
               ELSE raw.crystal
  IN IF table = 0 /\ raw.maxLeaf >= 22
     THEN ((raw.base * 1000 * raw.den) % UIntWord) \div raw.num
     ELSE table

cpu_clock_by_tsc(raw) ==
  IF ~raw.readable THEN -2
  ELSE IF raw.vendor # "intel" \/ raw.maxLeaf < 21 \/ raw.num = 0 \/ raw.den = 0 THEN -1
  ELSE IF Crystal(raw) = 0 THEN -1
  ELSE (((Crystal(raw) * raw.num) % UIntWord) \div raw.den) \div 1000

----------------------------------------------------------------------------
Init ==
  /\ real = 0 /\ adj \in Start /\ core \in Cores /\ id = [vendor |-> "unknown"]
  /\ pc = "idle" /\ call = [fn |-> "none", millis |-> 0, quad |-> FALSE, runs |-> 0]
  /\ k = 0 /\ cycles = 0 /\ outer = 1 /\ count = 0
  /\ begin = Blank /\ end = Blank /\ held = Blank /\ results = <<>> /\ ret = 0
  /\ faults = 0 /\ spoiled = {} /\ set = {} /\ back = 0
  /\ paused = 0

Finish(value) == pc' = "done" /\ ret' = value

(* Where a call goes first; a function that refuses its arguments returns. *)
Begin(c) ==
  /\ pc = "idle"
  /\ call' = c
  /\ UNCHANGED <<clocks, history, outer, count, begin, end, held, results>>

CallMeasure(c) ==
  /\ Begin(c) /\ c.fn = "measure" /\ UNCHANGED id
  /\ IF c.millis < 1 THEN Finish(-1) /\ UNCHANGED <<k, cycles>>
     ELSE pc' = "mark" /\ k' = 1 /\ cycles' = 1 /\ UNCHANGED ret

CallMark(c) ==
  /\ Begin(c) /\ c.fn = "mark" /\ UNCHANGED id
  /\ pc' = "mark" /\ k' = 1 /\ cycles' = 1 /\ UNCHANGED ret

(* cpu_clock: the operating system's word, or a measurement, of 200 ms in  *)
(* the code.                                                               *)
CallClock(c) ==
  /\ pc = "idle" /\ c.fn = "clock"
  /\ UNCHANGED <<env, outer, count, begin, end, held, results>>
  /\ \E lines \in OsClocks :
       IF cpu_clock_by_os(lines) > 0
       THEN Finish(cpu_clock_by_os(lines)) /\ call' = c /\ UNCHANGED <<k, cycles>>
       ELSE /\ call' = [c EXCEPT !.fn = "measure", !.quad = TRUE]
            /\ pc' = "mark" /\ k' = 1 /\ cycles' = 1 /\ UNCHANGED ret

CallByIc(c) ==
  /\ Begin(c) /\ c.fn = "ic"
  /\ id' \in CpuIds
  /\ IF c.millis <= 0 \/ c.runs <= 0 THEN Finish(-2) /\ UNCHANGED <<k, cycles>>
     ELSE IF ~id'.sse THEN Finish(-1) /\ UNCHANGED <<k, cycles>>
     ELSE pc' = "calibrate" /\ k' = 0 /\ cycles' = InnerStart /\ UNCHANGED ret

CallDelay(c) ==
  /\ Begin(c) /\ c.fn = "delay" /\ UNCHANGED id
  /\ pc' = "delay" /\ UNCHANGED <<k, cycles, ret>>

CallPerf(c) ==
  /\ Begin(c) /\ c.fn = "perf" /\ UNCHANGED id
  /\ pc' = "msr_x" /\ UNCHANGED <<k, cycles, ret>>

CallByTsc(c) ==
  /\ Begin(c) /\ c.fn = "tsc"
  /\ id' \in RawClocks
  /\ Finish(cpu_clock_by_tsc(id'))
  /\ UNCHANGED <<k, cycles>>

----------------------------------------------------------------------------
(* cpu_tsc_mark, cpu_tsc_unmark and cpu_clock_measure.  A client's own     *)
(* mark and unmark take one pass of any length between them.               *)

Interval == IF call.quad THEN (call.millis * Milli) \div 4 ELSE call.millis * Milli
Repeats  == IF call.quad THEN 4 ELSE 1

MarkTsc ==
  /\ pc = "mark"
  /\ begin' = [tsc |-> cpu_rdtsc, sys |-> 0]
  /\ pc' = "mark_clock"
  /\ UNCHANGED <<env, call, k, cycles, outer, count, end, held, results, ret>>

MarkClock ==
  /\ pc = "mark_clock"
  /\ begin' = [begin EXCEPT !.sys = sys_precise_clock]
  /\ end' = begin'
  /\ pc' = "pass"
  /\ UNCHANGED <<env, call, k, cycles, outer, count, held, results, ret>>

Pass ==
  /\ pc = "pass"
  /\ IF call.fn = "mark" THEN \E d \in Pauses : real' = real + d
     ELSE real' = real + BusyTime
  /\ held' = [held EXCEPT !.tsc = TscAt(real')]
  /\ pc' = "pass_clock"
  /\ UNCHANGED <<adj, core, id, history, call, k, cycles, outer, count, begin, end,
                 results, ret>>

\* Mutant: the loop grows until one pass fills the interval.
GrowToFull(step) == IF step < Interval THEN cycles * 2 ELSE cycles

(* If busy loop is too short, increase it. *)
Grow(step) == IF step < Interval \div 8 THEN cycles * 2 ELSE cycles

PassClock ==
  /\ pc = "pass_clock"
  /\ LET temp == [held EXCEPT !.sys = sys_precise_clock]
         took == mark_t_subtract(temp, begin)
         value == Append(results, cpu_clock_by_mark(took))
     IN /\ end' = temp
        /\ cycles' = IF call.fn = "mark" THEN cycles
                     ELSE Grow(mark_t_subtract(temp, end).sys)
        /\ IF call.fn = "measure" /\ took.sys < Interval
           THEN pc' = "pass" /\ UNCHANGED <<k, results, ret>>
           ELSE /\ results' = value
                /\ IF k < Repeats
                   THEN pc' = "mark" /\ k' = k + 1 /\ UNCHANGED ret
                   ELSE Finish(MeasureResult(value)) /\ UNCHANGED k
  /\ UNCHANGED <<env, call, outer, count, begin, held>>

----------------------------------------------------------------------------
(* cpu_clock_by_ic: find a pass of an eighth of the time, then count how   *)
(* many of them fill it.                                                   *)

Eighth == (call.millis * Milli) \div 8

\* Mutant: cycles_outer does not grow where cycles_inner has its limit.
InnerOnly == <<IF cycles < InnerMax THEN cycles * 2 ELSE cycles, outer>>

Longer == IF cycles < InnerMax THEN <<cycles * 2, outer>> ELSE <<cycles, outer * 2>>

Calibrate ==
  /\ pc = "calibrate"
  /\ cycles' = Longer[1] /\ outer' = Longer[2]
  /\ begin' = [Blank EXCEPT !.sys = sys_precise_clock]
  /\ pc' = "calibrated"
  /\ UNCHANGED <<env, call, k, count, end, held, results, ret>>

Calibrated ==
  /\ pc = "calibrated"
  /\ real' = real + SseTime
  /\ LET short == Minus(ClockAt(real'), begin.sys) < Eighth
     IN IF short THEN pc' = "calibrate" /\ UNCHANGED k ELSE pc' = "run" /\ k' = 1
  /\ UNCHANGED <<adj, core, id, history, call, cycles, outer, count, begin, end, held,
                 results, ret>>

Run ==
  /\ pc = "run"
  /\ begin' = [Blank EXCEPT !.sys = sys_precise_clock]
  /\ count' = 0
  /\ pc' = "running"
  /\ UNCHANGED <<env, call, k, cycles, outer, end, held, results, ret>>

\* Mutant: the first run is the result.
FirstOf(r) == r[1]

MaxOf(r) == CHOOSE m \in {0} \union {r[i] : i \in DOMAIN r} :
              m >= 0 /\ \A i \in DOMAIN r : m >= r[i]

Running ==
  /\ pc = "running"
  /\ real' = real + SseTime
  /\ count' = count + 1
  /\ LET took  == Minus(ClockAt(real'), begin.sys)
         value == Append(results, IcResult(count', took))
     IN IF took < Eighth * 8 THEN UNCHANGED <<pc, k, results, ret>>
        ELSE /\ results' = value
             /\ IF k < call.runs THEN pc' = "run" /\ k' = k + 1 /\ UNCHANGED ret
                ELSE Finish(MaxOf(value)) /\ UNCHANGED k
  /\ UNCHANGED <<adj, core, id, history, call, cycles, outer, begin, end, held>>

----------------------------------------------------------------------------
(* busy_loop_delay, and perfmsr_measure around it. *)

Delay ==
  /\ pc = "delay"
  /\ begin' = [Blank EXCEPT !.sys = sys_precise_clock]
  /\ cycles' = 0
  /\ pc' = "spin_first"
  /\ UNCHANGED <<env, call, k, outer, count, end, held, results, ret>>

(* The busy loop starts at 0 cycles, which doubling does not change. *)
Respin(step) ==
  IF step < Milli THEN cycles * 2
  ELSE IF step > 10 * Milli THEN cycles \div 2 ELSE cycles

Spin ==
  /\ pc \in {"spin_first", "spin"}
  /\ LET now == sys_precise_clock
     IN IF Minus(now, begin.sys) \div Milli > call.millis
        THEN /\ IF call.fn = "perf" THEN pc' = "msr_y" /\ UNCHANGED ret ELSE Finish(0)
             /\ UNCHANGED <<real, cycles, end>>
        ELSE /\ real' = real + BusyTime
             /\ cycles' = IF pc = "spin_first" THEN cycles ELSE Respin(Minus(now, end.sys))
             /\ end' = [Blank EXCEPT !.sys = now]
             /\ pc' = "spin"
             /\ UNCHANGED ret
  /\ UNCHANGED <<adj, core, id, history, call, k, outer, count, begin, held, results>>

PerfFirst ==
  /\ pc = "msr_x"
  /\ \/ Finish(CPU_INVALID_VALUE) /\ UNCHANGED held
     \/ held' = [held EXCEPT !.tsc = PerfCounter] /\ pc' = "clock_a" /\ UNCHANGED ret
  /\ UNCHANGED <<env, call, k, cycles, outer, count, begin, end, results>>

PerfClock ==
  /\ pc = "clock_a"
  /\ held' = [held EXCEPT !.sys = sys_precise_clock]
  /\ pc' = "delay"
  /\ UNCHANGED <<env, call, k, cycles, outer, count, begin, end, results, ret>>

(* The second read is not checked: when it fails, y is what the stack held. *)
PerfSecond ==
  /\ pc = "msr_y"
  /\ \/ end' = [Blank EXCEPT !.tsc = PerfCounter] /\ UNCHANGED spoiled
     \/ \E y \in {0, Word - 1} : end' = [Blank EXCEPT !.tsc = y] /\ spoiled' = {1}
  /\ pc' = "clock_b"
  /\ UNCHANGED <<real, adj, core, id, faults, set, back, paused, call, k, cycles, outer, count,
                 begin, held, results, ret>>

\* Mutant: the delay is taken to last as long as it was asked to.
PerfByRequest(x, y, a, b) ==
  IF a >= b \/ x > y THEN CPU_INVALID_VALUE ELSE (y - x) \div (call.millis * Milli)

PerfResult(x, y, a, b) ==
  IF a >= b \/ x > y THEN CPU_INVALID_VALUE ELSE (y - x) \div (b - a)

PerfLast ==
  /\ pc = "clock_b"
  /\ Finish(PerfResult(held.tsc, end.tsc, held.sys, sys_precise_clock))
  /\ UNCHANGED <<env, call, k, cycles, outer, count, begin, end, held, results>>

----------------------------------------------------------------------------
(* What happens to a thread and to the clock.  spoiled notes the           *)
(* measurement under way when that changes what it reads.                  *)

Spoil(now) == spoiled' = IF now THEN spoiled \union {k} ELSE spoiled

Fault ==
  /\ pc \notin {"idle", "done"}
  /\ faults < MaxFaults
  /\ faults' = faults + 1
  /\ UNCHANGED <<id, locals>>

Preempt(d) ==
  /\ Fault
  /\ real' = real + d
  /\ paused' = paused + d
  /\ Spoil(pc \in {"mark_clock", "pass_clock", "clock_a", "clock_b", "running"})
  /\ UNCHANGED <<adj, core, set, back>>

SetClock(d) ==
  /\ Fault
  /\ adj' = (adj + d) % Word
  /\ set' = set \union {IF d < 0 THEN "back" ELSE "forward"}
  /\ back' = IF d < 0 THEN back - d ELSE back
  /\ Spoil(pc \notin {"mark", "mark_clock", "run", "msr_x", "clock_a"})
  /\ UNCHANGED <<real, core, paused>>

Move(c) ==
  /\ Fault
  /\ c # core
  /\ core' = c
  /\ Spoil(call.fn \in {"measure", "mark"} /\ pc # "mark")
  /\ UNCHANGED <<real, adj, set, back, paused>>

Program ==
  \/ MarkTsc \/ MarkClock \/ Pass \/ PassClock
  \/ Calibrate \/ Calibrated \/ Run \/ Running
  \/ Delay \/ Spin \/ PerfFirst \/ PerfClock \/ PerfSecond \/ PerfLast

Next ==
  \/ \E c \in Calls : \/ CallMeasure(c) \/ CallMark(c) \/ CallClock(c) \/ CallByIc(c)
                      \/ CallDelay(c) \/ CallPerf(c) \/ CallByTsc(c)
  \/ Program
  \/ \E d \in Pauses : Preempt(d)
  \/ \E d \in Jumps : SetClock(d)
  \/ \E c \in Cores : Move(c)

Spec == Init /\ [][Next]_vars

----------------------------------------------------------------------------
(* Properties. *)

Measured == pc = "done" /\ results # <<>>

(* A measured interval gives the true frequency of the counter when        *)
(* nothing fell into it, and a quadruple measurement still does when one   *)
(* of its four was hit, whatever hit it: a preemption between the reading  *)
(* of the counter and that of the clock, a move to a CPU with another      *)
(* counter, the clock set forward, back or back before the start           *)
(* (cpu_clock_measure, cpu_tsc_mark, cpu_tsc_unmark, cpu_clock_by_mark).   *)
MeasuredIsTrue ==
  Measured /\ call.fn \in {"measure", "mark"}
  /\ Cardinality(spoiled) <= (IF call.quad THEN 1 ELSE 0)
  => ret = TscFreq

(* As long as nobody sets the clock, a call takes the time it was asked    *)
(* for, and for each measurement at most one pass of the busy loop more:   *)
(* the loop grows until a pass is an eighth of the interval, and never     *)
(* past a quarter unless a single busy_loop(1) is already longer, although *)
(* the number of cycles is carried from one measurement to the next.       *)
LongestPass == IF Interval \div 4 < LoopTime THEN LoopTime ELSE Interval \div 4

LastsAsAsked ==
  pc = "done" /\ set = {} =>
  /\ Measured /\ call.fn = "measure" =>
       /\ real >= Repeats * Interval
       /\ real <= Repeats * (Interval + LongestPass) + paused
  /\ Measured /\ call.fn = "ic" =>
       /\ real >= call.runs * Eighth * 8
       /\ real <= (call.runs * 10 + 4) * Eighth + paused \/ Eighth < 2
  /\ call.fn = "delay" => real >= call.millis * Milli

(* cpu_clock_by_ic finds the frequency of the core, with the instruction   *)
(* rates the comment of adjust_march_ic_multiplier gives, if one of the    *)
(* runs was left alone: every other run counts fewer instructions, because *)
(* only setting the clock back makes a run look short.                     *)
IcIsFastest ==
  Measured /\ call.fn = "ic" /\ "back" \notin set /\ (1 .. call.runs) \ spoiled # {}
  => ret = id.freq

(* perfmsr_measure finds the rate of its counter whatever time the delay   *)
(* really took, also when the thread was moved or preempted during it.     *)
PerfIsTrue ==
  pc = "done" /\ call.fn = "perf" /\ begin # Blank /\ spoiled = {} /\ set = {}
  => ret = TscFreq

(* Where the crystal of an Intel CPU is not enumerated, cpu_clock_by_tsc   *)
(* goes from the base frequency to the crystal and back in two integer     *)
(* divisions; the result is the base frequency or, at worst, 1 MHz less,   *)
(* as long as its product fits in 32 bits and the ratio is below 1000.     *)
TscIsBase ==
  pc = "done" /\ call.fn = "tsc" /\ ret >= 0 /\ id.crystal = 0 /\ id.maxLeaf >= 22
  /\ (id.family = 6 => CrystalTable(id.model) = 0)
  /\ id.base * 1000 * id.den < UIntWord
  /\ id.num < 1000 * id.den
  => ret \in {id.base - 1, id.base}

(* No loop goes on for longer, in whatever state the call is: the loops of *)
(* cpu_clock_measure, cpu_clock_by_ic and busy_loop_delay have no limit    *)
(* but the clock, so setting it back prolongs them by as much, and by two  *)
(* times as much again for each pass, which grows when it looks short; a   *)
(* clock set back to before the start ends them.                           *)
EndsInTime ==
  pc # "idle" =>
  /\ call.fn = "measure" =>
       real <= Repeats * (Interval + LongestPass + 2 * back) + back + paused
  /\ call.fn = "ic" =>
       \/ real <= (call.runs * 10 + 4) * Eighth + (2 * call.runs + 5) * back + paused
       \/ Eighth < 2
  /\ call.fn \in {"delay", "perf"} =>
       real <= (call.millis + 1) * Milli + 1 + back + paused
=============================================================================
