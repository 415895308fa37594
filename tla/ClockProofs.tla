----------------------------- MODULE ClockProofs -----------------------------
(***************************************************************************)
(* Proofs about Clock: what the quadruple measurement makes of four        *)
(* results, cpu_clock_by_tsc for any raw data and any width of int, the    *)
(* two measurements against a counter, how long the calls take and what    *)
(* cpu_clock_by_ic finds, for any number of preemptions, moves and         *)
(* settings of the clock.                                                  *)
(***************************************************************************)
EXTENDS Clock, FiniteSetTheorems, TLAPS

(* The pair MostConsistent looks for exists when three results agree.      *)
LEMMA AgreeingPair ==
  ASSUME NEW r \in [1 .. 4 -> Int], NEW odd \in 1 .. 4, NEW f \in Int,
         \A i \in 1 .. 4 : i # odd => r[i] = f
  PROVE  /\ MostConsistent(r) \in Pairs
         /\ r[MostConsistent(r)[1]] = f /\ r[MostConsistent(r)[2]] = f
<1> DEFINE diff(p)      == Abs(r[p[1]] - r[p[2]])
           before(p, q) == p[1] < q[1] \/ (p[1] = q[1] /\ p[2] <= q[2])
           Least(p)     == \A q \in Pairs : diff(p) < diff(q) \/ (diff(p) = diff(q) /\ before(p, q))
           first        == IF odd = 1 THEN <<2, 3>> ELSE IF odd = 2 THEN <<1, 3>> ELSE <<1, 2>>
           same         == IF r[odd] = f THEN <<1, 2>> ELSE first
<1>1. \A q \in Pairs : q[1] \in 1 .. 4 /\ q[2] \in 1 .. 4 /\ q[1] < q[2] /\ diff(q) \in Nat
  BY DEF Pairs, Abs
<1>2. same \in Pairs /\ r[same[1]] = f /\ r[same[2]] = f
  BY DEF Pairs
<1>3. diff(same) = 0
  BY <1>2 DEF Abs
<1>4. \A q \in Pairs : diff(q) = 0 => r[q[1]] = r[q[2]]
  BY <1>1 DEF Abs
<1>5. \A q \in Pairs : r[q[1]] = r[q[2]] => r[q[1]] = f /\ r[q[2]] = f
  BY <1>1
<1>6. \A q \in Pairs : diff(q) = 0 => before(same, q)
  <2>1. SUFFICES ASSUME NEW q \in Pairs, diff(q) = 0 PROVE before(same, q)
    OBVIOUS
  <2>2. r[q[1]] = f /\ r[q[2]] = f
    BY <1>4, <1>5, <2>1
  <2>3. r[odd] # f => q[1] # odd /\ q[2] # odd
    BY <2>2
  <2>4. QED
    BY <1>1, <2>3
<1>7. Least(same)
  BY <1>1, <1>3, <1>6
<1>8. MostConsistent(r) = CHOOSE p \in Pairs : Least(p)
  BY DEF MostConsistent
<1> HIDE DEF Least, same
<1>9. MostConsistent(r) \in Pairs /\ Least(MostConsistent(r))
  BY <1>2, <1>7, <1>8
<1>10. diff(MostConsistent(r)) = 0
  <2> DEFINE p == MostConsistent(r)
  <2>1. diff(p) < diff(same) \/ diff(p) = diff(same)
    BY <1>2, <1>9 DEF Least
  <2>2. diff(p) \in Nat
    BY <1>1, <1>9
  <2> HIDE DEF diff, p
  <2>3. QED
    BY <1>3, <2>1, <2>2 DEF p
<1>11. QED
  BY <1>4, <1>5, <1>9, <1>10

(* Four measurements of which three agree give what the three say: one     *)
(* result of a quadruple measurement, however wrong, is outvoted           *)
(* (cpu_clock_measure).                                                    *)
THEOREM QuadOutvotesOne ==
  ASSUME NEW r \in [1 .. 4 -> Int], NEW odd \in 1 .. 4, NEW f \in Nat,
         \A i \in 1 .. 4 : i # odd => r[i] = f, Len(r) = 4
  PROVE  MeasureResult(r) = f
<1>1. r[MostConsistent(r)[1]] = f /\ r[MostConsistent(r)[2]] = f
  BY AgreeingPair
<1>2. (f + f) \div 2 = f
  OBVIOUS
<1>3. QED
  BY <1>1, <1>2 DEF MeasureResult

----------------------------------------------------------------------------
LEMMA DivBounds ==
  ASSUME NEW a \in Nat, NEW n \in Nat \ {0}
  PROVE  /\ a \div n \in Nat
         /\ (a \div n) * n <= a
         /\ a < (a \div n) * n + n
OBVIOUS

(* From the base frequency to the crystal and back.                        *)
LEMMA ThereAndBack ==
  ASSUME NEW base \in Nat, NEW num \in Nat \ {0}, NEW den \in Nat \ {0},
         NEW crystal \in Nat, num < 1000 * den,
         crystal = (base * 1000 * den) \div num
  PROVE  ((crystal * num) \div den) \div 1000 \in {base - 1, base}
<1> DEFINE B    == base * 1000
           again == (crystal * num) \div den
<1>1. B \in Nat /\ B * den \in Nat /\ crystal * num \in Nat
  OBVIOUS
<1>2. crystal * num <= B * den /\ B * den < crystal * num + num
  BY <1>1, DivBounds
<1>3. again \in Nat /\ again * den <= crystal * num /\ crystal * num < again * den + den
  BY <1>1, DivBounds
<1> HIDE DEF again
<1>4. again <= B
  <2>1. again * den <= B * den
    BY <1>1, <1>2, <1>3
  <2>2. QED
    BY <1>1, <1>3, <2>1
<1>5. B < again + 1000 + 1
  <2>1. B * den < again * den + den + 1000 * den
    BY <1>1, <1>2, <1>3
  <2>2. B * den < (again + 1 + 1000) * den
    BY <2>1, <1>3
  <2>3. QED
    BY <1>1, <1>3, <2>2
<1>6. again \div 1000 \in {base - 1, base}
  BY <1>3, <1>4, <1>5
<1>7. QED
  BY <1>6 DEF again

----------------------------------------------------------------------------
(* A call of cpu_clock_by_tsc has returned its result for its raw data as  *)
(* soon as it has begun.                                                   *)
ByTscInv ==
  /\ pc = "idle" => call.fn = "none"
  /\ call.fn = "tsc" => pc = "done" /\ id \in RawClocks /\ ret = cpu_clock_by_tsc(id)

LEMMA ProgramKeeps ==
  Program => pc \notin {"idle", "done"} /\ pc' # "idle" /\ UNCHANGED <<id, call>>
BY DEF Program, MarkTsc, MarkClock, Pass, PassClock, Calibrate, Calibrated, Run, Running,
       Delay, Spin, PerfFirst, PerfClock, PerfSecond, PerfLast, Finish, env

LEMMA FaultKeeps ==
  (\E d \in Pauses : Preempt(d)) \/ (\E d \in Jumps : SetClock(d)) \/ (\E c \in Cores : Move(c))
  => UNCHANGED <<id, pc, call, ret>>
BY DEF Preempt, SetClock, Move, Fault, locals

LEMMA ByTscStep == ByTscInv /\ [Next]_vars => ByTscInv'
<1> SUFFICES ASSUME ByTscInv, [Next]_vars PROVE ByTscInv'
  OBVIOUS
<1> USE DEF ByTscInv
<1>1. ASSUME NEW c \in Calls,
             CallMeasure(c) \/ CallMark(c) \/ CallClock(c) \/ CallByIc(c) \/ CallDelay(c)
             \/ CallPerf(c)
      PROVE  ByTscInv'
  <2>1. call'.fn # "tsc" /\ pc' # "idle"
    BY <1>1, ConstantsAssumption
    DEF CallMeasure, CallMark, CallClock, CallByIc, CallDelay, CallPerf, Begin, Finish,
        CallArgs
  <2>2. QED
    BY <2>1
<1>2. ASSUME NEW c \in Calls, CallByTsc(c) PROVE ByTscInv'
  BY <1>2 DEF CallByTsc, Begin, Finish, cpu_clock_by_tsc, Crystal
<1>3. CASE Program
  BY <1>3, ProgramKeeps
<1>4. CASE UNCHANGED <<id, pc, call, ret>>
  BY <1>4 DEF cpu_clock_by_tsc, Crystal
<1>5. QED
  BY <1>1, <1>2, <1>3, <1>4, FaultKeeps DEF Next, vars, env, locals

(* The base frequency survives the way to the crystal and back, for all    *)
(* raw data, all preemptions and all settings of the clock                 *)
(* (cpu_clock_by_tsc).                                                     *)
THEOREM TscAlwaysBase == Spec => []TscIsBase
<1>1. Init => ByTscInv
  BY DEF Init, ByTscInv
<1>2. ByTscInv => TscIsBase
  <2> SUFFICES ASSUME ByTscInv, pc = "done", call.fn = "tsc", ret >= 0, id.crystal = 0,
                      id.maxLeaf >= 22, id.family = 6 => CrystalTable(id.model) = 0,
                      id.base * 1000 * id.den < UIntWord, id.num < 1000 * id.den
               PROVE  ret \in {id.base - 1, id.base}
    BY DEF TscIsBase
  <2>1. id \in RawClock /\ ret = cpu_clock_by_tsc(id)
    BY ConstantsAssumption DEF ByTscInv
  <2>2. id.num \in Nat \ {0} /\ id.den \in Nat \ {0} /\ id.base \in Nat
    BY <2>1 DEF RawClock, cpu_clock_by_tsc
  <2> DEFINE crystal == (id.base * 1000 * id.den) \div id.num
  <2>3. crystal \in Nat /\ crystal * id.num <= id.base * 1000 * id.den
    <3>1. id.base * 1000 * id.den \in Nat
      BY <2>2
    <3>2. QED
      BY <2>2, <3>1, DivBounds
  <2>4. /\ (id.base * 1000 * id.den) % UIntWord = id.base * 1000 * id.den
        /\ (crystal * id.num) % UIntWord = crystal * id.num
    <3> DEFINE up == id.base * 1000 * id.den
               down == crystal * id.num
    <3>1. up \in Nat /\ down \in Nat /\ up < UIntWord /\ down < UIntWord
      BY <2>2, <2>3, ConstantsAssumption
    <3> HIDE DEF up, down
    <3>2. up % UIntWord = up /\ down % UIntWord = down
      BY <3>1, ConstantsAssumption
    <3>3. QED
      BY <3>2 DEF up, down
  <2>5. Crystal(id) = crystal
    <3>1. (IF id.crystal = 0 /\ id.family = 6 THEN CrystalTable(id.model) ELSE id.crystal) = 0
      BY DEF ByTscInv
    <3> HIDE DEF crystal
    <3>2. QED
      BY <2>4, <3>1 DEF Crystal, crystal
  <2>6. ret = ((crystal * id.num) \div id.den) \div 1000
    <3> HIDE DEF crystal
    <3>1. QED
      BY <2>1, <2>4, <2>5 DEF cpu_clock_by_tsc
  <2>7. QED
    <3>1. ((crystal * id.num) \div id.den) \div 1000 \in {id.base - 1, id.base}
      <4>1. crystal = (id.base * 1000 * id.den) \div id.num
        OBVIOUS
      <4> HIDE DEF crystal
      <4>2. PICK b \in Nat, n \in Nat \ {0}, d \in Nat \ {0}, c \in Nat :
              b = id.base /\ n = id.num /\ d = id.den /\ c = crystal
        BY <2>2, <2>3
      <4>3. n < 1000 * d /\ c = (b * 1000 * d) \div n
        BY <4>1, <4>2
      <4>4. ((c * n) \div d) \div 1000 \in {b - 1, b}
        BY <4>3, ThereAndBack
      <4>5. QED
        BY <4>2, <4>4
    <3> HIDE DEF crystal
    <3>2. QED
      BY <2>6, <3>1
<1>3. QED
  BY <1>1, <1>2, ByTscStep, PTL DEF Spec
----------------------------------------------------------------------------
(* What the calls know of the time they took. *)

Measuring == {"mark", "mark_clock", "pass", "pass_clock"}
Reading   == {"msr_x", "clock_a", "delay", "spin_first", "spin", "msr_y", "clock_b"}

(* The times a counter or a clock showed. *)
Mark == [tsc : Int, sys : Int]
Marked(m, t) == m.tsc = TscAt(t) /\ m.sys = ClockAt(t)
Read(m, t)   == m.tsc = (TscFreq * t) % Word /\ m.sys = ClockAt(t)

(* No call has been made. *)
IdleInv ==
  pc = "idle" =>
    /\ call.fn = "none" /\ real = 0 /\ adj \in 0 .. Word - 1
    /\ cycles = 0 /\ begin = Blank /\ held = Blank /\ results = <<>> /\ spoiled = {}

(* Word is wide enough for the ticks since the call began, as signed       *)
(* numbers, and int for the frequency.                                     *)
FitsMeasure == TscFreq <= MaxInt /\ TscFreq * real < Word \div 2

(* An interval that nothing fell into began at a time both halves of its   *)
(* mark agree on, and ends at such a time.                                 *)
MeasureInv ==
  call.fn \in {"measure", "mark"} =>
    /\ real \in Nat /\ adj \in 0 .. Word - 1 /\ begin \in Mark /\ held \in Mark
    /\ results \in Seq(Int)
    /\ pc \in Measuring \union {"done"}
    /\ pc \in Measuring =>
         k \in 1 .. Repeats /\ Len(results) = k - 1 /\ cycles \in Nat \ {0}
    /\ pc = "done" /\ results # <<>> =>
         Len(results) = Repeats /\ ret = MeasureResult(results)
    /\ FitsMeasure => \A i \in 1 .. Len(results) : i \notin spoiled => results[i] = TscFreq
    /\ k \notin spoiled =>
         /\ pc = "mark_clock" => begin.tsc = TscAt(real)
         /\ pc = "pass" => \E t \in 0 .. real : Marked(begin, t)
         /\ pc = "pass_clock" =>
              held.tsc = TscAt(real) /\ \E t \in 0 .. real : t < real /\ Marked(begin, t)

(* The same for the counter and the clock of perfmsr_measure, which have   *)
(* room for all the time since boot.                                       *)
FitsPerf == TscFreq * real < Word /\ adj + real < Word /\ call.millis >= 0

PerfInv ==
  call.fn = "perf" =>
    /\ real \in Nat /\ adj \in 0 .. Word - 1 /\ held \in Mark /\ call.millis \in Int
    /\ pc \in Reading \union {"done"}
    /\ pc # "done" => cycles \in Nat
    /\ pc \in {"msr_x", "clock_a", "delay"} => begin = Blank
    /\ spoiled = {} /\ set = {} =>
         /\ pc = "clock_a" => held.tsc = (TscFreq * real) % Word
         /\ pc \in Reading \ {"msr_x", "clock_a"} => \E t \in 0 .. real :
              /\ Read(held, t)
              /\ pc \in {"spin_first", "spin"} =>
                   \E u \in t .. real : begin.sys = ClockAt(u)
              /\ pc \in {"msr_y", "clock_b"} /\ FitsPerf => t < real
         /\ pc = "clock_b" => end.tsc = (TscFreq * real) % Word
         /\ pc = "done" /\ begin # Blank /\ FitsPerf => ret = TscFreq

(* Each part of the program belongs to its function. *)
ProgramInv ==
  /\ core \in Cores /\ IsFiniteSet(spoiled)
  /\ pc \in Measuring => call.fn \in {"measure", "mark"}
  /\ pc \in {"calibrate", "calibrated", "run", "running"} => call.fn = "ic"
  /\ pc \in Reading => call.fn \in {"delay", "perf"}
  /\ pc \in {"msr_x", "clock_a", "msr_y", "clock_b"} => call.fn = "perf"

IInv == ProgramInv /\ IdleInv /\ MeasureInv /\ PerfInv

----------------------------------------------------------------------------
(* Words. *)

LEMMA WordRange ==
  ASSUME NEW n \in Int
  PROVE  n % Word \in 0 .. Word - 1
BY ConstantsAssumption

LEMMA Division ==
  ASSUME NEW n \in Int, NEW w \in Nat \ {0}
  PROVE  n = w * (n \div w) + (n % w) /\ n \div w \in Int /\ n % w \in 0 .. w - 1
<1>1. n = w * (n \div w) + (n % w)
  OBVIOUS
<1>2. n \div w \in Int /\ n % w \in 0 .. w - 1
  OBVIOUS
<1>3. QED
  BY <1>1, <1>2

LEMMA Quotients ==
  ASSUME NEW a \in Int, NEW d \in Int, NEW w \in Int, NEW p \in Int, NEW q \in Int,
         NEW r \in Int, NEW s \in Int, a + d = w * p + r, a = w * q + s
  PROVE  r - s = w * (q - p) + d
<1> DEFINE P == w * p
           Q == w * q
<1>1. P \in Int /\ Q \in Int /\ w * (q - p) = Q - P
  OBVIOUS
<1>2. a + d = P + r /\ a = Q + s
  OBVIOUS
<1> HIDE DEF P, Q
<1>3. r - s = (Q - P) + d
  BY <1>1, <1>2
<1>4. QED
  BY <1>1, <1>3

(* A word has one remainder. *)
LEMMA OneRemainder ==
  ASSUME NEW w \in Nat \ {0}, NEW q \in Int, NEW d \in 0 .. w - 1
  PROVE  (w * q + d) % w = d
<1> DEFINE n == w * q + d
<1>1. n \in Int
  OBVIOUS
<1>2. n = w * (n \div w) + (n % w) /\ n \div w \in Int /\ n % w \in 0 .. w - 1
  <2> HIDE DEF n
  <2>1. QED
    BY <1>1, Division
<1> DEFINE p == n \div w
           r == n % w
<1>3. w * p + r = w * q + d /\ p \in Int /\ r \in 0 .. w - 1
  BY <1>2
<1> HIDE DEF p, r, n
<1>4. w * (p - q) = d - r
  BY <1>3
<1>5. p - q = 0
  <2>1. CASE p - q >= 1
    <3>1. w * (p - q) >= w
      BY <1>3, <2>1
    <3>2. QED
      BY <1>3, <1>4, <3>1
  <2>2. CASE p - q <= -1
    <3>1. w * (p - q) <= -w
      BY <1>3, <2>2
    <3>2. QED
      BY <1>3, <1>4, <3>1
  <2>3. QED
    BY <1>3, <2>1, <2>2
<1>6. r = d
  BY <1>3, <1>5
<1>7. QED
  BY <1>6 DEF r, n

(* What a counter of words gained is what it measured, however often it    *)
(* wrapped before.                                                         *)
LEMMA WordDifference ==
  ASSUME NEW a \in Int, NEW d \in 0 .. Word - 1
  PROVE  Minus((a + d) % Word, a % Word) = d
<1> DEFINE p == (a + d) \div Word
           r == (a + d) % Word
           q == a \div Word
           s == a % Word
<1>1. a + d = Word * p + r /\ p \in Int /\ r \in Int
  BY ConstantsAssumption
<1>2. a = Word * q + s /\ q \in Int /\ s \in Int
  BY ConstantsAssumption
<1> HIDE DEF p, r, q, s
<1>3. r - s = Word * (q - p) + d
  <2>1. Word \in Int
    BY ConstantsAssumption
  <2>2. QED
    BY <1>1, <1>2, <2>1, Quotients
<1>4. (Word * (q - p) + d) % Word = d
  <2>1. q - p \in Int /\ Word \in Nat \ {0}
    BY <1>1, <1>2, ConstantsAssumption
  <2>2. QED
    BY <2>1, OneRemainder
<1>5. (r - s) % Word = d
  BY <1>3, <1>4
<1>6. QED
  BY <1>5 DEF Minus, r, s

LEMMA Monotone ==
  ASSUME NEW f \in Nat \ {0}, NEW t \in Nat, NEW u \in Nat, t <= u
  PROVE  f * t <= f * u /\ f * t \in Nat /\ f * u \in Nat /\ u <= f * u
<1>1. f * t \in Nat /\ f * u \in Nat /\ f * (u - t) \in Nat /\ (f - 1) * u \in Nat
  OBVIOUS
<1>2. f * u = f * t + f * (u - t) /\ f * u = (f - 1) * u + u
  OBVIOUS
<1>3. QED
  BY <1>1, <1>2

LEMMA Multiple ==
  ASSUME NEW f \in Nat, NEW n \in Nat \ {0}
  PROVE  (f * n) \div n = f
OBVIOUS

(* The counters and the clock over an interval that fits. *)
LEMMA IntervalWords ==
  ASSUME NEW t \in Nat, NEW u \in Nat, t <= u, TscFreq * u < Word,
         core \in Cores, adj \in 0 .. Word - 1
  PROVE  /\ Minus(TscAt(u), TscAt(t)) = TscFreq * (u - t)
         /\ Minus(ClockAt(u), ClockAt(t)) = u - t
         /\ TscFreq * (u - t) \in Nat
<1> DEFINE d == TscFreq * (u - t)
           a == TscBase[core] + TscFreq * t
<1>1. TscBase[core] \in Nat /\ TscFreq \in Nat \ {0} /\ Word \in Nat \ {0}
  BY ConstantsAssumption
<1>2. TscFreq * t \in Nat /\ TscFreq * u \in Nat /\ u <= TscFreq * u
  BY <1>1, Monotone
<1>3. d \in Nat /\ TscFreq * u = TscFreq * t + d
  BY <1>1
<1> HIDE DEF d
<1>4. d \in 0 .. Word - 1 /\ u - t \in 0 .. Word - 1
  BY <1>1, <1>2, <1>3
<1>5. a \in Int /\ a + d = TscBase[core] + TscFreq * u
  BY <1>1, <1>2, <1>3
<1>6. Minus((a + d) % Word, a % Word) = d
  <2> HIDE DEF a
  <2>1. QED
    BY <1>4, <1>5, WordDifference
<1>7. Minus(((t + adj) + (u - t)) % Word, (t + adj) % Word) = u - t
  <2>1. t + adj \in Int
    OBVIOUS
  <2>2. QED
    BY <1>4, <2>1, WordDifference
<1>8. (t + adj) + (u - t) = u + adj
  OBVIOUS
<1>9. QED
  BY <1>3, <1>5, <1>6, <1>7, <1>8 DEF TscAt, ClockAt, d

(* An interval that fits gives the frequency of the counter. *)
LEMMA IntervalGives ==
  ASSUME NEW m, NEW t \in Nat, NEW u \in Nat, t < u, Marked(m, t),
         core \in Cores, adj \in 0 .. Word - 1,
         TscFreq <= MaxInt, TscFreq * u < Word \div 2
  PROVE  cpu_clock_by_mark([tsc |-> Minus(TscAt(u), m.tsc),
                            sys |-> Minus(ClockAt(u), m.sys)]) = TscFreq
<1> DEFINE n == u - t
           d == TscFreq * n
<1>1. n \in Nat \ {0} /\ TscFreq \in Nat \ {0} /\ Word \in Nat \ {0}
  BY ConstantsAssumption
<1>2. TscFreq * u \in Nat /\ d \in Nat /\ d <= TscFreq * u /\ n <= d
  <2>1. n <= u
    OBVIOUS
  <2>2. QED
    BY <1>1, <2>1, Monotone
<1>3. Word \div 2 \in Nat /\ Word \div 2 <= Word /\ TscFreq * u < Word
  <2>1. Word \div 2 \in Nat /\ Word \div 2 <= Word
    BY <1>1
  <2>2. QED
    BY <1>1, <1>2, <2>1
<1>4. Minus(TscAt(u), m.tsc) = d /\ Minus(ClockAt(u), m.sys) = n
  BY <1>3, IntervalWords DEF Marked
<1>5. d \div n = TscFreq
  BY <1>1, Multiple
<1> HIDE DEF d, n
<1>6. ~Negative(d) /\ ~Negative(n) /\ n # 0
  BY <1>1, <1>2, <1>3 DEF Negative
<1>7. ~(TscFreq > MaxInt)
  BY <1>1, ConstantsAssumption
<1>8. QED
  BY <1>4, <1>5, <1>6, <1>7 DEF cpu_clock_by_mark

----------------------------------------------------------------------------
(* A result that is right, or an interval that was hit. *)

LEMMA WordsAre ==
  ASSUME real \in Nat, adj \in 0 .. Word - 1, core \in Cores
  PROVE  /\ cpu_rdtsc \in Int /\ sys_precise_clock \in Int
         /\ PerfCounter \in Int
         /\ \A t \in Nat : TscAt(t) \in Int /\ ClockAt(t) \in Int
<1>1. \A t \in Nat : TscAt(t) \in Int /\ ClockAt(t) \in Int
  <2> TAKE t \in Nat
  <2>1. TscBase[core] + TscFreq * t \in Int /\ t + adj \in Int
    BY ConstantsAssumption
  <2>2. QED
    BY <2>1, WordRange DEF TscAt, ClockAt
<1>2. TscFreq * real \in Int
  BY ConstantsAssumption
<1>3. QED
  BY <1>1, <1>2, WordRange DEF cpu_rdtsc, sys_precise_clock, PerfCounter

LEMMA ClockIsInt ==
  ASSUME NEW m \in Mark
  PROVE  cpu_clock_by_mark([tsc |-> m.tsc % Word, sys |-> m.sys % Word]) \in Int
<1>1. m.tsc % Word \in 0 .. Word - 1 /\ m.sys % Word \in 0 .. Word - 1
  BY WordRange DEF Mark
<1> DEFINE a == m.tsc % Word
           b == m.sys % Word
<1> HIDE DEF a, b
<1>2. a \in Nat /\ b \in Nat
  BY <1>1, ConstantsAssumption DEF a, b
<1>3. b # 0 => a \div b \in Int
  BY <1>2
<1>4. cpu_clock_by_mark([tsc |-> a, sys |-> b]) \in Int
  BY <1>3 DEF cpu_clock_by_mark
<1>5. QED
  BY <1>4 DEF a, b

LEMMA FitsBefore ==
  ASSUME real \in Nat, real' \in Nat, real <= real', FitsMeasure'
  PROVE  FitsMeasure
<1>1. TscFreq * real <= TscFreq * real' /\ TscFreq * real \in Nat /\ TscFreq * real' \in Nat
  BY ConstantsAssumption, Monotone
<1>2. Word \div 2 \in Int
  BY ConstantsAssumption
<1>3. QED
  BY <1>1, <1>2 DEF FitsMeasure

(* The beginning of a call. *)
(* A pass of the busy loop takes time. *)
LoopPass == cycles * LoopTime

LEMMA BusyTakesTime ==
  ASSUME cycles \in Nat
  PROVE  BusyTime \in Nat \ {0} /\ (cycles # 0 => BusyTime = LoopPass)
<1>1. PICK c \in Nat, l \in Nat \ {0} : c = cycles /\ l = LoopTime
  BY ConstantsAssumption
<1>2. c * l \in Nat /\ (c # 0 => c * l # 0)
  BY ONLY <1>1
<1>3. QED
  BY <1>1, <1>2 DEF BusyTime, LoopPass

LEMMA MeasureBegins ==
  ASSUME IdleInv, ProgramInv, NEW c \in Calls,
         CallMeasure(c) \/ CallMark(c) \/ CallClock(c)
  PROVE  MeasureInv'
<1>1. /\ real = 0 /\ adj \in 0 .. Word - 1 /\ begin \in Mark /\ held \in Mark
      /\ results = <<>> /\ pc = "idle"
  BY DEF IdleInv, Begin, CallMeasure, CallMark, CallClock, Blank, Mark
<1>2. /\ UNCHANGED <<real, adj, core, begin, held, results>>
      /\ \/ call'.fn \notin {"measure", "mark"}
         \/ pc' = "done"
         \/ pc' = "mark" /\ k' = 1 /\ cycles' = 1
  BY DEF Begin, CallMeasure, CallMark, CallClock, Finish, env, clocks
<1>3. Repeats' \in {1, 4}
  BY DEF Repeats
<1>4. Len(results') = 0 /\ results' \in Seq(Int)
  BY <1>1, <1>2
<1>5. QED
  BY <1>1, <1>2, <1>3, <1>4 DEF MeasureInv, Measuring

LEMMA MeasureMarkTsc ==
  ASSUME MeasureInv, ProgramInv, MarkTsc
  PROVE  MeasureInv'
<1>1. /\ pc = "mark" /\ pc' = "mark_clock" /\ begin' = [tsc |-> TscAt(real), sys |-> 0]
      /\ UNCHANGED <<real, adj, core, spoiled, call, k, cycles, held, results>>
  BY DEF MarkTsc, cpu_rdtsc, env, clocks, history
<1>2. call.fn \in {"measure", "mark"} /\ core \in Cores
  BY <1>1 DEF ProgramInv, Measuring
<1>3. begin' \in Mark
  BY <1>1, <1>2, WordsAre DEF Mark, MeasureInv
<1>4. Repeats' = Repeats /\ (FitsMeasure' <=> FitsMeasure) /\ TscAt(real)' = TscAt(real)
  BY <1>1 DEF Repeats, FitsMeasure, TscAt
<1>5. QED
  BY <1>1, <1>2, <1>3, <1>4 DEF MeasureInv, Measuring

LEMMA MeasureMarkClock ==
  ASSUME MeasureInv, ProgramInv, MarkClock
  PROVE  MeasureInv'
<1>1. /\ pc = "mark_clock" /\ pc' = "pass"
      /\ begin' = [begin EXCEPT !.sys = ClockAt(real)]
      /\ UNCHANGED <<real, adj, core, spoiled, call, k, cycles, held, results>>
  BY DEF MarkClock, sys_precise_clock, env, clocks, history
<1>2. /\ call.fn \in {"measure", "mark"} /\ core \in Cores /\ real \in Nat
      /\ begin \in Mark /\ ClockAt(real) \in Int
  BY <1>1, WordsAre DEF ProgramInv, Measuring, MeasureInv
<1>3. begin' \in Mark /\ begin'.tsc = begin.tsc /\ begin'.sys = ClockAt(real)
  BY <1>1, <1>2 DEF Mark
<1>4. /\ Repeats' = Repeats /\ (FitsMeasure' <=> FitsMeasure)
      /\ \A t : Marked(begin, t)' <=> Marked(begin', t)
  BY <1>1 DEF Repeats, FitsMeasure, Marked, TscAt, ClockAt
<1>5. k \notin spoiled => \E t \in 0 .. real : Marked(begin', t)
  <2>1. k \notin spoiled => Marked(begin', real)
    BY <1>1, <1>2, <1>3 DEF MeasureInv, Marked
  <2>2. real \in 0 .. real
    BY <1>2
  <2>3. QED
    BY <2>1, <2>2
<1>6. k' \notin spoiled' => \E t \in 0 .. real' : Marked(begin, t)'
  BY <1>1, <1>4, <1>5
<1>7. QED
  BY <1>1, <1>2, <1>3, <1>4, <1>6 DEF MeasureInv, Measuring

LEMMA MeasurePass ==
  ASSUME MeasureInv, ProgramInv, Pass
  PROVE  MeasureInv'
<1>1. /\ pc = "pass" /\ pc' = "pass_clock" /\ held' = [held EXCEPT !.tsc = TscAt(real')]
      /\ UNCHANGED <<adj, core, spoiled, call, k, cycles, begin, results>>
  BY DEF Pass, history
<1>2. /\ call.fn \in {"measure", "mark"} /\ core \in Cores /\ real \in Nat
      /\ adj \in 0 .. Word - 1 /\ begin \in Mark /\ held \in Mark /\ cycles \in Nat \ {0}
  BY <1>1 DEF ProgramInv, Measuring, MeasureInv
<1>3. real' \in Nat /\ real < real'
  BY <1>2, BusyTakesTime, ConstantsAssumption DEF Pass
<1>4. TscAt(real') \in Int
  BY <1>2, <1>3, WordsAre
<1>5. held' \in Mark /\ held'.tsc = TscAt(real')
  BY <1>1, <1>2, <1>4 DEF Mark
<1>6. /\ Repeats' = Repeats /\ (FitsMeasure' => FitsMeasure)
      /\ \A t : Marked(begin, t)' <=> Marked(begin, t)
      /\ TscAt(real)' = TscAt(real')
  BY <1>1, <1>2, <1>3, FitsBefore DEF Repeats, Marked, TscAt, ClockAt
<1>7. k' \notin spoiled' => \E t \in 0 .. real' : t < real' /\ Marked(begin, t)'
  <2>1. SUFFICES ASSUME k \notin spoiled PROVE \E t \in 0 .. real' : t < real' /\ Marked(begin, t)'
    BY <1>1
  <2>2. PICK t \in 0 .. real : Marked(begin, t)
    BY <1>1, <1>2, <2>1 DEF MeasureInv
  <2>3. t \in 0 .. real' /\ t < real'
    BY <1>2, <1>3
  <2>4. Marked(begin, t)'
    BY <1>6, <2>2
  <2>5. QED
    BY <2>3, <2>4
<1>8. QED
  BY <1>1, <1>2, <1>3, <1>5, <1>6, <1>7 DEF MeasureInv, Measuring

LEMMA MeasurePassClock ==
  ASSUME MeasureInv, ProgramInv, PassClock
  PROVE  MeasureInv'
<1> DEFINE temp  == [held EXCEPT !.sys = sys_precise_clock]
           took  == mark_t_subtract(temp, begin)
           word  == cpu_clock_by_mark(took)
           value == Append(results, word)
<1>1. /\ pc = "pass_clock"
      /\ UNCHANGED <<real, adj, core, spoiled, call, begin, held>>
  BY DEF PassClock, env, clocks, history
<1>2. /\ call.fn \in {"measure", "mark"} /\ core \in Cores /\ real \in Nat
      /\ adj \in 0 .. Word - 1 /\ begin \in Mark /\ held \in Mark /\ cycles \in Nat \ {0}
      /\ k \in 1 .. Repeats /\ Len(results) = k - 1 /\ results \in Seq(Int)
  BY <1>1 DEF ProgramInv, Measuring, MeasureInv
<1>3. \/ pc' = "pass" /\ UNCHANGED <<k, results, ret>>
      \/ results' = value /\ k < Repeats /\ pc' = "mark" /\ k' = k + 1
      \/ results' = value /\ ~(k < Repeats) /\ pc' = "done" /\ ret' = MeasureResult(value)
         /\ k' = k
  BY DEF PassClock, Finish
<1>4. cycles' \in Nat \ {0}
  <2>1. cycles' \in {cycles, cycles * 2}
    BY DEF PassClock, Grow
  <2>2. QED
    BY <1>2, <2>1
<1>5. /\ Repeats' = Repeats /\ (FitsMeasure' <=> FitsMeasure) /\ Repeats \in {1, 4}
      /\ \A t : Marked(begin, t)' <=> Marked(begin, t)
  BY <1>1 DEF Repeats, FitsMeasure, Marked, TscAt, ClockAt
<1>6. ClockAt(real) \in Int
  BY <1>2, WordsAre
<1>7. took = [tsc |-> Minus(held.tsc, begin.tsc), sys |-> Minus(ClockAt(real), begin.sys)]
  BY <1>2 DEF mark_t_subtract, Mark, sys_precise_clock
<1>8. word \in Int
  <2> DEFINE m == [tsc |-> held.tsc - begin.tsc, sys |-> ClockAt(real) - begin.sys]
  <2>1. m \in Mark /\ m.tsc = held.tsc - begin.tsc /\ m.sys = ClockAt(real) - begin.sys
    BY <1>2, <1>6 DEF Mark
  <2>2. took = [tsc |-> m.tsc % Word, sys |-> m.sys % Word]
    BY <1>7, <2>1 DEF Minus
  <2> HIDE DEF m, took
  <2>3. QED
    BY <2>1, <2>2, ClockIsInt
<1>9. FitsMeasure /\ k \notin spoiled => word = TscFreq
  <2>1. SUFFICES ASSUME FitsMeasure, k \notin spoiled PROVE word = TscFreq
    OBVIOUS
  <2>2. held.tsc = TscAt(real)
    BY <1>1, <1>2, <2>1 DEF MeasureInv
  <2>3. PICK t \in 0 .. real : t < real /\ Marked(begin, t)
    BY <1>1, <1>2, <2>1 DEF MeasureInv
  <2>4. t \in Nat /\ t < real
    BY <1>2, <2>3
  <2>5. took = [tsc |-> Minus(TscAt(real), begin.tsc), sys |-> Minus(ClockAt(real), begin.sys)]
    BY <1>7, <2>2
  <2> HIDE DEF took
  <2>6. QED
    BY <1>2, <2>1, <2>3, <2>4, <2>5, IntervalGives DEF FitsMeasure
<1> HIDE DEF word, took, temp
<1>10. /\ value \in Seq(Int) /\ Len(value) = k
       /\ FitsMeasure => \A i \in 1 .. Len(value) : i \notin spoiled => value[i] = TscFreq
  <2>1. value \in Seq(Int) /\ Len(value) = k
    BY <1>2, <1>8
  <2>2. \A i \in 1 .. k : value[i] = IF i = k THEN word ELSE results[i]
    BY <1>2, <1>8
  <2>3. FitsMeasure => \A i \in 1 .. k - 1 : i \notin spoiled => results[i] = TscFreq
    BY <1>2 DEF MeasureInv
  <2> HIDE DEF value
  <2>4. ASSUME FitsMeasure, NEW i \in 1 .. k, i \notin spoiled PROVE value[i] = TscFreq
    <3>1. CASE i = k
      BY <1>9, <2>2, <2>4, <3>1
    <3>2. CASE i # k
      <4>1. i \in 1 .. k - 1 /\ value[i] = results[i]
        BY <1>2, <1>5, <2>2, <3>2
      <4>2. QED
        BY <2>3, <2>4, <4>1
    <3>3. QED
      BY <3>1, <3>2
  <2>5. QED
    BY <2>1, <2>4
<1> HIDE DEF value
<1>11. CASE pc' = "pass" /\ UNCHANGED <<k, results, ret>>
  <2>1. k' \notin spoiled' => \E t \in 0 .. real' : Marked(begin, t)'
    <3>1. SUFFICES ASSUME k \notin spoiled PROVE \E t \in 0 .. real' : Marked(begin, t)'
      BY <1>1, <1>11
    <3>2. PICK t \in 0 .. real : t < real /\ Marked(begin, t)
      BY <1>1, <1>2, <3>1 DEF MeasureInv
    <3>3. t \in 0 .. real'
      BY <1>1, <1>2
    <3>4. QED
      BY <1>5, <3>2, <3>3
  <2>2. FitsMeasure' => \A i \in 1 .. Len(results') : i \notin spoiled' => results'[i] = TscFreq
    BY <1>1, <1>2, <1>5, <1>11 DEF MeasureInv
  <2>3. QED
    BY <1>1, <1>2, <1>4, <1>5, <1>11, <2>1, <2>2 DEF MeasureInv, Measuring
<1>12. CASE results' = value /\ k < Repeats /\ pc' = "mark" /\ k' = k + 1
  <2>1. k' \in 1 .. Repeats' /\ Len(results') = k' - 1
    BY <1>2, <1>5, <1>10, <1>12
  <2>2. QED
    BY <1>1, <1>2, <1>4, <1>5, <1>10, <1>12, <2>1 DEF MeasureInv, Measuring
<1>13. CASE results' = value /\ ~(k < Repeats) /\ pc' = "done"
            /\ ret' = MeasureResult(value) /\ k' = k
  <2>1. Len(results') = Repeats'
    BY <1>2, <1>5, <1>10, <1>13
  <2>2. ret' = MeasureResult(results')
    BY <1>13
  <2>3. QED
    BY <1>1, <1>2, <1>5, <1>10, <1>13, <2>1, <2>2 DEF MeasureInv, Measuring
<1>14. QED
  BY <1>3, <1>11, <1>12, <1>13

(* A fault leaves an interval as it was, or spoils it.                     *)
LEMMA FaultReal ==
  ASSUME real \in Nat, adj \in 0 .. Word - 1, core \in Cores, IsFiniteSet(spoiled),
         \/ \E d \in Pauses : Preempt(d)
         \/ \E d \in Jumps : SetClock(d)
         \/ \E c \in Cores : Move(c)
  PROVE  /\ real' \in Nat /\ real <= real' /\ adj' \in 0 .. Word - 1 /\ core' \in Cores
         /\ IsFiniteSet(spoiled') /\ spoiled \subseteq spoiled'
<1>1. CASE \E d \in Pauses : Preempt(d)
  <2>1. PICK d \in Pauses : Preempt(d)
    BY <1>1
  <2>2. real' = real + d /\ UNCHANGED <<adj, core>> /\ d \in Nat
    BY <2>1, ConstantsAssumption DEF Preempt
  <2>3. spoiled' \in {spoiled, spoiled \union {k}}
    BY <2>1 DEF Preempt, Spoil
  <2>4. QED
    BY <2>2, <2>3, FS_AddElement
<1>2. CASE \E d \in Jumps : SetClock(d)
  <2>1. PICK d \in Jumps : SetClock(d)
    BY <1>2
  <2>2. adj' = (adj + d) % Word /\ UNCHANGED <<real, core>> /\ adj + d \in Int
    BY <2>1, ConstantsAssumption DEF SetClock
  <2>3. adj' \in 0 .. Word - 1
    BY <2>2, WordRange
  <2>4. spoiled' \in {spoiled, spoiled \union {k}}
    BY <2>1 DEF SetClock, Spoil
  <2>5. QED
    BY <2>2, <2>3, <2>4, FS_AddElement
<1>3. CASE \E c \in Cores : Move(c)
  <2>1. PICK c \in Cores : Move(c)
    BY <1>3
  <2>2. core' \in Cores /\ UNCHANGED <<real, adj>>
    BY <2>1 DEF Move
  <2>3. spoiled' \in {spoiled, spoiled \union {k}}
    BY <2>1 DEF Move, Spoil
  <2>4. QED
    BY <2>2, <2>3, FS_AddElement
<1>4. QED
  BY <1>1, <1>2, <1>3

LEMMA MeasureFaults ==
  ASSUME MeasureInv, ProgramInv,
         \/ \E d \in Pauses : Preempt(d)
         \/ \E d \in Jumps : SetClock(d)
         \/ \E c \in Cores : Move(c)
  PROVE  MeasureInv'
<1>1. UNCHANGED <<pc, call, k, cycles, begin, held, results, ret>>
  BY DEF Preempt, SetClock, Move, Fault, locals
<1>2. SUFFICES ASSUME call.fn \in {"measure", "mark"} PROVE MeasureInv'
  BY <1>1 DEF MeasureInv
<1>3. /\ real \in Nat /\ adj \in 0 .. Word - 1 /\ begin \in Mark /\ held \in Mark
      /\ core \in Cores /\ IsFiniteSet(spoiled)
  BY <1>2 DEF MeasureInv, ProgramInv
<1>4. /\ real' \in Nat /\ real <= real' /\ adj' \in 0 .. Word - 1 /\ spoiled \subseteq spoiled'
  BY <1>3, FaultReal
<1>5. FitsMeasure' => FitsMeasure
  BY <1>3, <1>4, FitsBefore
<1>6. Repeats' = Repeats
  BY <1>1 DEF Repeats
<1>7. k \notin spoiled' =>
        /\ k \notin spoiled
        /\ pc = "mark_clock" => begin.tsc = TscAt(real)'
        /\ pc = "pass" => \E t \in 0 .. real' : Marked(begin, t)'
        /\ pc = "pass_clock" =>
             held.tsc = TscAt(real)' /\ \E t \in 0 .. real' : t < real' /\ Marked(begin, t)'
  <2>1. SUFFICES ASSUME k \notin spoiled'
        PROVE  /\ k \notin spoiled
               /\ pc = "mark_clock" => begin.tsc = TscAt(real)'
               /\ pc = "pass" => \E t \in 0 .. real' : Marked(begin, t)'
               /\ pc = "pass_clock" =>
                    held.tsc = TscAt(real)' /\ \E t \in 0 .. real' : t < real' /\ Marked(begin, t)'
    OBVIOUS
  <2>2. k \notin spoiled
    BY <1>4, <2>1
  <2>3. CASE \E d \in Pauses : Preempt(d)
    <3>1. pc \notin {"mark_clock", "pass_clock"} /\ UNCHANGED <<adj, core>>
      BY <2>1, <2>3 DEF Preempt, Spoil
    <3>2. pc = "pass" => \E t \in 0 .. real : Marked(begin, t)
      BY <1>2, <2>2 DEF MeasureInv
    <3>3. \A t : Marked(begin, t) => Marked(begin, t)'
      BY <1>1, <3>1 DEF Marked, TscAt, ClockAt
    <3>4. \A t \in 0 .. real : t \in 0 .. real'
      BY <1>3, <1>4
    <3>5. QED
      BY <2>2, <3>1, <3>2, <3>3, <3>4
  <2>4. CASE \E d \in Jumps : SetClock(d)
    <3>1. pc \notin {"pass", "pass_clock"} /\ UNCHANGED <<real, core>>
      BY <2>1, <2>4 DEF SetClock, Spoil
    <3>2. pc = "mark_clock" => begin.tsc = TscAt(real)
      BY <1>2, <2>2 DEF MeasureInv
    <3>3. TscAt(real)' = TscAt(real)
      BY <3>1 DEF TscAt
    <3>4. QED
      BY <2>2, <3>1, <3>2, <3>3
  <2>5. CASE \E c \in Cores : Move(c)
    <3>1. pc = "mark"
      BY <1>2, <2>1, <2>5 DEF Move, Spoil
    <3>2. QED
      BY <2>2, <3>1
  <2>6. QED
    BY <2>3, <2>4, <2>5
<1>8. FitsMeasure' => \A i \in 1 .. Len(results') : i \notin spoiled' => results'[i] = TscFreq
  BY <1>1, <1>2, <1>4, <1>5 DEF MeasureInv
<1>9. pc \in Measuring \union {"done"} /\ results \in Seq(Int)
  BY <1>2 DEF MeasureInv
<1>10. pc \in Measuring =>
         k \in 1 .. Repeats /\ Len(results) = k - 1 /\ cycles \in Nat \ {0}
  BY <1>2 DEF MeasureInv
<1>11. pc = "done" /\ results # <<>> =>
         Len(results) = Repeats /\ ret = MeasureResult(results)
  BY <1>2 DEF MeasureInv
<1>12. k' \notin spoiled' =>
        /\ pc' = "mark_clock" => begin'.tsc = TscAt(real)'
        /\ pc' = "pass" => \E t \in 0 .. real' : Marked(begin, t)'
        /\ pc' = "pass_clock" =>
             held'.tsc = TscAt(real)' /\ \E t \in 0 .. real' : t < real' /\ Marked(begin, t)'
  BY <1>1, <1>7
<1>13. QED
  BY <1>1, <1>3, <1>4, <1>6, <1>8, <1>9, <1>10, <1>11, <1>12 DEF MeasureInv

----------------------------------------------------------------------------
(* The counter and the clock of perfmsr_measure. *)

LEMMA FitsPerfBefore ==
  ASSUME real \in Nat, real' \in Nat, real <= real', adj \in 0 .. Word - 1,
         UNCHANGED <<adj, call>>, FitsPerf'
  PROVE  FitsPerf
<1>1. PICK u \in Nat : u = real'
  OBVIOUS
<1>2. TscFreq * real <= TscFreq * u /\ TscFreq * real \in Nat /\ TscFreq * u \in Nat
  BY <1>1, ConstantsAssumption, Monotone
<1>3. TscFreq * u < Word /\ adj + u < Word /\ call.millis >= 0
  BY <1>1 DEF FitsPerf
<1>4. Word \in Int
  BY ConstantsAssumption
<1>5. adj \in Nat /\ real <= u
  BY <1>1
<1>6. QED
  BY <1>2, <1>3, <1>4, <1>5 DEF FitsPerf

(* What perfmsr_measure returns for two readings that fit.                 *)
LEMMA ReadingsGive ==
  ASSUME NEW t \in Nat, NEW u \in Nat, t < u, adj \in 0 .. Word - 1,
         TscFreq * u < Word, adj + u < Word
  PROVE  PerfResult((TscFreq * t) % Word, (TscFreq * u) % Word, ClockAt(t), ClockAt(u))
           = TscFreq
<1> DEFINE n == u - t
           x == TscFreq * t
           y == TscFreq * u
<1>1. n \in Nat \ {0} /\ TscFreq \in Nat \ {0} /\ Word \in Nat \ {0}
  BY ConstantsAssumption
<1>2. x \in Nat /\ y \in Nat /\ x <= y
  BY <1>1, Monotone
<1>3. y - x = TscFreq * n
  BY <1>1
<1>4. (TscFreq * n) \div n = TscFreq
  BY <1>1, Multiple
<1> HIDE DEF x, y
<1>5. x % Word = x /\ y % Word = y
  BY <1>1, <1>2 DEF y
<1>6. ClockAt(t) = t + adj /\ ClockAt(u) = u + adj
  <2>1. t + adj \in 0 .. Word - 1 /\ u + adj \in 0 .. Word - 1
    BY <1>1
  <2>2. QED
    BY <1>1, <2>1 DEF ClockAt
<1>7. ~(ClockAt(t) >= ClockAt(u)) /\ ~(x > y) /\ ClockAt(u) - ClockAt(t) = n
  BY <1>2, <1>6
<1>8. PerfResult(x, y, ClockAt(t), ClockAt(u)) = (y - x) \div n
  BY <1>7 DEF PerfResult
<1>9. PerfResult(x, y, ClockAt(t), ClockAt(u)) = TscFreq
  BY <1>3, <1>4, <1>8
<1>10. QED
  BY <1>5, <1>9 DEF x, y

LEMMA PerfBegins ==
  ASSUME IdleInv, ProgramInv, NEW c \in Calls, CallPerf(c)
  PROVE  PerfInv'
<1>1. /\ real = 0 /\ adj \in 0 .. Word - 1 /\ cycles = 0 /\ begin = Blank /\ held = Blank
      /\ pc' = "msr_x" /\ call' = c /\ UNCHANGED <<real, adj, cycles, begin, held>>
  BY DEF IdleInv, Begin, CallPerf, clocks
<1>2. held' \in Mark
  BY <1>1 DEF Blank, Mark
<1>3. call'.millis \in Int
  BY <1>1, ConstantsAssumption DEF CallArgs
<1>4. QED
  BY <1>1, <1>2, <1>3 DEF PerfInv, Reading

LEMMA PerfPerfFirst ==
  ASSUME PerfInv, ProgramInv, PerfFirst
  PROVE  PerfInv'
<1>1. /\ pc = "msr_x" /\ UNCHANGED <<real, adj, set, spoiled, call, cycles, begin>>
      /\ \/ pc' = "done" /\ held' = held
         \/ pc' = "clock_a" /\ held' = [held EXCEPT !.tsc = PerfCounter]
  BY DEF PerfFirst, Finish, env, clocks, history
<1>2. /\ call.fn = "perf" /\ real \in Nat /\ adj \in 0 .. Word - 1 /\ core \in Cores
      /\ held \in Mark /\ cycles \in Nat /\ begin = Blank /\ call.millis \in Int
      /\ PerfCounter \in Int
  BY <1>1, WordsAre DEF ProgramInv, PerfInv
<1>3. held' \in Mark /\ (pc' = "clock_a" => held'.tsc = (TscFreq * real) % Word)
  BY <1>1, <1>2 DEF Mark, PerfCounter
<1>4. QED
  BY <1>1, <1>2, <1>3 DEF PerfInv, Reading

LEMMA PerfPerfClock ==
  ASSUME PerfInv, ProgramInv, PerfClock
  PROVE  PerfInv'
<1>1. /\ pc = "clock_a" /\ pc' = "delay" /\ held' = [held EXCEPT !.sys = ClockAt(real)]
      /\ UNCHANGED <<real, adj, set, spoiled, call, cycles, begin>>
  BY DEF PerfClock, sys_precise_clock, env, clocks, history
<1>2. /\ call.fn = "perf" /\ real \in Nat /\ adj \in 0 .. Word - 1 /\ core \in Cores
      /\ held \in Mark /\ cycles \in Nat /\ begin = Blank /\ call.millis \in Int
      /\ ClockAt(real) \in Int
  BY <1>1, WordsAre DEF ProgramInv, PerfInv
<1>3. held' \in Mark /\ held'.tsc = held.tsc /\ held'.sys = ClockAt(real)
  BY <1>1, <1>2 DEF Mark
<1>4. spoiled' = {} /\ set' = {} => \E t \in 0 .. real' : Read(held, t)'
  <2>1. spoiled = {} /\ set = {} => held.tsc = (TscFreq * real) % Word
    BY <1>1, <1>2 DEF PerfInv
  <2>2. real \in 0 .. real' /\ ClockAt(real') = ClockAt(real)'
    BY <1>1, <1>2 DEF ClockAt
  <2>3. QED
    BY <1>1, <1>3, <2>1, <2>2 DEF Read, ClockAt
<1>5. QED
  BY <1>1, <1>2, <1>3, <1>4 DEF PerfInv, Reading

LEMMA PerfDelay ==
  ASSUME PerfInv, ProgramInv, Delay
  PROVE  PerfInv'
<1>1. /\ pc = "delay" /\ pc' = "spin_first" /\ begin' = [Blank EXCEPT !.sys = ClockAt(real)]
      /\ cycles' = 0 /\ UNCHANGED <<real, adj, set, spoiled, call, held>>
  BY DEF Delay, sys_precise_clock, env, clocks, history
<1>2. SUFFICES ASSUME call.fn = "perf" PROVE PerfInv'
  BY <1>1 DEF PerfInv
<1>3. real \in Nat /\ adj \in 0 .. Word - 1 /\ held \in Mark /\ call.millis \in Int
  BY <1>2 DEF PerfInv
<1>4. begin'.sys = ClockAt(real)
  BY <1>1 DEF Blank
<1>5. spoiled' = {} /\ set' = {} =>
        \E t \in 0 .. real' :
          Read(held, t)' /\ \E u \in t .. real' : begin'.sys = ClockAt(u)'
  <2>1. SUFFICES ASSUME spoiled = {}, set = {}
                 PROVE  \E t \in 0 .. real : 
                          Read(held, t) /\ \E u \in t .. real : begin'.sys = ClockAt(u)
    BY <1>1 DEF Read, ClockAt
  <2>2. PICK t \in 0 .. real : Read(held, t)
    BY <1>1, <1>2, <2>1 DEF PerfInv, Reading
  <2>3. real \in t .. real
    BY <1>3, <2>2
  <2>4. QED
    BY <1>4, <2>2, <2>3
<1>6. QED
  BY <1>1, <1>2, <1>3, <1>5 DEF PerfInv, Reading

LEMMA PerfSpin ==
  ASSUME PerfInv, ProgramInv, Spin
  PROVE  PerfInv'
<1> DEFINE took == Minus(ClockAt(real), begin.sys)
           over == took \div Milli > call.millis
<1>1. /\ pc \in {"spin_first", "spin"}
      /\ UNCHANGED <<adj, set, spoiled, call, held, begin>>
      /\ \/ over /\ pc' \in {"msr_y", "done"} /\ (call.fn = "perf" => pc' = "msr_y")
            /\ UNCHANGED <<real, cycles>>
         \/ ~over /\ pc' = "spin" /\ real' = real + BusyTime
            /\ cycles' \in {cycles, Respin(Minus(ClockAt(real), end.sys))}
  BY DEF Spin, Finish, sys_precise_clock, history
<1>2. SUFFICES ASSUME call.fn = "perf" PROVE PerfInv'
  BY <1>1 DEF PerfInv
<1>3. /\ real \in Nat /\ adj \in 0 .. Word - 1 /\ held \in Mark /\ cycles \in Nat
      /\ call.millis \in Int
  BY <1>1, <1>2 DEF PerfInv
<1>4. ASSUME spoiled = {}, set = {}
      PROVE  \E t \in 0 .. real : Read(held, t) /\ \E u \in t .. real : begin.sys = ClockAt(u)
  BY <1>1, <1>2, <1>4 DEF PerfInv, Reading
<1>5. CASE over /\ pc' = "msr_y" /\ UNCHANGED <<real, cycles>>
  <2>1. ASSUME spoiled = {}, set = {}
        PROVE  \E t \in 0 .. real : Read(held, t) /\ (FitsPerf => t < real)
    <3>1. PICK t \in 0 .. real :
            Read(held, t) /\ \E u \in t .. real : begin.sys = ClockAt(u)
      BY <1>4, <2>1
    <3>2. PICK u \in t .. real : begin.sys = ClockAt(u)
      BY <3>1
    <3>3. u = real => ~FitsPerf
      <4>1. SUFFICES ASSUME u = real PROVE ~FitsPerf
        OBVIOUS
      <4>2. ClockAt(real) \in Int
        BY <1>3, WordRange DEF ClockAt
      <4>3. took = 0
        <5>1. ClockAt(real) - ClockAt(real) = 0
          BY <4>2
        <5>2. 0 % Word = 0
          BY ConstantsAssumption
        <5>3. QED
          BY <3>2, <4>1, <5>1, <5>2 DEF Minus
      <4>4. 0 \div Milli = 0
        BY ConstantsAssumption
      <4>5. QED
        BY <1>3, <1>5, <4>3, <4>4 DEF FitsPerf
    <3>4. FitsPerf => t < real
      BY <1>3, <3>1, <3>2, <3>3
    <3>5. QED
      BY <3>1, <3>4
  <2>2. spoiled' = {} /\ set' = {} =>
          \E t \in 0 .. real' : Read(held, t)' /\ (FitsPerf' => t < real')
    BY <1>1, <1>5, <2>1 DEF Read, ClockAt, FitsPerf
  <2> HIDE DEF over
  <2>3. QED
    BY <1>1, <1>2, <1>3, <1>5, <2>2 DEF PerfInv, Reading
<1>6. CASE pc' = "spin" /\ real' = real + BusyTime
           /\ cycles' \in {cycles, Respin(Minus(ClockAt(real), end.sys))}
  <2>1. real' \in Nat /\ real <= real'
    BY <1>3, <1>6, BusyTakesTime
  <2>2. cycles' \in Nat
    <3>1. cycles * 2 \in Nat /\ cycles \div 2 \in Nat
      BY <1>3
    <3>2. QED
      BY <1>3, <1>6, <3>1 DEF Respin
  <2>3. ASSUME spoiled = {}, set = {}
        PROVE  \E t \in 0 .. real' :
                 Read(held, t) /\ \E u \in t .. real' : begin.sys = ClockAt(u)
    <3>1. PICK t \in 0 .. real :
            Read(held, t) /\ \E u \in t .. real : begin.sys = ClockAt(u)
      BY <1>4, <2>3
    <3>2. PICK u \in t .. real : begin.sys = ClockAt(u)
      BY <3>1
    <3>3. t \in 0 .. real' /\ u \in t .. real'
      BY <1>3, <2>1, <3>1, <3>2
    <3>4. QED
      BY <3>1, <3>2, <3>3
  <2>4. spoiled' = {} /\ set' = {} =>
          \E t \in 0 .. real' :
            Read(held, t)' /\ \E u \in t .. real' : begin'.sys = ClockAt(u)'
    BY <1>1, <2>3 DEF Read, ClockAt
  <2>5. QED
    BY <1>1, <1>2, <1>3, <1>6, <2>1, <2>2, <2>4 DEF PerfInv, Reading
<1> HIDE DEF over
<1>7. QED
  BY <1>1, <1>2, <1>5, <1>6

LEMMA PerfPerfSecond ==
  ASSUME PerfInv, ProgramInv, PerfSecond
  PROVE  PerfInv'
<1>1. /\ pc = "msr_y" /\ pc' = "clock_b"
      /\ UNCHANGED <<real, adj, set, call, cycles, begin, held>>
      /\ \/ end' = [Blank EXCEPT !.tsc = PerfCounter] /\ UNCHANGED spoiled
         \/ spoiled' = {1}
  BY DEF PerfSecond
<1>2. /\ call.fn = "perf" /\ real \in Nat /\ adj \in 0 .. Word - 1 /\ held \in Mark
      /\ cycles \in Nat /\ call.millis \in Int
  BY <1>1 DEF ProgramInv, PerfInv
<1>3. spoiled' = {} => spoiled = {} /\ end'.tsc = (TscFreq * real) % Word
  BY <1>1 DEF Blank, PerfCounter
<1>4. spoiled' = {} /\ set' = {} =>
        \E t \in 0 .. real' : Read(held, t)' /\ (FitsPerf' => t < real')
  <2>1. spoiled' = {} /\ set' = {} =>
          \E t \in 0 .. real : Read(held, t) /\ (FitsPerf => t < real)
    BY <1>1, <1>2, <1>3 DEF PerfInv, Reading
  <2>2. QED
    BY <1>1, <2>1 DEF Read, ClockAt, FitsPerf
<1>5. QED
  BY <1>1, <1>2, <1>3, <1>4 DEF PerfInv, Reading

LEMMA PerfPerfLast ==
  ASSUME PerfInv, ProgramInv, PerfLast
  PROVE  PerfInv'
<1>1. /\ pc = "clock_b" /\ pc' = "done"
      /\ ret' = PerfResult(held.tsc, end.tsc, held.sys, ClockAt(real))
      /\ UNCHANGED <<real, adj, set, spoiled, call, begin, held>>
  BY DEF PerfLast, Finish, sys_precise_clock, env, clocks, history
<1>2. /\ call.fn = "perf" /\ real \in Nat /\ adj \in 0 .. Word - 1 /\ held \in Mark
      /\ call.millis \in Int
  BY <1>1 DEF ProgramInv, PerfInv
<1>3. ASSUME spoiled = {}, set = {}, FitsPerf PROVE ret' = TscFreq
  <2>1. PICK t \in 0 .. real : Read(held, t) /\ t < real
    BY <1>1, <1>2, <1>3 DEF PerfInv, Reading
  <2>2. end.tsc = (TscFreq * real) % Word
    BY <1>1, <1>2, <1>3 DEF PerfInv
  <2>3. PerfResult((TscFreq * t) % Word, (TscFreq * real) % Word, ClockAt(t), ClockAt(real))
          = TscFreq
    BY <1>2, <1>3, <2>1, ReadingsGive DEF FitsPerf
  <2>4. QED
    BY <1>1, <2>1, <2>2, <2>3 DEF Read
<1>4. FitsPerf' <=> FitsPerf
  BY <1>1 DEF FitsPerf
<1>5. QED
  BY <1>1, <1>2, <1>3, <1>4 DEF PerfInv, Reading

LEMMA PerfFaults ==
  ASSUME PerfInv, ProgramInv,
         \/ \E d \in Pauses : Preempt(d)
         \/ \E d \in Jumps : SetClock(d)
         \/ \E c \in Cores : Move(c)
  PROVE  PerfInv'
<1>1. UNCHANGED <<pc, call, cycles, begin, end, held, ret>> /\ pc # "done"
  BY DEF Preempt, SetClock, Move, Fault, locals
<1>2. SUFFICES ASSUME call.fn = "perf" PROVE PerfInv'
  BY <1>1 DEF PerfInv
<1>3. /\ real \in Nat /\ adj \in 0 .. Word - 1 /\ held \in Mark /\ core \in Cores
      /\ IsFiniteSet(spoiled) /\ call.millis \in Int /\ pc \in Reading /\ cycles \in Nat
      /\ pc \in {"msr_x", "clock_a", "delay"} => begin = Blank
  BY <1>1, <1>2 DEF PerfInv, ProgramInv
<1>4. /\ real' \in Nat /\ real <= real' /\ adj' \in 0 .. Word - 1 /\ spoiled \subseteq spoiled'
  BY <1>3, FaultReal
<1>5. ASSUME spoiled' = {}, set' = {}
      PROVE  /\ spoiled = {} /\ set = {} /\ adj' = adj
             /\ real' = real \/ pc \notin {"clock_a", "clock_b"}
  <2>1. CASE \E d \in Pauses : Preempt(d)
    BY <1>4, <1>5, <2>1 DEF Preempt, Spoil
  <2>2. CASE \E d \in Jumps : SetClock(d)
    BY <1>5, <2>2 DEF SetClock
  <2>3. CASE \E c \in Cores : Move(c)
    BY <1>4, <1>5, <2>3 DEF Move
  <2>4. QED
    BY <2>1, <2>2, <2>3
<1>6. ASSUME spoiled' = {}, set' = {}, pc \in Reading \ {"msr_x", "clock_a"}
      PROVE  \E t \in 0 .. real' :
               /\ Read(held, t)'
               /\ pc \in {"spin_first", "spin"} =>
                    \E u \in t .. real' : begin.sys = ClockAt(u)'
               /\ pc \in {"msr_y", "clock_b"} /\ FitsPerf' => t < real'
  <2>1. PICK t \in 0 .. real :
          /\ Read(held, t)
          /\ pc \in {"spin_first", "spin"} =>
               \E u \in t .. real : begin.sys = ClockAt(u)
          /\ pc \in {"msr_y", "clock_b"} /\ FitsPerf => t < real
    BY <1>2, <1>5, <1>6 DEF PerfInv
  <2>2. adj' = adj
    BY <1>5, <1>6
  <2>3. FitsPerf' => FitsPerf
    BY <1>1, <1>3, <1>4, <2>2, FitsPerfBefore
  <2>4. t \in 0 .. real' /\ (t < real => t < real')
    BY <1>3, <1>4
  <2>5. pc \in {"spin_first", "spin"} =>
          \E u \in t .. real' : begin.sys = ClockAt(u)
    <3>1. SUFFICES ASSUME pc \in {"spin_first", "spin"}
                   PROVE  \E u \in t .. real' : begin.sys = ClockAt(u)
      OBVIOUS
    <3>2. PICK u \in t .. real : begin.sys = ClockAt(u)
      BY <2>1, <3>1
    <3>3. u \in t .. real'
      BY <1>3, <1>4
    <3>4. QED
      BY <3>2, <3>3
  <2>6. QED
    BY <1>1, <2>1, <2>2, <2>3, <2>4, <2>5 DEF Read, ClockAt
<1>7. ASSUME spoiled' = {}, set' = {}
      PROVE  /\ pc = "clock_a" => held.tsc = (TscFreq * real') % Word
             /\ pc = "clock_b" => end.tsc = (TscFreq * real') % Word
  BY <1>2, <1>5, <1>7 DEF PerfInv
<1>8. QED
  BY <1>1, <1>3, <1>4, <1>6, <1>7 DEF PerfInv

----------------------------------------------------------------------------
(* Every step. *)

LEMMA FaultSets ==
  ASSUME ProgramInv,
         \/ \E d \in Pauses : Preempt(d)
         \/ \E d \in Jumps : SetClock(d)
         \/ \E c \in Cores : Move(c)
  PROVE  core' \in Cores /\ IsFiniteSet(spoiled') /\ UNCHANGED <<pc, call>> /\ pc # "idle"
<1>1. UNCHANGED <<pc, call>> /\ pc # "idle"
  BY DEF Preempt, SetClock, Move, Fault, locals
<1>2. core' \in Cores
  BY DEF Preempt, SetClock, Move, ProgramInv
<1>3. spoiled' \in {spoiled, spoiled \union {k}}
  BY DEF Preempt, SetClock, Move, Spoil
<1>4. IsFiniteSet(spoiled')
  BY <1>3, FS_AddElement DEF ProgramInv
<1>5. QED
  BY <1>1, <1>2, <1>4

LEMMA CallProgram ==
  ASSUME ProgramInv, NEW c \in Calls,
         CallMeasure(c) \/ CallMark(c) \/ CallClock(c) \/ CallByIc(c) \/ CallDelay(c)
         \/ CallPerf(c) \/ CallByTsc(c)
  PROVE  ProgramInv' /\ pc' # "idle"
<1>1. UNCHANGED <<core, spoiled>>
  BY DEF CallMeasure, CallMark, CallClock, CallByIc, CallDelay, CallPerf, CallByTsc, Begin,
         env, clocks, history
<1>2. \/ pc' = "done"
      \/ pc' = "mark" /\ call'.fn \in {"measure", "mark"}
      \/ pc' = "calibrate" /\ call'.fn = "ic"
      \/ pc' = "delay" /\ call'.fn = "delay"
      \/ pc' = "msr_x" /\ call'.fn = "perf"
  <2>1. c \in CallArgs
    BY ConstantsAssumption
  <2>2. CallClock(c) => pc' = "done" \/ (pc' = "mark" /\ call'.fn = "measure")
    BY <2>1 DEF CallClock, Finish, CallArgs
  <2>3. QED
    BY <2>2 DEF CallMeasure, CallMark, CallByIc, CallDelay, CallPerf, CallByTsc, Begin, Finish
<1>3. QED
  BY <1>1, <1>2 DEF ProgramInv, Measuring, Reading

LEMMA ProgramProgram ==
  ASSUME ProgramInv, Program
  PROVE  ProgramInv'
<1>1. UNCHANGED <<core, call>> /\ spoiled' \in {spoiled, {1}}
  BY DEF Program, MarkTsc, MarkClock, Pass, PassClock, Calibrate, Calibrated, Run, Running,
         Delay, Spin, PerfFirst, PerfClock, PerfSecond, PerfLast, Finish, env, clocks, history
<1>2. IsFiniteSet(spoiled')
  <2>1. IsFiniteSet({1})
    BY FS_Singleton
  <2>2. QED
    BY <1>1, <2>1 DEF ProgramInv
<1>3. \/ pc \in Measuring /\ pc' \in Measuring \union {"done"}
      \/ /\ pc \in {"calibrate", "calibrated", "run", "running"}
         /\ pc' \in {"calibrate", "calibrated", "run", "running", "done"}
      \/ /\ pc \in {"delay", "spin_first", "spin"}
         /\ \/ pc' \in {"spin_first", "spin", "done"}
            \/ pc' = "msr_y" /\ call.fn = "perf"
      \/ /\ pc \in {"msr_x", "clock_a", "msr_y", "clock_b"}
         /\ pc' \in Reading \union {"done"}
  BY DEF Program, MarkTsc, MarkClock, Pass, PassClock, Calibrate, Calibrated, Run, Running,
         Delay, Spin, PerfFirst, PerfClock, PerfSecond, PerfLast, Finish, Measuring, Reading
<1>4. QED
  BY <1>1, <1>2, <1>3 DEF ProgramInv, Measuring, Reading

(* A part of the program that belongs to another function. *)
LEMMA OtherProgram ==
  ASSUME IInv, Program
  PROVE  /\ MarkTsc \/ MarkClock \/ Pass \/ PassClock \/ MeasureInv'
         /\ \/ Delay \/ Spin \/ PerfFirst \/ PerfClock \/ PerfSecond \/ PerfLast
            \/ PerfInv'
<1>1. UNCHANGED call /\ pc # "done"
  BY ProgramKeeps
<1>2. MarkTsc \/ MarkClock \/ Pass \/ PassClock \/ pc \notin Measuring
  BY DEF Program, Calibrate, Calibrated, Run, Running, Delay, Spin, PerfFirst, PerfClock,
         PerfSecond, PerfLast, Measuring
<1>3. Delay \/ Spin \/ PerfFirst \/ PerfClock \/ PerfSecond \/ PerfLast \/ pc \notin Reading
  BY DEF Program, MarkTsc, MarkClock, Pass, PassClock, Calibrate, Calibrated, Run, Running,
         Reading
<1>4. pc \notin Measuring => MeasureInv'
  BY <1>1 DEF IInv, MeasureInv
<1>5. pc \notin Reading => PerfInv'
  BY <1>1 DEF IInv, PerfInv
<1>6. QED
  BY <1>2, <1>3, <1>4, <1>5

LEMMA IInvInit == Init => IInv
<1> SUFFICES ASSUME Init PROVE IInv
  OBVIOUS
<1>1. ProgramInv
  <2>1. IsFiniteSet({})
    BY FS_EmptySet
  <2>2. QED
    BY <2>1 DEF Init, ProgramInv, Measuring, Reading
<1>2. IdleInv /\ MeasureInv /\ PerfInv
  BY ConstantsAssumption DEF Init, IdleInv, MeasureInv, PerfInv
<1>3. QED
  BY <1>1, <1>2 DEF IInv

LEMMA IInvStep == IInv /\ [Next]_vars => IInv'
<1> SUFFICES ASSUME IInv, [Next]_vars PROVE IInv'
  OBVIOUS
<1>1. ProgramInv /\ IdleInv /\ MeasureInv /\ PerfInv
  BY DEF IInv
<1>2. ASSUME NEW c \in Calls,
             CallMeasure(c) \/ CallMark(c) \/ CallClock(c) \/ CallByIc(c) \/ CallDelay(c)
             \/ CallPerf(c) \/ CallByTsc(c)
      PROVE  IInv'
  <2>1. ProgramInv' /\ IdleInv'
    BY <1>1, <1>2, CallProgram DEF IdleInv
  <2>2. MeasureInv'
    <3>1. CASE CallMeasure(c) \/ CallMark(c) \/ CallClock(c)
      BY <1>1, <3>1, MeasureBegins
    <3>2. CASE CallByIc(c) \/ CallDelay(c) \/ CallPerf(c) \/ CallByTsc(c)
      BY <3>2 DEF CallByIc, CallDelay, CallPerf, CallByTsc, Begin, MeasureInv
    <3>3. QED
      BY <1>2, <3>1, <3>2
  <2>3. PerfInv'
    <3>1. CASE CallPerf(c)
      BY <1>1, <3>1, PerfBegins
    <3>2. CASE CallMeasure(c) \/ CallMark(c) \/ CallClock(c) \/ CallByIc(c) \/ CallDelay(c)
               \/ CallByTsc(c)
      <4>1. c \in CallArgs
        BY ConstantsAssumption
      <4>2. call'.fn # "perf"
        BY <3>2, <4>1
        DEF CallMeasure, CallMark, CallClock, CallByIc, CallDelay, CallByTsc, Begin, CallArgs
      <4>3. QED
        BY <4>2 DEF PerfInv
    <3>3. QED
      BY <1>2, <3>1, <3>2
  <2>4. QED
    BY <2>1, <2>2, <2>3 DEF IInv
<1>3. CASE Program
  <2>1. ProgramInv' /\ IdleInv'
    BY <1>1, <1>3, ProgramKeeps, ProgramProgram DEF IdleInv
  <2>2. MeasureInv'
    BY <1>1, <1>3, OtherProgram, MeasureMarkTsc, MeasureMarkClock, MeasurePass,
       MeasurePassClock
  <2>3. PerfInv'
    BY <1>1, <1>3, OtherProgram, PerfDelay, PerfSpin, PerfPerfFirst, PerfPerfClock,
       PerfPerfSecond, PerfPerfLast
  <2>4. QED
    BY <2>1, <2>2, <2>3 DEF IInv
<1>4. CASE \/ \E d \in Pauses : Preempt(d)
           \/ \E d \in Jumps : SetClock(d)
           \/ \E c \in Cores : Move(c)
  <2>1. ProgramInv' /\ IdleInv'
    <3>1. core' \in Cores /\ IsFiniteSet(spoiled') /\ UNCHANGED <<pc, call>> /\ pc # "idle"
      BY <1>1, <1>4, FaultSets
    <3>2. QED
      BY <1>1, <3>1 DEF ProgramInv, IdleInv
  <2>2. MeasureInv' /\ PerfInv'
    BY <1>1, <1>4, MeasureFaults, PerfFaults
  <2>3. QED
    BY <2>1, <2>2 DEF IInv
<1>5. CASE UNCHANGED vars
  <2>1. UNCHANGED <<real, adj, core, pc, call, k, cycles, begin, end, held, results, ret,
                    spoiled, set>>
    BY <1>5 DEF vars, env, locals, clocks, history
  <2>2. Repeats' = Repeats /\ \A r : MeasureResult(r)' = MeasureResult(r)
    BY <2>1 DEF Repeats
  <2>3. ProgramInv' /\ IdleInv'
    BY <1>1, <2>1 DEF ProgramInv, IdleInv
  <2>4. MeasureInv'
    BY <1>1, <2>1, <2>2 DEF MeasureInv, FitsMeasure, Marked, TscAt, ClockAt
  <2>5. PerfInv'
    BY <1>1, <2>1 DEF PerfInv, FitsPerf, Read, ClockAt
  <2>6. QED
    BY <2>3, <2>4, <2>5 DEF IInv
<1>6. QED
  BY <1>2, <1>3, <1>4, <1>5 DEF Next

(* The inductive invariant: at every step of every call, which time since  *)
(* the call began each mark and each reading in hand belongs to            *)
(* (cpu_tsc_mark, cpu_tsc_unmark, busy_loop_delay, perfmsr_measure).       *)
THEOREM IInvInvariance == Spec => []IInv
BY IInvInit, IInvStep, PTL DEF Spec

----------------------------------------------------------------------------
(* The results. *)

LEMMA AtMostOneSpoiled ==
  ASSUME IsFiniteSet(spoiled), Cardinality(spoiled) <= 1
  PROVE  \E odd \in 1 .. 4 : \A i \in 1 .. 4 : i # odd => i \notin spoiled
<1>1. Cardinality(spoiled) \in {0, 1}
  BY FS_CardinalityType
<1>2. CASE Cardinality(spoiled) = 0
  BY <1>2, FS_EmptySet
<1>3. CASE Cardinality(spoiled) = 1
  <2>1. PICK x : spoiled = {x}
    BY <1>3, FS_Singleton
  <2>2. QED
    BY <2>1
<1>4. QED
  BY <1>1, <1>2, <1>3

(* A measured interval gives the true frequency of the counter when        *)
(* nothing fell into it, and a quadruple measurement still does when one   *)
(* of the four was hit, for every frequency, every counter, every length   *)
(* of a preemption and every setting of the clock, provided that the ticks *)
(* of the call fit into half the range of uint64_t and the frequency into  *)
(* an int (cpu_clock_measure, cpu_tsc_mark, cpu_tsc_unmark,                *)
(* cpu_clock_by_mark).                                                     *)
THEOREM MeasuredAlwaysTrue == Spec => [](FitsMeasure => MeasuredIsTrue)
<1>1. IInv => (FitsMeasure => MeasuredIsTrue)
  <2> SUFFICES ASSUME ProgramInv, MeasureInv, FitsMeasure, pc = "done", results # <<>>,
                      call.fn \in {"measure", "mark"},
                      Cardinality(spoiled) <= (IF call.quad THEN 1 ELSE 0)
               PROVE  ret = TscFreq
    BY DEF IInv, MeasuredIsTrue, Measured
  <2>1. /\ Len(results) = Repeats /\ ret = MeasureResult(results) /\ results \in Seq(Int)
        /\ \A i \in 1 .. Len(results) : i \notin spoiled => results[i] = TscFreq
    BY DEF MeasureInv
  <2>2. IsFiniteSet(spoiled)
    BY DEF ProgramInv
  <2>3. CASE call.quad
    <3>1. PICK odd \in 1 .. 4 : \A i \in 1 .. 4 : i # odd => i \notin spoiled
      BY <2>2, <2>3, AtMostOneSpoiled
    <3>2. Len(results) = 4
      BY <2>1, <2>3 DEF Repeats
    <3>3. results \in [1 .. 4 -> Int]
      <4>1. results \in [1 .. Len(results) -> Int]
        BY <2>1
      <4>2. QED
        BY <3>2, <4>1
    <3>4. \A i \in 1 .. 4 : i # odd => results[i] = TscFreq
      BY <2>1, <3>1, <3>2
    <3>5. TscFreq \in Nat
      BY ConstantsAssumption
    <3>6. MeasureResult(results) = TscFreq
      BY ONLY <3>2, <3>3, <3>4, <3>5, QuadOutvotesOne
    <3>7. QED
      BY <2>1, <3>6
  <2>4. CASE ~call.quad
    <3>1. Len(results) = 1
      BY <2>1, <2>4 DEF Repeats
    <3>2. Cardinality(spoiled) = 0
      BY <2>2, <2>4, FS_CardinalityType
    <3>3. spoiled = {}
      BY <2>2, <3>2, FS_EmptySet
    <3>4. QED
      BY <2>1, <3>1, <3>3 DEF MeasureResult
  <2>5. QED
    BY <2>3, <2>4
<1>2. QED
  BY <1>1, IInvInvariance, PTL

(* perfmsr_measure finds the rate of its counter, whatever time the delay  *)
(* took and whatever CPU the thread was moved to, provided that neither    *)
(* the counter nor the clock passed the end of uint64_t during the call    *)
(* and the delay is not negative (perfmsr_measure, busy_loop_delay).       *)
THEOREM PerfAlwaysTrue == Spec => [](FitsPerf => PerfIsTrue)
<1>1. IInv => (FitsPerf => PerfIsTrue)
  BY DEF IInv, PerfInv, PerfIsTrue
<1>2. QED
  BY <1>1, IInvInvariance, PTL

----------------------------------------------------------------------------
(* How long a call takes. *)

EnvInv ==
  /\ real \in Nat /\ adj \in 0 .. Word - 1 /\ paused \in Nat
  /\ call.fn # "none" => call \in CallArgs
  /\ pc = "idle" => real = 0 /\ paused = 0 /\ outer = 1
  /\ call.fn = "delay" /\ pc \in {"spin_first", "spin"} => cycles \in Nat

(* A measurement takes at most an interval and one pass. *)
Longest == Interval + LongestPass
FitsLasts == real < Word

(* Since when the interval under way is measured, and how long the call    *)
(* has taken.  end is the reading before the last pass.                    *)
MeasureTime ==
  call.fn = "measure" /\ set = {} =>
    /\ pc \in {"mark", "mark_clock"} =>
         /\ real >= (k - 1) * Interval
         /\ FitsLasts => real <= (k - 1) * Longest + paused
    /\ pc \in {"pass", "pass_clock"} =>
         \E t \in 0 .. real :
           /\ begin.sys = ClockAt(t) /\ t >= (k - 1) * Interval
           /\ FitsLasts => t <= (k - 1) * Longest + paused
    /\ FitsLasts /\ pc = "pass" =>
         /\ real <= (k - 1) * Longest + Interval + paused
         /\ \E s \in 0 .. real : end.sys = ClockAt(s)
    /\ FitsLasts /\ pc = "pass_clock" =>
         /\ real <= (k - 1) * Longest + Interval + LoopPass + paused
         /\ \E s \in 0 .. real : end.sys = ClockAt(s) /\ s + LoopPass <= real
    /\ FitsLasts /\ pc \in Measuring => Interval >= 0 /\ LoopPass <= LongestPass
    /\ pc = "done" /\ results # <<>> =>
         /\ real >= Repeats * Interval
         /\ FitsLasts => real <= Repeats * Longest + paused

DelayTime ==
  call.fn = "delay" /\ set = {} =>
    /\ pc \in Reading \union {"done"}
    /\ pc \in {"spin_first", "spin"} => \E t \in 0 .. real : begin.sys = ClockAt(t)
    /\ pc = "done" => real >= call.millis * Milli

(* Instructions of a pass, times and over what it takes to execute one.    *)
Calibrating == {"calibrate", "calibrated"}
Runs  == {"run", "running"}
Numer(c, o) == (c * SseWork + SseSetup) * o * id.ipc[2]
Denom == id.ipc[1] * id.freq

IcInv ==
  call.fn = "ic" =>
    /\ pc \in Calibrating \union Runs \union {"done"}
    /\ pc # "done" \/ results # <<>> =>
         /\ id \in CpuIds /\ cycles \in Nat \ {0} /\ outer \in Nat \ {0}
         /\ call.millis > 0 /\ call.runs > 0
    /\ pc \in Calibrating => results = <<>>
    /\ pc \in Runs => k \in 1 .. call.runs /\ Len(results) = k - 1 /\ results \in Seq(Int)
    /\ pc = "running" => count \in Nat
    /\ pc \in {"calibrated", "running"} => begin.sys \in Nat
    /\ pc = "done" /\ results # <<>> =>
         results \in Seq(Int) /\ Len(results) = call.runs /\ ret = MaxOf(results)

(* The first pass of the calibration is shorter than an eighth of the      *)
(* time, and the instructions outside the cycles are few: with the numbers *)
(* of the code (128, 256 and 12) up to 43 ms; cpuid_tool asks for 25.      *)
FirstWork == 2 * InnerStart * SseWork
ShortStart ==
  Numer(InnerStart, 1) \div Denom < Eighth /\ SseSetup * Eighth <= FirstWork
FitsIc == real < Word /\ Eighth >= 2 /\ ShortStart

Grown == cycles >= 2 * InnerStart \/ cycles >= InnerMax

IcTime ==
  call.fn = "ic" /\ set = {} =>
    /\ pc \in {"calibrated", "running"} => \E t \in 0 .. real : begin.sys = ClockAt(t)
    /\ pc = "run" => real >= (k - 1) * (8 * Eighth)
    /\ pc = "running" =>
         \E t \in 0 .. real : begin.sys = ClockAt(t) /\ t >= (k - 1) * (8 * Eighth)
    /\ pc = "done" /\ results # <<>> => real >= call.runs * (8 * Eighth)

(* The passes of the calibration double, so that all together take little  *)
(* more than twice the last one, and the last one less than twice an       *)
(* eighth.                                                                 *)
IcLasts ==
  call.fn = "ic" /\ set = {} /\ FitsIc =>
    /\ pc \in Calibrating => cycles >= InnerStart
    /\ pc = "calibrate" =>
         /\ Grown \/ real <= paused
         /\ FirstWork * (Denom * (real - paused)) <=
              (2 * FirstWork + SseSetup) * Numer(cycles, outer)
         /\ SseTime < Eighth
    /\ pc = "calibrated" =>
         /\ Grown
         /\ FirstWork * (Denom * (real - paused)) <=
              (FirstWork + SseSetup) * Numer(cycles, outer)
         /\ SseTime < 2 * Eighth
    /\ pc \in Runs => SseTime < 2 * Eighth
    /\ pc = "run" => real <= (10 * (k - 1) + 4) * Eighth + paused
    /\ pc = "running" =>
         /\ real <= (10 * (k - 1) + 12) * Eighth + paused
         /\ \E t \in 0 .. real :
              begin.sys = ClockAt(t) /\ t <= (10 * (k - 1) + 4) * Eighth + paused
    /\ pc = "done" /\ results # <<>> =>
         real <= (10 * call.runs + 4) * Eighth + paused

----------------------------------------------------------------------------
(* The clock over an interval, while nobody sets it.                       *)
LEMMA Elapsed ==
  ASSUME NEW t \in Nat, NEW u \in Nat, t <= u, adj \in 0 .. Word - 1
  PROVE  /\ ClockAt(t) \in 0 .. Word - 1
         /\ Minus(ClockAt(u), ClockAt(t)) \in 0 .. u - t
         /\ u - t < Word => Minus(ClockAt(u), ClockAt(t)) = u - t
<1>1. Word \in Nat \ {0} /\ t + adj \in Int /\ u + adj \in Int
  BY ConstantsAssumption
<1>2. ClockAt(t) \in 0 .. Word - 1 /\ ClockAt(u) \in 0 .. Word - 1
  BY <1>1, WordRange DEF ClockAt
<1>3. Minus(ClockAt(u), ClockAt(t)) \in 0 .. Word - 1
  BY <1>2, WordRange DEF Minus
<1>4. ASSUME u - t < Word PROVE Minus(ClockAt(u), ClockAt(t)) = u - t
  <2>1. PICK d \in 0 .. Word - 1 : d = u - t
    BY <1>1, <1>4
  <2>2. PICK a \in Int : a = t + adj
    BY <1>1
  <2>3. u + adj = a + d
    BY <2>1, <2>2
  <2>4. QED
    BY <2>1, <2>2, <2>3, WordDifference DEF ClockAt
<1>5. QED
  BY <1>1, <1>2, <1>3, <1>4

(* How long a pass of cpu_clock_by_ic takes.                               *)
LEMMA PassTime ==
  ASSUME id \in CpuIds, cycles \in Nat \ {0}, outer \in Nat \ {0}
  PROVE  /\ Denom \in Nat \ {0} /\ Numer(cycles, outer) \in Nat \ {0} /\ SseTime \in Nat
         /\ SseTime = Numer(cycles, outer) \div Denom
<1>1. id \in CpuId /\ SseWork \in Nat \ {0} /\ SseSetup \in Nat
  BY ConstantsAssumption
<1>2. id.freq \in Nat \ {0} /\ id.ipc \in (Nat \ {0}) \X (Nat \ {0})
  BY <1>1 DEF CpuId
<1>3. id.ipc[1] \in Nat \ {0} /\ id.ipc[2] \in Nat \ {0}
  BY <1>2
<1>4. Denom \in Nat \ {0}
  <2>1. PICK a \in Nat \ {0}, b \in Nat \ {0} : a = id.ipc[1] /\ b = id.freq
    BY <1>2, <1>3
  <2>2. a * b \in Nat \ {0}
    OBVIOUS
  <2>3. QED
    BY <2>1, <2>2 DEF Denom
<1>5. Numer(cycles, outer) \in Nat \ {0}
  <2>1. PICK a \in Nat \ {0}, b \in Nat \ {0}, c \in Nat \ {0} :
          a = cycles /\ b = outer /\ c = id.ipc[2]
    BY <1>3
  <2>2. PICK w \in Nat \ {0} : w = a * SseWork + SseSetup
    <3>1. a * SseWork \in Nat \ {0}
      BY <1>1
    <3>2. QED
      BY <1>1, <3>1
  <2>3. w * b \in Nat \ {0}
    OBVIOUS
  <2>4. (w * b) * c \in Nat \ {0}
    BY <2>3
  <2>5. QED
    BY <2>1, <2>2, <2>4 DEF Numer
<1>6. SseTime = Numer(cycles, outer) \div Denom
  BY DEF SseTime, Numer, Denom
<1>7. QED
  BY <1>4, <1>5, <1>6, DivBounds

LEMMA FaultTime ==
  ASSUME real \in Nat, paused \in Nat, set' = {},
         \/ \E d \in Pauses : Preempt(d)
         \/ \E d \in Jumps : SetClock(d)
         \/ \E c \in Cores : Move(c)
  PROVE  /\ \E d \in Nat : real' = real + d /\ paused' = paused + d
         /\ UNCHANGED <<adj, set, id, locals>> /\ pc \notin {"idle", "done"}
<1>1. CASE \E d \in Pauses : Preempt(d)
  BY <1>1, ConstantsAssumption DEF Preempt, Fault
<1>2. CASE \E d \in Jumps : SetClock(d)
  BY <1>2 DEF SetClock
<1>3. CASE \E c \in Cores : Move(c)
  <2>1. UNCHANGED <<real, adj, set, paused, id, locals>> /\ pc \notin {"idle", "done"}
    BY <1>3 DEF Move, Fault
  <2>2. real' = real + 0 /\ paused' = paused + 0
    BY <2>1
  <2>3. QED
    BY <2>1, <2>2
<1>4. QED
  BY <1>1, <1>2, <1>3

LEMMA CallEnv ==
  ASSUME NEW c \in Calls,
         CallMeasure(c) \/ CallMark(c) \/ CallClock(c) \/ CallByIc(c) \/ CallDelay(c)
         \/ CallPerf(c) \/ CallByTsc(c)
  PROVE  /\ pc = "idle" /\ pc' # "idle" /\ call' \in CallArgs
         /\ UNCHANGED <<real, adj, set, paused, outer, results>>
         /\ call'.fn = "measure" =>
              \/ pc' = "done"
              \/ pc' = "mark" /\ k' = 1 /\ cycles' = 1 /\ call'.millis > 0
         /\ call'.fn = "ic" => CallByIc(c)
         /\ call'.fn = "delay" => pc' = "delay"
<1>1. c \in CallArgs
  BY ConstantsAssumption
<1>2. CASE CallClock(c)
  <2>1. call' \in {c, [c EXCEPT !.fn = "measure", !.quad = TRUE]} /\ c.fn = "clock"
    BY <1>2 DEF CallClock
  <2>2. call' \in CallArgs /\ call'.fn \in {"clock", "measure"}
    BY <1>1, <2>1 DEF CallArgs
  <2>3. pc' = "done" \/ (pc' = "mark" /\ k' = 1 /\ cycles' = 1)
    BY <1>2 DEF CallClock, Finish
  <2>4. call'.millis > 0
    BY <1>1, <2>1, ConstantsAssumption DEF CallArgs
  <2>5. QED
    BY <1>2, <2>2, <2>3, <2>4 DEF CallClock, env, clocks, history
<1>3. CASE ~CallClock(c)
  <2>1. /\ pc = "idle" /\ call' = c
        /\ UNCHANGED <<real, adj, set, paused, outer, results>>
    BY <1>3 DEF CallMeasure, CallMark, CallByIc, CallDelay, CallPerf, CallByTsc, Begin, clocks,
                history
  <2>2. pc' # "idle"
    BY <1>3 DEF CallMeasure, CallMark, CallByIc, CallDelay, CallPerf, CallByTsc, Finish
  <2>3. c.fn = "measure" =>
          \/ pc' = "done"
          \/ pc' = "mark" /\ k' = 1 /\ cycles' = 1 /\ c.millis > 0
    BY <1>3, <1>1 DEF CallArgs, CallMeasure, CallMark, CallByIc, CallDelay, CallPerf, CallByTsc, Finish
  <2>4. c.fn = "ic" => CallByIc(c)
    BY <1>3 DEF CallMeasure, CallMark, CallByIc, CallDelay, CallPerf, CallByTsc
  <2>5. c.fn = "delay" => pc' = "delay"
    BY <1>3 DEF CallMeasure, CallMark, CallByIc, CallDelay, CallPerf, CallByTsc
  <2>6. QED
    BY <1>1, <2>1, <2>2, <2>3, <2>4, <2>5
<1>4. QED
  BY <1>2, <1>3

LEMMA EnvStep ==
  ASSUME IInv, EnvInv, IcInv, Next
  PROVE  EnvInv'
<1>1. ProgramInv /\ MeasureInv /\ PerfInv
  BY DEF IInv
<1>2. real \in Nat /\ adj \in 0 .. Word - 1 /\ paused \in Nat /\ core \in Cores
      /\ IsFiniteSet(spoiled)
  BY <1>1 DEF EnvInv, ProgramInv
<1>3. ASSUME NEW c \in Calls,
             CallMeasure(c) \/ CallMark(c) \/ CallClock(c) \/ CallByIc(c) \/ CallDelay(c)
             \/ CallPerf(c) \/ CallByTsc(c)
      PROVE  EnvInv'
  <2>1. /\ pc' # "idle" /\ call' \in CallArgs /\ UNCHANGED <<real, adj, paused>>
        /\ call'.fn = "delay" => pc' = "delay"
    BY <1>3, CallEnv
  <2>2. QED
    BY <1>2, <2>1 DEF EnvInv
<1>4. ASSUME Program PROVE EnvInv'
  <2>1. UNCHANGED <<adj, paused, call>> /\ pc' # "idle"
    BY <1>4, ProgramKeeps
    DEF Program, MarkTsc, MarkClock, Pass, PassClock, Calibrate, Calibrated, Run, Running,
        Delay, Spin, PerfFirst, PerfClock, PerfSecond, PerfLast, env, clocks, history
  <2>2. real' \in Nat
    <3>1. CASE Pass
      <4>1. cycles \in Nat
        BY <1>1, <3>1 DEF Pass, ProgramInv, MeasureInv, Measuring
      <4>2. QED
        BY <1>2, <3>1, <4>1, BusyTakesTime, ConstantsAssumption DEF Pass
    <3>2. CASE Calibrated \/ Running
      <4>1. id \in CpuIds /\ cycles \in Nat \ {0} /\ outer \in Nat \ {0}
        BY <1>1, <3>2 DEF Calibrated, Running, ProgramInv, IcInv
      <4>2. SseTime \in Nat
        BY <4>1, PassTime
      <4>3. QED
        BY <1>2, <3>2, <4>2 DEF Calibrated, Running
    <3>3. CASE Spin
      <4>1. cycles \in Nat
        BY <1>1, <3>3 DEF Spin, ProgramInv, PerfInv, EnvInv, Reading
      <4>2. QED
        BY <1>2, <3>3, <4>1, BusyTakesTime DEF Spin
    <3>4. CASE UNCHANGED real
      BY <1>2, <3>4
    <3>5. QED
      BY <1>4, <3>1, <3>2, <3>3, <3>4
      DEF Program, MarkTsc, MarkClock, PassClock, Calibrate, Run, Delay, PerfFirst, PerfClock,
          PerfSecond, PerfLast, env, clocks
  <2>3. call.fn = "delay" /\ pc' \in {"spin_first", "spin"} => cycles' \in Nat
    <3>1. SUFFICES ASSUME call.fn = "delay", pc' \in {"spin_first", "spin"} PROVE cycles' \in Nat
      OBVIOUS
    <3>2. Delay \/ Spin
      BY <1>4, <3>1
      DEF Program, MarkTsc, MarkClock, Pass, PassClock, Calibrate, Calibrated, Run, Running,
          PerfFirst, PerfClock, PerfSecond, PerfLast, Finish
    <3>3. CASE Delay
      BY <3>3 DEF Delay
    <3>4. CASE Spin
      <4>1. cycles \in Nat
        BY <3>1, <3>4 DEF Spin, EnvInv
      <4>2. cycles * 2 \in Nat /\ cycles \div 2 \in Nat
        BY <4>1
      <4>3. cycles' \in {cycles, cycles * 2, cycles \div 2}
        BY <3>4 DEF Spin, Respin
      <4>4. QED
        BY <4>1, <4>2, <4>3
    <3>5. QED
      BY <3>2, <3>3, <3>4
  <2>4. call.fn # "none" => call \in CallArgs
    BY DEF EnvInv
  <2>5. QED
    BY <1>2, <2>1, <2>2, <2>3, <2>4 DEF EnvInv
<1>5. ASSUME \/ \E d \in Pauses : Preempt(d)
             \/ \E d \in Jumps : SetClock(d)
             \/ \E c \in Cores : Move(c)
      PROVE  EnvInv'
  <2>1. real' \in Nat /\ adj' \in 0 .. Word - 1
    BY <1>2, <1>5, FaultReal
  <2>2. UNCHANGED <<pc, call, cycles>> /\ pc # "idle"
    BY <1>5 DEF Preempt, SetClock, Move, Fault, locals
  <2>3. paused' \in Nat
    BY <1>2, <1>5, ConstantsAssumption DEF Preempt, SetClock, Move
  <2>4. QED
    BY <2>1, <2>2, <2>3 DEF EnvInv
<1>6. QED
  BY <1>3, <1>4, <1>5 DEF Next

----------------------------------------------------------------------------
(* cpu_clock_measure. *)
MeasureTypes ==
  /\ real \in Nat /\ adj \in 0 .. Word - 1 /\ paused \in Nat /\ Interval \in Int
  /\ Interval \div 4 \in Int /\ Interval \div 8 \in Int /\ Longest \in Int
  /\ LongestPass \in Int /\ Interval \div 4 <= LongestPass /\ LoopTime <= LongestPass
  /\ Longest = Interval + LongestPass /\ LoopTime \in Nat \ {0} 
  /\ pc \in Measuring =>
       k \in Nat \ {0} /\ cycles \in Nat \ {0} /\ Repeats \in Nat /\ LoopPass \in Nat

LEMMA MeasureTyped ==
  ASSUME EnvInv, MeasureInv, call.fn = "measure"
  PROVE  MeasureTypes
<1>1. real \in Nat /\ adj \in 0 .. Word - 1 /\ paused \in Nat
  BY DEF EnvInv
<1>2. call.millis \in Int
  BY DEF EnvInv, CallArgs
<1>3. call.millis * Milli \in Int
  BY <1>2, ConstantsAssumption
<1>4. Interval \in Int
  <2>1. (call.millis * Milli) \div 4 \in Int
    BY <1>3
  <2>2. QED
    BY <1>3, <2>1 DEF Interval
<1>5. /\ Interval \div 4 \in Int /\ Interval \div 8 \in Int /\ LoopTime \in Nat \ {0}
      /\ LongestPass \in Int /\ Interval \div 4 <= LongestPass /\ LoopTime <= LongestPass
      /\ Longest \in Int
  <2>1. Interval \div 4 \in Int /\ Interval \div 8 \in Int /\ LoopTime \in Nat \ {0}
    BY <1>4, ConstantsAssumption
  <2>2. LongestPass \in Int /\ Interval \div 4 <= LongestPass /\ LoopTime <= LongestPass
    BY <2>1 DEF LongestPass
  <2>3. QED
    BY <1>4, <2>1, <2>2 DEF Longest
<1>6. Repeats \in Nat
  BY DEF Repeats
<1>7. pc \in Measuring => k \in Nat \ {0} /\ cycles \in Nat \ {0} /\ LoopPass \in Nat
  BY <1>5, <1>6 DEF MeasureInv, LoopPass
<1>8. QED
  BY <1>1, <1>4, <1>5, <1>6, <1>7 DEF MeasureTypes, Longest

LEMMA NextProduct ==
  ASSUME NEW n \in Int, NEW i \in Int
  PROVE  /\ n * i \in Int /\ (n - 1) * i \in Int /\ ((n + 1) - 1) * i = n * i
         /\ n * i = (n - 1) * i + i
OBVIOUS

LEMMA LastsMarkTsc ==
  ASSUME EnvInv, MeasureInv, MeasureTime, MarkTsc
  PROVE  MeasureTime'
<1>1. /\ pc = "mark" /\ pc' = "mark_clock"
      /\ UNCHANGED <<real, adj, set, paused, call, k, cycles, results>>
  BY DEF MarkTsc, env, clocks, history
<1>2. /\ Interval' = Interval /\ Longest' = Longest /\ (FitsLasts' <=> FitsLasts)
      /\ LoopPass' = LoopPass /\ LongestPass' = LongestPass
  BY <1>1 DEF Interval, Longest, LongestPass, LoopPass, FitsLasts
<1>3. QED
  BY <1>1, <1>2 DEF MeasureTime, Measuring

LEMMA LastsMarkClock ==
  ASSUME EnvInv, MeasureInv, MeasureTime, MarkClock, ProgramInv
  PROVE  MeasureTime'
<1>1. /\ pc = "mark_clock" /\ pc' = "pass"
      /\ begin' = [begin EXCEPT !.sys = ClockAt(real)] /\ end' = begin'
      /\ UNCHANGED <<real, adj, set, paused, call, k, cycles, results>>
  BY DEF MarkClock, sys_precise_clock, env, clocks, history
<1>2. SUFFICES ASSUME call.fn = "measure", set = {} PROVE MeasureTime'
  BY <1>1 DEF MeasureTime
<1>3. /\ Interval' = Interval /\ Longest' = Longest /\ (FitsLasts' <=> FitsLasts)
      /\ LoopPass' = LoopPass /\ LongestPass' = LongestPass
      /\ \A t : ClockAt(t)' = ClockAt(t)
  BY <1>1 DEF Interval, Longest, LongestPass, LoopPass, FitsLasts, ClockAt
<1>4. MeasureTypes /\ k \in Nat
  BY <1>1, <1>2, MeasureTyped DEF MeasureTypes, Measuring
<1>5. begin'.sys = ClockAt(real) /\ end'.sys = ClockAt(real)
  BY <1>1, <1>2 DEF MeasureInv, Mark
<1>6. real >= (k - 1) * Interval /\ (FitsLasts => real <= (k - 1) * Longest + paused)
  BY <1>1, <1>2 DEF MeasureTime
<1>7. real \in 0 .. real
  BY <1>4 DEF MeasureTypes
<1>8. FitsLasts => Interval >= 0 /\ LoopPass <= LongestPass
  BY <1>1, <1>2 DEF MeasureTime, Measuring
<1>9. FitsLasts => real <= (k - 1) * Longest + Interval + paused
  <2>1. SUFFICES ASSUME FitsLasts PROVE real <= (k - 1) * Longest + Interval + paused
    OBVIOUS
  <2>2. PICK m \in Int : m = (k - 1) * Longest
    BY <1>4, NextProduct DEF MeasureTypes
  <2>3. real <= m + paused /\ Interval >= 0
    BY <1>6, <1>8, <2>1, <2>2
  <2>4. real <= m + Interval + paused
    BY <1>4, <2>3 DEF MeasureTypes
  <2>5. QED
    BY <2>2, <2>4
<1>10. /\ \E t \in 0 .. real :
           /\ begin'.sys = ClockAt(t) /\ t >= (k - 1) * Interval
           /\ FitsLasts => t <= (k - 1) * Longest + paused
       /\ \E s \in 0 .. real : end'.sys = ClockAt(s)
  BY <1>5, <1>6, <1>7
<1>11. QED
  BY <1>1, <1>2, <1>3, <1>8, <1>9, <1>10 DEF MeasureTime, Measuring

LEMMA LastsPass ==
  ASSUME EnvInv, MeasureInv, MeasureTime, Pass, ProgramInv
  PROVE  MeasureTime'
<1>1. /\ pc = "pass" /\ pc' = "pass_clock"
      /\ UNCHANGED <<adj, set, paused, call, k, cycles, begin, end, results>>
  BY DEF Pass, history
<1>2. SUFFICES ASSUME call.fn = "measure", set = {} PROVE MeasureTime'
  BY <1>1 DEF MeasureTime
<1>3. /\ MeasureTypes /\ k \in Nat /\ cycles \in Nat \ {0} /\ real \in Nat /\ Word \in Nat
      /\ LoopPass \in Nat
  BY <1>1, <1>2, MeasureTyped, ConstantsAssumption DEF MeasureTypes, Measuring
<1>4. real' = real + LoopPass /\ real' \in Nat /\ real <= real'
  BY <1>2, <1>3, BusyTakesTime DEF Pass
<1>5. /\ Interval' = Interval /\ Longest' = Longest /\ (FitsLasts' => FitsLasts)
      /\ LoopPass' = LoopPass /\ LongestPass' = LongestPass
      /\ \A t : ClockAt(t)' = ClockAt(t)
  BY <1>1, <1>3, <1>4 DEF Interval, Longest, LongestPass, LoopPass, FitsLasts, ClockAt
<1>6. PICK t \in 0 .. real :
        /\ begin.sys = ClockAt(t) /\ t >= (k - 1) * Interval
        /\ FitsLasts => t <= (k - 1) * Longest + paused
  BY <1>1, <1>2 DEF MeasureTime
<1>7. t \in 0 .. real'
  BY <1>3, <1>4
<1>8. ASSUME FitsLasts
      PROVE  /\ real' <= (k - 1) * Longest + Interval + LoopPass + paused
             /\ \E s \in 0 .. real' : end.sys = ClockAt(s) /\ s + LoopPass <= real'
             /\ Interval >= 0 /\ LoopPass <= LongestPass
  <2>1. /\ real <= (k - 1) * Longest + Interval + paused
        /\ Interval >= 0 /\ LoopPass <= LongestPass
        /\ \E s \in 0 .. real : end.sys = ClockAt(s)
    BY <1>1, <1>2, <1>8 DEF MeasureTime, Measuring
  <2>2. PICK m \in Int : m = (k - 1) * Longest
    BY <1>3, NextProduct DEF MeasureTypes
  <2>3. real' <= m + Interval + LoopPass + paused
    <3>1. real <= m + Interval + paused
      BY <2>1, <2>2
    <3>2. QED
      BY <1>3, <1>4, <3>1 DEF MeasureTypes
  <2>4. PICK s \in 0 .. real : end.sys = ClockAt(s)
    BY <2>1
  <2>5. s \in 0 .. real' /\ s + LoopPass <= real'
    BY <1>3, <1>4
  <2>6. QED
    BY <2>1, <2>2, <2>3, <2>4, <2>5
<1>9. QED
  BY <1>1, <1>5, <1>6, <1>7, <1>8 DEF MeasureTime, Measuring

LEMMA LastsPassClock ==
  ASSUME EnvInv, MeasureInv, MeasureTime, PassClock, ProgramInv
  PROVE  MeasureTime'
<1> DEFINE step  == Minus(ClockAt(real), end.sys)
           spent == Minus(ClockAt(real), begin.sys)
<1>1. /\ pc = "pass_clock"
      /\ UNCHANGED <<real, adj, set, paused, call, begin>>
  BY DEF PassClock, env, clocks, history
<1>2. SUFFICES ASSUME call.fn = "measure", set = {} PROVE MeasureTime'
  BY <1>1 DEF MeasureTime
<1>3. /\ MeasureTypes /\ k \in Nat \ {0} /\ cycles \in Nat \ {0} /\ real \in Nat
      /\ Word \in Nat \ {0} /\ Repeats \in Nat /\ k <= Repeats
      /\ held \in Mark /\ begin \in Mark /\ Len(results) = k - 1
  BY <1>1, <1>2, MeasureTyped, ConstantsAssumption
  DEF MeasureTypes, Measuring, MeasureInv
<1>4. /\ Interval' = Interval /\ Longest' = Longest /\ (FitsLasts' <=> FitsLasts)
      /\ Repeats' = Repeats /\ LongestPass' = LongestPass
      /\ \A t : ClockAt(t)' = ClockAt(t)
  BY <1>1 DEF Interval, Longest, LongestPass, LoopPass, FitsLasts, ClockAt, Repeats
<1>5. /\ end'.sys = ClockAt(real) /\ cycles' = Grow(step)
      /\ \/ pc' = "pass" /\ k' = k /\ spent < Interval
         \/ pc' = "mark" /\ k' = k + 1 /\ ~(spent < Interval)
         \/ pc' = "done" /\ k' = k /\ ~(k < Repeats) /\ ~(spent < Interval)
  BY <1>1, <1>2, <1>3
  DEF PassClock, mark_t_subtract, sys_precise_clock, Finish, Mark
<1>6. PICK t \in 0 .. real :
        /\ begin.sys = ClockAt(t) /\ t >= (k - 1) * Interval
        /\ FitsLasts => t <= (k - 1) * Longest + paused
  BY <1>1, <1>2 DEF MeasureTime
<1>7. spent \in 0 .. real - t /\ (real - t < Word => spent = real - t)
  <2>1. t \in Nat /\ t <= real /\ adj \in 0 .. Word - 1 /\ real \in Nat
    BY <1>3 DEF MeasureTypes
  <2>2. QED
    BY <1>6, <2>1, Elapsed
<1>8. ASSUME FitsLasts
      PROVE  LoopPass' <= LongestPass /\ Interval >= 0 /\ real - t < Word
  <2>1. Interval >= 0 /\ LoopPass <= LongestPass
    BY <1>1, <1>2, <1>8 DEF MeasureTime, Measuring
  <2>2. PICK s \in 0 .. real : end.sys = ClockAt(s) /\ s + LoopPass <= real
    BY <1>1, <1>2, <1>8 DEF MeasureTime
  <2>3. real - s < Word /\ real - t < Word
    BY <1>3, <1>8 DEF FitsLasts
  <2>4. step = real - s
    BY <1>3, <2>2, <2>3, Elapsed DEF MeasureTypes
  <2>5. 2 * (Interval \div 8) <= Interval \div 4
    BY <1>3 DEF MeasureTypes
  <2> HIDE DEF step
  <2>6. step < Interval \div 8 => 2 * LoopPass <= LongestPass
    BY <1>1, <1>3, <2>2, <2>4, <2>5 DEF MeasureTypes, Measuring
  <2>7. (cycles * 2) * LoopTime = 2 * (cycles * LoopTime)
    <3>1. LoopTime \in Nat
      BY <1>3 DEF MeasureTypes
    <3>2. QED
      BY <1>3, <3>1
  <2>8. LoopPass' <= LongestPass
    <3>1. CASE step < Interval \div 8
      <4>1. cycles' = cycles * 2
        BY <1>5, <3>1 DEF Grow
      <4>2. LoopPass' = 2 * LoopPass
        BY <2>7, <4>1 DEF LoopPass
      <4>3. QED
        BY <2>6, <3>1, <4>2
    <3>2. CASE ~(step < Interval \div 8)
      <4>1. cycles' = cycles
        BY <1>5, <3>2 DEF Grow
      <4>2. QED
        BY <2>1, <4>1 DEF LoopPass
    <3>3. QED
      BY <3>1, <3>2
  <2>9. QED
    BY <2>1, <2>3, <2>8
<1> DEFINE i == (k - 1) * Interval
           m == (k - 1) * Longest
<1>9. /\ i \in Int /\ m \in Int /\ k * Interval = i + Interval /\ k * Longest = m + Longest
      /\ ((k + 1) - 1) * Interval = k * Interval /\ ((k + 1) - 1) * Longest = k * Longest
  BY <1>3, NextProduct DEF MeasureTypes
<1>10. t >= i /\ (FitsLasts => t <= m + paused)
  BY <1>6
<1> HIDE DEF step, spent, i, m
<1>11. CASE spent < Interval
  <2>1. pc' = "pass" /\ k' = k
    BY <1>5, <1>11
  <2>2. FitsLasts => real <= m + Interval + paused
    <3>1. SUFFICES ASSUME FitsLasts PROVE real <= m + Interval + paused
      OBVIOUS
    <3>2. spent = real - t /\ t <= m + paused
      BY <1>7, <1>8, <1>10, <3>1
    <3>3. QED
      BY <1>3, <1>6, <1>9, <1>11, <3>2 DEF MeasureTypes
  <2>3. real \in 0 .. real
    BY <1>3
  <2>4. QED
    BY <1>1, <1>4, <1>5, <1>6, <1>8, <2>1, <2>2, <2>3 DEF MeasureTime, Measuring, m
<1>12. CASE ~(spent < Interval)
  <2>1. real >= k * Interval
    BY <1>3, <1>6, <1>7, <1>9, <1>10, <1>12 DEF MeasureTypes
  <2>2. FitsLasts => real <= k * Longest + paused
    <3>1. SUFFICES ASSUME FitsLasts PROVE real <= k * Longest + paused
      OBVIOUS
    <3>2. real <= m + Interval + LoopPass + paused /\ LoopPass <= LongestPass
      BY <1>1, <1>2, <3>1 DEF MeasureTime, Measuring, m
    <3>3. LoopPass \in Nat
      BY <1>1, <1>3 DEF MeasureTypes, Measuring
    <3>4. QED
      BY <1>3, <1>9, <3>2, <3>3 DEF MeasureTypes
  <2>3. CASE pc' = "mark" /\ k' = k + 1
    <3>1. real' >= (k' - 1) * Interval' /\ (FitsLasts' => real' <= (k' - 1) * Longest' + paused')
      BY <1>1, <1>4, <1>9, <2>1, <2>2, <2>3
    <3>2. FitsLasts' => Interval' >= 0 /\ LoopPass' <= LongestPass'
      BY <1>4, <1>8
    <3>3. QED
      BY <2>3, <3>1, <3>2 DEF MeasureTime
  <2>4. CASE pc' = "done" /\ ~(k < Repeats)
    <3>1. k = Repeats
      BY <1>3, <2>4
    <3>2. real' >= Repeats' * Interval' /\ (FitsLasts' => real' <= Repeats' * Longest' + paused')
      BY <1>1, <1>4, <2>1, <2>2, <3>1
    <3>3. QED
      BY <2>4, <3>2 DEF MeasureTime, Measuring
  <2>5. QED
    BY <1>5, <1>12, <2>3, <2>4
<1>13. QED
  BY <1>11, <1>12

LEMMA LastsFaults ==
  ASSUME EnvInv, MeasureInv, MeasureTime, ProgramInv,
         \/ \E d \in Pauses : Preempt(d)
         \/ \E d \in Jumps : SetClock(d)
         \/ \E c \in Cores : Move(c)
  PROVE  MeasureTime'
<1>1. SUFFICES ASSUME call'.fn = "measure", set' = {} PROVE MeasureTime'
  BY DEF MeasureTime
<1>2. PICK d \in Nat : real' = real + d /\ paused' = paused + d
  BY <1>1, FaultTime DEF EnvInv
<1>3. UNCHANGED <<adj, set, call, pc, k, cycles, begin, end, results>> /\ pc # "done"
  BY <1>1, FaultTime DEF EnvInv, locals
<1>4. /\ MeasureTypes /\ real \in Nat /\ Word \in Nat /\ paused \in Nat
      /\ real' \in Nat /\ paused' \in Nat
      /\ pc \in Measuring /\ k \in Nat \ {0} /\ LoopPass \in Nat
  <2>1. call.fn = "measure"
    BY <1>1, <1>3
  <2>2. MeasureTypes /\ pc \in Measuring
    BY <1>3, <2>1, MeasureTyped DEF MeasureInv
  <2>3. real \in Nat /\ paused \in Nat /\ Word \in Nat
    BY <2>2, ConstantsAssumption DEF MeasureTypes
  <2>4. real' \in Nat /\ paused' \in Nat
    BY <1>2, <2>3
  <2>5. QED
    BY <2>2, <2>3, <2>4 DEF MeasureTypes
<1>5. /\ Interval' = Interval /\ Longest' = Longest /\ (FitsLasts' => FitsLasts)
      /\ Repeats' = Repeats /\ LongestPass' = LongestPass /\ LoopPass' = LoopPass
      /\ \A t : ClockAt(t)' = ClockAt(t)
  BY <1>2, <1>3, <1>4 DEF Interval, Longest, LongestPass, LoopPass, FitsLasts, ClockAt, Repeats
<1> DEFINE i == (k - 1) * Interval
           m == (k - 1) * Longest
<1>6. i \in Int /\ m \in Int
  BY <1>4, NextProduct DEF MeasureTypes
<1>7. /\ pc \in {"mark", "mark_clock"} =>
           /\ real >= i
           /\ FitsLasts => real <= m + paused
      /\ pc \in {"pass", "pass_clock"} =>
           \E t \in 0 .. real :
             /\ begin.sys = ClockAt(t) /\ t >= i
             /\ FitsLasts => t <= m + paused
      /\ FitsLasts /\ pc = "pass" =>
           /\ real <= m + Interval + paused
           /\ \E s \in 0 .. real : end.sys = ClockAt(s)
      /\ FitsLasts /\ pc = "pass_clock" =>
           /\ real <= m + Interval + LoopPass + paused
           /\ \E s \in 0 .. real : end.sys = ClockAt(s) /\ s + LoopPass <= real
      /\ FitsLasts /\ pc \in Measuring => Interval >= 0 /\ LoopPass <= LongestPass
  BY <1>1, <1>3 DEF MeasureTime
<1> HIDE DEF i, m
<1>8. \A t \in 0 .. real : /\ t \in 0 .. real'
                           /\ t <= m + paused => t <= m + paused'
                           /\ t + LoopPass <= real => t + LoopPass <= real'
  BY <1>2, <1>4, <1>6
<1>9. /\ real >= i => real' >= i
      /\ real <= m + paused => real' <= m + paused'
      /\ real <= m + Interval + paused => real' <= m + Interval + paused'
      /\ real <= m + Interval + LoopPass + paused => real' <= m + Interval + LoopPass + paused'
  BY <1>2, <1>4, <1>6 DEF MeasureTypes
<1>10. pc \in {"pass", "pass_clock"} =>
         \E t \in 0 .. real' :
           /\ begin.sys = ClockAt(t) /\ t >= i
           /\ FitsLasts' => t <= m + paused'
  <2>1. SUFFICES ASSUME pc \in {"pass", "pass_clock"}
                 PROVE  \E t \in 0 .. real' :
                          /\ begin.sys = ClockAt(t) /\ t >= i
                          /\ FitsLasts' => t <= m + paused'
    OBVIOUS
  <2>2. PICK t \in 0 .. real :
          /\ begin.sys = ClockAt(t) /\ t >= i
          /\ FitsLasts => t <= m + paused
    BY <1>7, <2>1
  <2>3. QED
    BY <1>5, <1>8, <2>2
<1>11. FitsLasts' /\ pc = "pass" =>
         real' <= m + Interval + paused' /\ \E s \in 0 .. real' : end.sys = ClockAt(s)
  BY <1>5, <1>7, <1>8, <1>9
<1>12. FitsLasts' /\ pc = "pass_clock" =>
         /\ real' <= m + Interval + LoopPass + paused'
         /\ \E s \in 0 .. real' : end.sys = ClockAt(s) /\ s + LoopPass <= real'
  BY <1>5, <1>7, <1>8, <1>9
<1>13. QED
  BY <1>3, <1>5, <1>7, <1>9, <1>10, <1>11, <1>12 DEF MeasureTime, i, m

LEMMA LastsBegins ==
  ASSUME EnvInv, IdleInv, NEW c \in Calls,
         CallMeasure(c) \/ CallMark(c) \/ CallClock(c) \/ CallByIc(c) \/ CallDelay(c)
         \/ CallPerf(c) \/ CallByTsc(c)
  PROVE  MeasureTime'
<1>1. /\ pc = "idle" /\ call' \in CallArgs
      /\ UNCHANGED <<real, adj, set, paused, outer, results>>
      /\ call'.fn = "measure" =>
           \/ pc' = "done"
           \/ pc' = "mark" /\ k' = 1 /\ cycles' = 1 /\ call'.millis > 0
  BY CallEnv
<1>2. real' = 0 /\ paused' = 0 /\ results' = <<>>
  BY <1>1 DEF EnvInv, IdleInv
<1>3. Interval' \in Int
  <2>1. PICK x \in Int : x = call'.millis
    BY <1>1 DEF CallArgs
  <2>2. x * Milli \in Int
    BY ConstantsAssumption
  <2>3. (x * Milli) \div 4 \in Int
    BY <2>2
  <2>4. QED
    BY <2>1, <2>2, <2>3 DEF Interval
<1>4. PICK i \in Int : i = Interval'
  BY <1>3
<1>5. PICK l \in Int : l = LongestPass' /\ LoopTime <= l
  <2>1. i \div 4 \in Int /\ LoopTime \in Nat
    BY <1>4, ConstantsAssumption
  <2>2. LongestPass' = IF i \div 4 < LoopTime THEN LoopTime ELSE i \div 4
    BY <1>4 DEF LongestPass
  <2>3. QED
    BY <2>1, <2>2
<1>6. (1 - 1) * i = 0 /\ (1 - 1) * (i + l) = 0 /\ Longest' = i + l
  <2>1. (1 - 1) * i = 0 /\ (1 - 1) * (i + l) = 0
    BY ONLY i \in Int, l \in Int
  <2>2. Longest' = i + l
    BY <1>4, <1>5 DEF Longest
  <2>3. QED
    BY <2>1, <2>2
<1>7. call'.millis > 0 => i >= 0
  <2>1. PICK x \in Int : x = call'.millis
    BY <1>1 DEF CallArgs
  <2>2. PICK y \in Int : y = x * Milli
    BY ConstantsAssumption
  <2>3. x > 0 => y \in Nat
    BY <2>2, ConstantsAssumption
  <2>4. i \in {y, y \div 4}
    BY <1>4, <2>1, <2>2 DEF Interval
  <2>5. y \in Nat => y \div 4 \in Nat
    BY ONLY TRUE
  <2>6. QED
    BY <2>1, <2>3, <2>4, <2>5
<1>8. CASE call'.fn = "measure" /\ pc' = "done"
  BY <1>2, <1>8 DEF MeasureTime, Measuring
<1>9. CASE call'.fn = "measure" /\ pc' = "mark" /\ k' = 1 /\ cycles' = 1
                /\ call'.millis > 0
  <2>1. real' >= (k' - 1) * Interval' /\ real' <= (k' - 1) * Longest' + paused'
    <3>1. (k' - 1) * Interval' = 0 /\ (k' - 1) * Longest' = 0
      BY <1>4, <1>5, <1>6, <1>9
    <3>2. QED
      BY <1>2, <3>1
  <2>2. Interval' >= 0 /\ LoopPass' <= LongestPass'
    <3>1. 1 * LoopTime = LoopTime
      BY ConstantsAssumption
    <3>2. QED
      BY <1>4, <1>5, <1>7, <1>9, <3>1 DEF LoopPass
  <2>3. QED
    BY <1>9, <2>1, <2>2 DEF MeasureTime, Measuring
<1>10. CASE call'.fn # "measure"
  BY <1>10 DEF MeasureTime
<1>11. QED
  BY <1>1, <1>8, <1>9, <1>10

----------------------------------------------------------------------------
(* busy_loop_delay. *)

LEMMA LastsDelay ==
  ASSUME EnvInv, ProgramInv, DelayTime, Delay
  PROVE  DelayTime'
<1>1. /\ pc' = "spin_first" /\ begin' = [Blank EXCEPT !.sys = ClockAt(real)]
      /\ UNCHANGED <<real, adj, set, call>>
  BY DEF Delay, sys_precise_clock, env, clocks, history
<1>2. begin'.sys = ClockAt(real') /\ real' \in 0 .. real'
  BY <1>1 DEF Blank, EnvInv
<1>3. \A t : ClockAt(t)' = ClockAt(t)
  BY <1>1 DEF ClockAt
<1>4. QED
  BY <1>1, <1>2, <1>3 DEF DelayTime, Reading

LEMMA LastsSpin ==
  ASSUME EnvInv, ProgramInv, DelayTime, Spin
  PROVE  DelayTime'
<1> DEFINE spent == Minus(ClockAt(real), begin.sys)
<1>1. /\ pc \in {"spin_first", "spin"} /\ UNCHANGED <<adj, set, call, begin>>
      /\ \/ pc' = "done" /\ real' = real /\ spent \div Milli > call.millis
         \/ pc' = "msr_y" /\ call.fn = "perf"
         \/ pc' = "spin" /\ real' = real + BusyTime
  BY DEF Spin, Finish, sys_precise_clock, history
<1>2. SUFFICES ASSUME call.fn = "delay", set = {} PROVE DelayTime'
  BY <1>1 DEF DelayTime
<1>3. real \in Nat /\ adj \in 0 .. Word - 1 /\ cycles \in Nat /\ call.millis \in Int
  BY <1>1, <1>2 DEF EnvInv, CallArgs
<1>4. PICK t \in 0 .. real : begin.sys = ClockAt(t)
  BY <1>1, <1>2 DEF DelayTime
<1>5. \A u : ClockAt(u)' = ClockAt(u)
  BY <1>1 DEF ClockAt
<1>6. CASE pc' = "done" /\ real' = real /\ spent \div Milli > call.millis
  <2>1. spent \in 0 .. real - t
    <3>1. t \in Nat /\ t <= real
      BY <1>3
    <3>2. QED
      BY <1>3, <1>4, <3>1, Elapsed
  <2>2. spent \in Nat /\ spent <= real /\ Milli \in Nat \ {0}
    <3> HIDE DEF spent
    <3>1. QED
      BY <1>3, <2>1, ConstantsAssumption
  <2> HIDE DEF spent
  <2>3. PICK q \in Nat : q = spent \div Milli /\ q * Milli <= spent
    BY <2>2, DivBounds
  <2>4. PICK n \in Int : n = call.millis
    BY <1>3
  <2>5. n * Milli <= q * Milli /\ n * Milli \in Int /\ q * Milli \in Int
    <3>1. n <= q
      BY <1>6, <2>3, <2>4
    <3>2. (q - n) * Milli \in Nat
      BY <2>2, <3>1
    <3>3. QED
      BY <2>2, <3>2
  <2>6. real >= n * Milli
    BY <1>3, <2>2, <2>3, <2>5
  <2>7. QED
    BY <1>1, <1>6, <2>4, <2>6 DEF DelayTime, Reading
<1>7. CASE pc' = "spin" /\ real' = real + BusyTime
  <2>1. t \in 0 .. real'
    BY <1>3, <1>7, BusyTakesTime
  <2>2. QED
    BY <1>1, <1>4, <1>5, <1>7, <2>1 DEF DelayTime, Reading
<1>8. QED
  BY <1>1, <1>2, <1>6, <1>7

LEMMA DelayFaults ==
  ASSUME EnvInv, DelayTime,
         \/ \E d \in Pauses : Preempt(d)
         \/ \E d \in Jumps : SetClock(d)
         \/ \E c \in Cores : Move(c)
  PROVE  DelayTime'
<1>1. SUFFICES ASSUME call'.fn = "delay", set' = {} PROVE DelayTime'
  BY DEF DelayTime
<1>2. PICK d \in Nat : real' = real + d
  BY <1>1, FaultTime DEF EnvInv
<1>3. UNCHANGED <<adj, set, call, pc, begin>> /\ pc # "done"
  BY <1>1, FaultTime DEF EnvInv, locals
<1>4. \A t \in 0 .. real : t \in 0 .. real' /\ ClockAt(t)' = ClockAt(t)
  BY <1>2, <1>3 DEF EnvInv, ClockAt
<1>5. QED
  BY <1>1, <1>3, <1>4 DEF DelayTime

(* Both, by every step. *)
LEMMA MeasureDelayStep ==
  ASSUME IInv, EnvInv, MeasureTime, DelayTime, Next
  PROVE  MeasureTime' /\ DelayTime'
<1>1. ProgramInv /\ MeasureInv /\ IdleInv
  BY DEF IInv
<1>2. ASSUME NEW c \in Calls,
             CallMeasure(c) \/ CallMark(c) \/ CallClock(c) \/ CallByIc(c) \/ CallDelay(c)
             \/ CallPerf(c) \/ CallByTsc(c)
      PROVE  MeasureTime' /\ DelayTime'
  <2>1. call'.fn = "delay" => pc' = "delay"
    BY <1>2, CallEnv
  <2>2. DelayTime'
    BY <2>1 DEF DelayTime, Reading
  <2>3. QED
    BY <1>1, <1>2, <2>2, LastsBegins
<1>3. ASSUME Program PROVE MeasureTime' /\ DelayTime'
  <2>1. UNCHANGED call /\ pc # "done"
    BY <1>3, ProgramKeeps
  <2>2. MeasureTime'
    <3>1. CASE MarkTsc \/ MarkClock \/ Pass \/ PassClock
      BY <1>1, <3>1, LastsMarkTsc, LastsMarkClock, LastsPass, LastsPassClock
    <3>2. CASE ~(MarkTsc \/ MarkClock \/ Pass \/ PassClock)
      <4>1. pc \notin Measuring
        BY <1>3, <3>2 DEF Program, Calibrate, Calibrated, Run, Running, Delay, Spin, PerfFirst,
                         PerfClock, PerfSecond, PerfLast, Measuring
      <4>2. call.fn # "measure"
        BY <1>1, <2>1, <4>1 DEF MeasureInv
      <4>3. QED
        BY <2>1, <4>2 DEF MeasureTime
    <3>3. QED
      BY <3>1, <3>2
  <2>3. DelayTime'
    <3>1. CASE Delay \/ Spin
      BY <1>1, <3>1, LastsDelay, LastsSpin
    <3>2. CASE ~(Delay \/ Spin)
      <4>1. pc \notin Reading \/ pc \in {"msr_x", "clock_a", "msr_y", "clock_b"}
        BY <1>3, <3>2 DEF Program, MarkTsc, MarkClock, Pass, PassClock, Calibrate, Calibrated,
                         Run, Running, PerfFirst, PerfClock, PerfSecond, PerfLast, Reading
      <4>2. call.fn = "delay" => ~(set = {})
        BY <1>1, <2>1, <4>1 DEF DelayTime, ProgramInv
      <4>3. call.fn = "delay" => ~(set' = {})
        BY <1>1, <1>3, <4>2
        DEF Program, MarkTsc, MarkClock, Pass, PassClock, Calibrate, Calibrated, Run, Running,
            Delay, Spin, PerfFirst, PerfClock, PerfSecond, PerfLast, env, history
      <4>4. QED
        BY <2>1, <4>3 DEF DelayTime
    <3>3. QED
      BY <3>1, <3>2
  <2>4. QED
    BY <2>2, <2>3
<1>4. ASSUME \/ \E d \in Pauses : Preempt(d)
             \/ \E d \in Jumps : SetClock(d)
             \/ \E c \in Cores : Move(c)
      PROVE  MeasureTime' /\ DelayTime'
  BY <1>1, <1>4, LastsFaults, DelayFaults
<1>5. QED
  BY <1>2, <1>3, <1>4 DEF Next

----------------------------------------------------------------------------
(* cpu_clock_by_ic. *)

LEMMA EighthIs ==
  ASSUME EnvInv, call.fn = "ic", call.millis > 0
  PROVE  Eighth \in Nat \ {0}
<1>1. PICK n \in Nat \ {0} : n = call.millis
  BY DEF EnvInv, CallArgs
<1>2. n * Milli \in Nat /\ n * Milli >= 8
  <2>1. n * Milli >= Milli
    <3>1. (n - 1) * Milli \in Nat
      BY ConstantsAssumption
    <3>2. n * Milli = (n - 1) * Milli + Milli
      BY ConstantsAssumption
    <3>3. QED
      BY <3>1, <3>2, ConstantsAssumption
  <2>2. QED
    BY <2>1, ConstantsAssumption
<1>3. PICK m \in Nat : m = n * Milli /\ m >= 8
  BY <1>2
<1>4. m \div 8 \in Nat \ {0}
  BY <1>3
<1>5. QED
  BY <1>1, <1>3, <1>4 DEF Eighth

LEMMA MultiplierIs ==
  /\ adjust_march_ic_multiplier[1] \in Nat \ {0}
  /\ adjust_march_ic_multiplier[2] \in Nat \ {0}
BY DEF adjust_march_ic_multiplier

LEMMA ResultIs ==
  ASSUME cycles \in Nat, outer \in Nat, NEW n \in Nat, NEW t \in Nat \ {0}
  PROVE  IcResult(n, t) \in Nat
<1> DEFINE a == adjust_march_ic_multiplier[1]
           b == adjust_march_ic_multiplier[2]
<1>1. a \in Nat \ {0} /\ b \in Nat \ {0}
  BY MultiplierIs
<1> HIDE DEF a, b
<1>2. PICK w \in Nat : w = (cycles * SseWork + SseSetup) * outer
  <2>1. cycles * SseWork \in Nat
    BY ConstantsAssumption
  <2>2. cycles * SseWork + SseSetup \in Nat
    BY <2>1, ConstantsAssumption
  <2>3. QED
    BY <2>2
<1>3. w * a \in Nat
  BY <1>1
<1>4. (w * a) * n \in Nat /\ t * b \in Nat \ {0}
  BY <1>1, <1>3
<1>5. ((w * a) * n) \div (t * b) \in Nat
  BY <1>4, DivBounds
<1>6. QED
  BY <1>2, <1>5 DEF IcResult, a, b

(* A run that is over has a result. *)
LEMMA RunResult ==
  ASSUME EnvInv, IcInv, call.fn = "ic", Running,
         ~(Minus(ClockAt(real'), begin.sys) < Eighth * 8)
  PROVE  /\ Minus(ClockAt(real'), begin.sys) \in Nat \ {0}
         /\ IcResult(count', Minus(ClockAt(real'), begin.sys)) \in Nat
<1> DEFINE spent == Minus(ClockAt(real'), begin.sys)
<1>1. pc = "running" /\ count' = count + 1 /\ UNCHANGED <<cycles, outer>>
  BY DEF Running
<1>2. /\ id \in CpuIds /\ cycles \in Nat \ {0} /\ outer \in Nat \ {0}
      /\ call.millis > 0 /\ count \in Nat
  BY <1>1 DEF IcInv
<1>3. Eighth \in Nat \ {0}
  BY <1>2, EighthIs
<1>4. count' \in Nat
  BY <1>1, <1>2
<1>5. spent \in Nat \ {0}
  <2>1. spent >= Eighth * 8 \/ spent \notin Int
    BY <1>3
  <2>2. spent \in Int
    <3>1. real' + adj \in Int
      <4>1. SseTime \in Nat /\ real' = real + SseTime
        BY <1>2, PassTime DEF Running
      <4>2. QED
        BY <4>1 DEF EnvInv
    <3>2. ClockAt(real') \in Int
      BY <3>1, WordRange, ConstantsAssumption DEF ClockAt
    <3>3. begin.sys \in Int
      BY <1>1 DEF IcInv
    <3>4. ClockAt(real') - begin.sys \in Int
      BY <3>2, <3>3
    <3>5. QED
      BY <3>4, WordRange, ConstantsAssumption DEF Minus
  <2>3. QED
    BY <1>3, <2>1, <2>2
<1> HIDE DEF spent
<1>6. QED
  BY <1>2, <1>4, <1>5, ResultIs DEF spent

LEMMA IcCalibrate ==
  ASSUME EnvInv, ProgramInv, IcInv, Calibrate \/ Run
  PROVE  IcInv'
<1>1. /\ pc \in {"calibrate", "run"}
      /\ pc = "calibrate" => pc' = "calibrated"
      /\ pc = "run" => pc' = "running" /\ UNCHANGED <<cycles, outer>> /\ count' = 0
      /\ begin' = [Blank EXCEPT !.sys = ClockAt(real)]
      /\ cycles' \in {cycles, cycles * 2} /\ outer' \in {outer, outer * 2}
      /\ UNCHANGED <<id, call, k, results>>
  BY DEF Calibrate, Longer, Run, sys_precise_clock, env
<1>2. call.fn = "ic"
  BY <1>1 DEF ProgramInv
<1>3. /\ id \in CpuIds /\ cycles \in Nat \ {0} /\ outer \in Nat \ {0}
      /\ call.millis > 0 /\ call.runs > 0
  BY <1>1, <1>2 DEF IcInv
<1>4. cycles' \in Nat \ {0} /\ outer' \in Nat \ {0}
  BY <1>1, <1>3
<1>5. begin'.sys \in Nat
  <2>1. real + adj \in Int
    BY DEF EnvInv
  <2>2. ClockAt(real) \in Nat
    BY <2>1, WordRange, ConstantsAssumption DEF ClockAt
  <2>3. QED
    BY <1>1, <2>2 DEF Blank
<1>6. QED
  BY <1>1, <1>2, <1>3, <1>4, <1>5 DEF IcInv, Calibrating, Runs

LEMMA IcCalibrated ==
  ASSUME EnvInv, ProgramInv, IcInv, Calibrated
  PROVE  IcInv'
<1>1. /\ pc = "calibrated"
      /\ pc' = "calibrate" \/ (pc' = "run" /\ k' = 1)
      /\ UNCHANGED <<id, call, cycles, outer, results>>
  BY DEF Calibrated
<1>2. call.fn = "ic"
  BY <1>1 DEF ProgramInv
<1>3. /\ id \in CpuIds /\ cycles \in Nat \ {0} /\ outer \in Nat \ {0}
      /\ call.millis > 0 /\ call.runs > 0 /\ results = <<>>
  BY <1>1, <1>2 DEF IcInv, Calibrating
<1>4. call.runs \in Int
  BY <1>2 DEF EnvInv, CallArgs
<1>5. pc' \in Runs => k' \in 1 .. call.runs /\ Len(results) = k' - 1 /\ results \in Seq(Int)
  <2>1. Len(<<>>) = 0 /\ <<>> \in Seq(Int)
    OBVIOUS
  <2>2. QED
    BY <1>1, <1>3, <1>4, <2>1 DEF Runs
<1>6. QED
  BY <1>1, <1>2, <1>3, <1>5 DEF IcInv, Calibrating, Runs

LEMMA IcRunning ==
  ASSUME EnvInv, ProgramInv, IcInv, Running
  PROVE  IcInv'
<1> DEFINE spent == Minus(ClockAt(real'), begin.sys)
           value == Append(results, IcResult(count', spent))
<1>1. /\ pc = "running" /\ count' = count + 1
      /\ UNCHANGED <<id, call, cycles, outer, begin>>
      /\ \/ spent < Eighth * 8 /\ UNCHANGED <<pc, k, results, ret>>
         \/ /\ ~(spent < Eighth * 8) /\ results' = value
            /\ \/ k < call.runs /\ pc' = "run" /\ k' = k + 1
               \/ ~(k < call.runs) /\ pc' = "done" /\ ret' = MaxOf(value) /\ k' = k
  BY DEF Running, Finish
<1>2. call.fn = "ic"
  BY <1>1 DEF ProgramInv
<1>3. /\ id \in CpuIds /\ cycles \in Nat \ {0} /\ outer \in Nat \ {0}
      /\ call.millis > 0 /\ call.runs > 0 /\ count \in Nat /\ begin.sys \in Nat
      /\ k \in 1 .. call.runs /\ Len(results) = k - 1 /\ results \in Seq(Int)
  BY <1>1, <1>2 DEF IcInv, Runs
<1>4. call.runs \in Int
  BY <1>2 DEF EnvInv, CallArgs
<1>5. CASE spent < Eighth * 8 /\ UNCHANGED <<pc, k, results, ret>>
  <2>1. count' \in Nat
    BY <1>1, <1>3
  <2>2. QED
    BY <1>1, <1>2, <1>3, <1>5, <2>1 DEF IcInv, Calibrating, Runs
<1>6. CASE ~(spent < Eighth * 8)
  <2>1. IcResult(count', spent) \in Int
    BY <1>2, <1>6, RunResult
  <2> HIDE DEF spent
  <2>2. value \in Seq(Int) /\ Len(value) = k
    <3>1. PICK x \in Int : x = IcResult(count', spent)
      BY <2>1
    <3>2. Append(results, x) \in Seq(Int) /\ Len(Append(results, x)) = k
      BY <1>3, <1>4
    <3>3. QED
      BY <3>1, <3>2
  <2> HIDE DEF value
  <2>3. CASE k < call.runs /\ pc' = "run" /\ k' = k + 1
    <3>1. k' \in 1 .. call.runs /\ Len(results') = k' - 1 /\ results' \in Seq(Int)
      BY <1>1, <1>3, <1>4, <1>6, <2>2, <2>3
    <3>2. QED
      BY <1>1, <1>2, <1>3, <2>3, <3>1 DEF IcInv, Calibrating, Runs
  <2>4. CASE ~(k < call.runs) /\ pc' = "done" /\ ret' = MaxOf(value)
    <3>1. Len(results') = call.runs /\ results' \in Seq(Int) /\ ret' = MaxOf(results')
      BY <1>1, <1>3, <1>4, <1>6, <2>2, <2>4
    <3>2. QED
      BY <1>1, <1>2, <1>3, <2>4, <3>1 DEF IcInv, Calibrating, Runs
  <2>5. QED
    BY <1>1, <1>6, <2>3, <2>4
<1>7. QED
  BY <1>1, <1>5, <1>6

LEMMA IcBegins ==
  ASSUME EnvInv, IdleInv, NEW c \in Calls,
         CallMeasure(c) \/ CallMark(c) \/ CallClock(c) \/ CallByIc(c) \/ CallDelay(c)
         \/ CallPerf(c) \/ CallByTsc(c)
  PROVE  IcInv'
<1>1. /\ pc = "idle" /\ UNCHANGED <<outer, results>>
      /\ call'.fn = "ic" => CallByIc(c)
  BY CallEnv
<1>2. outer' = 1 /\ results' = <<>>
  BY <1>1 DEF EnvInv, IdleInv
<1>3. SUFFICES ASSUME call'.fn = "ic", CallByIc(c) PROVE IcInv'
  BY <1>1 DEF IcInv
<1>4. /\ call' = c /\ id' \in CpuIds
      /\ \/ pc' = "done"
         \/ /\ pc' = "calibrate" /\ cycles' = InnerStart
            /\ ~(c.millis <= 0) /\ ~(c.runs <= 0)
  BY <1>3 DEF CallByIc, Begin, Finish
<1>5. c.millis \in Int /\ c.runs \in Int
  BY ConstantsAssumption DEF CallArgs
<1>6. QED
  BY <1>2, <1>3, <1>4, <1>5, ConstantsAssumption DEF IcInv, Calibrating, Runs

LEMMA IcStep ==
  ASSUME IInv, EnvInv, IcInv, Next
  PROVE  IcInv'
<1>1. ProgramInv /\ IdleInv
  BY DEF IInv
<1>2. ASSUME Program PROVE IcInv'
  <2>1. CASE Calibrate \/ Calibrated \/ Run \/ Running
    BY <1>1, <2>1, IcCalibrate, IcCalibrated, IcRunning
  <2>2. CASE ~(Calibrate \/ Calibrated \/ Run \/ Running)
    <3>1. pc \notin Calibrating \union Runs \union {"done"} /\ UNCHANGED call
      BY <1>2, <2>2, ProgramKeeps
      DEF Program, MarkTsc, MarkClock, Pass, PassClock, Delay, Spin, PerfFirst, PerfClock,
          PerfSecond, PerfLast, Calibrating, Runs
    <3>2. QED
      BY <3>1 DEF IcInv
  <2>3. QED
    BY <2>1, <2>2
<1>3. ASSUME \/ \E d \in Pauses : Preempt(d)
             \/ \E d \in Jumps : SetClock(d)
             \/ \E c \in Cores : Move(c)
      PROVE  IcInv'
  BY <1>3 DEF Preempt, SetClock, Move, Fault, locals, IcInv
<1>4. QED
  BY <1>1, <1>2, <1>3, IcBegins DEF Next

(* What the calibration and the runs are computed with.                    *)
IcTypes ==
  /\ real \in Nat /\ adj \in 0 .. Word - 1 /\ paused \in Nat /\ Word \in Nat \ {0}
  /\ cycles \in Nat \ {0} /\ outer \in Nat \ {0}
  /\ Eighth \in Nat \ {0} /\ Denom \in Nat \ {0} /\ SseTime \in Nat
  /\ Numer(cycles, outer) \in Nat \ {0} /\ SseTime = Numer(cycles, outer) \div Denom
  /\ pc \in Runs => k \in Nat \ {0} /\ k <= call.runs /\ call.runs \in Nat

LEMMA IcTyped ==
  ASSUME EnvInv, IcInv, call.fn = "ic", pc \in Calibrating \union Runs
  PROVE  IcTypes
<1>1. /\ id \in CpuIds /\ cycles \in Nat \ {0} /\ outer \in Nat \ {0} /\ call.millis > 0
      /\ pc \in Runs => k \in 1 .. call.runs
  BY DEF IcInv, Calibrating, Runs
<1>2. /\ Denom \in Nat \ {0} /\ Numer(cycles, outer) \in Nat \ {0} /\ SseTime \in Nat
      /\ SseTime = Numer(cycles, outer) \div Denom
  BY <1>1, PassTime
<1>3. Eighth \in Nat \ {0}
  BY <1>1, EighthIs
<1>4. call.runs \in Int
  BY DEF EnvInv, CallArgs
<1>5. pc \in Runs => k \in Nat \ {0} /\ k <= call.runs /\ call.runs \in Nat
  BY <1>1, <1>4
<1>6. QED
  BY <1>1, <1>2, <1>3, <1>5, ConstantsAssumption DEF IcTypes, EnvInv

LEMMA TimeCalibrate ==
  ASSUME EnvInv, ProgramInv, IcTime, Calibrate \/ Run
  PROVE  IcTime'
<1>1. /\ pc \in {"calibrate", "run"}
      /\ pc = "calibrate" => pc' = "calibrated"
      /\ pc = "run" => pc' = "running" /\ k' = k
      /\ begin' = [Blank EXCEPT !.sys = ClockAt(real)]
      /\ UNCHANGED <<real, adj, set, call>>
  BY DEF Calibrate, Run, sys_precise_clock, env, clocks, history
<1>2. begin'.sys = ClockAt(real) /\ real \in 0 .. real
  BY <1>1 DEF Blank, EnvInv
<1>3. Eighth' = Eighth /\ \A t : ClockAt(t)' = ClockAt(t)
  BY <1>1 DEF Eighth, ClockAt
<1>4. SUFFICES ASSUME call.fn = "ic", set = {} PROVE IcTime'
  BY <1>1 DEF IcTime
<1>5. pc = "run" => real >= (k - 1) * (8 * Eighth)
  BY <1>4 DEF IcTime
<1>6. QED
  BY <1>1, <1>2, <1>3, <1>5 DEF IcTime

LEMMA TimeCalibrated ==
  ASSUME EnvInv, ProgramInv, IcInv, IcTime, Calibrated
  PROVE  IcTime'
<1>1. /\ pc = "calibrated" /\ real' = real + SseTime
      /\ pc' = "calibrate" \/ (pc' = "run" /\ k' = 1)
      /\ UNCHANGED <<adj, set, call>>
  BY DEF Calibrated, history
<1>2. call.fn = "ic"
  BY <1>1 DEF ProgramInv
<1>3. IcTypes
  BY <1>1, <1>2, IcTyped DEF Calibrating
<1>4. PICK e \in Nat : e = Eighth /\ Eighth' = e
  BY <1>1, <1>3 DEF IcTypes, Eighth
<1>5. real' >= 0 /\ (1 - 1) * (8 * e) = 0
  BY <1>1, <1>3, <1>4 DEF IcTypes
<1>6. pc' = "run" => real' >= (k' - 1) * (8 * Eighth')
  BY <1>1, <1>4, <1>5
<1>7. QED
  BY <1>1, <1>6 DEF IcTime

LEMMA TimeRunning ==
  ASSUME EnvInv, ProgramInv, IcInv, IcTime, Running
  PROVE  IcTime'
<1> DEFINE spent == Minus(ClockAt(real'), begin.sys)
           e == 8 * Eighth
<1>1. /\ pc = "running" /\ real' = real + SseTime
      /\ UNCHANGED <<adj, set, call, begin>>
      /\ \/ spent < Eighth * 8 /\ UNCHANGED <<pc, k>>
         \/ ~(spent < Eighth * 8) /\ pc' = "run" /\ k' = k + 1
         \/ ~(spent < Eighth * 8) /\ pc' = "done" /\ ~(k < call.runs)
  BY DEF Running, Finish, history
<1>2. call.fn = "ic"
  BY <1>1 DEF ProgramInv
<1>3. IcTypes /\ k \in Nat \ {0} /\ k <= call.runs /\ call.runs \in Nat
  BY <1>1, <1>2, IcTyped DEF Runs, IcTypes
<1>4. SUFFICES ASSUME set = {} PROVE IcTime'
  BY <1>1 DEF IcTime
<1>5. PICK t \in 0 .. real : begin.sys = ClockAt(t) /\ t >= (k - 1) * e
  BY <1>1, <1>2, <1>4 DEF IcTime
<1>6. real' \in Nat /\ real <= real' /\ real \in Nat /\ adj \in 0 .. Word - 1
  BY <1>1, <1>3 DEF IcTypes
<1>7. t \in Nat /\ t <= real' /\ t \in 0 .. real'
  BY <1>5, <1>6
<1>8. spent \in 0 .. real' - t
  BY <1>5, <1>6, <1>7, Elapsed
<1>9. e \in Nat /\ e = Eighth * 8 /\ e' = e /\ \A u : ClockAt(u)' = ClockAt(u)
  BY <1>1, <1>3 DEF IcTypes, Eighth, ClockAt
<1>10. /\ k * e \in Int /\ (k - 1) * e \in Int /\ k * e = (k - 1) * e + e
       /\ ((k + 1) - 1) * e = k * e
  <2> HIDE DEF e
  <2>1. QED
    BY <1>3, <1>9, NextProduct
<1> DEFINE m == (k - 1) * e
           n == k * e
<1>11. ~(spent < e) => real' >= n
  <2>1. PICK x \in Int, r \in Nat : x = spent /\ r = real'
    BY <1>6, <1>8
  <2>2. x <= r - t
    BY <1>6, <1>7, <1>8, <2>1
  <2>3. m \in Int /\ n = m + e /\ t >= m /\ n \in Int /\ e \in Nat /\ t \in Nat
    BY <1>5, <1>7, <1>9, <1>10
  <2> HIDE DEF spent, m, n, e
  <2>4. x >= e => r >= n
    BY ONLY <2>2, <2>3
  <2>5. QED
    BY <2>1, <2>3, <2>4
<1> HIDE DEF spent
<1>12. CASE spent < Eighth * 8 /\ UNCHANGED <<pc, k>>
  <2>1. \E u \in 0 .. real' : begin'.sys = ClockAt(u)' /\ u >= (k' - 1) * e'
    BY <1>1, <1>5, <1>7, <1>9, <1>12
  <2>2. QED
    BY <1>1, <1>12, <2>1 DEF IcTime
<1>13. CASE ~(spent < Eighth * 8) /\ pc' = "run" /\ k' = k + 1
  <2>1. real' >= (k' - 1) * e'
    BY <1>9, <1>10, <1>11, <1>13
  <2>2. QED
    BY <1>13, <2>1 DEF IcTime
<1>14. CASE ~(spent < Eighth * 8) /\ pc' = "done" /\ ~(k < call.runs)
  <2>1. k = call.runs
    BY <1>3, <1>14
  <2>2. real' >= call'.runs * e'
    BY <1>1, <1>9, <1>11, <1>14, <2>1
  <2>3. QED
    BY <1>14, <2>2 DEF IcTime
<1>15. QED
  BY <1>1, <1>12, <1>13, <1>14

LEMMA TimeFaults ==
  ASSUME EnvInv, IcInv, IcTime,
         \/ \E d \in Pauses : Preempt(d)
         \/ \E d \in Jumps : SetClock(d)
         \/ \E c \in Cores : Move(c)
  PROVE  IcTime'
<1>1. SUFFICES ASSUME call'.fn = "ic", set' = {} PROVE IcTime'
  BY DEF IcTime
<1>2. PICK d \in Nat : real' = real + d
  BY <1>1, FaultTime DEF EnvInv
<1>3. UNCHANGED <<adj, set, call, pc, k, begin, results>> /\ pc # "done"
  BY <1>1, FaultTime DEF EnvInv, locals
<1>4. IcTypes
  BY <1>1, <1>3, IcTyped DEF IcInv
<1>5. Eighth' = Eighth /\ \A t \in 0 .. real : t \in 0 .. real' /\ ClockAt(t)' = ClockAt(t)
  BY <1>2, <1>3, <1>4 DEF IcTypes, ClockAt, Eighth
<1>6. pc = "run" => real' >= (k - 1) * (8 * Eighth)
  <2>1. SUFFICES ASSUME pc = "run" PROVE real' >= (k - 1) * (8 * Eighth)
    OBVIOUS
  <2>2. PICK n \in Int : n = (k - 1) * (8 * Eighth)
    <3>1. k \in Int /\ 8 * Eighth \in Int
      BY <1>4, <2>1 DEF IcTypes, Runs
    <3>2. QED
      BY <3>1, NextProduct
  <2>3. real >= n
    BY <1>1, <1>3, <2>1, <2>2 DEF IcTime
  <2>4. real' >= n
    BY <1>2, <1>4, <2>3 DEF IcTypes
  <2>5. QED
    BY <2>2, <2>4
<1>7. QED
  BY <1>1, <1>3, <1>5, <1>6 DEF IcTime

LEMMA TimeStep ==
  ASSUME IInv, EnvInv, IcInv, IcTime, Next
  PROVE  IcTime'
<1>1. ProgramInv /\ IdleInv
  BY DEF IInv
<1>2. ASSUME NEW c \in Calls,
             CallMeasure(c) \/ CallMark(c) \/ CallClock(c) \/ CallByIc(c) \/ CallDelay(c)
             \/ CallPerf(c) \/ CallByTsc(c)
      PROVE  IcTime'
  <2>1. /\ pc = "idle" /\ results' = results
        /\ call'.fn = "ic" => CallByIc(c)
    BY <1>2, CallEnv
  <2>2. results' = <<>>
    BY <1>1, <2>1 DEF IdleInv
  <2>3. call'.fn = "ic" => pc' \in {"done", "calibrate"}
    BY <2>1 DEF CallByIc, Finish
  <2>4. QED
    BY <2>2, <2>3 DEF IcTime
<1>3. ASSUME Program PROVE IcTime'
  <2>1. CASE Calibrate \/ Calibrated \/ Run \/ Running
    BY <1>1, <2>1, TimeCalibrate, TimeCalibrated, TimeRunning
  <2>2. CASE ~(Calibrate \/ Calibrated \/ Run \/ Running)
    <3>1. pc \notin Calibrating \union Runs \union {"done"} /\ UNCHANGED call
      BY <1>3, <2>2, ProgramKeeps
      DEF Program, MarkTsc, MarkClock, Pass, PassClock, Delay, Spin, PerfFirst, PerfClock,
          PerfSecond, PerfLast, Calibrating, Runs
    <3>2. call.fn # "ic"
      BY <3>1 DEF IcInv
    <3>3. QED
      BY <3>1, <3>2 DEF IcTime
  <2>3. QED
    BY <2>1, <2>2
<1>4. QED
  BY <1>1, <1>2, <1>3, TimeFaults DEF Next

----------------------------------------------------------------------------
(* The arithmetic of the calibration: K is FirstWork, s SseSetup, n and d  *)
(* the instructions of a pass over what it takes to execute one.           *)

LEMMA QuotientBelow ==
  ASSUME NEW n \in Nat, NEW d \in Nat \ {0}, NEW e \in Nat
  PROVE  /\ n \div d \in Nat /\ d * (n \div d) <= n
         /\ n \div d < e <=> n < d * e
<1> DEFINE q == n \div d
<1>1. q \in Nat /\ n = d * q + (n % d) /\ n % d \in 0 .. d - 1
  <2>1. n = d * q + (n % d) /\ n % d \in 0 .. d - 1
    BY Division
  <2>2. q \in Nat
    BY DivBounds
  <2>3. QED
    BY <2>1, <2>2
<1> HIDE DEF q
<1>2. PICK r \in 0 .. d - 1 : n = d * q + r
  BY <1>1
<1>3. PICK p \in Nat : p = d * q
  BY <1>1
<1>4. p <= n
  BY <1>1, <1>2, <1>3
<1>5. ASSUME q < e PROVE n < d * e
  <2>1. q + 1 <= e
    BY <1>1, <1>5
  <2>2. PICK x \in Nat : x = e - (q + 1)
    BY <1>1, <2>1
  <2>3. d * e = d * q + d + d * x /\ d * x \in Nat
    BY <1>1, <2>2
  <2>4. QED
    BY <1>2, <1>3, <2>3
<1>6. ASSUME ~(q < e) PROVE ~(n < d * e)
  <2>1. PICK x \in Nat : x = q - e
    BY <1>1, <1>6
  <2>2. d * q = d * e + d * x /\ d * x \in Nat /\ d * e \in Nat
    BY <1>1, <2>1
  <2>3. QED
    BY <1>2, <1>3, <2>2
<1>7. QED
  BY <1>1, <1>3, <1>4, <1>5, <1>6 DEF q

(* A pass twice as long takes less than twice the time a shorter one may.  *)
LEMMA TwiceAsLong ==
  ASSUME NEW n \in Nat, NEW m \in Nat, NEW d \in Nat \ {0}, NEW e \in Nat,
         n \div d < e, m <= 2 * n
  PROVE  m \div d < 2 * e
<1>1. n < d * e
  BY QuotientBelow
<1>2. d * (2 * e) = 2 * (d * e) /\ d * e \in Nat
  OBVIOUS
<1>3. m < d * (2 * e)
  BY <1>1, <1>2
<1>4. 2 * e \in Nat
  OBVIOUS
<1>5. QED
  BY <1>3, <1>4, QuotientBelow

(* The instructions of a pass of c cycles and of one of twice as many.     *)
LEMMA DoubledCycles ==
  ASSUME NEW K \in Nat, NEW s \in Nat, NEW w \in Nat, NEW q \in Nat, K <= w \/ s = 0
  PROVE  (2 * K + s) * ((w + s) * q) <= (K + s) * ((2 * w + s) * q)
<1>1. (2 * K + s) * (w + s) <= (K + s) * (2 * w + s)
  <2>1. PICK a \in Nat, b \in Nat, c \in Nat, f \in Nat :
          a = K * w /\ b = K * s /\ c = s * w /\ f = s * s
    OBVIOUS
  <2>2. (2 * K + s) * (w + s) = 2 * a + 2 * b + c + f
    BY <2>1
  <2>3. (K + s) * (2 * w + s) = 2 * a + b + 2 * c + f
    BY <2>1
  <2>4. b <= c
    <3>1. CASE s = 0
      BY <2>1, <3>1
    <3>2. CASE K <= w
      <4>1. (w - K) * s \in Nat
        BY <3>2
      <4>2. c - b = (w - K) * s
        BY <2>1
      <4>3. QED
        BY <4>1, <4>2
    <3>3. QED
      BY <3>1, <3>2
  <2>5. QED
    BY <2>2, <2>3, <2>4
<1>2. PICK x \in Nat, y \in Nat : x = (2 * K + s) * (w + s) /\ y = (K + s) * (2 * w + s)
  <2>1. (2 * K + s) \in Nat /\ (w + s) \in Nat /\ (K + s) \in Nat /\ (2 * w + s) \in Nat
    OBVIOUS
  <2>2. QED
    BY <2>1
<1>3. (2 * K + s) * ((w + s) * q) = x * q /\ (K + s) * ((2 * w + s) * q) = y * q
  <2>1. \A i, j \in Nat : i * (j * q) = (i * j) * q
    OBVIOUS
  <2>2. (2 * K + s) \in Nat /\ (w + s) \in Nat /\ (K + s) \in Nat /\ (2 * w + s) \in Nat
    OBVIOUS
  <2>3. QED
    BY <1>2, <2>1, <2>2
<1>4. (y - x) * q \in Nat /\ y * q - x * q = (y - x) * q /\ x * q \in Nat /\ y * q \in Nat
  BY <1>1, <1>2
<1>5. QED
  BY <1>3, <1>4

(* All passes of the calibration, when the last one took less than 2 * e.  *)
LEMMA AllPasses ==
  ASSUME NEW K \in Nat \ {0}, NEW s \in Nat, NEW n \in Nat, NEW d \in Nat \ {0},
         NEW e \in Nat, NEW r \in Int,
         K * (d * r) <= (K + s) * n, n \div d < 2 * e, s * e <= K
  PROVE  r <= 2 * e + 1
<1>1. n < d * (2 * e)
  <2>1. 2 * e \in Nat
    OBVIOUS
  <2>2. QED
    BY <2>1, QuotientBelow
<1>2. SUFFICES ASSUME r >= 2 * e + 2 PROVE FALSE
  OBVIOUS
<1>3. PICK f \in Nat : f = d * e
  OBVIOUS
<1>4. n < 2 * f
  BY <1>1, <1>3
<1>5. (K + s) * n < 2 * (K * f) + 2 * (s * f)
  <2>1. PICK x \in Nat \ {0} : x = 2 * f - n
    <3>1. 2 * f - n \in Nat \ {0}
      BY <1>4
    <3>2. QED
      BY <3>1
  <2>2. (K + s) * x \in Nat \ {0}
    BY <2>1
  <2>3. (K + s) * n = 2 * (K * f) + 2 * (s * f) - (K + s) * x
    BY <2>1
  <2>4. K * f \in Nat /\ s * f \in Nat
    OBVIOUS
  <2>5. QED
    BY <2>2, <2>3, <2>4
<1>6. s * f <= K * d
  <2>1. s * f = (s * e) * d
    BY <1>3
  <2>2. PICK y \in Nat : y = s * e
    OBVIOUS
  <2>3. (K - y) * d \in Nat /\ K * d - y * d = (K - y) * d /\ K * d \in Nat /\ y * d \in Nat
    BY <2>2
  <2>4. QED
    BY <2>1, <2>2, <2>3
<1>7. K * (d * r) >= 2 * (K * f) + 2 * (K * d)
  <2>1. PICK z \in Nat : r = 2 * e + 2 + z
    <3>1. r - (2 * e + 2) \in Nat
      BY <1>2
    <3>2. QED
      BY <3>1
  <2>2. d * r = 2 * f + 2 * d + d * z
    BY <1>3, <2>1
  <2>3. PICK u \in Nat : u = d * z
    BY <2>1
  <2>4. K * (d * r) = 2 * (K * f) + 2 * (K * d) + K * u
    BY <2>2, <2>3
  <2>5. K * u \in Nat /\ K * f \in Nat /\ K * d \in Nat
    BY <2>3
  <2>6. QED
    BY <2>4, <2>5
<1>8. PICK a \in Nat, b \in Nat, c \in Nat : a = K * f /\ b = s * f /\ c = K * d
  OBVIOUS
<1>9. PICK g \in Int, h \in Int : g = K * (d * r) /\ h = (K + s) * n
  OBVIOUS
<1>10. g <= h /\ h < 2 * a + 2 * b /\ b <= c /\ g >= 2 * a + 2 * c
  BY <1>5, <1>6, <1>7, <1>8, <1>9
<1>11. QED
  BY ONLY <1>10, a \in Nat, b \in Nat, c \in Nat, g \in Int, h \in Int

(* One more pass. *)
LEMMA OnePassMore ==
  ASSUME NEW K \in Nat, NEW s \in Nat, NEW n \in Nat, NEW d \in Nat \ {0}, NEW r \in Int,
         NEW x \in Nat, K * (d * r) <= (K + s) * n, x = n \div d
  PROVE  K * (d * (r + x)) <= (2 * K + s) * n
<1>1. d * x <= n
  BY QuotientBelow
<1>2. PICK y \in Nat : y = d * x
  OBVIOUS
<1>3. K * y <= K * n /\ K * y \in Nat /\ K * n \in Nat
  <2>1. K * (n - y) \in Nat
    BY <1>1, <1>2
  <2>2. K * n - K * y = K * (n - y)
    BY <1>2
  <2>3. QED
    BY <1>2, <2>1, <2>2
<1>4. PICK f \in Int : f = d * r
  OBVIOUS
<1>5. d * (r + x) = f + y
  BY <1>2, <1>4
<1>6. K * (d * (r + x)) = K * f + K * y
  BY <1>5
<1>7. (2 * K + s) * n = (K + s) * n + K * n
  OBVIOUS
<1>8. K * f <= (K + s) * n /\ K * f \in Int /\ (K + s) * n \in Int
  BY <1>4
<1>9. QED
  BY <1>3, <1>6, <1>7, <1>8

(* Numer for a pass of twice the cycles, inner or outer.                   *)
LEMMA NumerDoubled ==
  ASSUME id \in CpuIds, NEW c \in Nat \ {0}, NEW o \in Nat \ {0}
  PROVE  /\ Numer(c, o) \in Nat /\ Numer(2 * c, o) \in Nat /\ Numer(c, 2 * o) \in Nat
         /\ Numer(2 * c, o) <= 2 * Numer(c, o) /\ Numer(c, 2 * o) = 2 * Numer(c, o)
         /\ FirstWork <= c * SseWork \/ SseSetup = 0 =>
              (2 * FirstWork + SseSetup) * Numer(c, o)
                <= (FirstWork + SseSetup) * Numer(2 * c, o)
<1>1. id.ipc[2] \in Nat
  BY ConstantsAssumption DEF CpuId
<1>2. PICK p \in Nat, s \in Nat, W \in Nat, K \in Nat :
        p = id.ipc[2] /\ s = SseSetup /\ W = SseWork /\ K = FirstWork
  <2>1. FirstWork \in Nat
    BY ConstantsAssumption DEF FirstWork
  <2>2. QED
    BY <1>1, <2>1, ConstantsAssumption
<1>3. PICK w \in Nat, q \in Nat : w = c * W /\ q = o * p
  BY <1>2
<1>4. Numer(c, o) = (w + s) * q
  BY <1>2, <1>3 DEF Numer
<1>5. Numer(2 * c, o) = (2 * w + s) * q
  <2>1. (2 * c) * W = 2 * w
    BY <1>3
  <2>2. (((2 * w) + s) * o) * p = (2 * w + s) * q
    BY <1>3
  <2>3. QED
    BY <1>2, <2>1, <2>2 DEF Numer
<1>6. Numer(c, 2 * o) = 2 * ((w + s) * q)
  BY <1>2, <1>3 DEF Numer
<1>7. (w + s) * q \in Nat /\ (2 * w + s) * q \in Nat /\ (2 * w + s) * q <= 2 * ((w + s) * q)
  <2>1. PICK a \in Nat, b \in Nat : a = w * q /\ b = s * q
    OBVIOUS
  <2>2. (w + s) * q = a + b /\ (2 * w + s) * q = 2 * a + b
    BY <2>1
  <2>3. QED
    BY <2>2
<1>8. K <= w \/ s = 0 => (2 * K + s) * ((w + s) * q) <= (K + s) * ((2 * w + s) * q)
  BY DoubledCycles
<1>9. QED
  BY <1>2, <1>3, <1>4, <1>5, <1>6, <1>7, <1>8

LEMMA FitsIcBefore ==
  ASSUME real \in Nat, real' \in Nat, real <= real', UNCHANGED <<id, call>>
  PROVE  /\ FitsIc' => FitsIc
         /\ Eighth' = Eighth /\ Denom' = Denom
         /\ \A c, o : Numer(c, o)' = Numer(c, o)
<1>1. Eighth' = Eighth /\ Denom' = Denom /\ \A c, o : Numer(c, o)' = Numer(c, o)
  BY DEF Eighth, Denom, Numer
<1>2. real' < Word => real < Word
  BY ConstantsAssumption
<1>3. QED
  BY <1>1, <1>2 DEF FitsIc, ShortStart

LEMMA IcLastsCalibrate ==
  ASSUME EnvInv, ProgramInv, IcInv, IcLasts, Calibrate
  PROVE  IcLasts'
<1>1. /\ pc = "calibrate" /\ pc' = "calibrated"
      /\ \/ cycles < InnerMax /\ cycles' = cycles * 2 /\ outer' = outer
         \/ ~(cycles < InnerMax) /\ outer' = outer * 2 /\ cycles' = cycles
      /\ UNCHANGED <<real, adj, set, paused, id, call, results>>
  BY DEF Calibrate, Longer, env, clocks, history
<1>2. call.fn = "ic"
  BY <1>1 DEF ProgramInv
<1>3. IcTypes /\ id \in CpuIds
  BY <1>1, <1>2, IcTyped DEF Calibrating, IcInv
<1>4. real \in Nat /\ paused \in Nat /\ cycles \in Nat \ {0} /\ outer \in Nat \ {0}
      /\ Eighth \in Nat \ {0} /\ Denom \in Nat \ {0}
  BY <1>3 DEF IcTypes
<1>5. SUFFICES ASSUME set = {}, FitsIc' PROVE IcLasts'
  BY <1>1 DEF IcLasts
<1>6. /\ FitsIc /\ Eighth' = Eighth /\ Denom' = Denom
      /\ \A c, o : Numer(c, o)' = Numer(c, o)
  BY <1>1, <1>4, <1>5, FitsIcBefore
<1>7. /\ cycles >= InnerStart
      /\ Grown \/ real <= paused
      /\ FirstWork * (Denom * (real - paused))
           <= (2 * FirstWork + SseSetup) * Numer(cycles, outer)
      /\ SseTime < Eighth
  BY <1>1, <1>2, <1>5, <1>6 DEF IcLasts, Calibrating
<1>8. InnerStart \in Nat \ {0} /\ InnerMax \in Nat /\ SseWork \in Nat \ {0} /\ SseSetup \in Nat
      /\ FirstWork \in Nat
  BY ConstantsAssumption DEF FirstWork
<1>9. cycles' >= InnerStart /\ (cycles' >= 2 * InnerStart \/ cycles' >= InnerMax)
  BY <1>1, <1>4, <1>7, <1>8
<1>10. cycles' \in Nat \ {0} /\ outer' \in Nat \ {0}
  BY <1>1, <1>4
<1> DEFINE n == Numer(cycles, outer)
           m == Numer(cycles', outer')
<1>11. /\ n \in Nat /\ m \in Nat /\ m <= 2 * n
       /\ FirstWork * (Denom * (real - paused)) <= (FirstWork + SseSetup) * m
  <2>1. CASE cycles < InnerMax /\ cycles' = cycles * 2 /\ outer' = outer
    <3>1. m = Numer(2 * cycles, outer)
      <4>1. cycles' = 2 * cycles
        BY <1>4, <2>1
      <4>2. QED
        BY <2>1, <4>1 DEF Numer
    <3>2. n \in Nat /\ m \in Nat /\ m <= 2 * n
      BY <1>3, <1>4, <3>1, NumerDoubled
    <3>3. CASE Grown
      <4>1. cycles >= 2 * InnerStart
        BY <1>4, <1>8, <2>1, <3>3 DEF Grown
      <4>2. FirstWork <= cycles * SseWork
        <5>1. (cycles - 2 * InnerStart) * SseWork \in Nat
          BY <1>4, <1>8, <4>1
        <5>2. cycles * SseWork - (2 * InnerStart) * SseWork
                = (cycles - 2 * InnerStart) * SseWork
          BY <1>4, <1>8
        <5>3. (2 * InnerStart) * SseWork \in Nat /\ cycles * SseWork \in Nat
          BY <1>4, <1>8
        <5>4. QED
          BY <5>1, <5>2, <5>3 DEF FirstWork
      <4>3. (2 * FirstWork + SseSetup) * n <= (FirstWork + SseSetup) * m
        BY <1>3, <1>4, <3>1, <4>2, NumerDoubled
      <4>4. PICK a \in Int, b \in Int, c \in Int :
              /\ a = FirstWork * (Denom * (real - paused))
              /\ b = (2 * FirstWork + SseSetup) * n
              /\ c = (FirstWork + SseSetup) * m
        BY <1>4, <1>8, <3>2
      <4>5. a <= b /\ b <= c
        BY <1>7, <4>3, <4>4
      <4>6. a <= c
        BY ONLY <4>5, a \in Int, b \in Int, c \in Int
      <4>7. QED
        BY <3>2, <4>4, <4>6
    <3>4. CASE real <= paused
      <4>1. PICK x \in Nat : x = paused - real
        BY <1>4, <3>4
      <4>2. Denom * (real - paused) = -(Denom * x) /\ Denom * x \in Nat
        BY <1>4, <4>1
      <4>3. PICK y \in Nat : y = Denom * x
        BY <4>2
      <4>4. FirstWork * (-y) = -(FirstWork * y) /\ FirstWork * y \in Nat
        BY <1>8
      <4>5. (FirstWork + SseSetup) * m \in Nat
        BY <1>8, <3>2
      <4>6. FirstWork * (Denom * (real - paused)) = -(FirstWork * y)
        BY <4>2, <4>3, <4>4
      <4> HIDE DEF m, n
      <4>7. QED
        BY <3>2, <4>4, <4>5, <4>6
    <3>5. QED
      BY <1>7, <3>3, <3>4
  <2>2. CASE ~(cycles < InnerMax) /\ outer' = outer * 2 /\ cycles' = cycles
    <3>1. m = Numer(cycles, 2 * outer)
      <4>1. outer' = 2 * outer
        BY <1>4, <2>2
      <4>2. QED
        BY <2>2, <4>1 DEF Numer
    <3>2. n \in Nat /\ m \in Nat /\ m = 2 * n
      BY <1>3, <1>4, <3>1, NumerDoubled
    <3>3. PICK a \in Int, b \in Nat, c \in Nat, d \in Nat :
            /\ a = FirstWork * (Denom * (real - paused))
            /\ b = FirstWork * n /\ c = SseSetup * n /\ d = (FirstWork + SseSetup) * m
      <4> HIDE DEF n, m
      <4>1. FirstWork * (Denom * (real - paused)) \in Int
        <5>1. real - paused \in Int /\ Denom * (real - paused) \in Int
          BY <1>4
        <5>2. QED
          BY <1>8, <5>1
      <4>2. FirstWork * n \in Nat /\ SseSetup * n \in Nat
        BY <1>8, <3>2
      <4>3. (FirstWork + SseSetup) * m \in Nat
        BY <1>8, <3>2
      <4>4. QED
        BY <4>1, <4>2, <4>3
    <3>4. (2 * FirstWork + SseSetup) * n = 2 * b + c
      BY <1>8, <3>2, <3>3
    <3>5. d = 2 * b + 2 * c
      BY <1>8, <3>2, <3>3
    <3>6. a <= 2 * b + c
      BY <1>7, <3>3, <3>4
    <3>7. a <= d
      BY ONLY <3>5, <3>6, a \in Int, b \in Nat, c \in Nat
    <3>8. QED
      BY <3>2, <3>3, <3>7
  <2>3. QED
    BY <1>1, <2>1, <2>2
<1>12. m \div Denom < 2 * Eighth
  <2>1. n \div Denom < Eighth
    BY <1>3, <1>7 DEF IcTypes
  <2>2. PICK x \in Nat, y \in Nat, d \in Nat \ {0}, e \in Nat :
          x = n /\ y = m /\ d = Denom /\ e = Eighth
    BY <1>4, <1>11
  <2>3. x \div d < e /\ y <= 2 * x
    BY <1>11, <2>1, <2>2
  <2>4. y \div d < 2 * e
    BY <2>3, TwiceAsLong
  <2>5. QED
    BY <2>2, <2>4
<1>13. SseTime' = m \div Denom
  BY <1>1 DEF SseTime, Numer, Denom
<1>14. Numer(cycles, outer)' = m
  BY <1>1 DEF Numer
<1>15. SseTime' < 2 * Eighth'
  BY <1>6, <1>12, <1>13
<1>16. FirstWork * (Denom' * (real' - paused')) <= (FirstWork + SseSetup) * Numer(cycles, outer)'
  BY <1>1, <1>6, <1>11, <1>14
<1>17. QED
  BY <1>1, <1>9, <1>15, <1>16 DEF IcLasts, Grown, Calibrating, Runs

LEMMA IcLastsCalibrated ==
  ASSUME EnvInv, ProgramInv, IcInv, IcTime, IcLasts, Calibrated
  PROVE  IcLasts'
<1> DEFINE spent == Minus(ClockAt(real'), begin.sys)
           n == Numer(cycles, outer)
<1>1. /\ pc = "calibrated" /\ real' = real + SseTime
      /\ \/ spent < Eighth /\ pc' = "calibrate"
         \/ ~(spent < Eighth) /\ pc' = "run" /\ k' = 1
      /\ UNCHANGED <<adj, set, paused, id, call, cycles, outer, results>>
  BY DEF Calibrated, history
<1>2. call.fn = "ic"
  BY <1>1 DEF ProgramInv
<1>3. IcTypes
  BY <1>1, <1>2, IcTyped DEF Calibrating
<1>4. /\ real \in Nat /\ paused \in Nat /\ cycles \in Nat \ {0} /\ outer \in Nat \ {0}
      /\ Eighth \in Nat \ {0} /\ Denom \in Nat \ {0} /\ SseTime \in Nat /\ Word \in Nat
      /\ n \in Nat /\ SseTime = n \div Denom /\ adj \in 0 .. Word - 1
  BY <1>3 DEF IcTypes
<1>5. real' \in Nat /\ real <= real' /\ SseTime <= real'
  BY <1>1, <1>4
<1>6. SUFFICES ASSUME set = {}, FitsIc' PROVE IcLasts'
  BY <1>1 DEF IcLasts
<1>7. /\ FitsIc /\ Eighth' = Eighth /\ Denom' = Denom
      /\ \A c, o : Numer(c, o)' = Numer(c, o)
  BY <1>1, <1>4, <1>5, <1>6, FitsIcBefore
<1>8. /\ cycles >= InnerStart /\ Grown
      /\ FirstWork * (Denom * (real - paused)) <= (FirstWork + SseSetup) * n
      /\ SseTime < 2 * Eighth
  BY <1>1, <1>2, <1>6, <1>7 DEF IcLasts, Calibrating
<1>9. SseTime' = SseTime /\ Numer(cycles, outer)' = n /\ (Grown' <=> Grown)
  BY <1>1 DEF SseTime, Numer, Grown
<1>10. PICK t \in 0 .. real : begin.sys = ClockAt(t)
  BY <1>1, <1>2, <1>6 DEF IcTime
<1>11. spent = real' - t /\ SseTime <= real' - t
  <2>1. t \in Nat /\ t <= real' /\ real' - t < Word
    <3>1. PICK u \in Nat : u = real'
      BY <1>5
    <3>2. u < Word /\ real <= u
      BY <1>5, <1>6, <3>1 DEF FitsIc, ShortStart
    <3>3. t \in Nat /\ t <= u /\ t \in 0 .. u /\ u - t < Word
      BY <1>4, <3>2
    <3>4. QED
      BY <3>1, <3>3
  <2>2. spent = real' - t
    BY <1>4, <1>5, <1>10, <2>1, Elapsed
  <2>3. SseTime <= real' - t
    BY <1>1, <1>4, <1>10
  <2>4. QED
    BY <2>2, <2>3
<1>12. PICK K \in Nat \ {0}, s \in Nat, d \in Nat \ {0}, r \in Int, x \in Nat, e \in Nat,
             y \in Nat :
         /\ K = FirstWork /\ s = SseSetup /\ d = Denom /\ r = real - paused /\ x = SseTime
         /\ e = Eighth /\ y = n
  <2>1. FirstWork \in Nat \ {0}
    <3>1. 2 * InnerStart \in Nat \ {0}
      BY ConstantsAssumption
    <3>2. PICK z \in Nat \ {0} : z = 2 * InnerStart
      BY <3>1
    <3>3. z * SseWork \in Nat \ {0}
      BY ConstantsAssumption
    <3>4. QED
      BY <3>2, <3>3 DEF FirstWork
  <2>2. SseSetup \in Nat /\ real - paused \in Int
    BY <1>4, ConstantsAssumption
  <2>3. QED
    BY <1>4, <2>1, <2>2
<1>13. real' - paused = r + x
  BY <1>1, <1>4, <1>12
<1>14. K * (d * r) <= (K + s) * y /\ x = y \div d
  BY <1>4, <1>8, <1>12
<1>15. CASE spent < Eighth /\ pc' = "calibrate"
  <2>1. SseTime < Eighth
    <3>1. SseTime <= spent
      BY <1>11
    <3>2. spent \in Int
      BY <1>11, <1>4, <1>5
    <3> HIDE DEF spent
    <3>3. QED
      BY <1>4, <1>15, <3>1, <3>2
  <2>2. K * (d * (r + x)) <= (2 * K + s) * y
    BY ONLY <1>14, K \in Nat \ {0}, s \in Nat, d \in Nat \ {0}, r \in Int, x \in Nat, y \in Nat,
            OnePassMore
  <2>3. FirstWork * (Denom' * (real' - paused'))
          <= (2 * FirstWork + SseSetup) * Numer(cycles, outer)'
    BY <1>1, <1>7, <1>9, <1>12, <1>13, <2>2
  <2>4. SseTime' < Eighth'
    BY <1>7, <1>9, <2>1
  <2>5. cycles' >= InnerStart /\ Grown'
    BY <1>1, <1>8, <1>9
  <2>6. QED
    BY <1>15, <2>3, <2>4, <2>5 DEF IcLasts, Calibrating, Runs
<1>16. CASE ~(spent < Eighth) /\ pc' = "run" /\ k' = 1
  <2>1. x < 2 * e /\ s * e <= K
    BY <1>7, <1>8, <1>12 DEF FitsIc, ShortStart
  <2>2. r <= 2 * e + 1
    BY ONLY <1>14, <2>1, K \in Nat \ {0}, s \in Nat, d \in Nat \ {0}, r \in Int, e \in Nat,
            y \in Nat, AllPasses
  <2>3. r + x <= 4 * e
    BY ONLY <2>1, <2>2, r \in Int, e \in Nat, x \in Nat
  <2>4. real' <= (10 * (k' - 1) + 4) * Eighth' + paused'
    <3>1. (10 * (k' - 1) + 4) * Eighth' = 4 * e
      BY <1>7, <1>12, <1>16
    <3>2. real' <= 4 * e + paused
      <4>1. PICK u \in Nat, p \in Nat : u = real' /\ p = paused
        BY <1>4, <1>5
      <4>2. u - p <= 4 * e
        BY <1>13, <2>3, <4>1
      <4>3. u <= 4 * e + p
        BY <4>2
      <4>4. QED
        BY <4>1, <4>3
    <3>3. QED
      BY <1>1, <3>1, <3>2
  <2>5. SseTime' < 2 * Eighth'
    BY <1>7, <1>8, <1>9
  <2>6. QED
    BY <1>16, <2>4, <2>5 DEF IcLasts, Calibrating, Runs
<1>17. QED
  BY <1>1, <1>15, <1>16

LEMMA IcLastsRun ==
  ASSUME EnvInv, ProgramInv, IcInv, IcLasts, Run
  PROVE  IcLasts'
<1>1. /\ pc = "run" /\ pc' = "running" /\ begin' = [Blank EXCEPT !.sys = ClockAt(real)]
      /\ UNCHANGED <<real, adj, set, paused, id, call, k, cycles, outer, results>>
  BY DEF Run, sys_precise_clock, env, clocks, history
<1>2. call.fn = "ic"
  BY <1>1 DEF ProgramInv
<1>3. IcTypes
  BY <1>1, <1>2, IcTyped DEF Runs
<1>4. real \in Nat /\ paused \in Nat /\ Eighth \in Nat \ {0} /\ k \in Nat \ {0}
  BY <1>1, <1>3 DEF IcTypes, Runs
<1>5. SUFFICES ASSUME set = {}, FitsIc' PROVE IcLasts'
  BY <1>1 DEF IcLasts
<1>6. FitsIc /\ Eighth' = Eighth
  BY <1>1, <1>4, <1>5, FitsIcBefore
<1>7. SseTime' = SseTime /\ \A t : ClockAt(t)' = ClockAt(t)
  BY <1>1 DEF SseTime, ClockAt
<1>8. SseTime < 2 * Eighth /\ real <= (10 * (k - 1) + 4) * Eighth + paused
  BY <1>1, <1>2, <1>5, <1>6 DEF IcLasts, Runs
<1>9. begin'.sys = ClockAt(real) /\ real \in 0 .. real
  BY <1>1, <1>4 DEF Blank
<1>10. real <= (10 * (k - 1) + 12) * Eighth + paused
  <2>1. PICK m \in Int : m = (10 * (k - 1) + 4) * Eighth
    BY <1>4
  <2>2. (10 * (k - 1) + 12) * Eighth = m + 8 * Eighth
    BY <1>4, <2>1
  <2>3. real <= m + paused
    BY <1>8, <2>1
  <2>4. real <= (m + 8 * Eighth) + paused
    BY <1>4, <2>3
  <2>5. QED
    BY <2>2, <2>4
<1>11. QED
  BY <1>1, <1>6, <1>7, <1>8, <1>9, <1>10 DEF IcLasts, Calibrating, Runs

LEMMA IcLastsRunning ==
  ASSUME EnvInv, ProgramInv, IcInv, IcLasts, Running
  PROVE  IcLasts'
<1> DEFINE spent == Minus(ClockAt(real'), begin.sys)
<1>1. /\ pc = "running" /\ real' = real + SseTime
      /\ \/ spent < Eighth * 8 /\ UNCHANGED <<pc, k>>
         \/ ~(spent < Eighth * 8) /\ pc' = "run" /\ k' = k + 1
         \/ ~(spent < Eighth * 8) /\ pc' = "done" /\ ~(k < call.runs)
      /\ UNCHANGED <<adj, set, paused, id, call, cycles, outer, begin>>
  BY DEF Running, Finish, history
<1>2. call.fn = "ic"
  BY <1>1 DEF ProgramInv
<1>3. IcTypes
  BY <1>1, <1>2, IcTyped DEF Runs
<1>4. /\ real \in Nat /\ paused \in Nat /\ Eighth \in Nat \ {0} /\ SseTime \in Nat
      /\ Word \in Nat /\ adj \in 0 .. Word - 1
      /\ k \in Nat \ {0} /\ k <= call.runs /\ call.runs \in Nat
  BY <1>1, <1>3 DEF IcTypes, Runs
<1>5. real' \in Nat /\ real <= real'
  BY <1>1, <1>4
<1>6. SUFFICES ASSUME set = {}, FitsIc' PROVE IcLasts'
  BY <1>1 DEF IcLasts
<1>7. FitsIc /\ Eighth' = Eighth
  BY <1>1, <1>4, <1>5, <1>6, FitsIcBefore
<1>8. SseTime' = SseTime /\ \A u : ClockAt(u)' = ClockAt(u)
  BY <1>1 DEF SseTime, ClockAt
<1>9. SseTime < 2 * Eighth /\ real <= (10 * (k - 1) + 12) * Eighth + paused
  BY <1>1, <1>2, <1>6, <1>7 DEF IcLasts, Runs
<1>10. PICK t \in 0 .. real :
         begin.sys = ClockAt(t) /\ t <= (10 * (k - 1) + 4) * Eighth + paused
  BY <1>1, <1>2, <1>6, <1>7 DEF IcLasts
<1>11. spent = real' - t /\ t \in 0 .. real'
  <2>1. t \in Nat /\ t <= real' /\ real' - t < Word /\ t \in 0 .. real'
    <3>1. PICK u \in Nat : u = real'
      BY <1>5
    <3>2. u < Word /\ real <= u
      BY <1>5, <1>6, <3>1 DEF FitsIc, ShortStart
    <3>3. t \in Nat /\ t <= u /\ t \in 0 .. u /\ u - t < Word
      BY <1>4, <3>2
    <3>4. QED
      BY <3>1, <3>3
  <2>2. QED
    BY <1>4, <1>5, <1>10, <2>1, Elapsed
<1>12. PICK m \in Int, e \in Nat, q \in Nat, p \in Nat, x \in Nat :
         /\ m = (10 * (k - 1) + 4) * Eighth /\ e = Eighth /\ q = real /\ p = paused
         /\ x = SseTime
  BY <1>4
<1>13. /\ (10 * (k - 1) + 12) * Eighth = m + 8 * e
       /\ (10 * k + 4) * Eighth = m + 10 * e /\ (10 * ((k + 1) - 1) + 4) * Eighth = m + 10 * e
  BY <1>4, <1>12
<1>14. real' = q + x /\ x < 2 * e /\ q <= (m + 8 * e) + p /\ t <= m + p /\ t \in Nat
  BY <1>1, <1>4, <1>9, <1>10, <1>12, <1>13
<1>15. q + x <= (m + 10 * e) + p
  BY ONLY <1>14, m \in Int, e \in Nat, q \in Nat, p \in Nat, x \in Nat
<1>16. SseTime' < 2 * Eighth'
  BY <1>7, <1>8, <1>9
<1>17. CASE spent < Eighth * 8 /\ UNCHANGED <<pc, k>>
  <2>1. (q + x) - t < e * 8
    BY <1>11, <1>12, <1>14, <1>17
  <2>2. q + x <= (m + 8 * e) + p
    BY ONLY <1>14, <2>1, m \in Int, e \in Nat, q \in Nat, p \in Nat, x \in Nat
  <2>3. real' <= (10 * (k' - 1) + 12) * Eighth' + paused'
    BY <1>1, <1>7, <1>12, <1>13, <1>14, <1>17, <2>2
  <2>4. \E u \in 0 .. real' :
          begin'.sys = ClockAt(u)' /\ u <= (10 * (k' - 1) + 4) * Eighth' + paused'
    BY <1>1, <1>7, <1>8, <1>10, <1>11, <1>17
  <2>5. pc' = "running"
    BY <1>1, <1>17
  <2>6. QED
    BY <1>16, <2>3, <2>4, <2>5 DEF IcLasts, Calibrating, Runs
<1>18. CASE ~(spent < Eighth * 8) /\ pc' = "run" /\ k' = k + 1
  <2>1. real' <= (10 * (k' - 1) + 4) * Eighth' + paused'
    BY <1>1, <1>7, <1>12, <1>13, <1>14, <1>15, <1>18
  <2>2. QED
    BY <1>16, <1>18, <2>1 DEF IcLasts, Calibrating, Runs
<1>19. CASE ~(spent < Eighth * 8) /\ pc' = "done" /\ ~(k < call.runs)
  <2>1. k = call.runs
    BY <1>4, <1>19
  <2>2. real' <= (10 * call'.runs + 4) * Eighth' + paused'
    BY <1>1, <1>7, <1>12, <1>13, <1>14, <1>15, <2>1
  <2>3. QED
    BY <1>19, <2>2 DEF IcLasts, Calibrating, Runs
<1>20. QED
  BY <1>1, <1>17, <1>18, <1>19

LEMMA IcLastsFaults ==
  ASSUME EnvInv, IcInv, IcLasts,
         \/ \E d \in Pauses : Preempt(d)
         \/ \E d \in Jumps : SetClock(d)
         \/ \E c \in Cores : Move(c)
  PROVE  IcLasts'
<1>1. SUFFICES ASSUME call'.fn = "ic", set' = {}, FitsIc' PROVE IcLasts'
  BY DEF IcLasts
<1>2. PICK d \in Nat : real' = real + d /\ paused' = paused + d
  BY <1>1, FaultTime DEF EnvInv
<1>3. UNCHANGED <<adj, set, id, call, pc, k, cycles, outer, begin, results>> /\ pc # "done"
  BY <1>1, FaultTime DEF EnvInv, locals
<1>4. call.fn = "ic" /\ set = {} /\ pc \in Calibrating \union Runs
  BY <1>1, <1>3 DEF IcInv
<1>5. IcTypes
  BY <1>4, IcTyped
<1>6. /\ real \in Nat /\ paused \in Nat /\ Eighth \in Nat \ {0}
      /\ pc \in Runs => k \in Nat \ {0}
  BY <1>5 DEF IcTypes
<1>7. PICK r \in Nat, p \in Nat : r = real' /\ p = paused'
  BY <1>2, <1>6
<1>8. r = real + d /\ p = paused + d
  BY <1>2, <1>7
<1>9. FitsIc /\ Eighth' = Eighth /\ Denom' = Denom /\ \A c, o : Numer(c, o)' = Numer(c, o)
  <2>1. real' \in Nat /\ real <= real'
    BY <1>6, <1>7, <1>8
  <2>2. QED
    BY <1>1, <1>3, <1>6, <2>1, FitsIcBefore
<1>10. /\ SseTime' = SseTime /\ Numer(cycles, outer)' = Numer(cycles, outer)
       /\ (Grown' <=> Grown) /\ real' - paused' = real - paused
       /\ \A t \in 0 .. real : t \in 0 .. real' /\ ClockAt(t)' = ClockAt(t)
  <2>1. r - p = real - paused /\ \A t \in 0 .. real : t \in 0 .. r
    BY <1>6, <1>8
  <2>2. QED
    BY <1>3, <1>7, <2>1 DEF SseTime, Numer, Grown, ClockAt
<1>11. \A t \in Int : \A m \in Int : t <= m + paused => t + d <= m + paused' /\ t <= m + paused'
  <2>1. \A t \in Int : \A m \in Int : t <= m + paused => t + d <= m + p /\ t <= m + p
    BY <1>6, <1>8
  <2>2. QED
    BY <1>7, <2>1
<1>12. pc \in Runs => (10 * (k - 1) + 4) * Eighth \in Int /\ (10 * (k - 1) + 12) * Eighth \in Int
  BY <1>6
<1>13. /\ pc \in Calibrating => cycles >= InnerStart
       /\ pc = "calibrate" =>
            /\ Grown \/ real <= paused
            /\ FirstWork * (Denom * (real - paused)) <=
                 (2 * FirstWork + SseSetup) * Numer(cycles, outer)
            /\ SseTime < Eighth
       /\ pc = "calibrated" =>
            /\ Grown
            /\ FirstWork * (Denom * (real - paused)) <=
                 (FirstWork + SseSetup) * Numer(cycles, outer)
            /\ SseTime < 2 * Eighth
       /\ pc \in Runs => SseTime < 2 * Eighth
       /\ pc = "run" => real <= (10 * (k - 1) + 4) * Eighth + paused
       /\ pc = "running" =>
            /\ real <= (10 * (k - 1) + 12) * Eighth + paused
            /\ \E t \in 0 .. real :
                 begin.sys = ClockAt(t) /\ t <= (10 * (k - 1) + 4) * Eighth + paused
  BY <1>4, <1>9 DEF IcLasts
<1>14. real <= paused => real' <= paused'
  <2>1. real <= paused => r <= p
    BY <1>6, <1>8
  <2>2. QED
    BY <1>7, <2>1
<1>15. /\ pc = "run" => real' <= (10 * (k - 1) + 4) * Eighth + paused'
       /\ pc = "running" =>
            /\ real' <= (10 * (k - 1) + 12) * Eighth + paused'
            /\ \E t \in 0 .. real' :
                 begin.sys = ClockAt(t)' /\ t <= (10 * (k - 1) + 4) * Eighth + paused'
  <2>1. real \in Int
    BY <1>6
  <2>2. pc = "run" => real' <= (10 * (k - 1) + 4) * Eighth + paused'
    BY <1>2, <1>11, <1>12, <1>13, <2>1 DEF Runs
  <2>3. pc = "running" => real' <= (10 * (k - 1) + 12) * Eighth + paused'
    BY <1>2, <1>11, <1>12, <1>13, <2>1 DEF Runs
  <2>4. ASSUME pc = "running"
        PROVE  \E t \in 0 .. real' :
                 begin.sys = ClockAt(t)' /\ t <= (10 * (k - 1) + 4) * Eighth + paused'
    <3>1. PICK t \in 0 .. real :
            begin.sys = ClockAt(t) /\ t <= (10 * (k - 1) + 4) * Eighth + paused
      BY <1>13, <2>4
    <3>2. t \in Int
      BY <2>1
    <3>3. t <= (10 * (k - 1) + 4) * Eighth + paused'
      BY <1>11, <1>12, <2>4, <3>1, <3>2 DEF Runs
    <3>4. QED
      BY <1>10, <3>1, <3>3
  <2>5. QED
    BY <2>2, <2>3, <2>4
<1>16. QED
  BY <1>3, <1>9, <1>10, <1>13, <1>14, <1>15 DEF IcLasts

LEMMA IcLastsBegins ==
  ASSUME EnvInv, IdleInv, NEW c \in Calls,
         CallMeasure(c) \/ CallMark(c) \/ CallClock(c) \/ CallByIc(c) \/ CallDelay(c)
         \/ CallPerf(c) \/ CallByTsc(c)
  PROVE  IcLasts'
<1>1. /\ pc = "idle" /\ UNCHANGED <<real, set, paused, outer, results>>
      /\ call'.fn = "ic" => CallByIc(c)
  BY CallEnv
<1>2. real' = 0 /\ paused' = 0 /\ outer' = 1 /\ results' = <<>>
  BY <1>1 DEF EnvInv, IdleInv
<1>3. SUFFICES ASSUME CallByIc(c), FitsIc' PROVE IcLasts'
  BY <1>1 DEF IcLasts
<1>4. /\ id' \in CpuIds
      /\ pc' = "done" \/ (pc' = "calibrate" /\ cycles' = InnerStart)
  BY <1>3 DEF CallByIc, Finish
<1>5. CASE pc' = "done"
  BY <1>2, <1>5 DEF IcLasts, Calibrating, Runs
<1>6. CASE pc' = "calibrate" /\ cycles' = InnerStart
  <2>1. InnerStart \in Nat \ {0} /\ SseWork \in Nat \ {0} /\ SseSetup \in Nat
    BY ConstantsAssumption
  <2>2. cycles' >= InnerStart /\ real' <= paused'
    BY <1>2, <1>6, <2>1
  <2>3. SseTime' < Eighth'
    <3>1. SseTime' = (Numer(InnerStart, 1) \div Denom)'
      BY <1>2, <1>6 DEF SseTime, Numer, Denom
    <3>2. QED
      BY <1>3, <3>1 DEF FitsIc, ShortStart
  <2>4. FirstWork * (Denom' * (real' - paused'))
          <= (2 * FirstWork + SseSetup) * Numer(cycles, outer)'
    <3>1. PICK i \in CpuId : i = id'
      BY <1>4, ConstantsAssumption
    <3>2. PICK a \in Nat \ {0}, b \in Nat \ {0}, f \in Nat \ {0} :
            a = i.ipc[1] /\ b = i.ipc[2] /\ f = i.freq
      BY DEF CpuId
    <3>3. PICK n \in Nat : n = Numer(cycles, outer)'
      <4>1. PICK w \in Nat : w = InnerStart * SseWork + SseSetup
        <5>1. InnerStart * SseWork \in Nat
          BY <2>1
        <5>2. QED
          BY <2>1, <5>1
      <4>2. w * 1 * b \in Nat
        OBVIOUS
      <4>3. Numer(cycles, outer)' = w * 1 * b
        BY <1>2, <1>6, <3>1, <3>2, <4>1 DEF Numer
      <4>4. QED
        BY <4>2, <4>3
    <3>4. PICK d \in Nat : d = Denom'
      <4>1. a * f \in Nat
        OBVIOUS
      <4>2. QED
        BY <3>1, <3>2, <4>1 DEF Denom
    <3>5. FirstWork \in Nat /\ 2 * FirstWork + SseSetup \in Nat
      BY <2>1 DEF FirstWork
    <3>6. FirstWork * (d * (0 - 0)) = 0
      BY <3>5
    <3>7. (2 * FirstWork + SseSetup) * n \in Nat
      BY <3>5
    <3>8. QED
      BY <1>2, <3>3, <3>4, <3>6, <3>7
  <2>5. QED
    BY <1>6, <2>2, <2>3, <2>4 DEF IcLasts, Calibrating, Runs
<1>7. QED
  BY <1>4, <1>5, <1>6

LEMMA IcLastsStep ==
  ASSUME IInv, EnvInv, IcInv, IcTime, IcLasts, Next
  PROVE  IcLasts'
<1>1. ProgramInv /\ IdleInv
  BY DEF IInv
<1>2. ASSUME Program PROVE IcLasts'
  <2>1. CASE Calibrate \/ Calibrated \/ Run \/ Running
    BY <1>1, <2>1, IcLastsCalibrate, IcLastsCalibrated, IcLastsRun, IcLastsRunning
  <2>2. CASE ~(Calibrate \/ Calibrated \/ Run \/ Running)
    <3>1. pc \notin Calibrating \union Runs \union {"done"} /\ UNCHANGED call
      BY <1>2, <2>2, ProgramKeeps
      DEF Program, MarkTsc, MarkClock, Pass, PassClock, Delay, Spin, PerfFirst, PerfClock,
          PerfSecond, PerfLast, Calibrating, Runs
    <3>2. call.fn # "ic"
      BY <3>1 DEF IcInv
    <3>3. QED
      BY <3>1, <3>2 DEF IcLasts
  <2>3. QED
    BY <2>1, <2>2
<1>3. QED
  BY <1>1, <1>2, IcLastsBegins, IcLastsFaults DEF Next

----------------------------------------------------------------------------
TimeInv == EnvInv /\ MeasureTime /\ DelayTime /\ IcInv /\ IcTime /\ IcLasts

LEMMA TimeInvInit == Init => TimeInv
<1> SUFFICES ASSUME Init PROVE TimeInv
  OBVIOUS
<1>1. adj \in 0 .. Word - 1
  BY ConstantsAssumption DEF Init
<1>2. QED
  BY <1>1 DEF Init, TimeInv, EnvInv, MeasureTime, DelayTime, IcInv, IcTime, IcLasts

LEMMA TimeInvStep == IInv /\ TimeInv /\ [Next]_vars => TimeInv'
<1> SUFFICES ASSUME IInv, TimeInv, [Next]_vars PROVE TimeInv'
  OBVIOUS
<1>1. EnvInv /\ MeasureTime /\ DelayTime /\ IcInv /\ IcTime /\ IcLasts
  BY DEF TimeInv
<1>2. CASE Next
  BY <1>1, <1>2, EnvStep, MeasureDelayStep, IcStep, TimeStep, IcLastsStep DEF TimeInv
<1>3. CASE UNCHANGED vars
  <2>1. UNCHANGED <<real, adj, paused, id, pc, call, k, cycles, outer, count, begin, end, held,
                    results, ret, set>>
    BY <1>3 DEF vars, env, locals, clocks, history
  <2>2. /\ Interval' = Interval /\ Longest' = Longest /\ Repeats' = Repeats
        /\ Eighth' = Eighth /\ Denom' = Denom /\ SseTime' = SseTime
        /\ Numer(cycles, outer)' = Numer(cycles, outer)
        /\ Numer(InnerStart, 1)' = Numer(InnerStart, 1)
        /\ (Grown' <=> Grown) /\ \A t : ClockAt(t)' = ClockAt(t)
        /\ LoopPass' = LoopPass /\ LongestPass' = LongestPass
    BY <2>1 DEF Interval, Longest, LongestPass, LoopPass, Repeats, Eighth, Denom, SseTime, Numer, Grown, ClockAt
  <2>3. (FitsLasts' <=> FitsLasts) /\ (FitsIc' <=> FitsIc)
    BY <2>1, <2>2 DEF FitsLasts, FitsIc, ShortStart
  <2>4. EnvInv' /\ DelayTime' /\ IcInv'
    BY <1>1, <2>1, <2>2 DEF EnvInv, DelayTime, IcInv
  <2>5. MeasureTime'
    BY <1>1, <2>1, <2>2, <2>3 DEF MeasureTime
  <2>6. IcTime' /\ IcLasts'
    BY <1>1, <2>1, <2>2, <2>3 DEF IcTime, IcLasts
  <2>7. QED
    BY <2>4, <2>5, <2>6 DEF TimeInv
<1>4. QED
  BY <1>2, <1>3

(* How long a call has taken, at every step of every call: since when the  *)
(* interval under way is measured and what the passes of a calibration     *)
(* took together (cpu_clock_measure, cpu_clock_by_ic, busy_loop_delay).    *)
THEOREM TimeInvInvariance == Spec => [](IInv /\ TimeInv)
BY IInvInit, IInvStep, TimeInvInit, TimeInvStep, PTL DEF Spec

(* A call that nobody set the clock under never takes less than it was     *)
(* asked for.                                                              *)
NeverShort ==
  pc = "done" /\ set = {} =>
    /\ Measured /\ call.fn = "measure" => real >= Repeats * Interval
    /\ Measured /\ call.fn = "ic" => real >= call.runs * Eighth * 8
    /\ call.fn = "delay" => real >= call.millis * Milli

LEMMA LowerBound == IInv /\ TimeInv => NeverShort
<1> SUFFICES ASSUME TimeInv, pc = "done", set = {} PROVE NeverShort
  BY DEF NeverShort
<1>1. Measured /\ call.fn = "measure" => real >= Repeats * Interval
  BY DEF TimeInv, MeasureTime, Measured
<1>2. Measured /\ call.fn = "ic" => real >= call.runs * Eighth * 8
  <2>1. SUFFICES ASSUME Measured, call.fn = "ic" PROVE real >= call.runs * Eighth * 8
    OBVIOUS
  <2>2. real >= call.runs * (8 * Eighth) /\ call.millis > 0
    BY <2>1 DEF TimeInv, IcTime, IcInv, Measured
  <2>3. call.runs \in Int /\ Eighth \in Nat \ {0}
    BY <2>1, <2>2, EighthIs DEF TimeInv, EnvInv, CallArgs
  <2>4. call.runs * (8 * Eighth) = call.runs * Eighth * 8
    BY <2>3
  <2>5. QED
    BY <2>2, <2>4
<1>3. call.fn = "delay" => real >= call.millis * Milli
  BY DEF TimeInv, DelayTime
<1>4. QED
  BY <1>1, <1>2, <1>3 DEF NeverShort

(* A call never takes less time than it was asked for as long as nobody    *)
(* sets the clock, whatever preempts or moves it and however often the     *)
(* clock wraps: the lower halves of LastsAsAsked need no assumption        *)
(* (cpu_clock_measure, cpu_clock_by_ic, busy_loop_delay).                  *)
THEOREM CallsNeverShort == Spec => []NeverShort
BY LowerBound, TimeInvInvariance, PTL

(* As long as nobody sets the clock, a call takes the time it was asked    *)
(* for and at most a pass of the busy loop more for each measurement of    *)
(* cpu_clock_measure: a pass is never longer than a quarter of the         *)
(* interval, unless busy_loop(1) is, from one measurement to the next; and *)
(* a run of cpu_clock_by_ic takes at most an eighth and a pass more.  For  *)
(* any speed of the loop, any number of runs, any length that ShortStart   *)
(* allows and any CPU whose first pass is shorter than the eighth that the *)
(* calibration looks for.                                                  *)
THEOREM LastsAlwaysAsAsked ==
  Spec => [](real < Word /\ (call.fn = "ic" => ShortStart) => LastsAsAsked)
<1>1. IInv /\ TimeInv => (real < Word /\ (call.fn = "ic" => ShortStart) => LastsAsAsked)
  <2> SUFFICES ASSUME IInv, TimeInv, real < Word, call.fn = "ic" => ShortStart,
                      pc = "done", set = {}
               PROVE  LastsAsAsked
    BY DEF LastsAsAsked
  <2>1. NeverShort
    BY LowerBound
  <2>2. Measured /\ call.fn = "measure" =>
          real <= Repeats * (Interval + LongestPass) + paused
    BY DEF TimeInv, MeasureTime, Measured, Longest, FitsLasts
  <2>3. Measured /\ call.fn = "ic" =>
          real <= (call.runs * 10 + 4) * Eighth + paused \/ Eighth < 2
    <3>1. SUFFICES ASSUME Measured, call.fn = "ic", ~(Eighth < 2)
                   PROVE  real <= (call.runs * 10 + 4) * Eighth + paused
      OBVIOUS
    <3>2. call.millis > 0
      BY <3>1 DEF TimeInv, IcInv, Measured
    <3>3. Eighth \in Nat /\ call.runs \in Int
      BY <3>1, <3>2, EighthIs DEF TimeInv, EnvInv, CallArgs
    <3>4. FitsIc
      BY <3>1, <3>3 DEF FitsIc
    <3>5. real <= (10 * call.runs + 4) * Eighth + paused
      BY <3>1, <3>4 DEF TimeInv, IcLasts, Measured
    <3>6. call.runs * 10 = 10 * call.runs
      BY <3>3
    <3>7. QED
      BY <3>5, <3>6
  <2>4. QED
    BY <2>1, <2>2, <2>3 DEF LastsAsAsked, NeverShort
<1>2. QED
  BY <1>1, TimeInvInvariance, PTL

----------------------------------------------------------------------------
(* What cpu_clock_by_ic finds.  latest is a bound on what the clock may be *)
(* ahead of real when each setting adds at most jump.                      *)

AheadInv(latest, jump) ==
  /\ faults \in 0 .. MaxFaults
  /\ latest < Word /\ "back" \notin set => adj + (MaxFaults - faults) * jump <= latest

(* The instruction rates are those of the comment, and a pass takes a      *)
(* whole number of ticks.                                                  *)
RatesAreKnown ==
  id.ipc[1] * adjust_march_ic_multiplier[1] = id.ipc[2] * adjust_march_ic_multiplier[2]
WholePass == SseTime * Denom = Numer(cycles, outer)

(* What a run measures: never less time than its passes took, and no more  *)
(* unless a fault fell into it.                                            *)
FastInv(latest) ==
  call.fn = "ic" /\ "back" \notin set /\ latest + real < Word
  /\ pc \in Runs \union {"done"} /\ (pc = "done" => results # <<>>)
  /\ RatesAreKnown /\ WholePass =>
    /\ pc = "running" =>
         /\ begin.sys + count * SseTime <= adj + real
         /\ k \notin spoiled => begin.sys + count * SseTime = adj + real
    /\ \A i \in 1 .. Len(results) :
         results[i] \in Nat /\ results[i] <= id.freq
         /\ (i \notin spoiled => results[i] = id.freq)

(* A product without a factor of both sides. *)
LEMMA Cancelled ==
  ASSUME NEW p \in Nat \ {0}, NEW a \in Nat, NEW b \in Nat, p * a = p * b
  PROVE  a = b
<1>1. CASE a < b
  <2>1. PICK x \in Nat \ {0} : b = a + x
    <3>1. b - a \in Nat \ {0}
      BY <1>1
    <3>2. QED
      BY <3>1
  <2>2. p * b = p * a + p * x /\ p * x \in Nat \ {0} /\ p * a \in Nat
    BY <2>1
  <2>3. QED
    BY <2>2
<1>2. CASE b < a
  <2>1. PICK x \in Nat \ {0} : a = b + x
    <3>1. a - b \in Nat \ {0}
      BY <1>2
    <3>2. QED
      BY <3>1
  <2>2. p * a = p * b + p * x /\ p * x \in Nat \ {0} /\ p * b \in Nat
    BY <2>1
  <2>3. QED
    BY <2>2
<1>3. QED
  BY <1>1, <1>2

(* The corrected instructions of a pass, with the rate p1 / p2 and the     *)
(* multiplier m1 / m2 that is its inverse.                                 *)
LEMMA Corrected ==
  ASSUME NEW a \in Nat, NEW x \in Nat, NEW p1 \in Nat \ {0}, NEW p2 \in Nat \ {0},
         NEW m1 \in Nat \ {0}, NEW m2 \in Nat \ {0}, NEW f \in Nat \ {0},
         a * p2 = x * (p1 * f), p1 * m1 = p2 * m2
  PROVE  a * m1 = x * (f * m2)
<1>1. p2 * (a * m1) = p2 * (x * (f * m2))
  <2>1. p2 * (a * m1) = (a * p2) * m1
    OBVIOUS
  <2>2. (x * (p1 * f)) * m1 = (x * f) * (p1 * m1)
    OBVIOUS
  <2>3. (x * f) * (p2 * m2) = p2 * (x * (f * m2))
    OBVIOUS
  <2>4. QED
    BY ONLY <2>1, <2>2, <2>3, a * p2 = x * (p1 * f), p1 * m1 = p2 * m2
<1>2. PICK u \in Nat, v \in Nat : u = a * m1 /\ v = x * (f * m2)
  <2>1. f * m2 \in Nat
    OBVIOUS
  <2>2. QED
    BY <2>1
<1>3. p2 * u = p2 * v
  BY <1>1, <1>2
<1>4. u = v
  BY <1>3, Cancelled
<1>5. QED
  BY <1>2, <1>4

(* The result of n passes of x that took t. *)
LEMMA RunGives ==
  ASSUME NEW y \in Nat, NEW x \in Nat, NEW m2 \in Nat \ {0}, NEW f \in Nat \ {0},
         NEW n \in Nat, NEW t \in Nat \ {0}, y = x * (f * m2), n * x <= t
  PROVE  /\ (y * n) \div (t * m2) \in Nat /\ (y * n) \div (t * m2) <= f
         /\ n * x = t => (y * n) \div (t * m2) = f
<1>1. PICK d \in Nat \ {0} : d = t * m2
  OBVIOUS
<1>2. PICK g \in Nat \ {0} : g = f * m2
  OBVIOUS
<1>3. PICK w \in Nat : w = n * x
  OBVIOUS
<1>4. y * n = w * g
  BY <1>2, <1>3
<1>5. t * g = f * d
  BY <1>1, <1>2
<1>6. w * g <= f * d /\ w * g \in Nat
  <2>1. (t - w) * g \in Nat /\ t * g - w * g = (t - w) * g /\ w * g \in Nat /\ t * g \in Nat
    BY <1>3
  <2>2. w * g <= t * g
    BY <2>1
  <2>3. QED
    BY <1>5, <2>1, <2>2
<1>7. w * g < d * (f + 1)
  <2>1. d * (f + 1) = f * d + d /\ f * d \in Nat
    OBVIOUS
  <2>2. QED
    BY <1>6, <2>1
<1>8. (w * g) \div d \in Nat /\ (w * g) \div d < f + 1
  <2>1. PICK z \in Nat : z = w * g
    BY <1>6
  <2>2. f + 1 \in Nat
    OBVIOUS
  <2>3. z \div d \in Nat /\ z \div d < f + 1
    BY <1>7, <2>1, <2>2, QuotientBelow
  <2>4. QED
    BY <2>1, <2>3
<1>9. n * x = t => (w * g) \div d = f
  <2>1. SUFFICES ASSUME n * x = t PROVE (w * g) \div d = f
    OBVIOUS
  <2>2. w * g = f * d
    BY <1>3, <1>5, <2>1
  <2>3. (f * d) \div d = f
    BY Multiple
  <2>4. QED
    BY <2>2, <2>3
<1>10. QED
  BY <1>1, <1>4, <1>8, <1>9

(* A run of n passes, on a CPU with the rates of the comment.              *)
LEMMA ResultGives ==
  ASSUME id \in CpuIds, cycles \in Nat \ {0}, outer \in Nat \ {0}, RatesAreKnown, WholePass,
         NEW n \in Nat, NEW t \in Nat \ {0}, n * SseTime <= t
  PROVE  /\ IcResult(n, t) \in Nat /\ IcResult(n, t) <= id.freq
         /\ n * SseTime = t => IcResult(n, t) = id.freq
<1>1. id \in CpuId
  BY ConstantsAssumption
<1>2. PICK p1 \in Nat \ {0}, p2 \in Nat \ {0}, f \in Nat \ {0} :
        p1 = id.ipc[1] /\ p2 = id.ipc[2] /\ f = id.freq
  BY <1>1 DEF CpuId
<1>3. PICK m1 \in Nat \ {0}, m2 \in Nat \ {0} :
        m1 = adjust_march_ic_multiplier[1] /\ m2 = adjust_march_ic_multiplier[2]
  BY MultiplierIs
<1>4. PICK a \in Nat : a = (cycles * SseWork + SseSetup) * outer
  <2>1. cycles * SseWork \in Nat
    BY ConstantsAssumption
  <2>2. cycles * SseWork + SseSetup \in Nat
    BY <2>1, ConstantsAssumption
  <2>3. QED
    BY <2>2
<1>5. PICK x \in Nat : x = SseTime
  BY PassTime
<1>6. a * p2 = x * (p1 * f)
  BY <1>2, <1>4, <1>5 DEF WholePass, Numer, Denom
<1>7. p1 * m1 = p2 * m2
  BY <1>2, <1>3 DEF RatesAreKnown
<1>8. a * m1 = x * (f * m2)
  BY <1>6, <1>7, Corrected
<1>9. PICK y \in Nat : y = a * m1
  OBVIOUS
<1>10. IcResult(n, t) = (y * n) \div (t * m2)
  BY <1>3, <1>4, <1>9 DEF IcResult
<1>11. y = x * (f * m2) /\ n * x <= t
  BY <1>5, <1>8, <1>9
<1>12. /\ (y * n) \div (t * m2) \in Nat /\ (y * n) \div (t * m2) <= f
       /\ n * x = t => (y * n) \div (t * m2) = f
  BY <1>11, RunGives
<1>13. QED
  BY <1>2, <1>5, <1>10, <1>12

LEMMA AheadStep ==
  ASSUME NEW latest \in Nat, NEW jump \in Nat, \A d \in Jumps : d <= jump,
         EnvInv, AheadInv(latest, jump), Next
  PROVE  AheadInv(latest, jump)'
<1>1. faults \in 0 .. MaxFaults /\ MaxFaults \in Nat /\ adj \in Nat /\ Word \in Nat \ {0}
  BY ConstantsAssumption DEF AheadInv, EnvInv
<1>2. ASSUME UNCHANGED <<adj, faults, set>> PROVE AheadInv(latest, jump)'
  BY <1>2 DEF AheadInv
<1>3. ASSUME NEW c \in Calls,
             CallMeasure(c) \/ CallMark(c) \/ CallClock(c) \/ CallByIc(c) \/ CallDelay(c)
             \/ CallPerf(c) \/ CallByTsc(c)
      PROVE  UNCHANGED <<adj, faults, set>>
  BY <1>3 DEF CallMeasure, CallMark, CallClock, CallByIc, CallDelay, CallPerf, CallByTsc,
              Begin, env, clocks, history
<1>4. Program => UNCHANGED <<adj, faults, set>>
  BY DEF Program, MarkTsc, MarkClock, Pass, PassClock, Calibrate, Calibrated, Run, Running,
         Delay, Spin, PerfFirst, PerfClock, PerfSecond, PerfLast, env, clocks, history
<1>5. ASSUME \/ \E d \in Pauses : Preempt(d)
             \/ \E c \in Cores : Move(c)
      PROVE  AheadInv(latest, jump)'
  <2>1. faults < MaxFaults /\ faults' = faults + 1 /\ UNCHANGED <<adj, set>>
    BY <1>5 DEF Preempt, Move, Fault
  <2>2. PICK r \in Nat : r = MaxFaults - (faults + 1)
    BY <1>1, <2>1
  <2>3. (MaxFaults - faults) * jump = r * jump + jump /\ r * jump \in Nat
    BY <1>1, <2>2
  <2>4. adj + (MaxFaults - faults) * jump <= latest => adj + r * jump <= latest
    BY <1>1, <2>3
  <2>5. faults + 1 \in 0 .. MaxFaults
    BY <1>1, <2>1
  <2>6. QED
    BY <2>1, <2>2, <2>4, <2>5 DEF AheadInv
<1>6. ASSUME NEW d \in Jumps, SetClock(d) PROVE AheadInv(latest, jump)'
  <2>1. /\ faults < MaxFaults /\ faults' = faults + 1 /\ adj' = (adj + d) % Word
        /\ set' = set \union {IF d < 0 THEN "back" ELSE "forward"}
    BY <1>6 DEF SetClock, Fault
  <2>2. d \in Int /\ d <= jump
    BY ConstantsAssumption
  <2>3. PICK r \in Nat : r = MaxFaults - (faults + 1)
    BY <1>1, <2>1
  <2>4. (MaxFaults - faults) * jump = r * jump + jump /\ r * jump \in Nat
    BY <1>1, <2>3
  <2>5. ASSUME latest < Word, "back" \notin set'
        PROVE  adj' + r * jump <= latest
    <3>1. d >= 0 /\ "back" \notin set
      BY <2>1, <2>2, <2>5
    <3>2. PICK a \in Nat, m \in Nat : a = adj /\ m = r * jump
      BY <1>1, <2>4
    <3>3. a + (m + jump) <= latest
      BY <2>4, <2>5, <3>1, <3>2 DEF AheadInv
    <3>4. a + d \in Nat /\ a + d + m <= latest /\ a + d < Word
      BY <1>1, <2>2, <2>5, <3>1, <3>3
    <3>5. (a + d) % Word = a + d
      BY <1>1, <3>4
    <3>6. QED
      BY <2>1, <3>2, <3>4, <3>5
  <2>6. faults + 1 \in 0 .. MaxFaults
    BY <1>1, <2>1
  <2>7. QED
    BY <2>1, <2>3, <2>5, <2>6 DEF AheadInv
<1>7. QED
  BY <1>2, <1>3, <1>4, <1>5, <1>6 DEF Next

(* The clock of a call that nobody set back.                               *)
LEMMA ClockIsAhead ==
  ASSUME NEW latest \in Nat, NEW jump \in Nat, NEW t \in Nat,
         adj \in 0 .. Word - 1, AheadInv(latest, jump), "back" \notin set, latest + t < Word
  PROVE  adj \in Nat /\ adj <= latest /\ ClockAt(t) = adj + t /\ adj + t \in 0 .. Word - 1
<1>1. Word \in Nat \ {0} /\ MaxFaults \in Nat /\ adj \in Nat
  BY ConstantsAssumption
<1>2. PICK r \in Nat : r = MaxFaults - faults
  BY <1>1 DEF AheadInv
<1>3. r * jump \in Nat
  OBVIOUS
<1>4. adj + r * jump <= latest
  BY <1>1, <1>2 DEF AheadInv
<1>5. adj <= latest
  BY <1>1, <1>3, <1>4
<1>6. adj + t \in 0 .. Word - 1 /\ t + adj = adj + t
  BY <1>1, <1>5
<1>7. (adj + t) % Word = adj + t
  BY <1>1, <1>6
<1>8. QED
  BY <1>1, <1>5, <1>6, <1>7 DEF ClockAt

LEMMA FastRun ==
  ASSUME NEW latest \in Nat, NEW jump \in Nat, EnvInv, ProgramInv, IcInv,
         AheadInv(latest, jump), FastInv(latest), Run
  PROVE  FastInv(latest)'
<1>1. /\ pc = "run" /\ pc' = "running" /\ begin' = [Blank EXCEPT !.sys = ClockAt(real)]
      /\ count' = 0
      /\ UNCHANGED <<real, adj, set, spoiled, id, call, k, cycles, outer, results>>
  BY DEF Run, sys_precise_clock, env, clocks, history
<1>2. call.fn = "ic"
  BY <1>1 DEF ProgramInv
<1>3. IcTypes
  BY <1>1, <1>2, IcTyped DEF Runs
<1>4. real \in Nat /\ adj \in 0 .. Word - 1 /\ SseTime \in Nat
  BY <1>3 DEF IcTypes
<1>5. SseTime' = SseTime /\ (RatesAreKnown' <=> RatesAreKnown) /\ (WholePass' <=> WholePass)
  BY <1>1 DEF SseTime, RatesAreKnown, WholePass, Denom, Numer, adjust_march_ic_multiplier
<1>6. SUFFICES ASSUME "back" \notin set, latest + real < Word, RatesAreKnown, WholePass
               PROVE  FastInv(latest)'
  BY <1>1, <1>2, <1>5 DEF FastInv
<1>7. ClockAt(real) = adj + real /\ adj + real \in Nat
  BY <1>4, <1>6, ClockIsAhead
<1>8. begin'.sys = adj + real /\ 0 * SseTime = 0 /\ (adj + real) + 0 = adj + real
  BY <1>1, <1>4, <1>7 DEF Blank
<1>9. /\ begin'.sys + count' * SseTime' = adj' + real'
      /\ begin'.sys + count' * SseTime' <= adj' + real'
  BY <1>1, <1>5, <1>7, <1>8
<1>10. \A i \in 1 .. Len(results) :
         results[i] \in Nat /\ results[i] <= id.freq
         /\ (i \notin spoiled => results[i] = id.freq)
  BY <1>1, <1>2, <1>6 DEF FastInv, Runs
<1>11. QED
  BY <1>1, <1>9, <1>10 DEF FastInv

LEMMA FastRunning ==
  ASSUME NEW latest \in Nat, NEW jump \in Nat, EnvInv, ProgramInv, IcInv,
         AheadInv(latest, jump), FastInv(latest), Running
  PROVE  FastInv(latest)'
<1> DEFINE spent == Minus(ClockAt(real'), begin.sys)
           word  == IcResult(count', spent)
           value == Append(results, word)
<1>1. /\ pc = "running" /\ real' = real + SseTime /\ count' = count + 1
      /\ UNCHANGED <<adj, set, spoiled, id, call, cycles, outer, begin>>
      /\ \/ spent < Eighth * 8 /\ UNCHANGED <<pc, k, results, ret>>
         \/ ~(spent < Eighth * 8) /\ results' = value /\ pc' \in {"run", "done"}
  BY DEF Running, Finish, history
<1>2. call.fn = "ic"
  BY <1>1 DEF ProgramInv
<1>3. IcTypes
  BY <1>1, <1>2, IcTyped DEF Runs
<1>4. /\ real \in Nat /\ adj \in 0 .. Word - 1 /\ SseTime \in Nat /\ count \in Nat
      /\ begin.sys \in Nat /\ id \in CpuIds /\ cycles \in Nat \ {0} /\ outer \in Nat \ {0}
      /\ k \in 1 .. call.runs /\ Len(results) = k - 1 /\ results \in Seq(Int)
      /\ Word \in Nat \ {0} /\ adj \in Nat
  BY <1>1, <1>2, <1>3, ConstantsAssumption DEF IcTypes, IcInv, Runs
<1>5. SseTime' = SseTime /\ (RatesAreKnown' <=> RatesAreKnown) /\ (WholePass' <=> WholePass)
  BY <1>1 DEF SseTime, RatesAreKnown, WholePass, Denom, Numer, adjust_march_ic_multiplier
<1>6. SUFFICES ASSUME "back" \notin set, latest + real' < Word, RatesAreKnown, WholePass
               PROVE  FastInv(latest)'
  BY <1>1, <1>2, <1>5 DEF FastInv
<1>7. PICK r \in Nat, x \in Nat, c \in Nat, a \in Nat, b \in Nat :
        r = real /\ x = SseTime /\ c = count /\ a = adj /\ b = begin.sys
  BY <1>4
<1>8. real' = r + x /\ count' = c + 1 /\ latest + (r + x) < Word /\ latest + r < Word
  BY <1>1, <1>4, <1>6, <1>7
<1>9. /\ b + c * x <= a + r /\ (k \notin spoiled => b + c * x = a + r)
      /\ \A i \in 1 .. Len(results) :
           results[i] \in Nat /\ results[i] <= id.freq
           /\ (i \notin spoiled => results[i] = id.freq)
  BY <1>1, <1>2, <1>6, <1>7, <1>8 DEF FastInv, Runs
<1>10. /\ (c + 1) * x = c * x + x /\ c * x \in Nat /\ (c + 1) * x \in Nat
       /\ b + (c + 1) * x <= a + (r + x)
       /\ k \notin spoiled => b + (c + 1) * x = a + (r + x)
  <2>1. (c + 1) * x = c * x + x /\ c * x \in Nat /\ (c + 1) * x \in Nat
    OBVIOUS
  <2>2. PICK p \in Nat : p = c * x
    BY <2>1
  <2>3. b + p <= a + r => b + (p + x) <= a + (r + x)
    OBVIOUS
  <2>4. b + p = a + r => b + (p + x) = a + (r + x)
    OBVIOUS
  <2>5. QED
    BY <1>9, <2>1, <2>2, <2>3, <2>4
<1>11. ClockAt(r + x) = a + (r + x) /\ a + (r + x) \in 0 .. Word - 1
  BY <1>4, <1>6, <1>7, <1>8, ClockIsAhead
<1>12. PICK t \in Nat : t = (a + (r + x)) - b /\ t = spent
  <2>1. PICK p \in Nat : p = (c + 1) * x
    BY <1>10
  <2>2. b + p <= a + (r + x)
    BY <1>10, <2>1
  <2>3. (a + (r + x)) - b \in 0 .. Word - 1
    BY <1>4, <1>11, <2>2
  <2>4. ((a + (r + x)) - b) % Word = (a + (r + x)) - b
    <3>1. PICK y \in 0 .. Word - 1 : y = (a + (r + x)) - b
      BY <2>3
    <3>2. y % Word = y
      BY <1>4
    <3>3. QED
      BY <3>1, <3>2
  <2>5. spent = ((a + (r + x)) - b) % Word
    BY <1>7, <1>8, <1>11 DEF Minus
  <2>6. QED
    BY <1>4, <2>3, <2>4, <2>5
<1>13. (c + 1) * x <= t /\ (k \notin spoiled => (c + 1) * x = t)
  <2>1. PICK p \in Nat : p = (c + 1) * x
    BY <1>10
  <2>2. b + p <= a + (r + x) /\ (k \notin spoiled => b + p = a + (r + x))
    BY <1>10, <2>1
  <2>3. p <= t /\ (k \notin spoiled => p = t)
    BY <1>12, <2>2
  <2>4. QED
    BY <2>1, <2>3
<1>14. CASE spent < Eighth * 8 /\ UNCHANGED <<pc, k, results, ret>>
  <2>1. /\ begin'.sys + count' * SseTime' <= adj' + real'
        /\ k' \notin spoiled' => begin'.sys + count' * SseTime' = adj' + real'
    BY <1>1, <1>5, <1>7, <1>8, <1>10, <1>14
  <2>2. QED
    BY <1>1, <1>9, <1>14, <2>1 DEF FastInv
<1>15. CASE ~(spent < Eighth * 8) /\ results' = value /\ pc' \in {"run", "done"}
  <2>1. spent \in Nat \ {0} /\ word \in Nat
    BY <1>2, <1>15, RunResult
  <2>2. PICK n \in Nat : n = c + 1
    OBVIOUS
  <2>3. n * SseTime <= t /\ (k \notin spoiled => n * SseTime = t) /\ t \in Nat \ {0}
    BY <1>7, <1>12, <1>13, <2>1, <2>2
  <2>4. /\ IcResult(n, t) \in Nat /\ IcResult(n, t) <= id.freq
        /\ n * SseTime = t => IcResult(n, t) = id.freq
    BY <1>4, <1>6, <2>3, ResultGives
  <2>5. word = IcResult(n, t)
    <3>1. count' = n
      BY <1>8, <2>2
    <3>2. QED
      BY <1>12, <3>1 DEF IcResult
  <2>6. word \in Nat /\ word <= id.freq /\ (k \notin spoiled => word = id.freq)
    BY <2>3, <2>4, <2>5
  <2>7. PICK z \in Nat : z = word
    BY <2>6
  <2> HIDE DEF word, spent
  <2>8. /\ Len(value) = k
        /\ \A i \in 1 .. k : value[i] = IF i = k THEN z ELSE results[i]
    <3>1. call.runs \in Int
      BY <1>2 DEF EnvInv, CallArgs
    <3>2. k \in Nat \ {0}
      BY <1>4, <3>1
    <3>3. value = Append(results, z)
      BY <2>7
    <3> HIDE DEF value
    <3>4. QED
      BY <1>4, <3>2, <3>3
  <2> HIDE DEF value
  <2>9. ASSUME NEW i \in 1 .. k
        PROVE  value[i] \in Nat /\ value[i] <= id.freq /\ (i \notin spoiled => value[i] = id.freq)
    <3>1. CASE i = k
      BY <2>6, <2>7, <2>8, <3>1
    <3>2. CASE i # k
      <4>1. i \in 1 .. Len(results) /\ value[i] = results[i]
        <5>1. call.runs \in Int
          BY <1>2 DEF EnvInv, CallArgs
        <5>2. QED
          BY <1>4, <2>8, <3>2, <5>1
      <4>2. QED
        BY <1>9, <4>1
    <3>3. QED
      BY <3>1, <3>2
  <2>10. \A i \in 1 .. Len(results') :
           results'[i] \in Nat /\ results'[i] <= id'.freq
           /\ (i \notin spoiled' => results'[i] = id'.freq)
    BY <1>1, <1>15, <2>8, <2>9
  <2>11. QED
    BY <1>15, <2>10 DEF FastInv
<1> HIDE DEF spent, word, value
<1>16. QED
  BY <1>1, <1>14, <1>15

LEMMA FastFaults ==
  ASSUME NEW latest \in Nat, NEW jump \in Nat, \A d \in Jumps : d <= jump,
         EnvInv, ProgramInv, IcInv, AheadInv(latest, jump), FastInv(latest),
         \/ \E d \in Pauses : Preempt(d)
         \/ \E d \in Jumps : SetClock(d)
         \/ \E c \in Cores : Move(c)
  PROVE  FastInv(latest)'
<1>1. UNCHANGED <<id, pc, call, k, cycles, outer, count, begin, results>> /\ pc # "done"
  BY DEF Preempt, SetClock, Move, Fault, locals
<1>2. SUFFICES ASSUME call.fn = "ic", "back" \notin set', latest + real' < Word, pc \in Runs,
                      RatesAreKnown, WholePass
               PROVE  FastInv(latest)'
  <2>1. (RatesAreKnown' <=> RatesAreKnown) /\ (WholePass' <=> WholePass)
    BY <1>1 DEF SseTime, RatesAreKnown, WholePass, Denom, Numer, adjust_march_ic_multiplier
  <2>2. QED
    BY <1>1, <2>1 DEF FastInv
<1>3. SseTime' = SseTime
  BY <1>1 DEF SseTime
<1>4. IcTypes
  BY <1>2, IcTyped
<1>5. /\ real \in Nat /\ adj \in 0 .. Word - 1 /\ adj \in Nat /\ Word \in Nat \ {0}
      /\ core \in Cores /\ IsFiniteSet(spoiled)
  BY <1>4, ConstantsAssumption DEF IcTypes, ProgramInv
<1>6. /\ real' \in Nat /\ real <= real' /\ adj' \in 0 .. Word - 1 /\ spoiled \subseteq spoiled'
  BY <1>5, FaultReal
<1>7. PICK r \in Nat, b \in 0 .. Word - 1 : r = real' /\ b = adj'
  BY <1>6
<1>8. "back" \notin set /\ latest + real < Word
  <2>1. "back" \notin set
    BY <1>2 DEF Preempt, SetClock, Move
  <2>2. latest + r < Word /\ real <= r
    BY <1>2, <1>6, <1>7
  <2>3. QED
    BY <1>5, <2>1, <2>2
<1>9. adj <= latest /\ adj + real < Word
  <2>1. adj <= latest /\ adj + real \in 0 .. Word - 1
    BY <1>5, <1>8, ClockIsAhead
  <2>2. QED
    BY <1>5, <2>1
<1>10. \/ k \in spoiled' /\ adj + real <= adj' + real'
       \/ pc # "running"
       \/ adj' + real' = adj + real
  <2>1. CASE \E d \in Pauses : Preempt(d)
    <3>1. adj' = adj /\ (pc = "running" => k \in spoiled')
      BY <2>1 DEF Preempt, Spoil
    <3>2. adj + real <= adj + r
      <4>1. real <= r
        BY <1>6, <1>7
      <4>2. QED
        BY <1>5, <4>1
    <3>3. QED
      BY <1>7, <3>1, <3>2
  <2>2. CASE \E d \in Jumps : SetClock(d)
    <3>1. PICK d \in Jumps : SetClock(d)
      BY <2>2
    <3>2. /\ real' = real /\ adj' = (adj + d) % Word
          /\ set' = set \union {IF d < 0 THEN "back" ELSE "forward"}
          /\ pc = "running" => k \in spoiled'
      BY <3>1 DEF SetClock, Spoil
    <3>3. d \in Nat
      <4>1. d \in Int /\ ~(d < 0)
        BY <1>2, <3>2, ConstantsAssumption
      <4>2. QED
        BY <4>1
    <3>4. adj + d < Word
      <4>1. faults \in 0 .. MaxFaults /\ MaxFaults \in Nat /\ faults < MaxFaults
        BY <3>1, ConstantsAssumption DEF SetClock, Fault, AheadInv
      <4>2. PICK n \in Nat : n = (MaxFaults - faults) - 1
        BY <4>1
      <4>3. (MaxFaults - faults) * jump = n * jump + jump /\ n * jump \in Nat
        BY <4>1, <4>2
      <4>4. PICK m \in Nat : m = n * jump
        BY <4>3
      <4>5. latest < Word
        BY <1>5, <1>8
      <4>6. adj + (m + jump) <= latest
        BY <1>8, <4>3, <4>4, <4>5 DEF AheadInv
      <4>7. d <= jump
        OBVIOUS
      <4>8. QED
        BY <1>5, <3>3, <4>5, <4>6, <4>7
    <3>5. (adj + d) % Word = adj + d
      BY <1>5, <3>3, <3>4
    <3>6. adj + real <= (adj + d) + real
      BY <1>5, <3>3
    <3>7. QED
      BY <3>2, <3>5, <3>6
  <2>3. CASE \E c \in Cores : Move(c)
    BY <2>3 DEF Move
  <2>4. QED
    BY <2>1, <2>2, <2>3
<1>11. pc = "running" =>
         /\ begin.sys + count * SseTime <= adj' + real'
         /\ k \notin spoiled' => begin.sys + count * SseTime = adj' + real'
  <2>1. SUFFICES ASSUME pc = "running"
                 PROVE  /\ begin.sys + count * SseTime <= adj' + real'
                        /\ k \notin spoiled' => begin.sys + count * SseTime = adj' + real'
    OBVIOUS
  <2>2. /\ begin.sys + count * SseTime <= adj + real
        /\ k \notin spoiled => begin.sys + count * SseTime = adj + real
    BY <1>2, <1>8, <2>1 DEF FastInv, Runs
  <2>3. PICK w \in Int, v \in Nat, u \in Nat :
          w = begin.sys + count * SseTime /\ v = adj + real /\ u = b + r
    <3>1. count \in Nat /\ begin.sys \in Nat /\ SseTime \in Nat
      BY <1>2, <1>4, <2>1 DEF IcInv, IcTypes
    <3>2. count * SseTime \in Nat
      BY <3>1
    <3>3. b \in Nat
      BY <1>5
    <3>4. QED
      BY <1>5, <3>1, <3>2, <3>3
  <2>4. w <= v /\ (k \notin spoiled => w = v)
    BY <2>2, <2>3
  <2>5. u = adj' + real'
    BY <1>7, <2>3
  <2>6. \/ k \in spoiled' /\ v <= u
        \/ u = v
    BY <1>10, <2>1, <2>3, <2>5
  <2>7. w <= u
    BY <2>4, <2>6
  <2>8. k \notin spoiled' => w = u
    BY <1>6, <2>4, <2>6
  <2>9. QED
    BY <2>3, <2>5, <2>7, <2>8
<1>12. \A i \in 1 .. Len(results) :
         results[i] \in Nat /\ results[i] <= id.freq
         /\ (i \notin spoiled' => results[i] = id.freq)
  BY <1>2, <1>6, <1>8 DEF FastInv
<1>13. QED
  BY <1>1, <1>3, <1>11, <1>12 DEF FastInv

LEMMA FastStep ==
  ASSUME NEW latest \in Nat, NEW jump \in Nat, \A d \in Jumps : d <= jump,
         IInv, TimeInv, AheadInv(latest, jump), FastInv(latest), Next
  PROVE  FastInv(latest)'
<1>1. ProgramInv /\ IdleInv /\ EnvInv /\ IcInv
  BY DEF IInv, TimeInv
<1>2. ASSUME NEW c \in Calls,
             CallMeasure(c) \/ CallMark(c) \/ CallClock(c) \/ CallByIc(c) \/ CallDelay(c)
             \/ CallPerf(c) \/ CallByTsc(c)
      PROVE  FastInv(latest)'
  <2>1. /\ pc = "idle" /\ results' = results
        /\ call'.fn = "ic" => CallByIc(c)
    BY <1>2, CallEnv
  <2>2. results' = <<>>
    BY <1>1, <2>1 DEF IdleInv
  <2>3. call'.fn = "ic" => pc' \in {"done", "calibrate"}
    BY <2>1 DEF CallByIc, Finish
  <2>4. QED
    BY <2>2, <2>3 DEF FastInv, Runs
<1>3. ASSUME Program PROVE FastInv(latest)'
  <2>1. CASE Run \/ Running
    BY <1>1, <2>1, FastRun, FastRunning
  <2>2. CASE Calibrate
    BY <2>2 DEF Calibrate, FastInv, Runs
  <2>3. CASE Calibrated
    <3>1. call.fn = "ic" => results' = <<>>
      BY <1>1, <2>3 DEF Calibrated, IcInv, Calibrating
    <3>2. pc' # "done" /\ pc' # "running" /\ UNCHANGED call
      BY <2>3 DEF Calibrated
    <3>3. 1 .. Len(<<>>) = {}
      OBVIOUS
    <3>4. QED
      BY <3>1, <3>2, <3>3 DEF FastInv
  <2>4. CASE ~(Calibrate \/ Calibrated \/ Run \/ Running)
    <3>1. pc \notin Calibrating \union Runs \union {"done"} /\ UNCHANGED call
      BY <1>3, <2>4, ProgramKeeps
      DEF Program, MarkTsc, MarkClock, Pass, PassClock, Delay, Spin, PerfFirst, PerfClock,
          PerfSecond, PerfLast, Calibrating, Runs
    <3>2. call.fn # "ic"
      BY <1>1, <3>1 DEF IcInv
    <3>3. QED
      BY <3>1, <3>2 DEF FastInv
  <2>5. QED
    BY <2>1, <2>2, <2>3, <2>4
<1>4. QED
  BY <1>1, <1>2, <1>3, FastFaults DEF Next

(* The largest of results of which one is the frequency and none is above. *)
LEMMA LargestIs ==
  ASSUME NEW r \in Seq(Int), NEW f \in Nat, NEW n \in 1 .. Len(r), r[n] = f,
         \A i \in 1 .. Len(r) : r[i] \in Nat /\ r[i] <= f
  PROVE  MaxOf(r) = f
<1> DEFINE S    == {0} \union {r[i] : i \in DOMAIN r}
           P(m) == m >= 0 /\ \A i \in DOMAIN r : m >= r[i]
<1>1. DOMAIN r = 1 .. Len(r)
  OBVIOUS
<1>2. f \in S /\ P(f)
  BY <1>1
<1>3. \A m \in S : m \in Nat /\ m <= f
  BY <1>1
<1>4. \A m \in S : P(m) => m = f
  BY <1>1, <1>3
<1>5. MaxOf(r) = CHOOSE m \in S : P(m)
  BY DEF MaxOf
<1> HIDE DEF S, P
<1>6. QED
  BY <1>2, <1>4, <1>5

(* cpu_clock_by_ic finds the frequency of the core when one of its runs    *)
(* was left alone and nobody set the clock back, for any number of runs,   *)
(* any length, any preemptions and any settings forward, on any CPU with   *)
(* the instruction rates of the comment of adjust_march_ic_multiplier      *)
(* whose passes take a whole number of ticks, as long as the clock does    *)
(* not pass the end of uint64_t.                                           *)
THEOREM IcAlwaysFastest ==
  ASSUME NEW latest \in Nat, NEW jump \in Nat, \A d \in Jumps : d <= jump,
         \A s \in Start : s + MaxFaults * jump <= latest
  PROVE  Spec => [](latest + real < Word /\ (call.fn = "ic" => RatesAreKnown /\ WholePass)
                    => IcIsFastest)
<1>1. Init => AheadInv(latest, jump) /\ FastInv(latest)
  <2> SUFFICES ASSUME Init PROVE AheadInv(latest, jump) /\ FastInv(latest)
    OBVIOUS
  <2>1. MaxFaults \in Nat /\ adj + (MaxFaults - 0) * jump <= latest
    BY ConstantsAssumption DEF Init
  <2>2. QED
    BY <2>1 DEF Init, AheadInv, FastInv
<1>2. IInv /\ TimeInv /\ AheadInv(latest, jump) /\ FastInv(latest) /\ [Next]_vars
        => AheadInv(latest, jump)' /\ FastInv(latest)'
  <2> SUFFICES ASSUME IInv, TimeInv, AheadInv(latest, jump), FastInv(latest), [Next]_vars
               PROVE  AheadInv(latest, jump)' /\ FastInv(latest)'
    OBVIOUS
  <2>1. CASE Next
    BY <2>1, AheadStep, FastStep DEF TimeInv
  <2>2. CASE UNCHANGED vars
    <3>1. UNCHANGED <<real, adj, id, pc, call, k, cycles, outer, count, begin, results, spoiled,
                      set, faults>>
      BY <2>2 DEF vars, env, locals, clocks, history
    <3>2. SseTime' = SseTime /\ (RatesAreKnown' <=> RatesAreKnown) /\ (WholePass' <=> WholePass)
      BY <3>1 DEF SseTime, RatesAreKnown, WholePass, Denom, Numer, adjust_march_ic_multiplier
    <3>3. AheadInv(latest, jump)'
      BY <3>1 DEF AheadInv
    <3>4. FastInv(latest)'
      BY <3>1, <3>2 DEF FastInv
    <3>5. QED
      BY <3>3, <3>4
  <2>3. QED
    BY <2>1, <2>2
<1>3. IInv /\ TimeInv /\ FastInv(latest)
        => (latest + real < Word /\ (call.fn = "ic" => RatesAreKnown /\ WholePass)
            => IcIsFastest)
  <2> SUFFICES ASSUME TimeInv, FastInv(latest), latest + real < Word, RatesAreKnown, WholePass,
                      Measured, call.fn = "ic", "back" \notin set,
                      (1 .. call.runs) \ spoiled # {}
               PROVE  ret = id.freq
    BY DEF IcIsFastest
  <2>1. /\ results \in Seq(Int) /\ Len(results) = call.runs /\ ret = MaxOf(results)
        /\ id \in CpuId
    BY ConstantsAssumption DEF TimeInv, IcInv, Measured
  <2>2. PICK i \in 1 .. Len(results) : i \notin spoiled
    BY <2>1
  <2>3. \A j \in 1 .. Len(results) :
          results[j] \in Nat /\ results[j] <= id.freq
          /\ (j \notin spoiled => results[j] = id.freq)
    BY DEF FastInv, Measured
  <2>4. PICK f \in Nat : f = id.freq
    BY <2>1 DEF CpuId
  <2>5. results[i] = f /\ \A j \in 1 .. Len(results) : results[j] \in Nat /\ results[j] <= f
    BY <2>2, <2>3, <2>4
  <2>6. MaxOf(results) = f
    BY <2>1, <2>5, LargestIs
  <2>7. QED
    BY <2>1, <2>4, <2>6
<1>4. QED
  BY <1>1, <1>2, <1>3, TimeInvInvariance, PTL DEF Spec
=============================================================================
