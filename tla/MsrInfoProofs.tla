---------------------------- MODULE MsrInfoProofs ----------------------------
(* Proofs about MsrInfo, for every number of threads, CPUs and P-states and *)
(* every machine.                                                          *)
EXTENDS MsrInfo, TLAPS, FiniteSetTheorems

USE ConstantsAssumption
    DEF Requests, Returns, FirstUse, environment, cache, statics, device

(* What a read brings: the register and the CPU it was asked for. *)
LEMMA ReadingsRight ==
  ASSUME TypeOK, NEW c \in Cores, NEW r \in Registers, NEW x \in Readings(c, r)
  PROVE  /\ x \in Reading /\ x.reg = r /\ x.core = c
         /\ ~x.ok => x.value = 0
         /\ x.ok => x.value \in FieldValues(c, r)
<1>1. machine \in Machine
  BY DEF TypeOK
<1>2. FieldValues(c, r) \subseteq Nat
  BY <1>1 DEF TypeOK, FieldValues, Machine
<1>3. CASE Readable(c, r)
  <2>1. PICK v \in FieldValues(c, r) : x = [reg |-> r, core |-> c, ok |-> TRUE, value |-> v]
    BY <1>3 DEF Readings
  <2>2. QED
    BY <1>2, <2>1 DEF Reading
<1>4. CASE ~Readable(c, r)
  <2>1. x = [reg |-> r, core |-> c, ok |-> FALSE, value |-> 0]
    BY <1>4 DEF Readings
  <2>2. QED
    BY <2>1 DEF Reading
<1>5. QED
  BY <1>3, <1>4

(* Every register a request asks for exists, once get_amd_multipliers has  *)
(* refused the P-states that do not.                                       *)
LEMMA NextRegisterExists ==
  ASSUME TypeOK, NEW t \in Threads, ~Impossible(t), NEW r \in NextRegister(t)
  PROVE  r \in Registers
<1>1. CASE which[t] = "perf"
  BY <1>1 DEF NextRegister, Registers, Reg
<1>2. CASE which[t] # "perf" /\ machine.vendor = "amd"
  <2>1. r \in AmdNext(which[t], got[t])
    BY <1>2 DEF NextRegister
  <2>2. r.name = "PSTATE" => r \in Registers
    BY DEF Impossible, RefusedPstate
  <2>3. r.name = "PSTATE" \/ r = Reg("PSTATE_S") \/ r = Reg("PSTATE_L")
    BY <2>1 DEF AmdNext, Pstate, CurrentPstate, BasePstate
  <2>4. QED
    BY <2>2, <2>3 DEF Registers
<1>3. CASE which[t] # "perf" /\ machine.vendor = "intel"
  <2>1. r \in IntelNext(which[t], got[t])
    BY <1>3 DEF NextRegister
  <2>2. IntelPlan(which[t]) \in Seq(Registers)
    <3>1. Reg("THERM_STATUS") \in Registers /\ Reg("TEMPERATURE_TARGET") \in Registers
      BY DEF Registers
    <3>2. Reg("PLATFORM_INFO") \in Registers /\ Reg("EBL_CR_POWERON") \in Registers
      BY DEF Registers
    <3>3. Reg("PERF_STATUS") \in Registers /\ Reg("TURBO_RATIO_LIMIT") \in Registers
      BY DEF Registers
    <3>4. QED
      BY <3>1, <3>2, <3>3 DEF IntelPlan
  <2>3. QED
    BY <2>1, <2>2 DEF IntelNext, TypeOK
<1>4. QED
  BY <1>1, <1>2, <1>3 DEF NextRegister

(* The handles are counted by a natural number, not 0 when there is one. *)
LEMMA HandlesCounted ==
  /\ IsFiniteSet(Handles) /\ Cardinality(Handles) \in Nat
  /\ \A t \in Threads : open[t] => Cardinality(Handles) # 0
<1>1. IsFiniteSet(Handles)
  BY FS_Subset DEF Handles
<1>2. Cardinality(Handles) \in Nat
  BY <1>1, FS_CardinalityType
<1>3. Cardinality(Handles) = 0 <=> Handles = {}
  BY <1>1, FS_EmptySet
<1>4. QED
  BY <1>1, <1>2, <1>3 DEF Handles

(* A thread in cpu_msrinfo has a handle, and uses it. *)
LEMMA InfoHasHandle ==
  ASSUME TypeOK, Placed, OwnHandle, NEW t \in Threads, InInfo(t)
  PROVE  /\ open[t] /\ op[t] = "info" /\ core[t] \in Cores
         /\ pc[t] # "enter" => infoHandle = core[t] /\ HandleUsed(t) = core[t]
BY DEF Placed, OwnHandle, InInfo, HandleUsed

(* What Scan sees of a P-state. *)
LEMMA ScanSees ==
  ASSUME TypeOK, Placed, OwnHandle, LastFound, NEW t \in Threads, pc[t] = "scan",
         NEW x \in Readings(infoHandle, Pstate(lastAddr - 1))
  PROVE  /\ lastAddr \in 1 .. MaxPstate + 1
         /\ x \in Reading /\ (~x.ok => x.value = 0)
         /\ x.ok => x.value = IF lastAddr - 1 \in machine.enabled THEN 1 ELSE 0
<1>1. lastAddr \in 1 .. MaxPstate + 1
  BY DEF TypeOK, LastFound
<1>2. infoHandle \in Cores
  BY InfoHasHandle DEF InInfo
<1>3. Pstate(lastAddr - 1) \in Registers
  BY <1>1 DEF Registers, PstateRegs
<1>4. FieldValues(infoHandle, Pstate(lastAddr - 1))
        = {IF lastAddr - 1 \in machine.enabled THEN 1 ELSE 0}
  BY DEF FieldValues, Pstate
<1>5. QED
  BY <1>1, <1>2, <1>3, <1>4, ReadingsRight

(* What ReadRegister appends. *)
LEMMA ReadAppends ==
  ASSUME TypeOK, Placed, OwnHandle, NEW t \in Threads, ReadRegister(t)
  PROVE  \E r \in NextRegister(t) \intersect Registers :
           \E x \in Readings(core[t], r) :
             /\ x \in Reading /\ core[t] \in Cores /\ x.core = core[t] /\ x.reg = r
             /\ got' = [got EXCEPT ![t] = Append(@, x)] /\ NoteError(t, x)
<1>1. core[t] \in Cores /\ HandleUsed(t) = core[t]
  BY InfoHasHandle DEF ReadRegister, InInfo
<1>2. PICK r \in NextRegister(t) : \E x \in Readings(core[t], r) :
        got' = [got EXCEPT ![t] = Append(@, x)] /\ NoteError(t, x)
  BY <1>1 DEF ReadRegister
<1>3. r \in Registers
  BY NextRegisterExists DEF ReadRegister
<1>4. PICK x \in Readings(core[t], r) :
        got' = [got EXCEPT ![t] = Append(@, x)] /\ NoteError(t, x)
  BY <1>2
<1> DEFINE c == core[t]
<1>5. c \in Cores /\ x \in Readings(c, r)
  BY <1>1, <1>4
<1> HIDE DEF c
<1>6. x \in Reading /\ x.core = c /\ x.reg = r
  BY <1>3, <1>5, ReadingsRight
<1>7. QED
  BY <1>1, <1>3, <1>4, <1>6 DEF c

LEMMA DumpedRegistersExist ==
  ASSUME TypeOK
  PROVE  DumpedRegisters \in Seq(Registers)
<1>1. CASE machine.vendor = "amd"
  <2>1. Reg("PSTATE_L") \in Registers /\ Reg("PSTATE_S") \in Registers
    BY DEF Registers
  <2>2. \A i \in 1 .. MaxPstate + 3 : i > 2 => Pstate(i - 3) \in Registers
    BY DEF Registers, PstateRegs
  <2>3. \A i \in 1 .. MaxPstate + 3 : DumpedRegisters[i] \in Registers
    BY <1>1, <2>1, <2>2 DEF DumpedRegisters
  <2>4. DumpedRegisters = [i \in 1 .. MaxPstate + 3 |-> DumpedRegisters[i]]
    BY <1>1 DEF DumpedRegisters
  <2>5. MaxPstate + 3 \in Nat
    OBVIOUS
  <2>6. QED
    BY <2>3, <2>4, <2>5
<1>2. CASE machine.vendor # "amd"
  <2>1. Reg("PERF") \in Registers /\ Reg("PERF_STATUS") \in Registers
    BY DEF Registers
  <2>2. Reg("THERM_STATUS") \in Registers /\ Reg("EBL_CR_POWERON") \in Registers
    BY DEF Registers
  <2>3. Reg("TURBO_RATIO_LIMIT") \in Registers /\ Reg("TEMPERATURE_TARGET") \in Registers
    BY DEF Registers
  <2>4. Reg("PLATFORM_INFO") \in Registers
    BY DEF Registers
  <2>5. QED
    BY <1>2, <2>1, <2>2, <2>3, <2>4 DEF DumpedRegisters
<1>3. QED
  BY <1>1, <1>2

(* What PrintLine appends. *)
LEMMA PrintAppends ==
  ASSUME TypeOK, Placed, NEW t \in Threads, PrintLine(t)
  PROVE  \E e \in Returns : \E l \in Line :
           /\ l.reg = DumpedRegisters[Len(lines[t]) + 1]
           /\ lines' = [lines EXCEPT ![t] = Append(@, l)]
           /\ errno' = [errno EXCEPT ![t] = e]
<1> DEFINE n == Len(lines[t])
           r == DumpedRegisters[n + 1]
           before == IF n = 0 THEN Reg("none") ELSE lines[t][n].shown
           line(x) == [reg |-> r, shown |-> IF x.ok THEN r ELSE before]
<1>1. PICK x \in Readings(core[t], r) :
        lines' = [lines EXCEPT ![t] = Append(@, line(x))] /\ NoteError(t, x)
  BY DEF PrintLine
<1>2. n \in Nat /\ n < Len(DumpedRegisters)
  BY DEF PrintLine, TypeOK
<1>3. r \in Registers
  BY <1>2, DumpedRegistersExist
<1>4. before \in Registers \union {Reg("none")}
  <2>1. CASE n = 0
    BY <2>1
  <2>2. CASE n # 0
    <3>1. lines[t] \in Seq(Line) /\ n \in 1 .. Len(lines[t])
      BY <1>2, <2>2 DEF TypeOK
    <3>2. lines[t][n] \in Line
      BY <3>1
    <3>3. QED
      BY <2>2, <3>2 DEF Line
  <2>3. QED
    BY <2>1, <2>2
<1>5. line(x) \in Line /\ line(x).reg = r
  BY <1>3, <1>4 DEF Line
<1>6. \E e \in Returns : errno' = [errno EXCEPT ![t] = e]
  <2>1. errno \in [Threads -> Returns]
    BY DEF TypeOK
  <2>2. errno' = [errno EXCEPT ![t] = errno[t]] \/ errno' = [errno EXCEPT ![t] = "ERR_INVMSR"]
    BY <1>1, <2>1 DEF NoteError
  <2>3. QED
    BY <2>1, <2>2
<1>7. QED
  BY <1>1, <1>5, <1>6

PcTypes(p) == p \in [Threads -> FirstUse \union
                      {"idle", "refuse", "lookup", "decide", "enter", "info", "scan",
                       "vendor", "lines", "close"}]

(* The types after entering a function. *)
LEMMA EnterTypes ==
  ASSUME TypeOK, NEW t \in Threads, NEW f \in {"open", "info", "serialize", "close"},
         NEW first \in {"lookup", "refuse", "enter", "close"}, Enter(t, f, first)
  PROVE  /\ PcTypes(pc')
         /\ op' \in [Threads -> {"none", "open", "info", "serialize", "close", "read"}]
         /\ got' \in [Threads -> Seq(Reading)] /\ lines' \in [Threads -> Seq(Line)]
         /\ calls' \in [Threads -> 0 .. MaxCalls]
<1>1. PcTypes(pc')
  BY DEF TypeOK, Enter, PcTypes
<1>2. op' \in [Threads -> {"none", "open", "info", "serialize", "close", "read"}]
  BY DEF TypeOK, Enter
<1>3. got' \in [Threads -> Seq(Reading)] /\ lines' \in [Threads -> Seq(Line)]
  BY DEF TypeOK, Enter
<1>4. calls' \in [Threads -> 0 .. MaxCalls]
  BY ConstantsAssumption DEF TypeOK, Enter
<1>5. QED
  BY <1>1, <1>2, <1>3, <1>4

LEMMA TypeStep == TypeOK /\ Placed /\ OwnHandle /\ LastFound /\ Files /\ [Next]_vars => TypeOK'
<1> SUFFICES ASSUME TypeOK, Placed, OwnHandle, LastFound, Files, [Next]_vars PROVE TypeOK'
  OBVIOUS
<1>1. ASSUME NEW t \in Threads, NEW c \in Cores \union {Cardinality(Cores)}, CallOpen(t, c) PROVE TypeOK'
  <2>1. c \in Nat
    BY FS_CardinalityType
  <2>2. pc' = [pc EXCEPT ![t] = "lookup"] \/ pc' = [pc EXCEPT ![t] = "refuse"]
    BY <1>1 DEF CallOpen, Enter
  <2>3. /\ op' = [op EXCEPT ![t] = "open"] /\ core' = [core EXCEPT ![t] = c]
        /\ calls[t] < MaxCalls /\ calls' = [calls EXCEPT ![t] = calls[t] + 1]
        /\ got' = [got EXCEPT ![t] = <<>>] /\ lines' = [lines EXCEPT ![t] = <<>>]
        /\ UNCHANGED <<environment, cache, statics, device, which, ret, errno, during>>
    BY <1>1 DEF CallOpen, Enter
  <2>4. /\ pc' \in [Threads -> FirstUse \union
                      {"idle", "refuse", "lookup", "decide", "enter", "info", "scan",
                       "vendor", "lines", "close"}]
        /\ op' \in [Threads -> {"none", "open", "info", "serialize", "close", "read"}]
        /\ core' \in [Threads -> Nat]
    BY <2>1, <2>2, <2>3 DEF TypeOK
  <2>5. calls' \in [Threads -> 0 .. MaxCalls]
    BY <2>3, ConstantsAssumption DEF TypeOK
  <2>6. /\ got' \in [Threads -> Seq(Reading)] /\ lines' \in [Threads -> Seq(Line)]
    BY <2>3 DEF TypeOK
  <2>7. QED
    BY <2>3, <2>4, <2>5, <2>6 DEF TypeOK, environment, cache, statics, device
<1>2. ASSUME NEW t \in Threads, NEW w \in Requests, CallInfo(t, w) PROVE TypeOK'
  <2>1. pstate[core[t]] \in 0 .. MaxPstate
    BY <1>2 DEF CallInfo, Placed, TypeOK
  <2>2. /\ Enter(t, "info", "enter") /\ which' = [which EXCEPT ![t] = w]
        /\ during' = [during EXCEPT ![t] = {pstate[core[t]]}]
        /\ UNCHANGED <<environment, cache, statics, device, core, ret, errno>>
    BY <1>2 DEF CallInfo
  <2>3. /\ PcTypes(pc')
        /\ op' \in [Threads -> {"none", "open", "info", "serialize", "close", "read"}]
        /\ got' \in [Threads -> Seq(Reading)] /\ lines' \in [Threads -> Seq(Line)]
        /\ calls' \in [Threads -> 0 .. MaxCalls]
    BY <2>2, EnterTypes
  <2>4. which' \in [Threads -> Requests]
    BY <1>2, <2>2 DEF TypeOK
  <2>5. during' \in [Threads -> SUBSET (0 .. MaxPstate)]
    BY <2>1, <2>2 DEF TypeOK
  <2> HIDE DEF Enter
  <2>6. QED
    BY <2>2, <2>3, <2>4, <2>5, Zenon DEF TypeOK, PcTypes, environment, cache, statics, device
<1>3. ASSUME NEW t \in Threads, RefuseCore(t) PROVE TypeOK'
  BY <1>3 DEF TypeOK, RefuseCore, Fail, Leave
<1>4. ASSUME NEW t \in Threads, CallSerialize(t) PROVE TypeOK'
  <2>1. Enter(t, "serialize", "lookup")
        /\ UNCHANGED <<environment, cache, statics, device, core, which, ret, errno, during>>
    BY <1>4 DEF CallSerialize
  <2>2. QED
    BY <2>1, EnterTypes DEF TypeOK, PcTypes, environment, cache, statics, device
<1>5. ASSUME NEW t \in Threads, CallClose(t) PROVE TypeOK'
  <2>1. Enter(t, "close", "close")
        /\ UNCHANGED <<environment, cache, statics, device, core, which, ret, errno, during>>
    BY <1>5 DEF CallClose
  <2>2. QED
    BY <2>1, EnterTypes DEF TypeOK, PcTypes, environment, cache, statics, device
<1>6. ASSUME NEW t \in Threads, CallWithoutHandle(t) PROVE TypeOK'
  <2>1. PICK f \in {"close", "read", "serialize", "info"}, a \in Returns, e \in Returns :
          op' = [op EXCEPT ![t] = f] /\ Leave(t, a) /\ errno' = [errno EXCEPT ![t] = e]
    <3>1. errno[t] \in Returns /\ errno = [errno EXCEPT ![t] = errno[t]]
      BY DEF TypeOK
    <3>2. QED
      BY <1>6, <3>1 DEF CallWithoutHandle, Fail
  <2>2. QED
    BY <1>6, <2>1 DEF TypeOK, CallWithoutHandle, Leave
<1>7. ASSUME NEW t \in Threads, Close(t) PROVE TypeOK'
  <2>1. fds - 1 \in Nat
    <3>1. open[t]
      BY <1>7 DEF Close, Placed
    <3>2. Cardinality(Handles) \in Nat /\ Cardinality(Handles) # 0
      BY <3>1, HandlesCounted
    <3>3. fds >= Cardinality(Handles) /\ fds \in Nat
      BY DEF Files, TypeOK
    <3>4. QED
      BY <3>2, <3>3
  <2>2. QED
    BY <1>7, <2>1 DEF TypeOK, Close, Leave
<1>8. ASSUME NEW t \in Threads, Lookup(t) PROVE TypeOK'
  BY <1>8 DEF TypeOK, Lookup
<1>9. ASSUME NEW t \in Threads, Construct(t) PROVE TypeOK'
  BY <1>9 DEF TypeOK, Construct
<1>10. ASSUME NEW t \in Threads, Fill(t) PROVE TypeOK'
  BY <1>10 DEF TypeOK, Fill, Identified
<1>11. ASSUME NEW t \in Threads, Publish(t) PROVE TypeOK'
  BY <1>11 DEF TypeOK, Publish
<1>12. ASSUME NEW t \in Threads, OpenUnsupported(t) PROVE TypeOK'
  BY <1>12 DEF TypeOK, OpenUnsupported, Fail, Leave
<1>13. ASSUME NEW t \in Threads, OpenFails(t) PROVE TypeOK'
  BY <1>13 DEF TypeOK, OpenFails, Fail, Leave
<1>14. ASSUME NEW t \in Threads, OpenDevice(t) PROVE TypeOK'
  <2>1. /\ fds' \in Nat /\ open' \in [Threads -> BOOLEAN] /\ loaded' \in BOOLEAN
        /\ pc' \in [Threads -> {"idle"} \union {pc[u] : u \in Threads}]
        /\ ret' \in [Threads -> Returns] /\ errno' \in [Threads -> Returns]
    <3>1. CASE Leave(t, "handle") /\ UNCHANGED errno /\ fds' = fds + 1 /\ open' = [open EXCEPT ![t] = TRUE]
      BY <1>14, <3>1 DEF TypeOK, OpenDevice, Leave
    <3>2. CASE Fail(t, "ERR_NO_MEM") /\ UNCHANGED open /\ fds' = IF ClosesOnNoMem THEN fds ELSE fds + 1
      BY <1>14, <3>2 DEF TypeOK, OpenDevice, Fail, Leave
    <3>3. QED
      BY <1>14, <3>1, <3>2 DEF OpenDevice
  <2>2. UNCHANGED <<environment, cache, statics, op, core, which, got, lines, calls, during>>
    BY <1>14 DEF OpenDevice
  <2>3. QED
    BY <2>1, <2>2 DEF TypeOK, environment, cache, statics
<1>15. ASSUME NEW t \in Threads, Rdmsr(t) PROVE TypeOK'
  <2>1. PICK a \in Returns, e \in Returns : Leave(t, a) /\ errno' = [errno EXCEPT ![t] = e]
    <3>1. errno[t] \in Returns /\ errno = [errno EXCEPT ![t] = errno[t]]
      BY DEF TypeOK
    <3>2. QED
      BY <1>15, <3>1 DEF Rdmsr, Fail
  <2>2. QED
    BY <1>15, <2>1 DEF TypeOK, Rdmsr, Leave
<1>16. ASSUME NEW t \in Threads, EnterInfo(t) PROVE TypeOK'
  <2>1. core[t] \in Cores
    BY <1>16, InfoHasHandle DEF EnterInfo, InInfo
  <2>2. errno' \in [Threads -> Returns]
    BY <1>16 DEF TypeOK, EnterInfo
  <2>3. QED
    BY <1>16, <2>1, <2>2 DEF TypeOK, EnterInfo
<1>17. ASSUME NEW t \in Threads, ReadRegister(t) PROVE TypeOK'
  <2>1. PICK x \in Reading : got' = [got EXCEPT ![t] = Append(@, x)] /\ NoteError(t, x)
    BY <1>17, ReadAppends
  <2>2. got' \in [Threads -> Seq(Reading)]
    BY <2>1 DEF TypeOK
  <2>3. errno' \in [Threads -> Returns]
    BY <2>1 DEF TypeOK, NoteError
  <2>4. QED
    BY <1>17, <2>2, <2>3 DEF TypeOK, ReadRegister
<1>18. ASSUME NEW t \in Threads, InfoInvalid(t) PROVE TypeOK'
  BY <1>18 DEF TypeOK, InfoInvalid, Leave
<1>19. ASSUME NEW t \in Threads, InfoAnswers(t) PROVE TypeOK'
  BY <1>19 DEF TypeOK, InfoAnswers, Leave
<1>20. ASSUME NEW t \in Threads, BeginScan(t) PROVE TypeOK'
  BY <1>20 DEF TypeOK, BeginScan
<1>21. ASSUME NEW t \in Threads, Scan(t) PROVE TypeOK'
  <2>1. PICK x \in Readings(infoHandle, Pstate(lastAddr - 1)) :
          /\ scanFailed' = (scanFailed \/ ~x.ok) /\ NoteError(t, x)
          /\ pc' = [pc EXCEPT ![t] = IF x.value = 0 /\ lastAddr' > 0 THEN "scan" ELSE "info"]
    BY <1>21 DEF Scan
  <2>2. lastAddr' \in 0 .. MaxPstate
    BY <1>21, <2>1, ScanSees DEF Scan
  <2>3. scanFailed' \in BOOLEAN
    BY <2>1, ScanSees, <1>21 DEF Scan, TypeOK, Reading
  <2>4. errno' \in [Threads -> Returns]
    BY <2>1 DEF TypeOK, NoteError
  <2>5. pc' = [pc EXCEPT ![t] = "scan"] \/ pc' = [pc EXCEPT ![t] = "info"]
    BY <2>1
  <2>6. UNCHANGED <<environment, cache, init, infoHandle, device, op, core, which, got,
                    lines, ret, calls, during>>
    BY <1>21 DEF Scan
  <2>7. pc' \in [Threads -> FirstUse \union
                     {"idle", "refuse", "lookup", "decide", "enter", "info", "scan",
                      "vendor", "lines", "close"}]
    BY <2>5 DEF TypeOK
  <2>8. QED
    BY <2>2, <2>3, <2>4, <2>6, <2>7 DEF TypeOK
<1>22. ASSUME NEW t \in Threads, SerializeOpenFails(t) PROVE TypeOK'
  BY <1>22 DEF TypeOK, SerializeOpenFails, Fail, Leave
<1>23. ASSUME NEW t \in Threads, SerializeDecide(t) PROVE TypeOK'
  <2>1. errno[t] \in Returns
    BY DEF TypeOK
  <2>2. PcTypes(pc') /\ ret' \in [Threads -> Returns]
    BY <1>23, <2>1 DEF TypeOK, PcTypes, SerializeDecide, Leave
  <2>3. UNCHANGED <<environment, cache, statics, device, op, core, which, got, lines, errno, calls,
                    during>>
    BY <1>23 DEF SerializeDecide
  <2>4. QED
    BY <2>2, <2>3 DEF TypeOK, PcTypes, environment, cache, statics, device
<1>24. ASSUME NEW t \in Threads, SerializeVendor(t) PROVE TypeOK'
  <2>1. PcTypes(pc') /\ ret' \in [Threads -> Returns] /\ errno' \in [Threads -> Returns]
    <3>1. CASE Fail(t, "ERR_CPU_UNKN")
      BY <3>1 DEF TypeOK, PcTypes, Fail, Leave, Returns
    <3>2. CASE pc' = [pc EXCEPT ![t] = "lines"] /\ UNCHANGED <<ret, errno>>
      BY <3>2 DEF TypeOK, PcTypes
    <3>3. QED
      BY <1>24, <3>1, <3>2 DEF SerializeVendor
  <2>2. UNCHANGED <<environment, cache, statics, device, op, core, which, got, lines, calls, during>>
    BY <1>24 DEF SerializeVendor
  <2>3. QED
    BY <2>1, <2>2 DEF TypeOK, PcTypes, environment, cache, statics, device
<1>25. ASSUME NEW t \in Threads, PrintLine(t) PROVE TypeOK'
  <2>1. \E e \in Returns : \E l \in Line :
           /\ l.reg = DumpedRegisters[Len(lines[t]) + 1]
           /\ lines' = [lines EXCEPT ![t] = Append(@, l)]
           /\ errno' = [errno EXCEPT ![t] = e]
    BY ONLY TypeOK, Placed, ConstantsAssumption, t \in Threads, <1>25, PrintAppends
  <2>2. lines' \in [Threads -> Seq(Line)]
    BY <2>1 DEF TypeOK
  <2>3. QED
    BY <1>25, <2>1, <2>2 DEF TypeOK, PrintLine
<1>26. ASSUME NEW t \in Threads, SerializeDone(t) PROVE TypeOK'
  BY <1>26 DEF TypeOK, SerializeDone, Fail, Leave
<1>27. ASSUME NEW c \in Cores, SwitchPstate(c) PROVE TypeOK'
  <2>1. machine.enabled \subseteq 0 .. MaxPstate
    BY DEF TypeOK, Machine
  <2>2. pstate' \in [Cores -> 0 .. MaxPstate]
    BY <1>27, <2>1 DEF TypeOK, SwitchPstate
  <2>3. during' \in [Threads -> SUBSET (0 .. MaxPstate)]
    BY <1>27, <2>2 DEF TypeOK, SwitchPstate
  <2>4. QED
    BY <1>27, <2>2, <2>3 DEF TypeOK, SwitchPstate
<1>28. ASSUME NEW c \in Cores, GoOffline(c) PROVE TypeOK'
  BY <1>28 DEF TypeOK, GoOffline
<1>29. CASE UNCHANGED vars
  BY <1>29 DEF TypeOK, vars
<1>30. QED
  BY <1>1, <1>2, <1>3, <1>4, <1>5, <1>6, <1>7, <1>8, <1>9, <1>10, <1>11, <1>12, <1>13,
     <1>14, <1>15, <1>16, <1>17, <1>18, <1>19, <1>20, <1>21, <1>22, <1>23, <1>24, <1>25,
     <1>26, <1>27, <1>28, <1>29 DEF Next, Call, Run

(* Where the steps with several outcomes go. *)
LEMMA PcMoves ==
  ASSUME NEW t \in Threads
  PROVE  /\ CallWithoutHandle(t) => pc' = [pc EXCEPT ![t] = "idle"]
         /\ OpenDevice(t) => pc' = [pc EXCEPT ![t] = "idle"]
         /\ Rdmsr(t) => pc' = [pc EXCEPT ![t] = "idle"]
         /\ SerializeDecide(t) => pc' \in {[pc EXCEPT ![t] = "idle"], [pc EXCEPT ![t] = "vendor"]}
         /\ SerializeVendor(t) => pc' \in {[pc EXCEPT ![t] = "idle"], [pc EXCEPT ![t] = "lines"]}
BY DEF CallWithoutHandle, OpenDevice, Rdmsr, SerializeDecide, SerializeVendor, Fail, Leave

(* The two decisions of msr_serialize_raw_data move one thread, and never  *)
(* into or out of cpu_msrinfo.                                             *)
LEMMA SerializeMoves ==
  ASSUME TypeOK, NEW t \in Threads, SerializeDecide(t) \/ SerializeVendor(t), NEW u \in Threads
  PROVE  \/ pc'[u] = pc[u]
         \/ pc[u] \in {"decide", "vendor"} /\ pc'[u] \in {"idle", "vendor", "lines"}
<1>1. PICK w \in {"idle", "vendor", "lines"} : pc' = [pc EXCEPT ![t] = w]
  <2>1. CASE SerializeDecide(t)
    BY <2>1, PcMoves
  <2>2. CASE SerializeVendor(t)
    BY <2>2, PcMoves
  <2>3. QED
    BY <2>1, <2>2
<1>2. DOMAIN pc = Threads
  BY DEF TypeOK
<1>3. pc'[u] = IF u = t THEN w ELSE pc[u]
  BY <1>1, <1>2
<1>4. pc[t] \in {"decide", "vendor"}
  BY DEF SerializeDecide, SerializeVendor
<1>5. QED
  BY <1>1, <1>3, <1>4

LEMMA PlacedStep == TypeOK /\ Placed /\ [Next]_vars => Placed'
<1> SUFFICES ASSUME TypeOK, Placed, [Next]_vars PROVE Placed'
  OBVIOUS
<1>1. ASSUME NEW t \in Threads, NEW c \in Cores \union {Cardinality(Cores)}, CallOpen(t, c) PROVE Placed'
  BY <1>1 DEF TypeOK, Placed, InInfo, CallOpen, Enter
<1>2. ASSUME NEW t \in Threads, NEW w \in Requests, CallInfo(t, w) PROVE Placed'
  BY <1>2 DEF TypeOK, Placed, InInfo, CallInfo, Enter
<1>3. ASSUME NEW t \in Threads, RefuseCore(t) PROVE Placed'
  BY <1>3 DEF TypeOK, Placed, InInfo, RefuseCore, Fail, Leave
<1>4. ASSUME NEW t \in Threads, CallSerialize(t) PROVE Placed'
  BY <1>4 DEF TypeOK, Placed, InInfo, CallSerialize, Enter
<1>5. ASSUME NEW t \in Threads, CallClose(t) PROVE Placed'
  BY <1>5 DEF TypeOK, Placed, InInfo, CallClose, Enter
<1>6. ASSUME NEW t \in Threads, CallWithoutHandle(t) PROVE Placed'
  BY <1>6 DEF TypeOK, Placed, InInfo, CallWithoutHandle, Fail, Leave
<1>7. ASSUME NEW t \in Threads, Close(t) PROVE Placed'
  BY <1>7 DEF TypeOK, Placed, InInfo, Close, Leave
<1>8. ASSUME NEW t \in Threads, Lookup(t) PROVE Placed'
  BY <1>8 DEF TypeOK, Placed, InInfo, Lookup
<1>9. ASSUME NEW t \in Threads, Construct(t) PROVE Placed'
  BY <1>9 DEF TypeOK, Placed, InInfo, Construct
<1>10. ASSUME NEW t \in Threads, Fill(t) PROVE Placed'
  BY <1>10 DEF TypeOK, Placed, InInfo, Fill
<1>11. ASSUME NEW t \in Threads, Publish(t) PROVE Placed'
  BY <1>11 DEF TypeOK, Placed, InInfo, Publish
<1>12. ASSUME NEW t \in Threads, OpenUnsupported(t) PROVE Placed'
  BY <1>12 DEF TypeOK, Placed, InInfo, OpenUnsupported, Fail, Leave
<1>13. ASSUME NEW t \in Threads, OpenFails(t) PROVE Placed'
  BY <1>13 DEF TypeOK, Placed, InInfo, OpenFails, Fail, Leave
<1>14. ASSUME NEW t \in Threads, OpenDevice(t) PROVE Placed'
  <2>1. pc' = [pc EXCEPT ![t] = "idle"] /\ UNCHANGED <<op, core>>
    BY <1>14, PcMoves DEF OpenDevice
  <2>2. core[t] \in Cores
    BY <1>14 DEF OpenDevice, TypeOK
  <2>3. open' = open \/ open' = [open EXCEPT ![t] = TRUE]
    BY <1>14 DEF OpenDevice
  <2>4. QED
    BY <2>1, <2>2, <2>3 DEF TypeOK, Placed, InInfo
<1>15. ASSUME NEW t \in Threads, Rdmsr(t) PROVE Placed'
  <2>1. /\ pc' = [pc EXCEPT ![t] = "idle"] /\ op' = [op EXCEPT ![t] = "read"]
        /\ open[t] /\ UNCHANGED <<open, core>>
    BY <1>15, PcMoves DEF Rdmsr, device
  <2>2. QED
    BY <2>1 DEF TypeOK, Placed, InInfo
<1>16. ASSUME NEW t \in Threads, EnterInfo(t) PROVE Placed'
  BY <1>16 DEF TypeOK, Placed, InInfo, EnterInfo
<1>17. ASSUME NEW t \in Threads, ReadRegister(t) PROVE Placed'
  BY <1>17 DEF TypeOK, Placed, InInfo, ReadRegister, NoteError
<1>18. ASSUME NEW t \in Threads, InfoInvalid(t) PROVE Placed'
  BY <1>18 DEF TypeOK, Placed, InInfo, InfoInvalid, Leave
<1>19. ASSUME NEW t \in Threads, InfoAnswers(t) PROVE Placed'
  BY <1>19 DEF TypeOK, Placed, InInfo, InfoAnswers, Leave
<1>20. ASSUME NEW t \in Threads, BeginScan(t) PROVE Placed'
  BY <1>20 DEF TypeOK, Placed, InInfo, BeginScan
<1>21. ASSUME NEW t \in Threads, Scan(t) PROVE Placed'
  BY <1>21 DEF TypeOK, Placed, InInfo, Scan, NoteError
<1>22. ASSUME NEW t \in Threads, SerializeOpenFails(t) PROVE Placed'
  BY <1>22 DEF TypeOK, Placed, InInfo, SerializeOpenFails, Fail, Leave
<1>23. ASSUME NEW t \in Threads, SerializeDecide(t) PROVE Placed'
  BY <1>23 DEF TypeOK, Placed, InInfo, SerializeDecide, Leave
<1>24. ASSUME NEW t \in Threads, SerializeVendor(t) PROVE Placed'
  BY <1>24 DEF TypeOK, Placed, InInfo, SerializeVendor, Fail, Leave
<1>25. ASSUME NEW t \in Threads, PrintLine(t) PROVE Placed'
  BY <1>25 DEF TypeOK, Placed, InInfo, PrintLine, NoteError
<1>26. ASSUME NEW t \in Threads, SerializeDone(t) PROVE Placed'
  BY <1>26 DEF TypeOK, Placed, InInfo, SerializeDone, Fail, Leave
<1>27. ASSUME NEW c \in Cores, SwitchPstate(c) PROVE Placed'
  BY <1>27 DEF TypeOK, Placed, InInfo, SwitchPstate
<1>28. ASSUME NEW c \in Cores, GoOffline(c) PROVE Placed'
  BY <1>28 DEF TypeOK, Placed, InInfo, GoOffline
<1>29. CASE UNCHANGED vars
  BY <1>29 DEF TypeOK, Placed, InInfo, vars
<1>30. QED
  BY <1>1, <1>2, <1>3, <1>4, <1>5, <1>6, <1>7, <1>8, <1>9, <1>10, <1>11, <1>12, <1>13,
     <1>14, <1>15, <1>16, <1>17, <1>18, <1>19, <1>20, <1>21, <1>22, <1>23, <1>24, <1>25,
     <1>26, <1>27, <1>28, <1>29 DEF Next, Call, Run

(* A thread is in cpu_msrinfo because it was, or because it calls it. *)
LEMMA InfoIsCalled ==
  ASSUME TypeOK, [Next]_vars, NEW u \in Threads, InInfo(u)'
  PROVE  InInfo(u) \/ \E w \in Requests : CallInfo(u, w)
<1> DEFINE Goal == InInfo(u) \/ \E w \in Requests : CallInfo(u, w)
<1>1. ASSUME NEW t \in Threads, NEW c \in Cores \union {Cardinality(Cores)}, CallOpen(t, c) PROVE Goal
  BY <1>1 DEF TypeOK, InInfo, CallOpen, Enter
<1>2. ASSUME NEW t \in Threads, NEW w \in Requests, CallInfo(t, w) PROVE Goal
  BY <1>2 DEF TypeOK, InInfo, CallInfo, Enter
<1>3. ASSUME NEW t \in Threads, RefuseCore(t) PROVE Goal
  BY <1>3 DEF TypeOK, InInfo, RefuseCore, Fail, Leave
<1>4. ASSUME NEW t \in Threads, CallSerialize(t) PROVE Goal
  BY <1>4 DEF TypeOK, InInfo, CallSerialize, Enter
<1>5. ASSUME NEW t \in Threads, CallClose(t) PROVE Goal
  BY <1>5 DEF TypeOK, InInfo, CallClose, Enter
<1>6. ASSUME NEW t \in Threads, CallWithoutHandle(t) PROVE Goal
  BY <1>6, PcMoves DEF TypeOK, InInfo
<1>7. ASSUME NEW t \in Threads, Close(t) PROVE Goal
  BY <1>7 DEF TypeOK, InInfo, Close, Leave
<1>8. ASSUME NEW t \in Threads, Lookup(t) PROVE Goal
  BY <1>8 DEF TypeOK, InInfo, Lookup
<1>9. ASSUME NEW t \in Threads, Construct(t) PROVE Goal
  BY <1>9 DEF TypeOK, InInfo, Construct
<1>10. ASSUME NEW t \in Threads, Fill(t) PROVE Goal
  BY <1>10 DEF TypeOK, InInfo, Fill
<1>11. ASSUME NEW t \in Threads, Publish(t) PROVE Goal
  BY <1>11 DEF TypeOK, InInfo, Publish
<1>12. ASSUME NEW t \in Threads, OpenUnsupported(t) PROVE Goal
  BY <1>12 DEF TypeOK, InInfo, OpenUnsupported, Fail, Leave
<1>13. ASSUME NEW t \in Threads, OpenFails(t) PROVE Goal
  BY <1>13 DEF TypeOK, InInfo, OpenFails, Fail, Leave
<1>14. ASSUME NEW t \in Threads, OpenDevice(t) PROVE Goal
  BY <1>14, PcMoves DEF TypeOK, InInfo
<1>15. ASSUME NEW t \in Threads, Rdmsr(t) PROVE Goal
  BY <1>15, PcMoves DEF TypeOK, InInfo
<1>16. ASSUME NEW t \in Threads, EnterInfo(t) PROVE Goal
  BY <1>16 DEF TypeOK, InInfo, EnterInfo
<1>17. ASSUME NEW t \in Threads, ReadRegister(t) PROVE Goal
  BY <1>17 DEF TypeOK, InInfo, ReadRegister, NoteError
<1>18. ASSUME NEW t \in Threads, InfoInvalid(t) PROVE Goal
  BY <1>18 DEF TypeOK, InInfo, InfoInvalid, Leave
<1>19. ASSUME NEW t \in Threads, InfoAnswers(t) PROVE Goal
  BY <1>19 DEF TypeOK, InInfo, InfoAnswers, Leave
<1>20. ASSUME NEW t \in Threads, BeginScan(t) PROVE Goal
  BY <1>20 DEF TypeOK, InInfo, BeginScan
<1>21. ASSUME NEW t \in Threads, Scan(t) PROVE Goal
  BY <1>21 DEF TypeOK, InInfo, Scan, NoteError
<1>22. ASSUME NEW t \in Threads, SerializeOpenFails(t) PROVE Goal
  BY <1>22 DEF TypeOK, InInfo, SerializeOpenFails, Fail, Leave
<1>23. ASSUME NEW t \in Threads, SerializeDecide(t) PROVE Goal
  BY <1>23, SerializeMoves DEF InInfo
<1>24. ASSUME NEW t \in Threads, SerializeVendor(t) PROVE Goal
  BY <1>24, SerializeMoves DEF InInfo
<1>25. ASSUME NEW t \in Threads, PrintLine(t) PROVE Goal
  BY <1>25 DEF TypeOK, InInfo, PrintLine, NoteError
<1>26. ASSUME NEW t \in Threads, SerializeDone(t) PROVE Goal
  BY <1>26 DEF TypeOK, InInfo, SerializeDone, Fail, Leave
<1>27. ASSUME NEW c \in Cores, SwitchPstate(c) PROVE Goal
  BY <1>27 DEF TypeOK, InInfo, SwitchPstate
<1>28. ASSUME NEW c \in Cores, GoOffline(c) PROVE Goal
  BY <1>28 DEF TypeOK, InInfo, GoOffline
<1>29. CASE UNCHANGED vars
  BY <1>29 DEF TypeOK, InInfo, vars
<1>30. QED
  BY <1>1, <1>2, <1>3, <1>4, <1>5, <1>6, <1>7, <1>8, <1>9, <1>10, <1>11, <1>12, <1>13,
     <1>14, <1>15, <1>16, <1>17, <1>18, <1>19, <1>20, <1>21, <1>22, <1>23, <1>24, <1>25,
     <1>26, <1>27, <1>28, <1>29 DEF Next, Call, Run

LEMMA MutexStep == TypeOK /\ Placed /\ Mutex /\ [Next]_vars => Mutex'
<1> SUFFICES ASSUME TypeOK, Placed, Mutex, [Next]_vars,
                    NEW t \in Threads, NEW u \in Threads, InInfo(t)', InInfo(u)'
             PROVE  t = u
  BY DEF Mutex
<1>1. CASE InInfo(t) /\ InInfo(u)
  BY <1>1 DEF Mutex
<1>2. ASSUME NEW a \in Threads, NEW b \in Threads, NEW w \in Requests,
             CallInfo(a, w), InInfo(b)'
      PROVE  a = b
  <2>1. /\ \A v \in Threads : op[v] = "info" => pc[v] = "idle"
        /\ pc' = [pc EXCEPT ![a] = "enter"]
    BY <1>2 DEF CallInfo, Enter
  <2>2. b # a => pc'[b] = pc[b]
    BY <2>1 DEF TypeOK
  <2>3. ~InInfo(b)
    BY <2>1 DEF Placed, InInfo
  <2>4. QED
    BY <1>2, <2>2, <2>3 DEF InInfo
<1>3. QED
  BY <1>1, <1>2, InfoIsCalled

LEMMA OwnHandleStep == TypeOK /\ Placed /\ Mutex /\ OwnHandle /\ [Next]_vars => OwnHandle'
<1> SUFFICES ASSUME TypeOK, Placed, Mutex, OwnHandle, [Next]_vars PROVE OwnHandle'
  OBVIOUS
<1>1. ASSUME NEW t \in Threads, NEW c \in Cores \union {Cardinality(Cores)}, CallOpen(t, c) PROVE OwnHandle'
  BY <1>1 DEF TypeOK, Placed, Mutex, OwnHandle, InInfo, CallOpen, Enter
<1>2. ASSUME NEW t \in Threads, NEW w \in Requests, CallInfo(t, w) PROVE OwnHandle'
  BY <1>2 DEF TypeOK, Placed, Mutex, OwnHandle, InInfo, CallInfo, Enter
<1>3. ASSUME NEW t \in Threads, RefuseCore(t) PROVE OwnHandle'
  BY <1>3 DEF TypeOK, Placed, Mutex, OwnHandle, InInfo, RefuseCore, Fail, Leave
<1>4. ASSUME NEW t \in Threads, CallSerialize(t) PROVE OwnHandle'
  BY <1>4 DEF TypeOK, Placed, Mutex, OwnHandle, InInfo, CallSerialize, Enter
<1>5. ASSUME NEW t \in Threads, CallClose(t) PROVE OwnHandle'
  BY <1>5 DEF TypeOK, Placed, Mutex, OwnHandle, InInfo, CallClose, Enter
<1>6. ASSUME NEW t \in Threads, CallWithoutHandle(t) PROVE OwnHandle'
  <2>1. pc' = [pc EXCEPT ![t] = "idle"] /\ UNCHANGED <<core, pstate, during, infoHandle>>
    BY <1>6, PcMoves DEF CallWithoutHandle
  <2>2. QED
    BY <2>1 DEF TypeOK, OwnHandle, InInfo
<1>7. ASSUME NEW t \in Threads, Close(t) PROVE OwnHandle'
  BY <1>7 DEF TypeOK, Placed, Mutex, OwnHandle, InInfo, Close, Leave
<1>8. ASSUME NEW t \in Threads, Lookup(t) PROVE OwnHandle'
  BY <1>8 DEF TypeOK, Placed, Mutex, OwnHandle, InInfo, Lookup
<1>9. ASSUME NEW t \in Threads, Construct(t) PROVE OwnHandle'
  BY <1>9 DEF TypeOK, Placed, Mutex, OwnHandle, InInfo, Construct
<1>10. ASSUME NEW t \in Threads, Fill(t) PROVE OwnHandle'
  BY <1>10 DEF TypeOK, Placed, Mutex, OwnHandle, InInfo, Fill
<1>11. ASSUME NEW t \in Threads, Publish(t) PROVE OwnHandle'
  BY <1>11 DEF TypeOK, Placed, Mutex, OwnHandle, InInfo, Publish
<1>12. ASSUME NEW t \in Threads, OpenUnsupported(t) PROVE OwnHandle'
  BY <1>12 DEF TypeOK, Placed, Mutex, OwnHandle, InInfo, OpenUnsupported, Fail, Leave
<1>13. ASSUME NEW t \in Threads, OpenFails(t) PROVE OwnHandle'
  BY <1>13 DEF TypeOK, Placed, Mutex, OwnHandle, InInfo, OpenFails, Fail, Leave
<1>14. ASSUME NEW t \in Threads, OpenDevice(t) PROVE OwnHandle'
  <2>1. pc' = [pc EXCEPT ![t] = "idle"] /\ UNCHANGED <<core, pstate, during, infoHandle>>
    BY <1>14, PcMoves DEF OpenDevice
  <2>2. QED
    BY <2>1 DEF TypeOK, OwnHandle, InInfo
<1>15. ASSUME NEW t \in Threads, Rdmsr(t) PROVE OwnHandle'
  <2>1. pc' = [pc EXCEPT ![t] = "idle"] /\ UNCHANGED <<core, pstate, during, infoHandle>>
    BY <1>15, PcMoves DEF Rdmsr
  <2>2. QED
    BY <2>1 DEF TypeOK, OwnHandle, InInfo
<1>16. ASSUME NEW t \in Threads, EnterInfo(t) PROVE OwnHandle'
  BY <1>16 DEF TypeOK, Placed, Mutex, OwnHandle, InInfo, EnterInfo
<1>17. ASSUME NEW t \in Threads, ReadRegister(t) PROVE OwnHandle'
  BY <1>17 DEF TypeOK, Placed, Mutex, OwnHandle, InInfo, ReadRegister, NoteError
<1>18. ASSUME NEW t \in Threads, InfoInvalid(t) PROVE OwnHandle'
  BY <1>18 DEF TypeOK, Placed, Mutex, OwnHandle, InInfo, InfoInvalid, Leave
<1>19. ASSUME NEW t \in Threads, InfoAnswers(t) PROVE OwnHandle'
  BY <1>19 DEF TypeOK, Placed, Mutex, OwnHandle, InInfo, InfoAnswers, Leave
<1>20. ASSUME NEW t \in Threads, BeginScan(t) PROVE OwnHandle'
  BY <1>20 DEF TypeOK, Placed, Mutex, OwnHandle, InInfo, BeginScan
<1>21. ASSUME NEW t \in Threads, Scan(t) PROVE OwnHandle'
  BY <1>21 DEF TypeOK, Placed, Mutex, OwnHandle, InInfo, Scan, NoteError
<1>22. ASSUME NEW t \in Threads, SerializeOpenFails(t) PROVE OwnHandle'
  BY <1>22 DEF TypeOK, Placed, Mutex, OwnHandle, InInfo, SerializeOpenFails, Fail, Leave
<1>23. ASSUME NEW t \in Threads, SerializeDecide(t) PROVE OwnHandle'
  <2>1. UNCHANGED <<core, pstate, during, infoHandle>>
    BY <1>23 DEF SerializeDecide
  <2>2. \A u \in Threads : pc'[u] \in {"enter", "info", "scan"} => pc[u] = pc'[u]
    BY <1>23, SerializeMoves
  <2>3. QED
    BY <2>1, <2>2 DEF OwnHandle, InInfo
<1>24. ASSUME NEW t \in Threads, SerializeVendor(t) PROVE OwnHandle'
  <2>1. UNCHANGED <<core, pstate, during, infoHandle>>
    BY <1>24 DEF SerializeVendor
  <2>2. \A u \in Threads : pc'[u] \in {"enter", "info", "scan"} => pc[u] = pc'[u]
    BY <1>24, SerializeMoves
  <2>3. QED
    BY <2>1, <2>2 DEF OwnHandle, InInfo
<1>25. ASSUME NEW t \in Threads, PrintLine(t) PROVE OwnHandle'
  BY <1>25 DEF TypeOK, Placed, Mutex, OwnHandle, InInfo, PrintLine, NoteError
<1>26. ASSUME NEW t \in Threads, SerializeDone(t) PROVE OwnHandle'
  BY <1>26 DEF TypeOK, Placed, Mutex, OwnHandle, InInfo, SerializeDone, Fail, Leave
<1>27. ASSUME NEW c \in Cores, SwitchPstate(c) PROVE OwnHandle'
  BY <1>27 DEF TypeOK, Placed, Mutex, OwnHandle, InInfo, SwitchPstate
<1>28. ASSUME NEW c \in Cores, GoOffline(c) PROVE OwnHandle'
  BY <1>28 DEF TypeOK, Placed, Mutex, OwnHandle, InInfo, GoOffline
<1>29. CASE UNCHANGED vars
  BY <1>29 DEF TypeOK, Placed, Mutex, OwnHandle, InInfo, vars
<1>30. QED
  BY <1>1, <1>2, <1>3, <1>4, <1>5, <1>6, <1>7, <1>8, <1>9, <1>10, <1>11, <1>12, <1>13,
     <1>14, <1>15, <1>16, <1>17, <1>18, <1>19, <1>20, <1>21, <1>22, <1>23, <1>24, <1>25,
     <1>26, <1>27, <1>28, <1>29 DEF Next, Call, Run

LEMMA MachineFixed ==
  ASSUME [Next]_vars
  PROVE  machine' = machine
<1>1. ASSUME NEW t \in Threads, NEW c \in Cores \union {Cardinality(Cores)}, CallOpen(t, c) PROVE machine' = machine
  BY <1>1 DEF CallOpen
<1>2. ASSUME NEW t \in Threads, NEW w \in Requests, CallInfo(t, w) PROVE machine' = machine
  BY <1>2 DEF CallInfo
<1>3. ASSUME NEW t \in Threads, RefuseCore(t) PROVE machine' = machine
  BY <1>3 DEF RefuseCore
<1>4. ASSUME NEW t \in Threads, CallSerialize(t) PROVE machine' = machine
  BY <1>4 DEF CallSerialize
<1>5. ASSUME NEW t \in Threads, CallClose(t) PROVE machine' = machine
  BY <1>5 DEF CallClose
<1>6. ASSUME NEW t \in Threads, CallWithoutHandle(t) PROVE machine' = machine
  BY <1>6 DEF CallWithoutHandle
<1>7. ASSUME NEW t \in Threads, Close(t) PROVE machine' = machine
  BY <1>7 DEF Close
<1>8. ASSUME NEW t \in Threads, Lookup(t) PROVE machine' = machine
  BY <1>8 DEF Lookup
<1>9. ASSUME NEW t \in Threads, Construct(t) PROVE machine' = machine
  BY <1>9 DEF Construct
<1>10. ASSUME NEW t \in Threads, Fill(t) PROVE machine' = machine
  BY <1>10 DEF Fill
<1>11. ASSUME NEW t \in Threads, Publish(t) PROVE machine' = machine
  BY <1>11 DEF Publish
<1>12. ASSUME NEW t \in Threads, OpenUnsupported(t) PROVE machine' = machine
  BY <1>12 DEF OpenUnsupported
<1>13. ASSUME NEW t \in Threads, OpenFails(t) PROVE machine' = machine
  BY <1>13 DEF OpenFails
<1>14. ASSUME NEW t \in Threads, OpenDevice(t) PROVE machine' = machine
  BY <1>14 DEF OpenDevice
<1>15. ASSUME NEW t \in Threads, Rdmsr(t) PROVE machine' = machine
  BY <1>15 DEF Rdmsr
<1>16. ASSUME NEW t \in Threads, EnterInfo(t) PROVE machine' = machine
  BY <1>16 DEF EnterInfo
<1>17. ASSUME NEW t \in Threads, ReadRegister(t) PROVE machine' = machine
  BY <1>17 DEF ReadRegister
<1>18. ASSUME NEW t \in Threads, InfoInvalid(t) PROVE machine' = machine
  BY <1>18 DEF InfoInvalid
<1>19. ASSUME NEW t \in Threads, InfoAnswers(t) PROVE machine' = machine
  BY <1>19 DEF InfoAnswers
<1>20. ASSUME NEW t \in Threads, BeginScan(t) PROVE machine' = machine
  BY <1>20 DEF BeginScan
<1>21. ASSUME NEW t \in Threads, Scan(t) PROVE machine' = machine
  BY <1>21 DEF Scan
<1>22. ASSUME NEW t \in Threads, SerializeOpenFails(t) PROVE machine' = machine
  BY <1>22 DEF SerializeOpenFails
<1>23. ASSUME NEW t \in Threads, SerializeDecide(t) PROVE machine' = machine
  BY <1>23 DEF SerializeDecide
<1>24. ASSUME NEW t \in Threads, SerializeVendor(t) PROVE machine' = machine
  BY <1>24 DEF SerializeVendor
<1>25. ASSUME NEW t \in Threads, PrintLine(t) PROVE machine' = machine
  BY <1>25 DEF PrintLine
<1>26. ASSUME NEW t \in Threads, SerializeDone(t) PROVE machine' = machine
  BY <1>26 DEF SerializeDone
<1>27. ASSUME NEW c \in Cores, SwitchPstate(c) PROVE machine' = machine
  BY <1>27 DEF SwitchPstate
<1>28. ASSUME NEW c \in Cores, GoOffline(c) PROVE machine' = machine
  BY <1>28 DEF GoOffline
<1>29. CASE UNCHANGED vars
  BY <1>29 DEF vars
<1>30. QED
  BY <1>1, <1>2, <1>3, <1>4, <1>5, <1>6, <1>7, <1>8, <1>9, <1>10, <1>11, <1>12, <1>13,
     <1>14, <1>15, <1>16, <1>17, <1>18, <1>19, <1>20, <1>21, <1>22, <1>23, <1>24, <1>25,
     <1>26, <1>27, <1>28, <1>29 DEF Next, Call, Run

(* The last P-state is an enabled one, or 0, that no enabled one exceeds; *)
(* there is only one.                                                      *)
LEMMA LastPstateIs ==
  ASSUME TypeOK, NEW p \in machine.enabled \union {0}, \A q \in machine.enabled : q <= p
  PROVE  p = LastPstate
<1> DEFINE Last(r) == r \in machine.enabled \union {0} /\ \A q \in machine.enabled : q <= r
<1>1. machine.enabled \subseteq Nat
  BY DEF TypeOK, Machine
<1>2. LastPstate = CHOOSE r \in machine.enabled \union {0} : \A q \in machine.enabled : q <= r
  BY DEF LastPstate
<1>3. Last(LastPstate)
  BY <1>2
<1>4. \A r \in machine.enabled \union {0} : Last(r) => r = p
  BY <1>1
<1>5. QED
  BY <1>3, <1>4

LEMMA LastPstateStays ==
  ASSUME [Next]_vars
  PROVE  LastPstate' = LastPstate
BY MachineFixed DEF LastPstate

(* Only the search changes what it has found. *)
LEMMA OnlyTheSearch ==
  ASSUME TypeOK, [Next]_vars
  PROVE  \/ \E t \in Threads : BeginScan(t) \/ Scan(t)
         \/ /\ UNCHANGED <<lastAddr, scanFailed>>
            /\ \A u \in Threads : pc'[u] = "scan" <=> pc[u] = "scan"
<1> DEFINE Goal == \/ \E t \in Threads : BeginScan(t) \/ Scan(t)
                   \/ /\ UNCHANGED <<lastAddr, scanFailed>>
                      /\ \A u \in Threads : pc'[u] = "scan" <=> pc[u] = "scan"
<1>1. ASSUME NEW t \in Threads, NEW c \in Cores \union {Cardinality(Cores)}, CallOpen(t, c) PROVE Goal
  BY <1>1 DEF TypeOK, CallOpen, Enter
<1>2. ASSUME NEW t \in Threads, NEW w \in Requests, CallInfo(t, w) PROVE Goal
  BY <1>2 DEF TypeOK, CallInfo, Enter
<1>3. ASSUME NEW t \in Threads, RefuseCore(t) PROVE Goal
  BY <1>3 DEF TypeOK, RefuseCore, Fail, Leave
<1>4. ASSUME NEW t \in Threads, CallSerialize(t) PROVE Goal
  BY <1>4 DEF TypeOK, CallSerialize, Enter
<1>5. ASSUME NEW t \in Threads, CallClose(t) PROVE Goal
  BY <1>5 DEF TypeOK, CallClose, Enter
<1>6. ASSUME NEW t \in Threads, CallWithoutHandle(t) PROVE Goal
  <2>1. UNCHANGED <<lastAddr, scanFailed>>
    BY <1>6 DEF CallWithoutHandle
  <2>2. \A u \in Threads : pc'[u] = "scan" <=> pc[u] = "scan"
    <3>1. pc[t] # "scan"
      BY <1>6 DEF CallWithoutHandle
    <3>2. QED
      BY <1>6, <3>1, PcMoves DEF TypeOK
  <2>3. QED
    BY <2>1, <2>2 DEF Goal
<1>7. ASSUME NEW t \in Threads, Close(t) PROVE Goal
  BY <1>7 DEF TypeOK, Close, Leave
<1>8. ASSUME NEW t \in Threads, Lookup(t) PROVE Goal
  BY <1>8 DEF TypeOK, Lookup
<1>9. ASSUME NEW t \in Threads, Construct(t) PROVE Goal
  BY <1>9 DEF TypeOK, Construct
<1>10. ASSUME NEW t \in Threads, Fill(t) PROVE Goal
  BY <1>10 DEF TypeOK, Fill
<1>11. ASSUME NEW t \in Threads, Publish(t) PROVE Goal
  BY <1>11 DEF TypeOK, Publish
<1>12. ASSUME NEW t \in Threads, OpenUnsupported(t) PROVE Goal
  BY <1>12 DEF TypeOK, OpenUnsupported, Fail, Leave
<1>13. ASSUME NEW t \in Threads, OpenFails(t) PROVE Goal
  BY <1>13 DEF TypeOK, OpenFails, Fail, Leave
<1>14. ASSUME NEW t \in Threads, OpenDevice(t) PROVE Goal
  <2>1. UNCHANGED <<lastAddr, scanFailed>>
    BY <1>14 DEF OpenDevice
  <2>2. \A u \in Threads : pc'[u] = "scan" <=> pc[u] = "scan"
    <3>1. pc[t] # "scan"
      BY <1>14 DEF OpenDevice
    <3>2. QED
      BY <1>14, <3>1, PcMoves DEF TypeOK
  <2>3. QED
    BY <2>1, <2>2 DEF Goal
<1>15. ASSUME NEW t \in Threads, Rdmsr(t) PROVE Goal
  <2>1. UNCHANGED <<lastAddr, scanFailed>>
    BY <1>15 DEF Rdmsr
  <2>2. \A u \in Threads : pc'[u] = "scan" <=> pc[u] = "scan"
    <3>1. pc[t] # "scan"
      BY <1>15 DEF Rdmsr
    <3>2. QED
      BY <1>15, <3>1, PcMoves DEF TypeOK
  <2>3. QED
    BY <2>1, <2>2 DEF Goal
<1>16. ASSUME NEW t \in Threads, EnterInfo(t) PROVE Goal
  BY <1>16 DEF TypeOK, EnterInfo
<1>17. ASSUME NEW t \in Threads, ReadRegister(t) PROVE Goal
  BY <1>17 DEF TypeOK, ReadRegister, NoteError
<1>18. ASSUME NEW t \in Threads, InfoInvalid(t) PROVE Goal
  BY <1>18 DEF TypeOK, InfoInvalid, Leave
<1>19. ASSUME NEW t \in Threads, InfoAnswers(t) PROVE Goal
  BY <1>19 DEF TypeOK, InfoAnswers, Leave
<1>20. ASSUME NEW t \in Threads, BeginScan(t) PROVE Goal
  BY <1>20 DEF Goal
<1>21. ASSUME NEW t \in Threads, Scan(t) PROVE Goal
  BY <1>21 DEF Goal
<1>22. ASSUME NEW t \in Threads, SerializeOpenFails(t) PROVE Goal
  BY <1>22 DEF TypeOK, SerializeOpenFails, Fail, Leave
<1>23. ASSUME NEW t \in Threads, SerializeDecide(t) PROVE Goal
  <2>1. UNCHANGED <<lastAddr, scanFailed>>
    BY <1>23 DEF SerializeDecide
  <2>2. \A u \in Threads : pc'[u] = "scan" <=> pc[u] = "scan"
    BY <1>23, SerializeMoves
  <2>3. QED
    BY <2>1, <2>2 DEF Goal
<1>24. ASSUME NEW t \in Threads, SerializeVendor(t) PROVE Goal
  <2>1. UNCHANGED <<lastAddr, scanFailed>>
    BY <1>24 DEF SerializeVendor
  <2>2. \A u \in Threads : pc'[u] = "scan" <=> pc[u] = "scan"
    BY <1>24, SerializeMoves
  <2>3. QED
    BY <2>1, <2>2 DEF Goal
<1>25. ASSUME NEW t \in Threads, PrintLine(t) PROVE Goal
  BY <1>25 DEF TypeOK, PrintLine, NoteError
<1>26. ASSUME NEW t \in Threads, SerializeDone(t) PROVE Goal
  BY <1>26 DEF TypeOK, SerializeDone, Fail, Leave
<1>27. ASSUME NEW c \in Cores, SwitchPstate(c) PROVE Goal
  BY <1>27 DEF TypeOK, SwitchPstate
<1>28. ASSUME NEW c \in Cores, GoOffline(c) PROVE Goal
  BY <1>28 DEF TypeOK, GoOffline
<1>29. CASE UNCHANGED vars
  BY <1>29 DEF TypeOK, vars
<1>30. QED
  BY <1>1, <1>2, <1>3, <1>4, <1>5, <1>6, <1>7, <1>8, <1>9, <1>10, <1>11, <1>12, <1>13,
     <1>14, <1>15, <1>16, <1>17, <1>18, <1>19, <1>20, <1>21, <1>22, <1>23, <1>24, <1>25,
     <1>26, <1>27, <1>28, <1>29 DEF Next, Call, Run

LEMMA LastFoundStep ==
  TypeOK /\ Placed /\ Mutex /\ OwnHandle /\ LastFound /\ [Next]_vars => LastFound'
<1> SUFFICES ASSUME TypeOK, Placed, Mutex, OwnHandle, LastFound, [Next]_vars PROVE LastFound'
  OBVIOUS
<1>1. machine' = machine /\ LastPstate' = LastPstate
  BY MachineFixed, LastPstateStays
<1>2. machine.enabled \subseteq 0 .. MaxPstate
  BY DEF TypeOK, Machine
<1>3. ASSUME NEW t \in Threads, BeginScan(t) PROVE LastFound'
  <2>1. pc' = [pc EXCEPT ![t] = "scan"] /\ lastAddr' = MaxPstate + 1 /\ scanFailed' = scanFailed
    BY <1>3 DEF BeginScan
  <2>2. MaxPstate \in Nat /\ pc'[t] = "scan"
    BY <2>1, ConstantsAssumption DEF TypeOK
  <2>3. MaxPstate + 1 > 0 /\ \A p \in 0 .. MaxPstate : p < MaxPstate + 1
    BY <2>2
  <2>4. lastAddr' > 0 /\ \A p \in machine'.enabled : p < lastAddr'
    BY <1>1, <1>2, <2>1, <2>3
  <2>5. QED
    BY <2>2, <2>4 DEF LastFound
<1>4. ASSUME NEW t \in Threads, Scan(t) PROVE LastFound'
  <2>1. PICK x \in Readings(infoHandle, Pstate(lastAddr - 1)) :
          /\ lastAddr' = lastAddr - 1 /\ scanFailed' = (scanFailed \/ ~x.ok)
          /\ pc' = [pc EXCEPT ![t] = IF x.value = 0 /\ lastAddr' > 0 THEN "scan" ELSE "info"]
    BY <1>4 DEF Scan
  <2>2. pc[t] = "scan"
    BY <1>4 DEF Scan
  <2>3. /\ lastAddr \in 1 .. MaxPstate + 1
        /\ ~x.ok => x.value = 0
        /\ x.ok => x.value = IF lastAddr - 1 \in machine.enabled THEN 1 ELSE 0
    BY <2>2, ScanSees
  <2>4. scanFailed \/ \A p \in machine.enabled : p < lastAddr
    BY <2>2 DEF LastFound
  <2>5. \A u \in Threads : u # t => pc[u] # "scan"
    BY <2>2 DEF Mutex, InInfo
  <2>6. CASE x.value = 0 /\ lastAddr' > 0
    <3>1. ASSUME ~scanFailed' PROVE \A p \in machine.enabled : p < lastAddr'
      <4>1. x.ok /\ \A p \in machine.enabled : p < lastAddr
        BY <2>1, <2>4, <3>1
      <4>2. lastAddr - 1 \notin machine.enabled
        BY <2>3, <2>6, <4>1
      <4>3. QED
        BY <1>2, <2>1, <2>3, <4>1, <4>2
    <3>2. pc'[t] = "scan"
      BY <2>1, <2>6 DEF TypeOK
    <3>3. QED
      BY <1>1, <2>6, <3>1, <3>2 DEF LastFound
  <2>7. CASE ~(x.value = 0 /\ lastAddr' > 0)
    <3>1. \A u \in Threads : pc'[u] # "scan"
      BY <2>1, <2>5, <2>7 DEF TypeOK
    <3>2. ASSUME ~scanFailed' PROVE lastAddr' = LastPstate
      <4>1. x.ok /\ \A p \in machine.enabled : p < lastAddr
        BY <2>1, <2>4, <3>2 DEF TypeOK, Reading
      <4>2. lastAddr' \in machine.enabled \union {0}
        BY <2>1, <2>3, <2>7, <4>1
      <4>3. \A q \in machine.enabled : q <= lastAddr'
        BY <1>2, <2>1, <2>3, <4>1
      <4>4. QED
        BY <4>2, <4>3, LastPstateIs
    <3>3. QED
      BY <1>1, <2>1, <2>3, <3>1, <3>2 DEF LastFound
  <2>8. QED
    BY <2>6, <2>7
<1>5. CASE /\ UNCHANGED <<lastAddr, scanFailed>>
           /\ \A u \in Threads : pc'[u] = "scan" <=> pc[u] = "scan"
  BY <1>1, <1>5 DEF LastFound
<1>6. QED
  BY <1>3, <1>4, <1>5, OnlyTheSearch

LEMMA ReadKeepsOthers ==
  ASSUME TypeOK, NEW t \in Threads, ReadRegister(t), NEW u \in Threads, u # t
  PROVE  got'[u] = got[u]
BY DEF TypeOK, ReadRegister

(* A request begins with no readings, reads a register, or stays as it is. *)
LEMMA RequestGoesOn ==
  ASSUME TypeOK, [Next]_vars, NEW u \in Threads, op'[u] = "info"
  PROVE  \/ got'[u] = <<>> \/ ReadRegister(u)
         \/ /\ op[u] = "info" /\ got'[u] = got[u] /\ which'[u] = which[u]
            /\ core'[u] = core[u] /\ during[u] \subseteq during'[u]
<1> DEFINE Goal == \/ got'[u] = <<>> \/ ReadRegister(u)
                   \/ /\ op[u] = "info" /\ got'[u] = got[u] /\ which'[u] = which[u]
                      /\ core'[u] = core[u] /\ during[u] \subseteq during'[u]
<1>1. ASSUME NEW t \in Threads, NEW c \in Cores \union {Cardinality(Cores)}, CallOpen(t, c) PROVE Goal
  BY <1>1 DEF TypeOK, Goal, CallOpen, Enter
<1>2. ASSUME NEW t \in Threads, NEW w \in Requests, CallInfo(t, w) PROVE Goal
  BY <1>2 DEF TypeOK, Goal, CallInfo, Enter
<1>3. ASSUME NEW t \in Threads, RefuseCore(t) PROVE Goal
  BY <1>3 DEF TypeOK, Goal, RefuseCore, Fail, Leave
<1>4. ASSUME NEW t \in Threads, CallSerialize(t) PROVE Goal
  BY <1>4 DEF TypeOK, Goal, CallSerialize, Enter
<1>5. ASSUME NEW t \in Threads, CallClose(t) PROVE Goal
  BY <1>5 DEF TypeOK, Goal, CallClose, Enter
<1>6. ASSUME NEW t \in Threads, CallWithoutHandle(t) PROVE Goal
  BY <1>6 DEF TypeOK, Goal, CallWithoutHandle
<1>7. ASSUME NEW t \in Threads, Close(t) PROVE Goal
  BY <1>7 DEF TypeOK, Goal, Close, Leave
<1>8. ASSUME NEW t \in Threads, Lookup(t) PROVE Goal
  BY <1>8 DEF TypeOK, Goal, Lookup
<1>9. ASSUME NEW t \in Threads, Construct(t) PROVE Goal
  BY <1>9 DEF TypeOK, Goal, Construct
<1>10. ASSUME NEW t \in Threads, Fill(t) PROVE Goal
  BY <1>10 DEF TypeOK, Goal, Fill
<1>11. ASSUME NEW t \in Threads, Publish(t) PROVE Goal
  BY <1>11 DEF TypeOK, Goal, Publish
<1>12. ASSUME NEW t \in Threads, OpenUnsupported(t) PROVE Goal
  BY <1>12 DEF TypeOK, Goal, OpenUnsupported, Fail, Leave
<1>13. ASSUME NEW t \in Threads, OpenFails(t) PROVE Goal
  BY <1>13 DEF TypeOK, Goal, OpenFails, Fail, Leave
<1>14. ASSUME NEW t \in Threads, OpenDevice(t) PROVE Goal
  BY <1>14 DEF TypeOK, Goal, OpenDevice
<1>15. ASSUME NEW t \in Threads, Rdmsr(t) PROVE Goal
  BY <1>15 DEF TypeOK, Goal, Rdmsr
<1>16. ASSUME NEW t \in Threads, EnterInfo(t) PROVE Goal
  BY <1>16 DEF TypeOK, Goal, EnterInfo
<1>17. ASSUME NEW t \in Threads, ReadRegister(t) PROVE Goal
  <2>1. CASE t = u
    BY <1>17, <2>1 DEF Goal
  <2>2. CASE t # u
    <3>1. UNCHANGED <<op, which, core, during>>
      BY <1>17 DEF ReadRegister
    <3>2. got'[u] = got[u]
      BY <1>17, <2>2, ReadKeepsOthers
    <3>3. QED
      BY <3>1, <3>2 DEF Goal
  <2>3. QED
    BY <2>1, <2>2
<1>18. ASSUME NEW t \in Threads, InfoInvalid(t) PROVE Goal
  BY <1>18 DEF TypeOK, Goal, InfoInvalid, Leave
<1>19. ASSUME NEW t \in Threads, InfoAnswers(t) PROVE Goal
  BY <1>19 DEF TypeOK, Goal, InfoAnswers, Leave
<1>20. ASSUME NEW t \in Threads, BeginScan(t) PROVE Goal
  BY <1>20 DEF TypeOK, Goal, BeginScan
<1>21. ASSUME NEW t \in Threads, Scan(t) PROVE Goal
  BY <1>21 DEF TypeOK, Goal, Scan
<1>22. ASSUME NEW t \in Threads, SerializeOpenFails(t) PROVE Goal
  BY <1>22 DEF TypeOK, Goal, SerializeOpenFails, Fail, Leave
<1>23. ASSUME NEW t \in Threads, SerializeDecide(t) PROVE Goal
  BY <1>23 DEF TypeOK, Goal, SerializeDecide
<1>24. ASSUME NEW t \in Threads, SerializeVendor(t) PROVE Goal
  BY <1>24 DEF TypeOK, Goal, SerializeVendor
<1>25. ASSUME NEW t \in Threads, PrintLine(t) PROVE Goal
  BY <1>25 DEF TypeOK, Goal, PrintLine
<1>26. ASSUME NEW t \in Threads, SerializeDone(t) PROVE Goal
  BY <1>26 DEF TypeOK, Goal, SerializeDone, Fail, Leave
<1>27. ASSUME NEW c \in Cores, SwitchPstate(c) PROVE Goal
  BY <1>27 DEF TypeOK, Goal, SwitchPstate
<1>28. ASSUME NEW c \in Cores, GoOffline(c) PROVE Goal
  BY <1>28 DEF TypeOK, Goal, GoOffline
<1>29. CASE UNCHANGED vars
  BY <1>29 DEF TypeOK, Goal, vars
<1>30. QED
  BY <1>1, <1>2, <1>3, <1>4, <1>5, <1>6, <1>7, <1>8, <1>9, <1>10, <1>11, <1>12, <1>13,
     <1>14, <1>15, <1>16, <1>17, <1>18, <1>19, <1>20, <1>21, <1>22, <1>23, <1>24, <1>25,
     <1>26, <1>27, <1>28, <1>29 DEF Next, Call, Run

(* last_addr is not forgotten, and neither is a failure. *)
LEMMA FindsOnce ==
  ASSUME TypeOK, Placed, OwnHandle, LastFound, [Next]_vars
  PROVE  (lastAddr # -1 => lastAddr' # -1) /\ (scanFailed => scanFailed')
<1>1. ASSUME NEW t \in Threads, BeginScan(t)
      PROVE  lastAddr' # -1 /\ (scanFailed => scanFailed')
  BY <1>1 DEF BeginScan
<1>2. ASSUME NEW t \in Threads, Scan(t)
      PROVE  lastAddr' # -1 /\ (scanFailed => scanFailed')
  <2>1. PICK x \in Readings(infoHandle, Pstate(lastAddr - 1)) :
          lastAddr' = lastAddr - 1 /\ scanFailed' = (scanFailed \/ ~x.ok)
    BY <1>2 DEF Scan
  <2>2. lastAddr \in 1 .. MaxPstate + 1
    BY <1>2, ScanSees, <2>1 DEF Scan
  <2>3. lastAddr' # -1
    BY <2>1, <2>2
  <2>4. QED
    BY <2>1, <2>3
<1>3. QED
  BY <1>1, <1>2, OnlyTheSearch

(* While a thread reads, the search is over. *)
LEMMA NoSearch ==
  ASSUME Mutex, NEW t \in Threads, pc[t] = "info"
  PROVE  \A u \in Threads : pc[u] # "scan"
BY DEF Mutex, InInfo

(* One reading more, of an AMD CPU. *)
LEMMA AmdReads ==
  ASSUME TypeOK, Placed, Mutex, OwnHandle, LastFound, ReadSoFar,
         NEW t \in Threads, ReadRegister(t), machine.vendor = "amd",
         NEW r \in NextRegister(t), NEW x \in Readings(core[t], r), r \in Registers
  PROVE  /\ which[t] = "min" => got[t] = <<>> /\ (scanFailed \/ r = Pstate(LastPstate))
         /\ which[t] = "bus" /\ got[t] = <<>> => lastAddr # -1 /\ (x.ok => x.value = machine.maxVal)
         /\ which[t] = "bus" /\ got[t] # <<>> =>
              Len(got[t]) = 1 /\ (scanFailed \/ r = Pstate(LastPstate - machine.maxVal))
         /\ which[t] \in {"cur", "voltage"} /\ got[t] = <<>> => (x.ok => x.value \in during[t])
         /\ which[t] \in {"cur", "voltage"} /\ got[t] # <<>> =>
              Len(got[t]) = 1 /\ r.n \in during[t]
<1>1. pc[t] = "info" /\ ~ScanDue(t) /\ ~Impossible(t) /\ got[t] \in Seq(Reading)
  BY DEF ReadRegister, TypeOK
<1>2. op[t] = "info" /\ core[t] \in Cores
  BY <1>1, InfoHasHandle DEF InInfo
<1>3. which[t] # "perf" => r \in AmdNext(which[t], got[t])
  BY DEF NextRegister
<1>4. lastAddr = -1 \/ scanFailed \/ lastAddr = LastPstate
  BY <1>1, NoSearch DEF LastFound
<1>5. x.ok => x.value \in FieldValues(core[t], r)
  BY <1>2, ReadingsRight
<1>6. got[t] # <<>> /\ which[t] # "perf" => got[t][1].ok
  BY <1>1 DEF Impossible, Unreadable
<1>7. MinRead(t) /\ BusRead(t) /\ CurRead(t)
  BY <1>2 DEF ReadSoFar
<1>8. CASE which[t] = "min"
  <2>1. got[t] = <<>> /\ r = Pstate(lastAddr)
    BY <1>3, <1>8 DEF AmdNext
  <2>2. lastAddr # -1
    BY <1>1, <1>8, <2>1 DEF ScanDue
  <2>3. QED
    BY <1>4, <1>8, <2>1, <2>2
<1>9. CASE which[t] = "bus" /\ got[t] = <<>>
  <2>1. r = Reg("PSTATE_L")
    BY <1>3, <1>9 DEF AmdNext
  <2>2. FieldValues(core[t], r) = {machine.maxVal}
    BY <2>1 DEF FieldValues, Reg
  <2>3. lastAddr # -1
    BY <1>1, <1>9 DEF ScanDue
  <2>4. QED
    BY <1>5, <1>9, <2>2, <2>3
<1>10. CASE which[t] = "bus" /\ got[t] # <<>>
  <2>1. Len(got[t]) = 1 /\ r = Pstate(lastAddr - got[t][1].value)
    BY <1>3, <1>10 DEF AmdNext, BasePstate
  <2>2. lastAddr # -1 /\ got[t][1].value = machine.maxVal
    BY <1>6, <1>7, <1>10, <2>1 DEF BusRead
  <2>3. QED
    BY <1>4, <1>10, <2>1, <2>2
<1>11. CASE which[t] \in {"cur", "voltage"} /\ got[t] = <<>>
  <2>1. r = Reg("PSTATE_S")
    BY <1>3, <1>11 DEF AmdNext
  <2>2. FieldValues(core[t], r) = {pstate[core[t]]}
    BY <2>1 DEF FieldValues, Reg
  <2>3. pstate[core[t]] \in during[t]
    BY <1>1 DEF OwnHandle, InInfo
  <2>4. QED
    BY <1>5, <1>11, <2>2, <2>3
<1>12. CASE which[t] \in {"cur", "voltage"} /\ got[t] # <<>>
  <2>1. Len(got[t]) = 1 /\ r = Pstate(got[t][1].value)
    BY <1>3, <1>12 DEF AmdNext, CurrentPstate
  <2>2. got[t][1].value \in during[t]
    BY <1>6, <1>7, <1>12, <2>1 DEF CurRead
  <2>3. QED
    BY <1>12, <2>1, <2>2 DEF Pstate
<1>13. QED
  BY <1>8, <1>9, <1>10, <1>11, <1>12

LEMMA ReadSoFarStep ==
  TypeOK /\ Placed /\ Mutex /\ OwnHandle /\ LastFound /\ ReadSoFar /\ [Next]_vars => ReadSoFar'
<1> SUFFICES ASSUME TypeOK, Placed, Mutex, OwnHandle, LastFound, ReadSoFar, [Next]_vars,
                    NEW u \in Threads, op'[u] = "info"
             PROVE  /\ \A i \in DOMAIN got'[u] : got'[u][i].core = core'[u]
                    /\ machine'.vendor = "amd" => MinRead(u)' /\ BusRead(u)' /\ CurRead(u)'
  BY DEF ReadSoFar
<1> USE DEF MinRead, BusRead, CurRead
<1>1. machine' = machine /\ LastPstate' = LastPstate
  BY MachineFixed, LastPstateStays
<1>2. (lastAddr # -1 => lastAddr' # -1) /\ (scanFailed => scanFailed')
  BY FindsOnce
<1>3. CASE got'[u] = <<>>
  BY <1>3
<1>4. CASE ReadRegister(u)
  <2>1. PICK r \in NextRegister(u) \intersect Registers : \E x \in Readings(core[u], r) :
          /\ x \in Reading /\ core[u] \in Cores /\ x.core = core[u] /\ x.reg = r
          /\ got' = [got EXCEPT ![u] = Append(@, x)]
    BY <1>4, ReadAppends
  <2>2. PICK x \in Readings(core[u], r) :
          /\ x \in Reading /\ core[u] \in Cores /\ x.core = core[u] /\ x.reg = r
          /\ got' = [got EXCEPT ![u] = Append(@, x)]
    BY <2>1
  <2>3. x.core = core[u] /\ x.reg = r
    BY <2>2
  <2>4. got[u] \in Seq(Reading) /\ got'[u] = Append(got[u], x)
    BY <2>2 DEF TypeOK
  <2>5. UNCHANGED <<which, core, during, lastAddr, scanFailed>> /\ op[u] = "info"
    BY <1>4, InfoHasHandle DEF ReadRegister, InInfo
  <2>6. /\ Len(got'[u]) = Len(got[u]) + 1 /\ got'[u][Len(got[u]) + 1] = x
        /\ \A i \in 1 .. Len(got[u]) : got'[u][i] = got[u][i]
        /\ DOMAIN got'[u] = 1 .. Len(got[u]) + 1
    BY <2>2, <2>4
  <2>7. \A i \in 1 .. Len(got[u]) : got[u][i].core = core[u]
    BY <2>4, <2>5 DEF ReadSoFar
  <2>8. \A i \in DOMAIN got'[u] : got'[u][i].core = core'[u]
    BY <2>3, <2>5, <2>6, <2>7, <2>4
  <2>9. ASSUME machine.vendor = "amd" PROVE MinRead(u)' /\ BusRead(u)' /\ CurRead(u)'
    <3>1. /\ which[u] = "min" => got[u] = <<>> /\ (scanFailed \/ r = Pstate(LastPstate))
          /\ which[u] = "bus" /\ got[u] = <<>> => lastAddr # -1 /\ (x.ok => x.value = machine.maxVal)
          /\ which[u] = "bus" /\ got[u] # <<>> =>
               Len(got[u]) = 1 /\ (scanFailed \/ r = Pstate(LastPstate - machine.maxVal))
          /\ which[u] \in {"cur", "voltage"} /\ got[u] = <<>> => (x.ok => x.value \in during[u])
          /\ which[u] \in {"cur", "voltage"} /\ got[u] # <<>> =>
               Len(got[u]) = 1 /\ r.n \in during[u]
      BY <1>4, <2>1, <2>2, <2>9, AmdReads
    <3>2. MinRead(u) /\ BusRead(u) /\ CurRead(u)
      BY <2>5, <2>9 DEF ReadSoFar
    <3>3. got[u] = <<>> <=> Len(got[u]) = 0
      BY <2>4
    <3>4. MinRead(u)'
      BY <1>1, <2>3, <2>5, <2>6, <3>1, <3>3
    <3>5. CASE got[u] = <<>>
      <4>1. Len(got'[u]) = 1 /\ got'[u][1] = x
        BY <2>6, <3>5
      <4>2. QED
        BY <1>1, <2>5, <3>1, <3>4, <3>5, <4>1
    <3>6. CASE got[u] # <<>> /\ which[u] \in {"bus", "cur", "voltage"}
      <4>1. Len(got'[u]) = 2 /\ got'[u][1] = got[u][1] /\ got'[u][2] = x /\ Len(got[u]) = 1
        BY <2>6, <3>1, <3>6
      <4>2. QED
        BY <1>1, <2>3, <2>5, <3>1, <3>2, <3>4, <3>6, <4>1
    <3>7. QED
      BY <2>5, <3>4, <3>5, <3>6
  <2>10. QED
    BY <1>1, <2>8, <2>9
<1>5. CASE /\ op[u] = "info" /\ got'[u] = got[u] /\ which'[u] = which[u]
           /\ core'[u] = core[u] /\ during[u] \subseteq during'[u]
  BY <1>1, <1>2, <1>5 DEF ReadSoFar
<1>6. QED
  BY <1>3, <1>4, <1>5, RequestGoesOn


(* An answer has just been given, or was there before. *)
LEMMA AnswerComes ==
  ASSUME TypeOK, Placed, [Next]_vars, NEW u \in Threads, Answered(u, Requests)'
  PROVE  \/ InfoAnswers(u)
         \/ Answered(u, Requests) /\ got'[u] = got[u] /\ which'[u] = which[u]
<1> DEFINE Goal == \/ InfoAnswers(u)
                   \/ Answered(u, Requests) /\ got'[u] = got[u] /\ which'[u] = which[u]
<1>1. ASSUME NEW t \in Threads, NEW c \in Cores \union {Cardinality(Cores)}, CallOpen(t, c) PROVE Goal
  BY <1>1 DEF TypeOK, Placed, InInfo, Answered, Goal, CallOpen, Enter
<1>2. ASSUME NEW t \in Threads, NEW w \in Requests, CallInfo(t, w) PROVE Goal
  BY <1>2 DEF TypeOK, Placed, InInfo, Answered, Goal, CallInfo, Enter
<1>3. ASSUME NEW t \in Threads, RefuseCore(t) PROVE Goal
  BY <1>3 DEF TypeOK, Placed, InInfo, Answered, Goal, RefuseCore, Fail, Leave
<1>4. ASSUME NEW t \in Threads, CallSerialize(t) PROVE Goal
  BY <1>4 DEF TypeOK, Placed, InInfo, Answered, Goal, CallSerialize, Enter
<1>5. ASSUME NEW t \in Threads, CallClose(t) PROVE Goal
  BY <1>5 DEF TypeOK, Placed, InInfo, Answered, Goal, CallClose, Enter
<1>6. ASSUME NEW t \in Threads, CallWithoutHandle(t) PROVE Goal
  <2>1. CASE t = u
    <3>1. op'[u] # "info" \/ ret'[u] = "CPU_INVALID_VALUE"
      BY <1>6, <2>1 DEF CallWithoutHandle, Leave, TypeOK
    <3>2. QED
      BY <3>1 DEF Answered
  <2>2. CASE t # u
    <3>1. /\ pc'[u] = pc[u] /\ op'[u] = op[u] /\ ret'[u] = ret[u]
          /\ got'[u] = got[u] /\ which'[u] = which[u]
      BY <1>6, <2>2 DEF TypeOK, CallWithoutHandle, Fail, Leave
    <3>2. QED
      BY <3>1 DEF Answered, Goal
  <2>3. QED
    BY <2>1, <2>2
<1>7. ASSUME NEW t \in Threads, Close(t) PROVE Goal
  BY <1>7 DEF TypeOK, Placed, InInfo, Answered, Goal, Close, Leave
<1>8. ASSUME NEW t \in Threads, Lookup(t) PROVE Goal
  BY <1>8 DEF TypeOK, Placed, InInfo, Answered, Goal, Lookup
<1>9. ASSUME NEW t \in Threads, Construct(t) PROVE Goal
  BY <1>9 DEF TypeOK, Placed, InInfo, Answered, Goal, Construct
<1>10. ASSUME NEW t \in Threads, Fill(t) PROVE Goal
  BY <1>10 DEF TypeOK, Placed, InInfo, Answered, Goal, Fill
<1>11. ASSUME NEW t \in Threads, Publish(t) PROVE Goal
  BY <1>11 DEF TypeOK, Placed, InInfo, Answered, Goal, Publish
<1>12. ASSUME NEW t \in Threads, OpenUnsupported(t) PROVE Goal
  BY <1>12 DEF TypeOK, Placed, InInfo, Answered, Goal, OpenUnsupported, Fail, Leave
<1>13. ASSUME NEW t \in Threads, OpenFails(t) PROVE Goal
  BY <1>13 DEF TypeOK, Placed, InInfo, Answered, Goal, OpenFails, Fail, Leave
<1>14. ASSUME NEW t \in Threads, OpenDevice(t) PROVE Goal
  <2>1. CASE t = u
    <3>1. op'[u] = "open"
      BY <1>14, <2>1 DEF OpenDevice
    <3>2. QED
      BY <3>1 DEF Answered
  <2>2. CASE t # u
    <3>1. /\ pc'[u] = pc[u] /\ op'[u] = op[u] /\ ret'[u] = ret[u]
          /\ got'[u] = got[u] /\ which'[u] = which[u]
      BY <1>14, <2>2 DEF TypeOK, OpenDevice, Fail, Leave
    <3>2. QED
      BY <3>1 DEF Answered, Goal
  <2>3. QED
    BY <2>1, <2>2
<1>15. ASSUME NEW t \in Threads, Rdmsr(t) PROVE Goal
  <2>1. CASE t = u
    <3>1. op'[u] = "read"
      BY <1>15, <2>1 DEF Rdmsr, TypeOK
    <3>2. QED
      BY <3>1 DEF Answered
  <2>2. CASE t # u
    <3>1. /\ pc'[u] = pc[u] /\ op'[u] = op[u] /\ ret'[u] = ret[u]
          /\ got'[u] = got[u] /\ which'[u] = which[u]
      BY <1>15, <2>2 DEF TypeOK, Rdmsr, Fail, Leave
    <3>2. QED
      BY <3>1 DEF Answered, Goal
  <2>3. QED
    BY <2>1, <2>2
<1>16. ASSUME NEW t \in Threads, EnterInfo(t) PROVE Goal
  BY <1>16 DEF TypeOK, Placed, InInfo, Answered, Goal, EnterInfo
<1>17. ASSUME NEW t \in Threads, ReadRegister(t) PROVE Goal
  BY <1>17 DEF TypeOK, Placed, InInfo, Answered, Goal, ReadRegister, NoteError
<1>18. ASSUME NEW t \in Threads, InfoInvalid(t) PROVE Goal
  BY <1>18 DEF TypeOK, Placed, InInfo, Answered, Goal, InfoInvalid, Leave
<1>19. ASSUME NEW t \in Threads, InfoAnswers(t) PROVE Goal
  <2>1. CASE t = u
    BY <1>19, <2>1
  <2>2. CASE t # u
    <3>1. /\ pc'[u] = pc[u] /\ op'[u] = op[u] /\ ret'[u] = ret[u]
          /\ got'[u] = got[u] /\ which'[u] = which[u]
      BY <1>19, <2>2 DEF TypeOK, InfoAnswers, Leave
    <3>2. QED
      BY <3>1 DEF Answered, Goal
  <2>3. QED
    BY <2>1, <2>2
<1>20. ASSUME NEW t \in Threads, BeginScan(t) PROVE Goal
  BY <1>20 DEF TypeOK, Placed, InInfo, Answered, Goal, BeginScan
<1>21. ASSUME NEW t \in Threads, Scan(t) PROVE Goal
  BY <1>21 DEF TypeOK, Placed, InInfo, Answered, Goal, Scan, NoteError
<1>22. ASSUME NEW t \in Threads, SerializeOpenFails(t) PROVE Goal
  BY <1>22 DEF TypeOK, Placed, InInfo, Answered, Goal, SerializeOpenFails, Fail, Leave
<1>23. ASSUME NEW t \in Threads, SerializeDecide(t) PROVE Goal
  <2>1. CASE t = u
    <3>1. op'[u] = "serialize"
      BY <1>23, <2>1 DEF SerializeDecide
    <3>2. QED
      BY <3>1 DEF Answered
  <2>2. CASE t # u
    <3>1. /\ pc'[u] = pc[u] /\ op'[u] = op[u] /\ ret'[u] = ret[u]
          /\ got'[u] = got[u] /\ which'[u] = which[u]
      BY <1>23, <2>2 DEF TypeOK, SerializeDecide, Leave
    <3>2. QED
      BY <3>1 DEF Answered, Goal
  <2>3. QED
    BY <2>1, <2>2
<1>24. ASSUME NEW t \in Threads, SerializeVendor(t) PROVE Goal
  <2>1. CASE t = u
    <3>1. op'[u] = "serialize"
      BY <1>24, <2>1 DEF SerializeVendor, Placed
    <3>2. QED
      BY <3>1 DEF Answered
  <2>2. CASE t # u
    <3>1. /\ pc'[u] = pc[u] /\ op'[u] = op[u] /\ ret'[u] = ret[u]
          /\ got'[u] = got[u] /\ which'[u] = which[u]
      BY <1>24, <2>2 DEF TypeOK, SerializeVendor, Fail, Leave
    <3>2. QED
      BY <3>1 DEF Answered, Goal
  <2>3. QED
    BY <2>1, <2>2
<1>25. ASSUME NEW t \in Threads, PrintLine(t) PROVE Goal
  BY <1>25 DEF TypeOK, Placed, InInfo, Answered, Goal, PrintLine, NoteError
<1>26. ASSUME NEW t \in Threads, SerializeDone(t) PROVE Goal
  BY <1>26 DEF TypeOK, Placed, InInfo, Answered, Goal, SerializeDone, Fail, Leave
<1>27. ASSUME NEW c \in Cores, SwitchPstate(c) PROVE Goal
  BY <1>27 DEF TypeOK, Placed, InInfo, Answered, Goal, SwitchPstate
<1>28. ASSUME NEW c \in Cores, GoOffline(c) PROVE Goal
  BY <1>28 DEF TypeOK, Placed, InInfo, Answered, Goal, GoOffline
<1>29. CASE UNCHANGED vars
  BY <1>29 DEF TypeOK, Placed, InInfo, Answered, Goal, vars
<1>30. QED
  BY <1>1, <1>2, <1>3, <1>4, <1>5, <1>6, <1>7, <1>8, <1>9, <1>10, <1>11, <1>12, <1>13,
     <1>14, <1>15, <1>16, <1>17, <1>18, <1>19, <1>20, <1>21, <1>22, <1>23, <1>24, <1>25,
     <1>26, <1>27, <1>28, <1>29 DEF Next, Call, Run

LEMMA AllReadStep == TypeOK /\ Placed /\ AllRead /\ [Next]_vars => AllRead'
<1> SUFFICES ASSUME TypeOK, Placed, AllRead, [Next]_vars,
                    NEW u \in Threads, Answered(u, Requests)'
             PROVE  /\ got'[u] # <<>> /\ ~Unreadable(u)'
                    /\ machine'.vendor = "amd" /\ which'[u] \in {"bus", "cur", "voltage"} =>
                         Len(got'[u]) > 1
  BY DEF AllRead
<1>1. machine' = machine
  BY MachineFixed
<1>2. CASE InfoAnswers(u)
  <2>1. ~Impossible(u) /\ NextRegister(u) = {} /\ UNCHANGED <<got, which>>
    BY <1>2 DEF InfoAnswers
  <2>2. got[u] # <<>> /\ ~Unreadable(u)
    BY <2>1 DEF Impossible
  <2>3. ASSUME machine.vendor = "amd", which[u] \in {"bus", "cur", "voltage"}
        PROVE  Len(got[u]) > 1
    <3>1. AmdNext(which[u], got[u]) = {} /\ got[u] \in Seq(Reading)
      BY <2>1, <2>3 DEF NextRegister, TypeOK
    <3>2. Len(got[u]) # 1
      BY <2>2, <2>3, <3>1 DEF AmdNext
    <3> DEFINE n == Len(got[u])
    <3>3. n \in Nat /\ n # 0 /\ n # 1
      BY <2>2, <3>1, <3>2
    <3> HIDE DEF n
    <3>4. n > 1
      BY <3>3
    <3>5. QED
      BY <3>4 DEF n
  <2>4. QED
    BY <1>1, <2>1, <2>2, <2>3 DEF Unreadable
<1>3. CASE Answered(u, Requests) /\ got'[u] = got[u] /\ which'[u] = which[u]
  BY <1>1, <1>3 DEF AllRead, Unreadable
<1>4. QED
  BY <1>2, <1>3, AnswerComes


(* Four steps and the opening of a device concern the cached id; no other   *)
(* brings a thread into get_cached_cpuid or gives it a handle.             *)
LEMMA IdLeftAlone ==
  ASSUME TypeOK, Placed, [Next]_vars
  PROVE  \/ \E t \in Threads : \/ Lookup(t) \/ Construct(t) \/ Fill(t) \/ Publish(t)
                              \/ OpenDevice(t)
         \/ /\ UNCHANGED <<initialized, cachedId>>
            /\ \A u \in Threads :
                 /\ pc'[u] \in FirstUse <=> pc[u] \in FirstUse
                 /\ pc'[u] \in FirstUse => pc'[u] = pc[u]
                 /\ pc'[u] \in {"decide", "vendor", "lines"} =>
                      pc[u] \in {"decide", "vendor", "lines"}
                 /\ open'[u] => open[u]
<1> DEFINE Goal == \/ \E t \in Threads : \/ Lookup(t) \/ Construct(t) \/ Fill(t) \/ Publish(t)
                                       \/ OpenDevice(t)
                   \/ /\ UNCHANGED <<initialized, cachedId>>
                      /\ \A u \in Threads :
                           /\ pc'[u] \in FirstUse <=> pc[u] \in FirstUse
                           /\ pc'[u] \in FirstUse => pc'[u] = pc[u]
                           /\ pc'[u] \in {"decide", "vendor", "lines"} =>
                                pc[u] \in {"decide", "vendor", "lines"}
                           /\ open'[u] => open[u]
<1>1. ASSUME NEW t \in Threads, NEW c \in Cores \union {Cardinality(Cores)}, CallOpen(t, c) PROVE Goal
  BY <1>1 DEF TypeOK, Placed, InInfo, CallOpen, Enter
<1>2. ASSUME NEW t \in Threads, NEW w \in Requests, CallInfo(t, w) PROVE Goal
  BY <1>2 DEF TypeOK, Placed, InInfo, CallInfo, Enter
<1>3. ASSUME NEW t \in Threads, RefuseCore(t) PROVE Goal
  BY <1>3 DEF TypeOK, Placed, InInfo, RefuseCore, Fail, Leave
<1>4. ASSUME NEW t \in Threads, CallSerialize(t) PROVE Goal
  BY <1>4 DEF TypeOK, Placed, InInfo, CallSerialize, Enter
<1>5. ASSUME NEW t \in Threads, CallClose(t) PROVE Goal
  BY <1>5 DEF TypeOK, Placed, InInfo, CallClose, Enter
<1>6. ASSUME NEW t \in Threads, CallWithoutHandle(t) PROVE Goal
  <2>1. pc' = [pc EXCEPT ![t] = "idle"] /\ pc[t] \notin FirstUse
    BY <1>6, PcMoves DEF CallWithoutHandle
  <2>2. UNCHANGED <<initialized, cachedId, open>>
    BY <1>6 DEF CallWithoutHandle
  <2>3. QED
    BY <2>1, <2>2 DEF TypeOK
<1>7. ASSUME NEW t \in Threads, Close(t) PROVE Goal
  BY <1>7 DEF TypeOK, Placed, InInfo, Close, Leave
<1>8. ASSUME NEW t \in Threads, Lookup(t) PROVE Goal
  BY <1>8
<1>9. ASSUME NEW t \in Threads, Construct(t) PROVE Goal
  BY <1>9
<1>10. ASSUME NEW t \in Threads, Fill(t) PROVE Goal
  BY <1>10
<1>11. ASSUME NEW t \in Threads, Publish(t) PROVE Goal
  BY <1>11
<1>12. ASSUME NEW t \in Threads, OpenUnsupported(t) PROVE Goal
  BY <1>12 DEF TypeOK, Placed, InInfo, OpenUnsupported, Fail, Leave
<1>13. ASSUME NEW t \in Threads, OpenFails(t) PROVE Goal
  BY <1>13 DEF TypeOK, Placed, InInfo, OpenFails, Fail, Leave
<1>14. ASSUME NEW t \in Threads, OpenDevice(t) PROVE Goal
  BY <1>14
<1>15. ASSUME NEW t \in Threads, Rdmsr(t) PROVE Goal
  <2>1. pc' = [pc EXCEPT ![t] = "idle"] /\ pc[t] \notin FirstUse
    BY <1>15, PcMoves DEF Rdmsr
  <2>2. UNCHANGED <<initialized, cachedId, open>>
    BY <1>15 DEF Rdmsr
  <2>3. QED
    BY <2>1, <2>2 DEF TypeOK
<1>16. ASSUME NEW t \in Threads, EnterInfo(t) PROVE Goal
  BY <1>16 DEF TypeOK, Placed, InInfo, EnterInfo
<1>17. ASSUME NEW t \in Threads, ReadRegister(t) PROVE Goal
  BY <1>17 DEF TypeOK, Placed, InInfo, ReadRegister, NoteError
<1>18. ASSUME NEW t \in Threads, InfoInvalid(t) PROVE Goal
  BY <1>18 DEF TypeOK, Placed, InInfo, InfoInvalid, Leave
<1>19. ASSUME NEW t \in Threads, InfoAnswers(t) PROVE Goal
  BY <1>19 DEF TypeOK, Placed, InInfo, InfoAnswers, Leave
<1>20. ASSUME NEW t \in Threads, BeginScan(t) PROVE Goal
  BY <1>20 DEF TypeOK, Placed, InInfo, BeginScan
<1>21. ASSUME NEW t \in Threads, Scan(t) PROVE Goal
  BY <1>21 DEF TypeOK, Placed, InInfo, Scan, NoteError
<1>22. ASSUME NEW t \in Threads, SerializeOpenFails(t) PROVE Goal
  BY <1>22 DEF TypeOK, Placed, InInfo, SerializeOpenFails, Fail, Leave
<1>23. ASSUME NEW t \in Threads, SerializeDecide(t) PROVE Goal
  <2>1. \A u \in Threads : \/ pc'[u] = pc[u]
                           \/ pc[u] \in {"decide", "vendor"} /\ pc'[u] \in {"idle", "vendor", "lines"}
    BY <1>23, SerializeMoves
  <2>2. UNCHANGED <<initialized, cachedId, open>>
    BY <1>23 DEF SerializeDecide
  <2>3. QED
    BY <2>1, <2>2
<1>24. ASSUME NEW t \in Threads, SerializeVendor(t) PROVE Goal
  <2>1. \A u \in Threads : \/ pc'[u] = pc[u]
                           \/ pc[u] \in {"decide", "vendor"} /\ pc'[u] \in {"idle", "vendor", "lines"}
    BY <1>24, SerializeMoves
  <2>2. UNCHANGED <<initialized, cachedId, open>>
    BY <1>24 DEF SerializeVendor
  <2>3. QED
    BY <2>1, <2>2
<1>25. ASSUME NEW t \in Threads, PrintLine(t) PROVE Goal
  BY <1>25 DEF TypeOK, Placed, InInfo, PrintLine, NoteError
<1>26. ASSUME NEW t \in Threads, SerializeDone(t) PROVE Goal
  BY <1>26 DEF TypeOK, Placed, InInfo, SerializeDone, Fail, Leave
<1>27. ASSUME NEW c \in Cores, SwitchPstate(c) PROVE Goal
  BY <1>27 DEF TypeOK, Placed, InInfo, SwitchPstate
<1>28. ASSUME NEW c \in Cores, GoOffline(c) PROVE Goal
  BY <1>28 DEF TypeOK, Placed, InInfo, GoOffline
<1>29. CASE UNCHANGED vars
  BY <1>29 DEF TypeOK, Placed, InInfo, vars
<1>30. QED
  BY <1>1, <1>2, <1>3, <1>4, <1>5, <1>6, <1>7, <1>8, <1>9, <1>10, <1>11, <1>12, <1>13,
     <1>14, <1>15, <1>16, <1>17, <1>18, <1>19, <1>20, <1>21, <1>22, <1>23, <1>24, <1>25,
     <1>26, <1>27, <1>28, <1>29 DEF Next, Call, Run

LEMMA FilledInTheEndStep ==
  TypeOK /\ Placed /\ FilledInTheEnd /\ [Next]_vars => FilledInTheEnd'
<1> SUFFICES ASSUME TypeOK, Placed, FilledInTheEnd, [Next]_vars PROVE FilledInTheEnd'
  OBVIOUS
<1>1. Identified' = Identified /\ DOMAIN pc = Threads
  BY MachineFixed DEF Identified, TypeOK
<1>2. ASSUME NEW t \in Threads, Lookup(t) PROVE FilledInTheEnd'
  <2>1. /\ UNCHANGED <<initialized, cachedId, open>>
        /\ pc[t] = "lookup"
        /\ pc' = [pc EXCEPT ![t] = IF initialized THEN "decide" ELSE "construct"]
    BY <1>2 DEF Lookup
  <2>2. \A u \in Threads : pc'[u] = IF u # t THEN pc[u]
                                    ELSE IF initialized THEN "decide" ELSE "construct"
    BY <1>1, <2>1
  <2>3. \A u \in Threads : (pc'[u] = "fill" <=> pc[u] = "fill")
                         /\ (pc'[u] = "publish" <=> pc[u] = "publish")
    BY <2>1, <2>2
  <2>4. QED
    BY <1>1, <2>1, <2>2, <2>3 DEF FilledInTheEnd, BeingFilled
<1>3. ASSUME NEW t \in Threads, Construct(t) PROVE FilledInTheEnd'
  <2>1. /\ UNCHANGED <<initialized, open>> /\ cachedId' = "blank"
        /\ pc' = [pc EXCEPT ![t] = "fill"]
    BY <1>3 DEF Construct
  <2>2. \A u \in Threads : pc'[u] = IF u # t THEN pc[u] ELSE "fill"
    BY <1>1, <2>1
  <2>3. BeingFilled'
    BY <2>2 DEF BeingFilled
  <2>4. QED
    BY <1>1, <2>1, <2>2, <2>3 DEF FilledInTheEnd
<1>4. ASSUME NEW t \in Threads, Fill(t) PROVE FilledInTheEnd'
  <2>1. /\ UNCHANGED <<initialized, open>> /\ cachedId' = Identified
        /\ pc' = [pc EXCEPT ![t] = "publish"]
    BY <1>4 DEF Fill
  <2>2. \A u \in Threads : pc'[u] = IF u # t THEN pc[u] ELSE "publish"
    BY <1>1, <2>1
  <2>3. QED
    BY <1>1, <2>1, <2>2 DEF FilledInTheEnd
<1>5. ASSUME NEW t \in Threads, Publish(t) PROVE FilledInTheEnd'
  <2>1. /\ UNCHANGED <<cachedId, open>> /\ initialized' = TRUE
        /\ pc[t] = "publish" /\ pc' = [pc EXCEPT ![t] = "decide"]
    BY <1>5 DEF Publish
  <2>2. \A u \in Threads : pc'[u] = IF u # t THEN pc[u] ELSE "decide"
    BY <1>1, <2>1
  <2>3. BeingFilled' <=> BeingFilled
    BY <2>1, <2>2 DEF BeingFilled
  <2>4. QED
    BY <1>1, <2>1, <2>2, <2>3 DEF FilledInTheEnd
<1>6. ASSUME NEW t \in Threads, OpenDevice(t) PROVE FilledInTheEnd'
  <2>1. UNCHANGED <<initialized, cachedId>> /\ pc' = [pc EXCEPT ![t] = "idle"]
        /\ pc[t] = "decide" /\ cachedId = "filled"
    BY <1>6, PcMoves DEF OpenDevice, FlagsHaveMsr
  <2>2. \A u \in Threads : pc'[u] = IF u # t THEN pc[u] ELSE "idle"
    BY <1>1, <2>1
  <2>3. Identified = "filled"
    BY <2>1 DEF FilledInTheEnd
  <2>4. BeingFilled' <=> BeingFilled
    BY <2>1, <2>2 DEF BeingFilled
  <2>5. QED
    BY <1>1, <2>1, <2>2, <2>3, <2>4 DEF FilledInTheEnd
<1>7. CASE /\ UNCHANGED <<initialized, cachedId>>
           /\ \A u \in Threads :
                /\ pc'[u] \in FirstUse <=> pc[u] \in FirstUse
                /\ pc'[u] \in FirstUse => pc'[u] = pc[u]
                /\ pc'[u] \in {"decide", "vendor", "lines"} =>
                     pc[u] \in {"decide", "vendor", "lines"}
                /\ open'[u] => open[u]
  <2>1. \A u \in Threads : (pc'[u] = "fill" <=> pc[u] = "fill")
                         /\ (pc'[u] = "publish" <=> pc[u] = "publish")
    BY <1>7
  <2>2. QED
    BY <1>1, <1>7, <2>1 DEF FilledInTheEnd, BeingFilled
<1>8. QED
  BY <1>2, <1>3, <1>4, <1>5, <1>6, <1>7, IdLeftAlone

(* A thread that looks at the cached id in order to open a device, and      *)
(* returns, has done one of three things.                                  *)
LEMMA WhoDecides ==
  ASSUME TypeOK, Next, NEW u \in Threads, pc[u] = "decide", op[u] = "open", pc'[u] = "idle"
  PROVE  OpenUnsupported(u) \/ OpenFails(u) \/ OpenDevice(u)
<1> DEFINE Goal == OpenUnsupported(u) \/ OpenFails(u) \/ OpenDevice(u)
<1>0. DOMAIN pc = Threads
  BY DEF TypeOK
<1>1. ASSUME NEW t \in Threads, NEW c \in Cores \union {Cardinality(Cores)}, CallOpen(t, c) PROVE Goal
  BY <1>1 DEF TypeOK, CallOpen, Enter
<1>2. ASSUME NEW t \in Threads, NEW w \in Requests, CallInfo(t, w) PROVE Goal
  BY <1>2 DEF TypeOK, CallInfo, Enter
<1>3. ASSUME NEW t \in Threads, RefuseCore(t) PROVE Goal
  BY <1>3 DEF TypeOK, RefuseCore, Fail, Leave
<1>4. ASSUME NEW t \in Threads, CallSerialize(t) PROVE Goal
  BY <1>4 DEF TypeOK, CallSerialize, Enter
<1>5. ASSUME NEW t \in Threads, CallClose(t) PROVE Goal
  BY <1>5 DEF TypeOK, CallClose, Enter
<1>6. ASSUME NEW t \in Threads, CallWithoutHandle(t) PROVE Goal
  <2>1. t # u
    BY <1>6 DEF CallWithoutHandle
  <2>2. pc'[u] = pc[u]
    BY <1>6, <1>0, <2>1, PcMoves
  <2>3. QED
    BY <2>2
<1>7. ASSUME NEW t \in Threads, Close(t) PROVE Goal
  BY <1>7 DEF TypeOK, Close, Leave
<1>8. ASSUME NEW t \in Threads, Lookup(t) PROVE Goal
  BY <1>8 DEF TypeOK, Lookup
<1>9. ASSUME NEW t \in Threads, Construct(t) PROVE Goal
  BY <1>9 DEF TypeOK, Construct
<1>10. ASSUME NEW t \in Threads, Fill(t) PROVE Goal
  BY <1>10 DEF TypeOK, Fill
<1>11. ASSUME NEW t \in Threads, Publish(t) PROVE Goal
  BY <1>11 DEF TypeOK, Publish
<1>12. ASSUME NEW t \in Threads, OpenUnsupported(t) PROVE Goal
  <2>1. pc' = [pc EXCEPT ![t] = "idle"]
    BY <1>12, PcMoves DEF OpenUnsupported, Fail, Leave
  <2>2. t = u
    BY <1>0, <2>1
  <2>3. QED
    BY <1>12, <2>2
<1>13. ASSUME NEW t \in Threads, OpenFails(t) PROVE Goal
  <2>1. pc' = [pc EXCEPT ![t] = "idle"]
    BY <1>13, PcMoves DEF OpenFails, Fail, Leave
  <2>2. t = u
    BY <1>0, <2>1
  <2>3. QED
    BY <1>13, <2>2
<1>14. ASSUME NEW t \in Threads, OpenDevice(t) PROVE Goal
  <2>1. pc' = [pc EXCEPT ![t] = "idle"]
    BY <1>14, PcMoves DEF OpenDevice, Fail, Leave
  <2>2. t = u
    BY <1>0, <2>1
  <2>3. QED
    BY <1>14, <2>2
<1>15. ASSUME NEW t \in Threads, Rdmsr(t) PROVE Goal
  <2>1. t # u
    BY <1>15 DEF Rdmsr
  <2>2. pc'[u] = pc[u]
    BY <1>15, <1>0, <2>1, PcMoves
  <2>3. QED
    BY <2>2
<1>16. ASSUME NEW t \in Threads, EnterInfo(t) PROVE Goal
  BY <1>16 DEF TypeOK, EnterInfo
<1>17. ASSUME NEW t \in Threads, ReadRegister(t) PROVE Goal
  BY <1>17 DEF TypeOK, ReadRegister, NoteError
<1>18. ASSUME NEW t \in Threads, InfoInvalid(t) PROVE Goal
  BY <1>18 DEF TypeOK, InfoInvalid, Leave
<1>19. ASSUME NEW t \in Threads, InfoAnswers(t) PROVE Goal
  BY <1>19 DEF TypeOK, InfoAnswers, Leave
<1>20. ASSUME NEW t \in Threads, BeginScan(t) PROVE Goal
  BY <1>20 DEF TypeOK, BeginScan
<1>21. ASSUME NEW t \in Threads, Scan(t) PROVE Goal
  BY <1>21 DEF TypeOK, Scan, NoteError
<1>22. ASSUME NEW t \in Threads, SerializeOpenFails(t) PROVE Goal
  BY <1>22 DEF TypeOK, SerializeOpenFails, Fail, Leave
<1>23. ASSUME NEW t \in Threads, SerializeDecide(t) PROVE Goal
  <2>1. t # u
    BY <1>23 DEF SerializeDecide
  <2>2. pc'[u] = pc[u]
    BY <1>23, <1>0, <2>1, PcMoves
  <2>3. QED
    BY <2>2
<1>24. ASSUME NEW t \in Threads, SerializeVendor(t) PROVE Goal
  <2>1. t # u
    BY <1>24 DEF SerializeVendor
  <2>2. pc'[u] = pc[u]
    BY <1>24, <1>0, <2>1, PcMoves
  <2>3. QED
    BY <2>2
<1>25. ASSUME NEW t \in Threads, PrintLine(t) PROVE Goal
  BY <1>25 DEF TypeOK, PrintLine, NoteError
<1>26. ASSUME NEW t \in Threads, SerializeDone(t) PROVE Goal
  BY <1>26 DEF TypeOK, SerializeDone, Fail, Leave
<1>27. ASSUME NEW c \in Cores, SwitchPstate(c) PROVE Goal
  BY <1>27 DEF TypeOK, SwitchPstate
<1>28. ASSUME NEW c \in Cores, GoOffline(c) PROVE Goal
  BY <1>28 DEF TypeOK, GoOffline
<1>29. QED
  BY <1>1, <1>2, <1>3, <1>4, <1>5, <1>6, <1>7, <1>8, <1>9, <1>10, <1>11, <1>12, <1>13,
     <1>14, <1>15, <1>16, <1>17, <1>18, <1>19, <1>20, <1>21, <1>22, <1>23, <1>24, <1>25,
     <1>26, <1>27, <1>28 DEF Next, Call, Run

LEMMA DumpedRegistersStay ==
  ASSUME [Next]_vars
  PROVE  DumpedRegisters' = DumpedRegisters
BY MachineFixed DEF DumpedRegisters

(* A dump begins empty, gets a line, returns, or stays as it is. *)
LEMMA DumpGoesOn ==
  ASSUME TypeOK, Placed, [Next]_vars, NEW u \in Threads, op'[u] = "serialize"
  PROVE  \/ lines'[u] = <<>> /\ (pc'[u] = "idle" => ret'[u] # "ERR_OK")
         \/ PrintLine(u) \/ SerializeDecide(u) \/ SerializeVendor(u)
         \/ SerializeOpenFails(u) \/ SerializeDone(u)
         \/ /\ op[u] = "serialize" /\ lines'[u] = lines[u]
            /\ pc'[u] = "idle" => pc[u] = "idle" /\ ret'[u] = ret[u]
<1> DEFINE Goal == \/ lines'[u] = <<>> /\ (pc'[u] = "idle" => ret'[u] # "ERR_OK")
                   \/ PrintLine(u) \/ SerializeDecide(u) \/ SerializeVendor(u)
                   \/ SerializeOpenFails(u) \/ SerializeDone(u)
                   \/ /\ op[u] = "serialize" /\ lines'[u] = lines[u]
                      /\ pc'[u] = "idle" => pc[u] = "idle" /\ ret'[u] = ret[u]
<1>1. ASSUME NEW t \in Threads, NEW c \in Cores \union {Cardinality(Cores)}, CallOpen(t, c) PROVE Goal
  BY <1>1 DEF TypeOK, Placed, InInfo, CallOpen, Enter
<1>2. ASSUME NEW t \in Threads, NEW w \in Requests, CallInfo(t, w) PROVE Goal
  BY <1>2 DEF TypeOK, Placed, InInfo, CallInfo, Enter
<1>3. ASSUME NEW t \in Threads, RefuseCore(t) PROVE Goal
  BY <1>3 DEF TypeOK, Placed, InInfo, RefuseCore, Fail, Leave
<1>4. ASSUME NEW t \in Threads, CallSerialize(t) PROVE Goal
  BY <1>4 DEF TypeOK, Placed, InInfo, CallSerialize, Enter
<1>5. ASSUME NEW t \in Threads, CallClose(t) PROVE Goal
  BY <1>5 DEF TypeOK, Placed, InInfo, CallClose, Enter
<1>6. ASSUME NEW t \in Threads, CallWithoutHandle(t) PROVE Goal
  <2>1. CASE t = u
    <3>1. op'[u] # "serialize" \/ (lines'[u] = <<>> /\ ret'[u] # "ERR_OK")
      BY <1>6, <2>1 DEF TypeOK, CallWithoutHandle, Fail, Leave
    <3>2. QED
      BY <3>1
  <2>2. CASE t # u
    <3>1. op'[u] = op[u] /\ lines'[u] = lines[u] /\ pc'[u] = pc[u] /\ ret'[u] = ret[u]
      BY <1>6, <2>2 DEF TypeOK, CallWithoutHandle, Fail, Leave
    <3>2. QED
      BY <3>1
  <2>3. QED
    BY <2>1, <2>2
<1>7. ASSUME NEW t \in Threads, Close(t) PROVE Goal
  BY <1>7 DEF TypeOK, Placed, InInfo, Close, Leave
<1>8. ASSUME NEW t \in Threads, Lookup(t) PROVE Goal
  BY <1>8 DEF TypeOK, Placed, InInfo, Lookup
<1>9. ASSUME NEW t \in Threads, Construct(t) PROVE Goal
  BY <1>9 DEF TypeOK, Placed, InInfo, Construct
<1>10. ASSUME NEW t \in Threads, Fill(t) PROVE Goal
  BY <1>10 DEF TypeOK, Placed, InInfo, Fill
<1>11. ASSUME NEW t \in Threads, Publish(t) PROVE Goal
  BY <1>11 DEF TypeOK, Placed, InInfo, Publish
<1>12. ASSUME NEW t \in Threads, OpenUnsupported(t) PROVE Goal
  BY <1>12 DEF TypeOK, Placed, InInfo, OpenUnsupported, Fail, Leave
<1>13. ASSUME NEW t \in Threads, OpenFails(t) PROVE Goal
  BY <1>13 DEF TypeOK, Placed, InInfo, OpenFails, Fail, Leave
<1>14. ASSUME NEW t \in Threads, OpenDevice(t) PROVE Goal
  <2>1. CASE t = u
    <3>1. op'[u] = "open"
      BY <1>14, <2>1 DEF OpenDevice
    <3>2. QED
      BY <3>1
  <2>2. CASE t # u
    <3>1. op'[u] = op[u] /\ lines'[u] = lines[u] /\ pc'[u] = pc[u] /\ ret'[u] = ret[u]
      BY <1>14, <2>2 DEF TypeOK, OpenDevice, Fail, Leave
    <3>2. QED
      BY <3>1
  <2>3. QED
    BY <2>1, <2>2
<1>15. ASSUME NEW t \in Threads, Rdmsr(t) PROVE Goal
  <2>1. CASE t = u
    <3>1. op'[u] = "read"
      BY <1>15, <2>1 DEF TypeOK, Rdmsr
    <3>2. QED
      BY <3>1
  <2>2. CASE t # u
    <3>1. op'[u] = op[u] /\ lines'[u] = lines[u] /\ pc'[u] = pc[u] /\ ret'[u] = ret[u]
      BY <1>15, <2>2 DEF TypeOK, Rdmsr, Fail, Leave
    <3>2. QED
      BY <3>1
  <2>3. QED
    BY <2>1, <2>2
<1>16. ASSUME NEW t \in Threads, EnterInfo(t) PROVE Goal
  BY <1>16 DEF TypeOK, Placed, InInfo, EnterInfo
<1>17. ASSUME NEW t \in Threads, ReadRegister(t) PROVE Goal
  BY <1>17 DEF TypeOK, Placed, InInfo, ReadRegister, NoteError
<1>18. ASSUME NEW t \in Threads, InfoInvalid(t) PROVE Goal
  BY <1>18 DEF TypeOK, Placed, InInfo, InfoInvalid, Leave
<1>19. ASSUME NEW t \in Threads, InfoAnswers(t) PROVE Goal
  BY <1>19 DEF TypeOK, Placed, InInfo, InfoAnswers, Leave
<1>20. ASSUME NEW t \in Threads, BeginScan(t) PROVE Goal
  BY <1>20 DEF TypeOK, Placed, InInfo, BeginScan
<1>21. ASSUME NEW t \in Threads, Scan(t) PROVE Goal
  BY <1>21 DEF TypeOK, Placed, InInfo, Scan, NoteError
<1>22. ASSUME NEW t \in Threads, SerializeOpenFails(t) PROVE Goal
  <2>1. CASE t = u
    BY <1>22, <2>1
  <2>2. CASE t # u
    <3>1. op'[u] = op[u] /\ lines'[u] = lines[u] /\ pc'[u] = pc[u] /\ ret'[u] = ret[u]
      BY <1>22, <2>2 DEF TypeOK, SerializeOpenFails, Fail, Leave
    <3>2. QED
      BY <3>1
  <2>3. QED
    BY <2>1, <2>2
<1>23. ASSUME NEW t \in Threads, SerializeDecide(t) PROVE Goal
  <2>1. CASE t = u
    BY <1>23, <2>1
  <2>2. CASE t # u
    <3>1. op'[u] = op[u] /\ lines'[u] = lines[u] /\ pc'[u] = pc[u] /\ ret'[u] = ret[u]
      BY <1>23, <2>2 DEF TypeOK, SerializeDecide, Leave
    <3>2. QED
      BY <3>1
  <2>3. QED
    BY <2>1, <2>2
<1>24. ASSUME NEW t \in Threads, SerializeVendor(t) PROVE Goal
  <2>1. CASE t = u
    BY <1>24, <2>1
  <2>2. CASE t # u
    <3>1. op'[u] = op[u] /\ lines'[u] = lines[u] /\ pc'[u] = pc[u] /\ ret'[u] = ret[u]
      BY <1>24, <2>2 DEF TypeOK, SerializeVendor, Fail, Leave
    <3>2. QED
      BY <3>1
  <2>3. QED
    BY <2>1, <2>2
<1>25. ASSUME NEW t \in Threads, PrintLine(t) PROVE Goal
  <2>1. CASE t = u
    BY <1>25, <2>1
  <2>2. CASE t # u
    <3>1. op'[u] = op[u] /\ lines'[u] = lines[u] /\ pc'[u] = pc[u] /\ ret'[u] = ret[u]
      BY <1>25, <2>2 DEF TypeOK, PrintLine, NoteError
    <3>2. QED
      BY <3>1
  <2>3. QED
    BY <2>1, <2>2
<1>26. ASSUME NEW t \in Threads, SerializeDone(t) PROVE Goal
  <2>1. CASE t = u
    BY <1>26, <2>1
  <2>2. CASE t # u
    <3>1. op'[u] = op[u] /\ lines'[u] = lines[u] /\ pc'[u] = pc[u] /\ ret'[u] = ret[u]
      BY <1>26, <2>2 DEF TypeOK, SerializeDone, Fail, Leave
    <3>2. QED
      BY <3>1
  <2>3. QED
    BY <2>1, <2>2
<1>27. ASSUME NEW c \in Cores, SwitchPstate(c) PROVE Goal
  BY <1>27 DEF TypeOK, Placed, InInfo, SwitchPstate
<1>28. ASSUME NEW c \in Cores, GoOffline(c) PROVE Goal
  BY <1>28 DEF TypeOK, Placed, InInfo, GoOffline
<1>29. CASE UNCHANGED vars
  BY <1>29 DEF TypeOK, Placed, InInfo, vars
<1>30. QED
  BY <1>1, <1>2, <1>3, <1>4, <1>5, <1>6, <1>7, <1>8, <1>9, <1>10, <1>11, <1>12, <1>13,
     <1>14, <1>15, <1>16, <1>17, <1>18, <1>19, <1>20, <1>21, <1>22, <1>23, <1>24, <1>25,
     <1>26, <1>27, <1>28, <1>29 DEF Next, Call, Run

LEMMA DumpedStep == TypeOK /\ Placed /\ Dumped /\ [Next]_vars => Dumped'
<1> SUFFICES ASSUME TypeOK, Placed, Dumped, [Next]_vars,
                    NEW u \in Threads, op'[u] = "serialize"
             PROVE  /\ Len(lines'[u]) <= Len(DumpedRegisters')
                    /\ \A i \in DOMAIN lines'[u] : lines'[u][i].reg = DumpedRegisters'[i]
  BY DEF Dumped
<1>1. /\ DumpedRegisters' = DumpedRegisters
      /\ DumpedRegisters \in Seq(Registers) /\ Len(DumpedRegisters) \in Nat
  BY DumpedRegistersStay, DumpedRegistersExist
<1>2. lines[u] \in Seq(Line)
  BY DEF TypeOK
<1>3. CASE lines'[u] = <<>> /\ (pc'[u] = "idle" => ret'[u] # "ERR_OK")
  BY <1>1, <1>3
<1>4. CASE PrintLine(u)
  <2>1. PICK l \in Line : /\ l.reg = DumpedRegisters[Len(lines[u]) + 1]
                          /\ lines' = [lines EXCEPT ![u] = Append(@, l)]
    BY <1>4, PrintAppends
  <2>2. lines'[u] = Append(lines[u], l)
    BY <2>1 DEF TypeOK
  <2>3. /\ Len(lines'[u]) = Len(lines[u]) + 1 /\ DOMAIN lines'[u] = 1 .. Len(lines[u]) + 1
        /\ lines'[u][Len(lines[u]) + 1] = l
        /\ \A i \in 1 .. Len(lines[u]) : lines'[u][i] = lines[u][i]
    BY <1>2, <2>1, <2>2
  <2>4. op[u] = "serialize" /\ pc'[u] = "lines" /\ Len(lines[u]) < Len(DumpedRegisters)
    BY <1>4 DEF PrintLine, Placed
  <2>5. \A i \in 1 .. Len(lines[u]) : lines[u][i].reg = DumpedRegisters[i]
    BY <1>2, <2>4 DEF Dumped
  <2>6. \A i \in 1 .. Len(lines[u]) + 1 : lines'[u][i].reg = DumpedRegisters[i]
    BY <1>2, <2>1, <2>3, <2>5
  <2>7. Len(lines'[u]) <= Len(DumpedRegisters)
    BY <1>1, <1>2, <2>3, <2>4
  <2>8. QED
    BY <1>1, <2>3, <2>4, <2>6, <2>7
<1>5. CASE op[u] = "serialize" /\ lines'[u] = lines[u]
  BY <1>1, <1>5 DEF Dumped
<1>6. CASE \/ SerializeDecide(u) \/ SerializeVendor(u) \/ SerializeOpenFails(u)
           \/ SerializeDone(u)
  <2>1. op[u] = "serialize" /\ lines' = lines
    BY <1>6 DEF SerializeDecide, SerializeVendor, SerializeOpenFails, SerializeDone, Placed
  <2>2. QED
    BY <1>5, <2>1
<1>7. QED
  BY <1>3, <1>4, <1>5, <1>6, DumpGoesOn

LEMMA OnlyOpenAndClose ==
  ASSUME [Next]_vars
  PROVE  UNCHANGED <<fds, open>> \/ \E t \in Threads : Close(t) \/ OpenDevice(t)
<1> DEFINE Goal == UNCHANGED <<fds, open>> \/ \E t \in Threads : Close(t) \/ OpenDevice(t)
<1>1. ASSUME NEW t \in Threads, NEW c \in Cores \union {Cardinality(Cores)}, CallOpen(t, c) PROVE Goal
  BY <1>1 DEF CallOpen
<1>2. ASSUME NEW t \in Threads, NEW w \in Requests, CallInfo(t, w) PROVE Goal
  BY <1>2 DEF CallInfo
<1>3. ASSUME NEW t \in Threads, RefuseCore(t) PROVE Goal
  BY <1>3 DEF RefuseCore
<1>4. ASSUME NEW t \in Threads, CallSerialize(t) PROVE Goal
  BY <1>4 DEF CallSerialize
<1>5. ASSUME NEW t \in Threads, CallClose(t) PROVE Goal
  BY <1>5 DEF CallClose
<1>6. ASSUME NEW t \in Threads, CallWithoutHandle(t) PROVE Goal
  BY <1>6 DEF CallWithoutHandle
<1>7. ASSUME NEW t \in Threads, Close(t) PROVE Goal
  BY <1>7
<1>8. ASSUME NEW t \in Threads, Lookup(t) PROVE Goal
  BY <1>8 DEF Lookup
<1>9. ASSUME NEW t \in Threads, Construct(t) PROVE Goal
  BY <1>9 DEF Construct
<1>10. ASSUME NEW t \in Threads, Fill(t) PROVE Goal
  BY <1>10 DEF Fill
<1>11. ASSUME NEW t \in Threads, Publish(t) PROVE Goal
  BY <1>11 DEF Publish
<1>12. ASSUME NEW t \in Threads, OpenUnsupported(t) PROVE Goal
  BY <1>12 DEF OpenUnsupported
<1>13. ASSUME NEW t \in Threads, OpenFails(t) PROVE Goal
  BY <1>13 DEF OpenFails
<1>14. ASSUME NEW t \in Threads, OpenDevice(t) PROVE Goal
  BY <1>14
<1>15. ASSUME NEW t \in Threads, Rdmsr(t) PROVE Goal
  BY <1>15 DEF Rdmsr
<1>16. ASSUME NEW t \in Threads, EnterInfo(t) PROVE Goal
  BY <1>16 DEF EnterInfo
<1>17. ASSUME NEW t \in Threads, ReadRegister(t) PROVE Goal
  BY <1>17 DEF ReadRegister
<1>18. ASSUME NEW t \in Threads, InfoInvalid(t) PROVE Goal
  BY <1>18 DEF InfoInvalid
<1>19. ASSUME NEW t \in Threads, InfoAnswers(t) PROVE Goal
  BY <1>19 DEF InfoAnswers
<1>20. ASSUME NEW t \in Threads, BeginScan(t) PROVE Goal
  BY <1>20 DEF BeginScan
<1>21. ASSUME NEW t \in Threads, Scan(t) PROVE Goal
  BY <1>21 DEF Scan
<1>22. ASSUME NEW t \in Threads, SerializeOpenFails(t) PROVE Goal
  BY <1>22 DEF SerializeOpenFails
<1>23. ASSUME NEW t \in Threads, SerializeDecide(t) PROVE Goal
  BY <1>23 DEF SerializeDecide
<1>24. ASSUME NEW t \in Threads, SerializeVendor(t) PROVE Goal
  BY <1>24 DEF SerializeVendor
<1>25. ASSUME NEW t \in Threads, PrintLine(t) PROVE Goal
  BY <1>25 DEF PrintLine
<1>26. ASSUME NEW t \in Threads, SerializeDone(t) PROVE Goal
  BY <1>26 DEF SerializeDone
<1>27. ASSUME NEW c \in Cores, SwitchPstate(c) PROVE Goal
  BY <1>27 DEF SwitchPstate
<1>28. ASSUME NEW c \in Cores, GoOffline(c) PROVE Goal
  BY <1>28 DEF GoOffline
<1>29. CASE UNCHANGED vars
  BY <1>29 DEF vars
<1>30. QED
  BY <1>1, <1>2, <1>3, <1>4, <1>5, <1>6, <1>7, <1>8, <1>9, <1>10, <1>11, <1>12, <1>13,
     <1>14, <1>15, <1>16, <1>17, <1>18, <1>19, <1>20, <1>21, <1>22, <1>23, <1>24, <1>25,
     <1>26, <1>27, <1>28, <1>29 DEF Next, Call, Run

LEMMA FilesStep == TypeOK /\ Placed /\ Files /\ [Next]_vars => Files'
<1> SUFFICES ASSUME TypeOK, Placed, Files, [Next]_vars PROVE Files'
  OBVIOUS
<1> DEFINE k == Cardinality(Handles)
<1>1. k \in Nat /\ fds \in Nat /\ fds >= k /\ (ClosesOnNoMem => fds = k) /\ IsFiniteSet(Handles)
  BY HandlesCounted DEF Files, TypeOK
<1>2. CASE UNCHANGED <<fds, open>>
  BY <1>2 DEF Files, Handles
<1>3. ASSUME NEW t \in Threads, Close(t) PROVE Files'
  <2>1. fds' = fds - 1 /\ open' = [open EXCEPT ![t] = FALSE] /\ open[t]
    BY <1>3 DEF Close, Placed
  <2>2. t \in Handles /\ Handles' = Handles \ {t}
    BY <2>1 DEF Handles, TypeOK
  <2>3. Cardinality(Handles') = k - 1
    BY <1>1, <2>2, FS_RemoveElement
  <2>4. QED
    BY <1>1, <2>1, <2>3 DEF Files
<1>4. ASSUME NEW t \in Threads, OpenDevice(t) PROVE Files'
  <2>1. CASE fds' = fds + 1 /\ open' = [open EXCEPT ![t] = TRUE]
    <3>1. ~open[t]
      BY <1>4 DEF OpenDevice, Placed
    <3>2. t \notin Handles /\ Handles' = Handles \union {t}
      BY <2>1, <3>1 DEF Handles, TypeOK
    <3>3. Cardinality(Handles') = k + 1
      BY <1>1, <3>2, FS_AddElement
    <3>4. QED
      BY <1>1, <2>1, <3>3 DEF Files
  <2>2. CASE fds' = (IF ClosesOnNoMem THEN fds ELSE fds + 1) /\ UNCHANGED open
    <3>1. Handles' = Handles
      BY <2>2 DEF Handles
    <3>2. QED
      BY <1>1, <2>2, <3>1 DEF Files
  <2>3. QED
    BY <1>4, <2>1, <2>2 DEF OpenDevice
<1>5. QED
  BY <1>2, <1>3, <1>4, OnlyOpenAndClose

LEMMA IInvStep == IInv /\ [Next]_vars => IInv'
BY TypeStep, PlacedStep, MutexStep, OwnHandleStep, LastFoundStep, ReadSoFarStep, AllReadStep,
   FilledInTheEndStep, DumpedStep, FilesStep
   DEF IInv

LEMMA IInvInit == Init => IInv
<1> SUFFICES ASSUME Init PROVE IInv
  OBVIOUS
<1>1. TypeOK
  <2>1. machine \in Machine
    BY DEF Init
  <2>2. machine.module \in BOOLEAN
    BY <2>1 DEF Machine
  <2>3. loaded \in BOOLEAN
    BY <2>2 DEF Init
  <2>4. got \in [Threads -> Seq(Reading)] /\ lines \in [Threads -> Seq(Line)]
    <3>1. <<>> \in Seq(Reading) /\ <<>> \in Seq(Line)
      OBVIOUS
    <3>2. QED
      BY <3>1 DEF Init
  <2>5. /\ lastAddr \in -1 .. MaxPstate + 1 /\ events \in 0 .. MaxEvents /\ fds \in Nat
        /\ pstate \in [Cores -> 0 .. MaxPstate] /\ infoHandle \in Cores \union {-1}
        /\ calls \in [Threads -> 0 .. MaxCalls] /\ core \in [Threads -> Nat]
        /\ during \in [Threads -> SUBSET (0 .. MaxPstate)]
    BY DEF Init
  <2>6. /\ machine \in Machines /\ online \subseteq Cores
        /\ initialized \in BOOLEAN /\ init \in BOOLEAN
        /\ scanFailed \in BOOLEAN /\ cachedId \in {"blank", "filled"}
        /\ open \in [Threads -> BOOLEAN] /\ which \in [Threads -> Requests]
        /\ ret \in [Threads -> Returns] /\ errno \in [Threads -> Returns]
    BY DEF Init
  <2>7. /\ op \in [Threads -> {"none", "open", "info", "serialize", "close", "read"}]
        /\ pc \in [Threads -> {"idle"}]
    BY DEF Init
  <2>8. QED
    BY <2>3, <2>4, <2>5, <2>6, <2>7 DEF TypeOK
<1>2. Placed /\ Mutex /\ OwnHandle /\ LastFound
  BY DEF Init, Placed, Mutex, OwnHandle, LastFound, InInfo
<1>3. ReadSoFar /\ AllRead /\ FilledInTheEnd /\ Dumped
  BY DEF Init, ReadSoFar, AllRead, Answered, FilledInTheEnd, Dumped
<1>4. Files
  <2>1. Handles = {} /\ fds = 0
    BY DEF Init, Handles
  <2>2. QED
    BY <2>1, FS_EmptySet DEF Files
<1>5. QED
  BY <1>1, <1>2, <1>3, <1>4 DEF IInv

(* The inductive invariant: threads hold the handles they use, one is in    *)
(* cpu_msrinfo, last_addr means what the search found, the cached id holds  *)
(* what identification comes to whenever nobody fills it.                   *)
THEOREM InvariantHolds == Spec => []IInv
<1>1. QED
  BY IInvInit, IInvStep, PTL DEF Spec

(* Every reachable state has the declared types; lastAddr stays in range.   *)
THEOREM TypeCorrect == Spec => []TypeOK
<1>1. IInv => TypeOK
  BY DEF IInv
<1>2. QED
  BY <1>1, InvariantHolds, PTL

(* cpu_msrinfo answers from the registers of the CPU of the caller's handle. *)
THEOREM OwnCoreHolds == Spec => []OwnCore
<1>1. IInv => OwnCore
  BY DEF IInv, ReadSoFar, AllRead, Answered, Unreadable, OwnCore
<1>2. QED
  BY <1>1, InvariantHolds, PTL

(* The minimum multiplier is that of the last P-state that is enabled,      *)
(* whichever call searched for it.                                          *)
THEOREM MinIsLastHolds == Spec => []MinIsLast
<1>1. IInv => MinIsLast
  BY DEF IInv, ReadSoFar, AllRead, Answered, MinRead, MinIsLast
<1>2. QED
  BY <1>1, InvariantHolds, PTL

(* The bus clock is computed from the fastest P-state that is not boosted.  *)
THEOREM BusFromBaseHolds == Spec => []BusFromBase
<1>1. IInv => BusFromBase
  BY DEF IInv, ReadSoFar, AllRead, Answered, BusRead, BusFromBase
<1>2. QED
  BY <1>1, InvariantHolds, PTL

(* Multiplier and voltage are those of a P-state of the time of the call.   *)
THEOREM CurrentDuringCallHolds == Spec => []CurrentDuringCall
<1>1. IInv => CurrentDuringCall
  BY DEF IInv, ReadSoFar, AllRead, Answered, CurRead, CurrentDuringCall
<1>2. QED
  BY <1>1, InvariantHolds, PTL

(* ERR_NO_RDMSR means that CPUID or the kernel says there are no MSRs or    *)
(* that the vendor is unknown, but for a thread that looked at the cached   *)
(* id while another filled it: races for it leave no trace.                 *)
THEOREM UnsupportedIsTrueHolds == Spec => UnsupportedIsTrue
<1> DEFINE True(t) ==
      pc[t] = "decide" /\ op[t] = "open" /\ pc'[t] = "idle" /\ ret'[t] = "ERR_NO_RDMSR" =>
        \/ ~machine.msr \/ ~machine.kernelMsr \/ machine.vendor = "unknown"
        \/ BeingFilled
<1>1. IInv /\ [Next]_vars => [\A t \in Threads : True(t)]_vars
  <2> SUFFICES ASSUME IInv, Next, NEW t \in Threads, pc[t] = "decide", op[t] = "open",
                      pc'[t] = "idle", ret'[t] = "ERR_NO_RDMSR", ~BeingFilled
               PROVE  ~machine.msr \/ ~machine.kernelMsr \/ machine.vendor = "unknown"
    OBVIOUS
  <2>1. OpenUnsupported(t) \/ OpenFails(t) \/ OpenDevice(t)
    BY WhoDecides DEF IInv
  <2>2. CASE OpenUnsupported(t)
    <3>1. cachedId = Identified /\ ~FlagsHaveMsr
      BY <2>2 DEF OpenUnsupported, IInv, FilledInTheEnd
    <3>2. QED
      BY <3>1 DEF FlagsHaveMsr, Identified
  <2>3. CASE OpenFails(t)
    <3>1. ret' = [ret EXCEPT ![t] = IF DriverReady(core[t]) /\ core[t] \in online
                                    THEN "ERR_NO_RDMSR" ELSE "ERR_NO_DRIVER"]
          /\ ~(DriverReady(core[t]) /\ core[t] \in online /\ machine.kernelMsr)
      BY <2>3 DEF OpenFails, Fail, Leave
    <3>2. QED
      BY <3>1 DEF IInv, TypeOK
  <2>4. CASE OpenDevice(t)
    <3>1. ret'[t] # "ERR_NO_RDMSR"
      BY <2>4 DEF OpenDevice, Fail, Leave, IInv, TypeOK
    <3>2. QED
      BY <3>1
  <2>5. QED
    BY <2>1, <2>2, <2>3, <2>4
<1>2. QED
  BY <1>1, InvariantHolds, PTL DEF Spec, UnsupportedIsTrue

(* A dump that returns ERR_OK has a line for every register of its list,    *)
(* but where the thread looked at the cached id while another filled it.    *)
THEOREM DumpCompleteHolds == Spec => DumpComplete
<1> DEFINE Complete(t) ==
      pc[t] # "idle" /\ op'[t] = "serialize" /\ pc'[t] = "idle" /\ ret'[t] = "ERR_OK" =>
        \/ [i \in DOMAIN lines'[t] |-> lines'[t][i].reg] = DumpedRegisters
        \/ BeingFilled
<1>1. IInv /\ [Next]_vars => [\A t \in Threads : Complete(t)]_vars
  <2> SUFFICES ASSUME IInv, Next, NEW t \in Threads, pc[t] # "idle", op'[t] = "serialize",
                      pc'[t] = "idle", ret'[t] = "ERR_OK", ~BeingFilled
               PROVE  [i \in DOMAIN lines'[t] |-> lines'[t][i].reg] = DumpedRegisters
    OBVIOUS
  <2>1. TypeOK /\ Placed /\ FilledInTheEnd /\ Dumped
    BY DEF IInv
  <2>2. \/ PrintLine(t) \/ SerializeDecide(t) \/ SerializeVendor(t)
        \/ SerializeOpenFails(t) \/ SerializeDone(t)
    BY <2>1, DumpGoesOn
  <2>3. ~PrintLine(t)
    BY DEF PrintLine
  <2>4. ~SerializeVendor(t) /\ ~SerializeOpenFails(t)
    BY <2>1 DEF SerializeVendor, SerializeOpenFails, Fail, Leave, TypeOK
  <2>5. ~SerializeDecide(t)
    <3>1. SUFFICES ASSUME SerializeDecide(t) PROVE FALSE
      OBVIOUS
    <3>2. open[t] /\ initialized
      BY <2>1, <3>1 DEF SerializeDecide, Placed, FilledInTheEnd
    <3>3. cachedId = "filled"
      BY <2>1, <3>2 DEF FilledInTheEnd
    <3>4. pc' = [pc EXCEPT ![t] = "vendor"]
      BY <3>1, <3>3 DEF SerializeDecide
    <3>5. QED
      BY <2>1, <3>4 DEF TypeOK
  <2>6. lines' = lines /\ Len(lines[t]) = Len(DumpedRegisters) /\ op[t] = "serialize"
    BY <2>1, <2>2, <2>3, <2>4, <2>5 DEF SerializeDone, Placed
  <2>7. /\ DumpedRegisters \in Seq(Registers) /\ lines[t] \in Seq(Line)
        /\ \A i \in DOMAIN lines[t] : lines[t][i].reg = DumpedRegisters[i]
    BY <2>1, <2>6, DumpedRegistersExist DEF Dumped, TypeOK
  <2>8. DOMAIN lines[t] = DOMAIN DumpedRegisters
    BY <2>6, <2>7
  <2>9. DumpedRegisters = [i \in DOMAIN DumpedRegisters |-> DumpedRegisters[i]]
    BY <2>7
  <2>10. QED
    BY <2>6, <2>7, <2>8, <2>9
<1>2. QED
  BY <1>1, InvariantHolds, PTL DEF Spec, DumpComplete

(* On Linux no device file stays open without a handle.                     *)
THEOREM FilesAreHandlesHolds == ASSUME ClosesOnNoMem PROVE Spec => []FilesAreHandles
<1>1. IInv => FilesAreHandles
  BY DEF IInv, Files, Handles, FilesAreHandles
<1>2. QED
  BY <1>1, InvariantHolds, PTL

=============================================================================
