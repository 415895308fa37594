-------------------------- MODULE RawCollectProofs --------------------------
(* Proofs about RawCollect, for every number of threads, CPUs and leaves. *)
EXTENDS RawCollect, TLAPS

USE ConstantsAssumption
DEF Cpus, AnyCpu, Errors, Results, Steps, Scope, Scopes, Unbound, Suspect

(* What holds of every element still holds once such an element is added.  *)
LEMMA AppendKeeps ==
  ASSUME NEW S, NEW s \in Seq(S), NEW e \in S, NEW v,
         \A g \in DOMAIN s : s[g] = v, e = v
  PROVE  \A g \in DOMAIN Append(s, e) : Append(s, e)[g] = v
<1>1. /\ DOMAIN Append(s, e) = 1 .. Len(s) + 1
      /\ DOMAIN s = 1 .. Len(s)
      /\ Append(s, e)[Len(s) + 1] = e
      /\ \A g \in 1 .. Len(s) : Append(s, e)[g] = s[g]
  OBVIOUS
<1>2. QED
  BY <1>1

(* What CoreReturns does to the variables it assigns keeps their types. *)
LEMMA CoreReturnsType ==
  ASSUME TypeOK, NEW t \in Threads, NEW err \in Results, CoreReturns(t, err)
  PROVE  /\ errno' \in [Scopes -> Errors]
         /\ pc' \in [Threads -> Steps]
         /\ ret' \in [Threads -> Results]
         /\ affinitySaved' \in [Threads -> BOOLEAN]
         /\ data' \in [Threads -> Seq(Seq(Cpus))]
         /\ record' \in [Threads -> Seq(Cpus)]
<1>1. <<record[t]>> \in Seq(Seq(Cpus))
  BY DEF TypeOK
<1>2. QED
  BY <1>1 DEF TypeOK, CoreReturns

(* A successful system call leaves the thread on an existing CPU. *)
LEMMA BindType ==
  ASSUME TypeOK, NEW t \in Threads, NEW m \in SUBSET Cpus, Bind(t, m)
  PROVE  mask' \in [Threads -> SUBSET Cpus] /\ oncpu' \in [Threads -> Cpus]
BY DEF TypeOK, Bind

LEMMA TypeStep == TypeOK /\ [Next]_vars => TypeOK'
<1> SUFFICES ASSUME TypeOK, [Next]_vars PROVE TypeOK'
  OBVIOUS
<1>1. ASSUME NEW t \in Threads, Migrate(t) PROVE TypeOK'
  BY <1>1 DEF TypeOK, Migrate, kernelVars
<1>2. ASSUME NEW c \in Cpus, Unplug(c) PROVE TypeOK'
  <2>1. online' \in (SUBSET Cpus) \ {{}} /\ everOffline' \in SUBSET Cpus
    <3>1. online' \subseteq Cpus /\ everOffline' \subseteq Cpus
      BY <1>2 DEF TypeOK, Unplug
    <3>2. online' # {}
      BY <1>2 DEF Unplug
    <3>3. QED
      BY <3>1, <3>2
  <2>2. plugs' \in 0 .. MaxPlug
    BY <1>2 DEF TypeOK, Unplug
  <2>3. mask' \in [Threads -> SUBSET Cpus]
    BY <1>2 DEF TypeOK, Unplug
  <2>4. oncpu' \in [Threads -> Cpus]
    BY <1>2, <2>1 DEF TypeOK, Unplug
  <2>5. QED
    BY <1>2, <2>1, <2>2, <2>3, <2>4 DEF TypeOK, Unplug
<1>3. ASSUME NEW c \in Cpus, Plug(c) PROVE TypeOK'
  BY <1>3 DEF TypeOK, Plug
<1>4. ASSUME NEW t \in Threads, Call(t) PROVE TypeOK'
  <2>1. PICK a \in BOOLEAN, cpu \in Nat : Enter(t, a, cpu)
    <3>1. CASE CallAll(t)
      BY <3>1 DEF CallAll
    <3>2. CASE CallCore(t)
      <4>1. PICK cpu \in 0 .. NumCpus : Enter(t, FALSE, cpu)
        BY <3>2 DEF CallCore
      <4>2. cpu \in Nat
        OBVIOUS
      <4>3. QED
        BY <4>1, <4>2
    <3>3. CASE CallCurrent(t)
      <4>1. AnyCpu \in Nat
        OBVIOUS
      <4>2. QED
        BY <3>3, <4>1 DEF CallCurrent
    <3>4. QED
      BY <1>4, <3>1, <3>2, <3>3 DEF Call
  <2>2. calls' \in [Threads -> 0 .. MaxCalls]
    BY <2>1 DEF TypeOK, Enter
  <2>3. /\ pc' \in [Threads -> Steps] /\ all' \in [Threads -> BOOLEAN]
        /\ logical' \in [Threads -> Nat]
    BY <2>1 DEF TypeOK, Enter
  <2>4. data' \in [Threads -> Seq(Seq(Cpus))]
    BY <2>1 DEF TypeOK, Enter
  <2>5. QED
    BY <2>1, <2>2, <2>3, <2>4 DEF TypeOK, Enter, kernelVars
<1>5. ASSUME NEW t \in Threads, SkipAffinity(t) PROVE TypeOK'
  BY <1>5 DEF TypeOK, SkipAffinity, kernelVars
<1>6. ASSUME NEW t \in Threads, Pin(t) PROVE TypeOK'
  <2>1. {logical[t]} \in SUBSET Cpus
    BY <1>6 DEF TypeOK, Pin, KernelAccepts
  <2>2. QED
    BY <1>6, <2>1, BindType DEF TypeOK, Pin, kernelVars
<1>7. ASSUME NEW t \in Threads, PinUnsupported(t) PROVE TypeOK'
  BY <1>7 DEF TypeOK, PinUnsupported, kernelVars
<1>8. ASSUME NEW t \in Threads, PinFailsOnZero(t) PROVE TypeOK'
  BY <1>8 DEF TypeOK, PinFailsOnZero, kernelVars
<1>9. ASSUME NEW t \in Threads, PinFails(t) PROVE TypeOK'
  BY <1>9, CoreReturnsType DEF TypeOK, PinFails, kernelVars
<1>10. ASSUME NEW t \in Threads, SaveAffinity(t) PROVE TypeOK'
  BY <1>10 DEF TypeOK, SaveAffinity, kernelVars
<1>11. ASSUME NEW t \in Threads, NoCpuid(t) PROVE TypeOK'
  BY <1>11, CoreReturnsType DEF TypeOK, NoCpuid, kernelVars
<1>12. ASSUME NEW t \in Threads, ReadLeaves(t) PROVE TypeOK'
  <2>1. Append(record[t], oncpu[t]) \in Seq(Cpus)
    BY DEF TypeOK
  <2>2. QED
    BY <1>12, <2>1 DEF TypeOK, ReadLeaves, kernelVars
<1>13. ASSUME NEW t \in Threads, Restore(t) PROVE TypeOK'
  <2>1. savedAffinity[Scope(t)] \cap allowed \in SUBSET Cpus
    BY DEF TypeOK
  <2>2. mask' \in [Threads -> SUBSET Cpus] /\ oncpu' \in [Threads -> Cpus]
    BY <1>13, <2>1, BindType DEF TypeOK, Restore
  <2>3. QED
    BY <1>13, <2>2, CoreReturnsType DEF TypeOK, Restore, kernelVars
<1>14. ASSUME NEW t \in Threads, Store(t) PROVE TypeOK'
  <2>1. Append(data[t], record[t]) \in Seq(Seq(Cpus))
    BY DEF TypeOK
  <2>2. (logical[t] + 1) % IndexMod \in Nat
    BY DEF TypeOK
  <2>3. data' \in [Threads -> Seq(Seq(Cpus))]
    <3>1. \/ data' = [data EXCEPT ![t] = Append(data[t], record[t])]
          \/ data' = data
      BY <1>14 DEF Store
    <3>2. data \in [Threads -> Seq(Seq(Cpus))]
      BY DEF TypeOK
    <3>3. QED
      BY <2>1, <3>1, <3>2
  <2>4. logical' \in [Threads -> Nat]
    <3>1. \/ logical' = [logical EXCEPT ![t] = (logical[t] + 1) % IndexMod]
          \/ logical' = logical
      BY <1>14 DEF Store
    <3>2. logical \in [Threads -> Nat]
      BY DEF TypeOK
    <3>3. QED
      BY <2>2, <3>1, <3>2
  <2>5. /\ pc' \in [Threads -> Steps] /\ errno' \in [Scopes -> Errors]
        /\ record' \in [Threads -> Seq(Cpus)]
    <3>1. pc' = [pc EXCEPT ![t] = "set"] \/ pc' = [pc EXCEPT ![t] = "ub"]
      BY <1>14 DEF Store
    <3>2. record' = [record EXCEPT ![t] = <<>>] /\ <<>> \in Seq(Cpus)
      BY <1>14 DEF Store
    <3>3. errno' = [errno EXCEPT ![Scope(t)] = "ERR_NO_MEM"] \/ errno' = errno
      BY <1>14 DEF Store
    <3>4. QED
      BY <3>1, <3>2, <3>3 DEF TypeOK
  <2>6. QED
    BY <1>14, <2>3, <2>4, <2>5 DEF TypeOK, Store, kernelVars
<1>15. CASE UNCHANGED vars
  BY <1>15 DEF TypeOK, vars
<1>16. ASSUME NEW t \in Threads, Run(t) PROVE TypeOK'
  BY <1>5, <1>6, <1>7, <1>8, <1>9, <1>10, <1>11, <1>12, <1>13, <1>14, <1>16
     DEF Run
<1>17. QED
  BY <1>1, <1>2, <1>3, <1>4, <1>15, <1>16 DEF Next, System

LEMMA InitType == Init => TypeOK
<1> SUFFICES ASSUME Init PROVE TypeOK
  OBVIOUS
<1>1. mask \in [Threads -> SUBSET Cpus]
  <2>1. \A m \in InitMasks : m \cap Unbound \in SUBSET Cpus
    BY ConstantsAssumption DEF ConstantsAssumption
  <2> DEFINE start == {m \cap Unbound : m \in InitMasks}
  <2>2. mask \in [Threads -> start]
    BY DEF Init
  <2>3. ASSUME NEW x \in start PROVE x \in SUBSET Cpus
    <3>1. PICK m \in InitMasks : x = m \cap Unbound
      OBVIOUS
    <3>2. QED
      BY <2>1, <3>1
  <2> HIDE DEF start
  <2>4. QED
    BY <2>2, <2>3
<1>2. oncpu \in [Threads -> Cpus]
  BY DEF Init
<1>3. plugs \in 0 .. MaxPlug /\ calls \in [Threads -> 0 .. MaxCalls]
  BY DEF Init
<1>4. QED
  BY <1>1, <1>2, <1>3 DEF Init, TypeOK

(* Type correctness of the acquisition. *)
THEOREM TypeCorrect == Spec => []TypeOK
<1>1. QED
  BY InitType, TypeStep, PTL DEF Spec

-----------------------------------------------------------------------------
(* A successful system call puts the thread on a CPU of the mask that is   *)
(* up, and does not touch the other threads.                               *)
LEMMA BindPlaces ==
  ASSUME TypeOK, NEW t \in Threads, NEW m \in SUBSET Cpus, Bind(t, m)
  PROVE  /\ mask'[t] = m /\ oncpu'[t] \in m \cap online
         /\ \A u \in Threads \ {t} : mask'[u] = mask[u] /\ oncpu'[u] = oncpu[u]
BY DEF TypeOK, Bind

(* Only hot-plug, the scheduler and two actions of a thread move threads. *)
LEMMA StaysPut ==
  ASSUME NEW t \in Threads, Call(t) \/ Run(t), ~Pin(t), ~Restore(t)
  PROVE  UNCHANGED <<online, allowed, everOffline, mask, oncpu>>
BY DEF Call, CallAll, CallCore, CallCurrent, Enter, Run, SkipAffinity,
       PinUnsupported, PinFailsOnZero, PinFails, SaveAffinity, NoCpuid,
       ReadLeaves, Store, kernelVars

LEMMA PlacedStep == TypeOK /\ Placed /\ [Next]_vars => Placed'
<1> SUFFICES ASSUME TypeOK, Placed, [Next]_vars PROVE Placed'
  OBVIOUS
<1>1. ASSUME NEW t \in Threads, Migrate(t) PROVE Placed'
  BY <1>1 DEF TypeOK, Placed, Migrate, kernelVars
<1>2. ASSUME NEW c \in Cpus, Unplug(c) PROVE Placed'
  <2>1. Cpus \ online' \subseteq everOffline'
    BY <1>2 DEF Placed, Unplug
  <2>2. ASSUME NEW t \in Threads PROVE oncpu'[t] \in mask'[t] \cap online'
    <3>1. oncpu'[t] \in online'
      BY <1>2 DEF Unplug
    <3>2. CASE oncpu[t] = c
      BY <1>2, <3>1, <3>2 DEF Unplug
    <3>3. CASE oncpu[t] # c
      <4>1. oncpu'[t] = oncpu[t] /\ oncpu[t] \in mask[t]
        BY <1>2, <3>3 DEF Placed, Unplug
      <4>2. mask'[t] = mask[t]
        BY <1>2, <3>1, <4>1 DEF Unplug
      <4>3. QED
        BY <3>1, <4>1, <4>2
    <3>4. QED
      BY <3>2, <3>3
  <2>3. QED
    BY <2>1, <2>2 DEF Placed
<1>3. ASSUME NEW c \in Cpus, Plug(c) PROVE Placed'
  BY <1>3 DEF Placed, Plug
<1>4. ASSUME NEW t \in Threads, Pin(t) PROVE Placed'
  <2>1. {logical[t]} \in SUBSET Cpus
    BY <1>4 DEF TypeOK, Pin, KernelAccepts
  <2>2. QED
    BY <1>4, <2>1, BindPlaces DEF Placed, Pin, kernelVars
<1>5. ASSUME NEW t \in Threads, Restore(t) PROVE Placed'
  <2>1. savedAffinity[Scope(t)] \cap allowed \in SUBSET Cpus
    BY DEF TypeOK
  <2>2. QED
    BY <1>5, <2>1, BindPlaces DEF Placed, Restore, kernelVars
<1>6. ASSUME NEW t \in Threads, Call(t) \/ Run(t), ~Pin(t), ~Restore(t)
      PROVE  Placed'
  BY <1>6, StaysPut DEF Placed
<1>7. CASE UNCHANGED vars
  BY <1>7 DEF Placed, vars
<1>8. QED
  BY <1>1, <1>2, <1>3, <1>4, <1>5, <1>6, <1>7 DEF Next, System

(* What another thread's step leaves alone. *)
LEMMA OthersUntouched ==
  ASSUME TypeOK, NEW t \in Threads, NEW u \in Threads \ {t}, Call(t) \/ Run(t)
  PROVE  /\ pc'[u] = pc[u] /\ all'[u] = all[u] /\ logical'[u] = logical[u]
         /\ record'[u] = record[u] /\ data'[u] = data[u]
         /\ mask'[u] = mask[u] /\ ret'[u] = ret[u] /\ calls'[u] = calls[u]
         /\ affinitySaved'[u] = affinitySaved[u]
         /\ allowed' = allowed /\ everOffline' = everOffline
<1>1. ASSUME NEW m \in SUBSET Cpus, Bind(t, m) PROVE mask'[u] = mask[u]
  BY <1>1, BindPlaces
<1>2. CASE Call(t)
  BY <1>2 DEF TypeOK, Call, CallAll, CallCore, CallCurrent, Enter, kernelVars
<1>3. CASE Pin(t)
  <2>1. {logical[t]} \in SUBSET Cpus
    BY <1>3 DEF TypeOK, Pin, KernelAccepts
  <2>2. QED
    BY <1>1, <1>3, <2>1 DEF TypeOK, Pin, kernelVars
<1>4. CASE Restore(t)
  <2>1. savedAffinity[Scope(t)] \cap allowed \in SUBSET Cpus
    BY DEF TypeOK
  <2>2. QED
    BY <1>1, <1>4, <2>1 DEF TypeOK, Restore, CoreReturns, kernelVars
<1>5. CASE SkipAffinity(t) \/ PinUnsupported(t) \/ PinFailsOnZero(t)
           \/ SaveAffinity(t) \/ ReadLeaves(t)
  BY <1>5 DEF TypeOK, SkipAffinity, PinUnsupported, PinFailsOnZero,
              SaveAffinity, ReadLeaves, kernelVars
<1>6. CASE PinFails(t) \/ NoCpuid(t)
  BY <1>6 DEF TypeOK, PinFails, NoCpuid, CoreReturns, kernelVars
<1>7. CASE Store(t)
  BY <1>7 DEF TypeOK, Store, kernelVars
<1>8. QED
  BY <1>2, <1>3, <1>4, <1>5, <1>6, <1>7 DEF Run

(* Reachable only shrinks: no step clears everOffline. *)
LEMMA ReachableShrinks ==
  ASSUME [Next]_vars, NEW c, Reachable(c)'
  PROVE  Reachable(c) /\ everOffline \subseteq everOffline'
<1>1. everOffline \subseteq everOffline' /\ allowed' = allowed
  <2>1. ASSUME NEW t \in Threads, Call(t) \/ Run(t)
        PROVE  UNCHANGED <<allowed, everOffline>>
    BY <2>1 DEF Call, CallAll, CallCore, CallCurrent, Enter, Run, SkipAffinity,
                Pin, PinUnsupported, PinFailsOnZero, PinFails, SaveAffinity,
                NoCpuid, ReadLeaves, Restore, Store, kernelVars
  <2>2. ASSUME NEW t \in Threads, Migrate(t) PROVE UNCHANGED <<allowed, everOffline>>
    BY <2>2 DEF Migrate, kernelVars
  <2>3. QED
    BY <2>1, <2>2 DEF Next, System, Unplug, Plug, vars
<1>2. QED
  BY <1>1 DEF Reachable

(* The step of another thread keeps the invariant of thread u. *)
LEMMA OtherStep ==
  ASSUME TypeOK, NEW t \in Threads, NEW u \in Threads \ {t},
         Call(t) \/ Run(t), ThreadInv(u)
  PROVE  ThreadInv(u)'
<1>1. /\ pc'[u] = pc[u] /\ all'[u] = all[u] /\ logical'[u] = logical[u]
      /\ record'[u] = record[u] /\ data'[u] = data[u] /\ mask'[u] = mask[u]
      /\ allowed' = allowed /\ everOffline' = everOffline
  BY OthersUntouched
<1>2. \A c : Reachable(c)' <=> Reachable(c)
  BY <1>1 DEF Reachable
<1>3. \A i : NamedCpu(u, i)' = NamedCpu(u, i)
  BY <1>1 DEF NamedCpu
<1>4. Held(u)' /\ RecordPure(u)' /\ Dense(u)'
  BY <1>1, <1>2 DEF ThreadInv, Held, RecordPure, Dense
<1>5. DeliveredPure(u)'
  BY <1>1, <1>2, <1>3 DEF ThreadInv, DeliveredPure
<1>6. QED
  BY <1>4, <1>5 DEF ThreadInv

(* The scheduler and hot-plug keep the invariant of every thread: a thread *)
(* loses its mask only together with the CPU it was held on.               *)
LEMMA SystemStep ==
  ASSUME TypeOK, Placed, System, NEW u \in Threads, ThreadInv(u)
  PROVE  ThreadInv(u)'
<1>1. /\ UNCHANGED <<pc, all, logical, record, data>>
      /\ everOffline \subseteq everOffline' /\ allowed' = allowed
  BY DEF System, Migrate, Unplug, Plug, kernelVars
<1>2. \A c : Reachable(c)' => Reachable(c)
  BY <1>1 DEF Reachable
<1>3. \A i : NamedCpu(u, i)' = NamedCpu(u, i)
  BY <1>1 DEF NamedCpu
<1>4. Held(u)'
  <2> SUFFICES ASSUME pc[u] \in {"save", "read"}, Reachable(logical[u])'
               PROVE  mask'[u] = {logical[u]}
    BY <1>1 DEF Held
  <2>1. mask[u] = {logical[u]}
    BY <1>1 DEF ThreadInv, Held, Reachable
  <2>2. CASE \E t \in Threads : Migrate(t)
    BY <2>1, <2>2 DEF Migrate
  <2>3. ASSUME NEW c \in Cpus, Unplug(c) PROVE mask'[u] = {logical[u]}
    <3>1. logical[u] \in online
      BY <2>1 DEF Placed
    <3>2. logical[u] # c
      BY <1>1, <2>3 DEF Unplug, Reachable
    <3>3. QED
      BY <2>1, <2>3, <3>1, <3>2 DEF Unplug
  <2>4. CASE \E c \in Cpus : Plug(c)
    BY <2>1, <2>4 DEF Plug
  <2>5. QED
    BY <2>2, <2>3, <2>4 DEF System
<1>5. RecordPure(u)' /\ Dense(u)'
  BY <1>1, <1>2 DEF ThreadInv, RecordPure, Dense
<1>6. DeliveredPure(u)'
  BY <1>1, <1>2, <1>3 DEF ThreadInv, DeliveredPure
<1>7. QED
  BY <1>4, <1>5, <1>6 DEF ThreadInv

(* A remainder is the number itself or below the number. *)
LEMMA ModAtMost ==
  ASSUME NEW n \in Nat, n % IndexMod > n - 1
  PROVE  n % IndexMod = n
<1>1. n = (IndexMod * (n \div IndexMod)) + (n % IndexMod)
  OBVIOUS
<1>2. n \div IndexMod \in Nat /\ n % IndexMod \in Nat
  OBVIOUS
<1>3. n \div IndexMod = 0 \/ IndexMod * (n \div IndexMod) >= 1
  BY <1>2
<1>4. QED
  BY <1>1, <1>2, <1>3

LEMMA ModGrows ==
  ASSUME NEW n \in Nat, (n + 1) % IndexMod > n
  PROVE  (n + 1) % IndexMod = n + 1
BY ModAtMost

(* The step of a thread keeps the invariant of that thread. *)
LEMMA OwnStep ==
  ASSUME TypeOK, Placed, NEW t \in Threads, Call(t) \/ Run(t), ThreadInv(t)
  PROVE  ThreadInv(t)'
<1> USE DEF ThreadInv
<1>1. CASE Call(t)
  <2>1. /\ pc[t] = "idle" /\ pc'[t] = "set" /\ record'[t] = record[t]
        /\ data'[t] = <<>> /\ all'[t] \in BOOLEAN
        /\ all'[t] => logical'[t] = 0
    BY <1>1 DEF TypeOK, Call, CallAll, CallCore, CallCurrent, Enter
  <2>2. record'[t] = <<>>
    BY <2>1 DEF RecordPure
  <2>3. QED
    BY <2>1, <2>2 DEF Held, RecordPure, Dense, DeliveredPure
<1>2. CASE SkipAffinity(t)
  <2>1. /\ pc[t] = "set" /\ pc'[t] = "read" /\ logical[t] = AnyCpu
        /\ UNCHANGED <<allowed, everOffline, mask, all, logical, record, data>>
    BY <1>2 DEF TypeOK, SkipAffinity, kernelVars
  <2>2. QED
    BY <2>1 DEF Held, RecordPure, Dense, DeliveredPure, Reachable, NamedCpu
<1>3. CASE Pin(t)
  <2>1. {logical[t]} \in SUBSET Cpus
    BY <1>3 DEF TypeOK, Pin, KernelAccepts
  <2>2. /\ pc[t] = "set" /\ pc'[t] = "save" /\ mask'[t] = {logical[t]}
        /\ UNCHANGED <<allowed, everOffline, all, logical, record, data>>
    BY <1>3, <2>1, BindPlaces DEF TypeOK, Pin, kernelVars
  <2>3. QED
    BY <2>2 DEF Held, RecordPure, Dense, DeliveredPure, Reachable, NamedCpu
<1>4. CASE PinUnsupported(t)
  <2>1. /\ pc[t] = "set" /\ pc'[t] = "save" /\ logical[t] > BindLimit
        /\ UNCHANGED <<allowed, everOffline, mask, all, logical, record, data>>
    BY <1>4 DEF TypeOK, PinUnsupported, kernelVars
  <2>2. ~Reachable(logical[t])
    BY <2>1 DEF Reachable, TypeOK
  <2>3. QED
    BY <2>1, <2>2 DEF Held, RecordPure, Dense, DeliveredPure, Reachable,
                      NamedCpu
<1>5. CASE PinFailsOnZero(t)
  <2>1. /\ pc[t] = "set" /\ pc'[t] = "read" /\ logical[t] \in Suspect
        /\ UNCHANGED <<allowed, everOffline, mask, all, logical, record, data>>
    BY <1>5 DEF TypeOK, Placed, PinFailsOnZero, KernelAccepts, kernelVars
  <2>2. QED
    BY <2>1 DEF Held, RecordPure, Dense, DeliveredPure, Reachable, NamedCpu
<1>6. CASE PinFails(t)
  <2>1. /\ pc[t] = "set" /\ pc'[t] = "idle" /\ record'[t] = <<>>
        /\ UNCHANGED <<allowed, everOffline, mask, all, logical, data>>
    BY <1>6 DEF TypeOK, PinFails, CoreReturns, kernelVars
  <2>2. QED
    BY <2>1 DEF TypeOK, Held, RecordPure, Dense, DeliveredPure, Reachable,
                NamedCpu
<1>7. CASE SaveAffinity(t)
  <2>1. /\ pc[t] = "save" /\ pc'[t] = "read"
        /\ UNCHANGED <<allowed, everOffline, mask, all, logical, record, data>>
    BY <1>7 DEF TypeOK, SaveAffinity, kernelVars
  <2>2. QED
    BY <2>1 DEF Held, RecordPure, Dense, DeliveredPure, Reachable, NamedCpu
<1>8. CASE NoCpuid(t)
  <2>1. /\ pc[t] = "read" /\ pc'[t] = "idle" /\ record'[t] = <<>>
        /\ UNCHANGED <<allowed, everOffline, mask, all, logical, data>>
    BY <1>8 DEF TypeOK, NoCpuid, CoreReturns, kernelVars
  <2>2. QED
    BY <2>1 DEF TypeOK, Held, RecordPure, Dense, DeliveredPure, Reachable,
                NamedCpu
<1>9. CASE ReadLeaves(t)
  <2>1. /\ pc[t] = "read" /\ pc'[t] \in {"read", "restore"}
        /\ record'[t] = Append(record[t], oncpu[t])
        /\ UNCHANGED <<allowed, everOffline, mask, all, logical, data>>
    BY <1>9 DEF TypeOK, ReadLeaves, kernelVars
  <2>2. Reachable(logical[t]) => oncpu[t] = logical[t]
    BY <2>1 DEF Held, Placed
  <2>3. Reachable(logical[t]) =>
          \A g \in DOMAIN record'[t] : record'[t][g] = logical[t]
    <3>1. record[t] \in Seq(Cpus) /\ oncpu[t] \in Cpus
      BY DEF TypeOK
    <3>2. Reachable(logical[t]) =>
            \A g \in DOMAIN record[t] : record[t][g] = logical[t]
      BY DEF RecordPure
    <3>3. QED
      BY <2>1, <2>2, <3>1, <3>2, AppendKeeps
  <2>4. QED
    BY <2>1, <2>3 DEF Held, RecordPure, Dense, DeliveredPure, Reachable,
                      NamedCpu
<1>10. CASE Restore(t)
  <2>1. /\ pc[t] = "restore"
        /\ UNCHANGED <<allowed, everOffline, all, logical>>
    BY <1>10 DEF Restore, kernelVars
  <2>2. CASE all[t]
    <3>1. pc'[t] = "store" /\ record'[t] = record[t] /\ data'[t] = data[t]
      BY <1>10, <2>2 DEF TypeOK, Restore, CoreReturns
    <3>2. QED
      BY <2>1, <2>2, <3>1 DEF Held, RecordPure, Dense, DeliveredPure,
                              Reachable, NamedCpu
  <2>3. CASE ~all[t]
    <3>1. pc'[t] = "idle" /\ record'[t] = <<>> /\ data'[t] = <<record[t]>>
      BY <1>10, <2>3 DEF TypeOK, Restore, CoreReturns
    <3>2. DeliveredPure(t)'
      BY <2>1, <2>3, <3>1 DEF RecordPure, DeliveredPure, Reachable, NamedCpu
    <3>3. QED
      BY <2>1, <2>3, <3>1, <3>2 DEF Held, RecordPure, Dense
  <2>4. QED
    BY <2>2, <2>3 DEF TypeOK
<1>11. CASE Store(t)
  <2>1. /\ pc[t] = "store" /\ record'[t] = <<>> /\ all[t]
        /\ UNCHANGED <<allowed, everOffline, all>>
    BY <1>11 DEF TypeOK, Dense, Store, kernelVars
  <2>2. CASE pc'[t] = "ub"
    <3>1. logical'[t] = logical[t] /\ data'[t] = data[t]
      BY <1>11, <2>2 DEF TypeOK, Store
    <3>2. QED
      BY <2>1, <2>2, <3>1 DEF Held, RecordPure, Dense, DeliveredPure,
                              Reachable, NamedCpu
  <2>3. CASE pc'[t] # "ub"
    <3>1. /\ pc'[t] = "set" /\ data'[t] = Append(data[t], record[t])
          /\ logical'[t] = (logical[t] + 1) % IndexMod
          /\ logical[t] < Grown(Len(data[t]), logical[t] + 1)
      BY <1>11, <2>3 DEF TypeOK, Store
    <3>2. logical'[t] = logical[t] + 1
      <4>1. logical[t] = Len(data[t]) /\ logical[t] \in Nat
        BY <2>1 DEF TypeOK, Dense
      <4>2. (logical[t] + 1) % IndexMod > logical[t]
        <5>1. logical[t] < Grown(logical[t], logical[t] + 1)
          BY <3>1, <4>1
        <5>2. Grown(logical[t], logical[t] + 1)
                \in {logical[t], (logical[t] + 1) % IndexMod}
          BY DEF Grown
        <5>3. ~(logical[t] < logical[t])
          BY <4>1
        <5>4. logical[t] < (logical[t] + 1) % IndexMod
          BY <5>1, <5>2, <5>3, Zenon
        <5>5. (logical[t] + 1) % IndexMod \in Nat
          BY DEF TypeOK
        <5>6. QED
          BY <4>1, <5>4, <5>5
      <4>3. (logical[t] + 1) % IndexMod = logical[t] + 1
        BY <4>1, <4>2, ModGrows
      <4>4. QED
        BY <3>1, <4>3
    <3>3. DeliveredPure(t)'
      <4> SUFFICES ASSUME NEW i \in DOMAIN data'[t], Reachable(i - 1)',
                          NEW g \in DOMAIN data'[t][i]
                   PROVE  data'[t][i][g] = i - 1
        BY <2>1 DEF DeliveredPure, NamedCpu
      <4>1. Reachable(i - 1)
        BY <2>1 DEF Reachable
      <4>2. data[t] \in Seq(Seq(Cpus)) /\ i \in 1 .. Len(data[t]) + 1
        BY <3>1 DEF TypeOK
      <4>3. CASE i = Len(data[t]) + 1
        BY <2>1, <3>1, <4>1, <4>2, <4>3 DEF RecordPure, Dense
      <4>4. CASE i # Len(data[t]) + 1
        BY <2>1, <3>1, <4>1, <4>2, <4>4 DEF DeliveredPure, NamedCpu
      <4>5. QED
        BY <4>3, <4>4
    <3>4. QED
      BY <2>1, <3>1, <3>2, <3>3 DEF TypeOK, Held, RecordPure, Dense
  <2>4. QED
    BY <2>2, <2>3
<1>12. QED
  BY <1>1, <1>2, <1>3, <1>4, <1>5, <1>6, <1>7, <1>8, <1>9, <1>10, <1>11
     DEF Run

LEMMA IInvStep == IInv /\ [Next]_vars => IInv'
<1> SUFFICES ASSUME IInv, [Next]_vars PROVE IInv'
  OBVIOUS
<1>1. TypeOK' /\ Placed'
  BY TypeStep, PlacedStep DEF IInv
<1>2. ASSUME NEW u \in Threads PROVE ThreadInv(u)'
  <2>1. CASE System
    BY <2>1, SystemStep DEF IInv
  <2>2. ASSUME NEW t \in Threads, Call(t) \/ Run(t) PROVE ThreadInv(u)'
    BY <2>2, OwnStep, OtherStep DEF IInv
  <2>3. CASE UNCHANGED vars
    BY <2>3 DEF IInv, ThreadInv, Held, RecordPure, Dense, DeliveredPure,
                Reachable, NamedCpu, vars
  <2>4. QED
    BY <2>1, <2>2, <2>3 DEF Next
<1>3. QED
  BY <1>1, <1>2 DEF IInv

LEMMA IInvInit == Init => IInv
<1> SUFFICES ASSUME Init PROVE IInv
  OBVIOUS
<1>1. TypeOK
  BY InitType
<1>2. Placed
  BY DEF Init, Placed
<1>3. ASSUME NEW t \in Threads PROVE ThreadInv(t)
  <2>1. /\ pc[t] = "idle" /\ all[t] = FALSE
        /\ record[t] = <<>> /\ data[t] = <<>>
    BY DEF Init
  <2>2. QED
    BY <2>1 DEF ThreadInv, Held, RecordPure, Dense, DeliveredPure
<1>4. QED
  BY <1>1, <1>2, <1>3 DEF IInv

(* The invariant that explains why affinities give pure records. *)
THEOREM InvariantHolds == Spec => []IInv
<1>1. QED
  BY IInvInit, IInvStep, PTL DEF Spec

(* Every record delivered for a reachable CPU was read on that CPU alone,  *)
(* for any number of threads, CPUs and hot-plug events.                    *)
THEOREM DeliveredDataIsPure == Spec => []DataFromNamedCpu
<1>1. IInv => DataFromNamedCpu
  BY DEF IInv, ThreadInv, DataFromNamedCpu
<1>2. QED
  BY <1>1, InvariantHolds, PTL

-----------------------------------------------------------------------------
(* Where the enumeration ends, on a machine with room for every CPU. *)

(* Below the last index the array grows by the record that is stored. *)
LEMMA GrowsByOne ==
  ASSUME NEW n \in Nat, n + 1 < IndexMod
  PROVE  /\ (n + 1) % IndexMod = n + 1
         /\ Grown(n, n + 1) = n + 1 /\ n < Grown(n, n + 1)
<1>1. (n + 1) % IndexMod = n + 1
  OBVIOUS
<1>2. n + 1 # 0 /\ ~(n + 1 < n) /\ n < n + 1
  OBVIOUS
<1>3. QED
  BY <1>1, <1>2 DEF Grown

LEMMA EndOtherStep ==
  ASSUME TypeOK, NEW t \in Threads, NEW u \in Threads \ {t},
         Call(t) \/ Run(t), EndInv(u)
  PROVE  EndInv(u)'
<1>1. /\ pc'[u] = pc[u] /\ all'[u] = all[u] /\ logical'[u] = logical[u]
      /\ data'[u] = data[u] /\ ret'[u] = ret[u] /\ calls'[u] = calls[u]
      /\ allowed' = allowed /\ everOffline' = everOffline
  BY OthersUntouched
<1>2. QED
  BY <1>1 DEF EndInv, InRange, EndsAtEnd, SaysWhy, Finished

LEMMA EndSystemStep ==
  ASSUME TypeOK, System, NEW u \in Threads, EndInv(u)
  PROVE  EndInv(u)'
<1>1. /\ UNCHANGED <<pc, all, logical, data, ret, calls>>
      /\ everOffline \subseteq everOffline' /\ allowed' = allowed
  BY DEF System, Migrate, Unplug, Plug, kernelVars
<1>2. QED
  BY <1>1 DEF EndInv, InRange, EndsAtEnd, SaysWhy, Finished

LEMMA EndOwnStep ==
  ASSUME Capacity, IInv, NEW t \in Threads, Call(t) \/ Run(t), EndInv(t)
  PROVE  EndInv(t)'
<1> USE DEF EndInv, Finished
<1>1. TypeOK /\ Placed /\ Dense(t)
  BY DEF IInv, ThreadInv
<1>2. CASE Call(t)
  <2>1. pc'[t] = "set" /\ all'[t] \in BOOLEAN
    BY <1>1, <1>2 DEF TypeOK, Call, CallAll, CallCore, CallCurrent, Enter
  <2>2. \/ logical'[t] \in 0 .. NumCpus
        \/ logical'[t] = AnyCpu /\ ~all'[t]
    BY <1>1, <1>2 DEF TypeOK, Call, CallAll, CallCore, CallCurrent, Enter
  <2>3. QED
    BY <2>1, <2>2 DEF InRange, EndsAtEnd, SaysWhy
<1>3. CASE SkipAffinity(t)
  <2>1. /\ pc'[t] = "read" /\ logical[t] = AnyCpu
        /\ UNCHANGED <<all, logical>>
    BY <1>1, <1>3 DEF TypeOK, SkipAffinity
  <2>2. QED
    BY <2>1 DEF InRange, EndsAtEnd, SaysWhy, Capacity
<1>4. CASE Pin(t)
  <2>1. /\ pc'[t] = "save" /\ logical[t] \in Cpus
        /\ UNCHANGED <<all, logical>>
    BY <1>1, <1>4 DEF TypeOK, Pin, KernelAccepts
  <2>2. QED
    BY <2>1 DEF InRange, EndsAtEnd, SaysWhy
<1>5. CASE PinUnsupported(t)
  BY <1>1, <1>5 DEF TypeOK, PinUnsupported, InRange, Capacity
<1>6. CASE PinFailsOnZero(t)
  <2>1. /\ pc'[t] = "read" /\ logical[t] \in Cpus
        /\ UNCHANGED <<all, logical>>
    BY <1>1, <1>6 DEF TypeOK, PinFailsOnZero
  <2>2. QED
    BY <2>1 DEF InRange, EndsAtEnd, SaysWhy
<1>7. CASE PinFails(t)
  <2>1. /\ pc[t] = "set" /\ pc'[t] = "idle" /\ logical[t] > 0
        /\ logical[t] # AnyCpu /\ logical[t] \notin online \cap allowed
        /\ UNCHANGED <<allowed, everOffline, all, logical, data>>
    BY <1>1, <1>7 DEF TypeOK, PinFails, KernelAccepts, CoreReturns, kernelVars
  <2>2. logical[t] \in Suspect \/ logical[t] = NumCpus
    BY <1>1, <2>1 DEF InRange, Placed
  <2>3. InRange(t)'
    BY <2>1 DEF InRange
  <2>4. EndsAtEnd(t)'
    BY <1>1, <2>1, <2>2 DEF Dense, EndsAtEnd, InRange
  <2>5. ASSUME ~all[t] PROVE ret'[t] = "ERR_INVCNB" /\ data[t] = <<>>
    BY <1>1, <1>7, <2>1, <2>5 DEF TypeOK, Dense, PinFails, CoreReturns
  <2>6. SaysWhy(t)'
    BY <1>1, <2>1, <2>2, <2>5 DEF TypeOK, SaysWhy, InRange
  <2>7. QED
    BY <2>3, <2>4, <2>6
<1>8. CASE SaveAffinity(t)
  <2>1. /\ pc[t] = "save" /\ pc'[t] = "read" /\ UNCHANGED <<all, logical>>
    BY <1>1, <1>8 DEF TypeOK, SaveAffinity
  <2>2. QED
    BY <2>1 DEF InRange, EndsAtEnd, SaysWhy
<1>9. CASE NoCpuid(t)
  <2>1. /\ pc[t] = "read" /\ pc'[t] = "idle" /\ ret'[t] = "ERR_NO_CPUID"
        /\ UNCHANGED <<all, logical, data>>
    BY <1>1, <1>9 DEF TypeOK, NoCpuid, CoreReturns
  <2>2. ~all[t] => data[t] = <<>>
    BY <1>1, <2>1 DEF Dense
  <2>3. InRange(t)' /\ EndsAtEnd(t)'
    BY <2>1 DEF InRange, EndsAtEnd
  <2>4. ~all'[t] => Len(data'[t]) # 1
    BY <2>1, <2>2
  <2>5. SaysWhy(t)'
    <3>1. ret'[t] # "ERR_INVCNB" /\ ret'[t] # "ERR_OK"
      BY <2>1
    <3>2. QED
      BY <2>4, <3>1 DEF SaysWhy
  <2>6. QED
    BY <2>3, <2>5
<1>10. CASE ReadLeaves(t)
  <2>1. /\ pc[t] = "read" /\ pc'[t] \in {"read", "restore"}
        /\ UNCHANGED <<all, logical>>
    BY <1>1, <1>10 DEF TypeOK, ReadLeaves
  <2>2. QED
    BY <2>1 DEF InRange, EndsAtEnd, SaysWhy
<1>11. CASE Restore(t)
  <2>1. pc[t] = "restore" /\ UNCHANGED <<all, logical>>
    BY <1>11 DEF Restore
  <2>2. CASE all[t]
    <3>1. pc'[t] = "store"
      BY <1>1, <1>11, <2>2 DEF TypeOK, Restore, CoreReturns
    <3>2. QED
      BY <2>1, <2>2, <3>1 DEF InRange, EndsAtEnd, SaysWhy
  <2>3. CASE ~all[t]
    <3>1. /\ pc'[t] = "idle" /\ ret'[t] = "ERR_OK"
          /\ data'[t] = <<record[t]>>
      BY <1>1, <1>11, <2>3 DEF TypeOK, Restore, CoreReturns
    <3>2. QED
      BY <2>1, <2>3, <3>1 DEF InRange, EndsAtEnd, SaysWhy
  <2>4. QED
    BY <1>1, <2>2, <2>3 DEF TypeOK
<1>12. CASE Store(t)
  <2>1. /\ pc[t] = "store" /\ all[t] /\ UNCHANGED all
        /\ logical[t] = Len(data[t])
    BY <1>1, <1>12 DEF Dense, Store
  <2>2. logical[t] \in Cpus
    BY <2>1 DEF InRange
  <2>3. (logical[t] + 1) % IndexMod = logical[t] + 1
    BY <2>2, GrowsByOne DEF Capacity
  <2>4. logical[t] < Grown(Len(data[t]), logical[t] + 1)
    BY <2>1, <2>2, GrowsByOne DEF Capacity
  <2>5. \/ pc'[t] = "set" /\ logical'[t] = logical[t] + 1
        \/ pc'[t] = "ub" /\ logical'[t] = logical[t]
    BY <1>1, <1>12, <2>3, <2>4 DEF TypeOK, Store
  <2>6. QED
    BY <2>1, <2>2, <2>5 DEF InRange, EndsAtEnd, SaysWhy
<1>13. QED
  BY <1>2, <1>3, <1>4, <1>5, <1>6, <1>7, <1>8, <1>9, <1>10, <1>11, <1>12
     DEF Run

LEMMA EndStep ==
  ASSUME Capacity
  PROVE  IInv /\ (\A t \in Threads : EndInv(t)) /\ [Next]_vars
           => (\A t \in Threads : EndInv(t))'
<1> SUFFICES ASSUME IInv, \A t \in Threads : EndInv(t), [Next]_vars,
                    NEW u \in Threads
             PROVE  EndInv(u)'
  OBVIOUS
<1>1. TypeOK
  BY DEF IInv
<1>2. CASE System
  BY <1>1, <1>2, EndSystemStep
<1>3. ASSUME NEW t \in Threads, Call(t) \/ Run(t) PROVE EndInv(u)'
  BY <1>1, <1>3, EndOwnStep, EndOtherStep
<1>4. CASE UNCHANGED vars
  BY <1>4 DEF EndInv, InRange, EndsAtEnd, SaysWhy, Finished, vars
<1>5. QED
  BY <1>2, <1>3, <1>4 DEF Next

LEMMA EndAlways ==
  ASSUME Capacity PROVE Spec => [](\A t \in Threads : EndInv(t))
<1>1. Init => \A t \in Threads : EndInv(t)
  BY DEF Init, EndInv, InRange, EndsAtEnd, SaysWhy, Finished
<1>2. QED
  BY <1>1, EndStep, InvariantHolds, PTL DEF Spec

(* With room for every CPU and thread-local variables the array is written *)
(* past its end only when the memory to grow it ran out, with the error    *)
(* that says so recorded.                                                  *)
THEOREM ArrayIsNotOverrun ==
  ASSUME Capacity, ~StaticScope PROVE Spec => []NoOverrun
<1>1. Init => NoOverrun
  BY DEF Init, NoOverrun
<1>2. IInv /\ (\A t \in Threads : EndInv(t)) /\ NoOverrun /\ [Next]_vars => NoOverrun'
  <2> SUFFICES ASSUME IInv, \A t \in Threads : EndInv(t), NoOverrun, [Next]_vars,
                      NEW u \in Threads, pc'[u] = "ub"
               PROVE  errno'[u] = "ERR_NO_MEM"
    BY DEF NoOverrun
  <2>1. TypeOK
    BY DEF IInv
  <2>2. CASE System
    BY <2>2 DEF System, Migrate, Unplug, Plug, kernelVars, NoOverrun
  <2>3. ASSUME NEW t \in Threads, Call(t) \/ Run(t), u # t
        PROVE  errno'[u] = "ERR_NO_MEM"
    <3>1. pc'[u] = pc[u]
      BY <2>1, <2>3, OthersUntouched
    <3>2. errno'[u] = errno[u]
      BY <2>1, <2>3 DEF TypeOK, Call, CallAll, CallCore, CallCurrent, Enter,
                Run, SkipAffinity, Pin, PinUnsupported, PinFailsOnZero,
                PinFails, SaveAffinity, NoCpuid, ReadLeaves, Restore, Store,
                CoreReturns
    <3>3. QED
      BY <3>1, <3>2 DEF NoOverrun
  <2>4. CASE (Call(u) \/ Run(u)) /\ ~Store(u)
    BY <2>1, <2>4 DEF TypeOK, Call, CallAll, CallCore, CallCurrent, Enter, Run,
              SkipAffinity, Pin, PinUnsupported, PinFailsOnZero, PinFails,
              SaveAffinity, NoCpuid, ReadLeaves, Restore, CoreReturns
  <2>5. CASE Store(u)
    <3>1. pc[u] = "store" /\ all[u] /\ logical[u] = Len(data[u])
      BY <2>5 DEF IInv, ThreadInv, Dense, Store
    <3>2. logical[u] \in Cpus
      BY <3>1 DEF EndInv, InRange
    <3>3. logical[u] < Grown(Len(data[u]), logical[u] + 1)
      BY <3>1, <3>2, GrowsByOne DEF Capacity
    <3>4. ~(logical[u] >= Grown(Len(data[u]), logical[u] + 1))
      <4>1. Grown(Len(data[u]), logical[u] + 1) = logical[u] + 1
        BY <3>1, <3>2, GrowsByOne DEF Capacity
      <4>2. QED
        BY <3>2, <4>1, ConstantsAssumption DEF Cpus, ConstantsAssumption
    <3>5. errno' = [errno EXCEPT ![u] = "ERR_NO_MEM"]
      BY <2>1, <2>5, <3>4 DEF Store, TypeOK
    <3>6. QED
      BY <2>1, <3>5 DEF TypeOK
  <2>6. CASE UNCHANGED vars
    BY <2>6 DEF vars, NoOverrun
  <2>7. QED
    BY <2>2, <2>3, <2>4, <2>5, <2>6 DEF Next
<1>3. QED
  BY <1>1, <1>2, InvariantHolds, EndAlways, PTL DEF Spec

(* With room for every CPU a successful enumeration ends at the end of the *)
(* machine or at a CPU that was offline or may not be bound to, and holds  *)
(* at least the record of CPU 0: for every set of CPUs the process may be  *)
(* bound to, none included.                                                *)
THEOREM EnumerationEndsAtEnd == ASSUME Capacity PROVE Spec => []StopsAtEnd
<1>1. (\A t \in Threads : EndInv(t)) => StopsAtEnd
  BY DEF EndInv, StopsAtEnd
<1>2. QED
  BY <1>1, EndAlways, PTL

(* ... and the result of a single call says which CPUs there are. *)
THEOREM CoreVerdictHolds == ASSUME Capacity PROVE Spec => []CoreVerdict
<1>1. (\A t \in Threads : EndInv(t)) => CoreVerdict
  BY DEF EndInv, CoreVerdict
<1>2. QED
  BY <1>1, EndAlways, PTL

-----------------------------------------------------------------------------
(* Complete records, and thread-local variables. *)

LEMMA CompleteOwnStep ==
  ASSUME IInv, NEW t \in Threads, Call(t) \/ Run(t), Complete(t)
  PROVE  Complete(t)'
<1> USE DEF Complete
<1>1. TypeOK /\ RecordPure(t)
  BY DEF IInv, ThreadInv
<1>2. cpuidPresent' = cpuidPresent
  BY DEF Call, CallAll, CallCore, CallCurrent, Enter, Run, SkipAffinity, Pin,
         PinUnsupported, PinFailsOnZero, PinFails, SaveAffinity, NoCpuid,
         ReadLeaves, Restore, Store, kernelVars
<1>3. CASE Call(t)
  <2>1. /\ pc[t] = "idle" /\ pc'[t] = "set" /\ data'[t] = <<>>
        /\ affinitySaved'[t] = affinitySaved[t]
    BY <1>1, <1>3 DEF TypeOK, Call, CallAll, CallCore, CallCurrent, Enter
  <2>2. QED
    BY <2>1
<1>4. CASE SkipAffinity(t) \/ PinFailsOnZero(t) \/ SaveAffinity(t)
  <2>1. /\ pc[t] \in {"set", "save"} /\ pc'[t] = "read"
        /\ record'[t] = record[t] /\ data'[t] = data[t]
    BY <1>1, <1>4 DEF TypeOK, SkipAffinity, PinFailsOnZero, SaveAffinity
  <2>2. record[t] = <<>>
    BY <2>1 DEF RecordPure, IInv, ThreadInv
  <2>3. QED
    BY <1>2, <2>1, <2>2
<1>5. CASE Pin(t) \/ PinUnsupported(t)
  <2>1. /\ pc[t] = "set" /\ pc'[t] = "save" /\ data'[t] = data[t]
        /\ affinitySaved'[t] = affinitySaved[t]
    BY <1>1, <1>5 DEF TypeOK, Pin, PinUnsupported
  <2>2. QED
    BY <1>2, <2>1
<1>6. CASE PinFails(t) \/ NoCpuid(t)
  <2>1. pc'[t] = "idle" /\ ~affinitySaved'[t] /\ data'[t] = data[t]
    BY <1>1, <1>6 DEF TypeOK, PinFails, NoCpuid, CoreReturns
  <2>2. QED
    BY <1>2, <2>1
<1>7. CASE ReadLeaves(t)
  <2>1. /\ pc[t] = "read" /\ cpuidPresent /\ data'[t] = data[t]
        /\ record'[t] = Append(record[t], oncpu[t])
        /\ pc'[t] = IF Len(record[t]) + 1 = NumLeaves THEN "restore" ELSE "read"
    BY <1>1, <1>7 DEF TypeOK, ReadLeaves
  <2>2. Len(record'[t]) = Len(record[t]) + 1 /\ Len(record[t]) \in Nat
    BY <1>1, <2>1 DEF TypeOK
  <2>3. QED
    BY <1>2, <2>1, <2>2
<1>8. CASE Restore(t)
  <2>1. pc[t] = "restore" /\ cpuidPresent /\ ~affinitySaved'[t]
    BY <1>1, <1>8 DEF TypeOK, Restore, CoreReturns
  <2>2. \/ pc'[t] = "idle"
        \/ pc'[t] = "store" /\ record'[t] = record[t]
    BY <1>1, <1>8 DEF TypeOK, Restore, CoreReturns
  <2>3. QED
    BY <1>2, <2>1, <2>2
<1>9. CASE Store(t)
  <2>1. /\ pc[t] = "store" /\ cpuidPresent /\ pc'[t] \in {"set", "ub"}
        /\ affinitySaved'[t] = affinitySaved[t]
    BY <1>1, <1>9 DEF TypeOK, Store
  <2>2. QED
    BY <1>2, <2>1
<1>10. QED
  BY <1>3, <1>4, <1>5, <1>6, <1>7, <1>8, <1>9 DEF Run

LEMMA CompleteAlways == Spec => [](\A t \in Threads : Complete(t))
<1>1. Init => \A t \in Threads : Complete(t)
  BY DEF Init, Complete
<1>2. IInv /\ (\A t \in Threads : Complete(t)) /\ [Next]_vars
        => (\A t \in Threads : Complete(t))'
  <2> SUFFICES ASSUME IInv, \A t \in Threads : Complete(t), [Next]_vars,
                      NEW u \in Threads
               PROVE  Complete(u)'
    OBVIOUS
  <2>1. CASE System
    BY <2>1 DEF System, Migrate, Unplug, Plug, kernelVars, Complete
  <2>2. ASSUME NEW t \in Threads, Call(t) \/ Run(t) PROVE Complete(u)'
    <3>1. CASE u = t
      BY <2>2, <3>1, CompleteOwnStep
    <3>2. CASE u # t
      <4>1. /\ pc'[u] = pc[u] /\ record'[u] = record[u]
            /\ data'[u] = data[u] /\ affinitySaved'[u] = affinitySaved[u]
        BY <2>2, <3>2, OthersUntouched DEF IInv
      <4>2. cpuidPresent' = cpuidPresent
        BY <2>2 DEF Call, CallAll, CallCore, CallCurrent, Enter, Run,
                    SkipAffinity, Pin, PinUnsupported, PinFailsOnZero,
                    PinFails, SaveAffinity, NoCpuid, ReadLeaves, Restore,
                    Store, kernelVars
      <4>3. QED
        BY <4>1, <4>2 DEF Complete
    <3>3. QED
      BY <3>1, <3>2
  <2>3. CASE UNCHANGED vars
    BY <2>3 DEF Complete, vars
  <2>4. QED
    BY <2>1, <2>2, <2>3 DEF Next
<1>3. QED
  BY <1>1, <1>2, InvariantHolds, PTL DEF Spec

(* With thread-local variables a saved mask belongs to its thread until it *)
(* is restored.                                                            *)
THEOREM SavedMaskIsStable == ASSUME ~StaticScope PROVE Spec => SavedMaskStable
<1>1. IInv /\ (\A t \in Threads : Complete(t)) /\ [Next]_vars =>
        [\A t \in Threads : affinitySaved[t] /\ affinitySaved'[t] =>
           savedAffinity'[Scope(t)] = savedAffinity[Scope(t)]]_vars
  <2> SUFFICES ASSUME IInv, \A t \in Threads : Complete(t), Next,
                      NEW u \in Threads, affinitySaved[u]
               PROVE  savedAffinity'[u] = savedAffinity[u]
    OBVIOUS
  <2>1. ASSUME NEW t \in Threads, SaveAffinity(t)
        PROVE  savedAffinity'[u] = savedAffinity[u]
    <3>1. pc[t] = "save" /\ ~affinitySaved[t]
      BY <2>1 DEF SaveAffinity, Complete
    <3>2. savedAffinity' = [savedAffinity EXCEPT ![t] = mask[t] \cap online]
      BY <2>1 DEF SaveAffinity
    <3>3. savedAffinity \in [Scopes -> SUBSET Cpus]
      BY DEF IInv, TypeOK
    <3>4. QED
      BY <3>1, <3>2, <3>3
  <2>2. ASSUME NEW t \in Threads, Call(t) \/ Run(t), ~SaveAffinity(t)
        PROVE  savedAffinity' = savedAffinity
    BY <2>2 DEF Call, CallAll, CallCore, CallCurrent, Enter, Run,
                SkipAffinity, Pin, PinUnsupported, PinFailsOnZero, PinFails,
                NoCpuid, ReadLeaves, Restore, Store
  <2>3. CASE System
    BY <2>3 DEF System, Migrate, Unplug, Plug
  <2>4. QED
    BY <2>1, <2>2, <2>3 DEF Next
<1>2. QED
  BY <1>1, InvariantHolds, CompleteAlways, PTL DEF Spec, SavedMaskStable

(* With thread-local variables cpuid_get_error answers for the own call. *)
THEOREM ErrnoHolds == ASSUME ~StaticScope PROVE Spec => []ErrnoIsOwnResult
<1>1. Init => ErrnoIsOwnResult
  BY DEF Init, ErrnoIsOwnResult, Finished
<1>2. IInv /\ ErrnoIsOwnResult /\ [Next]_vars => ErrnoIsOwnResult'
  <2> SUFFICES ASSUME IInv, ErrnoIsOwnResult, [Next]_vars,
                      NEW u \in Threads, Finished(u)'
               PROVE  errno'[u] = ret'[u]
    BY DEF ErrnoIsOwnResult
  <2> USE DEF Finished
  <2>1. TypeOK
    BY DEF IInv
  <2>2. CASE System
    BY <2>2 DEF System, Migrate, Unplug, Plug, kernelVars, ErrnoIsOwnResult
  <2>3. ASSUME NEW t \in Threads, Call(t) \/ Run(t), u # t
        PROVE  errno'[u] = ret'[u]
    <3>1. pc'[u] = pc[u] /\ ret'[u] = ret[u] /\ calls'[u] = calls[u]
      BY <2>1, <2>3, OthersUntouched
    <3>2. errno'[u] = errno[u]
      BY <2>1, <2>3 DEF TypeOK, Call, CallAll, CallCore, CallCurrent, Enter,
                Run, SkipAffinity, Pin, PinUnsupported, PinFailsOnZero,
                PinFails, SaveAffinity, NoCpuid, ReadLeaves, Restore, Store,
                CoreReturns
    <3>3. QED
      BY <3>1, <3>2 DEF ErrnoIsOwnResult
  <2>4. CASE Call(u)
    BY <2>1, <2>4 DEF TypeOK, Call, CallAll, CallCore, CallCurrent, Enter
  <2>5. CASE SkipAffinity(u) \/ Pin(u) \/ PinUnsupported(u)
             \/ PinFailsOnZero(u) \/ SaveAffinity(u) \/ ReadLeaves(u)
             \/ Store(u)
    BY <2>1, <2>5 DEF TypeOK, SkipAffinity, Pin, PinUnsupported,
              PinFailsOnZero, SaveAffinity, ReadLeaves, Store
  <2>6. ASSUME NEW err \in Results, CoreReturns(u, err)
        PROVE  errno'[u] = ret'[u]
    BY <2>1, <2>6 DEF TypeOK, CoreReturns
  <2>7. CASE PinFails(u) \/ NoCpuid(u) \/ Restore(u)
    BY <2>6, <2>7 DEF PinFails, NoCpuid, Restore
  <2>8. CASE UNCHANGED vars
    BY <2>8 DEF vars, ErrnoIsOwnResult
  <2>9. QED
    BY <2>2, <2>3, <2>4, <2>5, <2>7, <2>8 DEF Next, Run
<1>3. QED
  BY <1>1, <1>2, InvariantHolds, PTL DEF Spec

-----------------------------------------------------------------------------
(* The acquisition keeps the promise of module Acquisition. *)

LEMMA AbstractInit == Init => Abstract!Init
<1> SUFFICES ASSUME Init PROVE Abstract!Init
  OBVIOUS
<1>1. /\ pc = [t \in Threads |-> "idle"] /\ all = [t \in Threads |-> FALSE]
      /\ logical = [t \in Threads |-> 0] /\ data = [t \in Threads |-> <<>>]
      /\ ret = [t \in Threads |-> "ERR_OK"] /\ everOffline = Cpus \ online
  BY DEF Init
<1>2. Suspect \in SUBSET Cpus
  BY <1>1 DEF Suspect
<1>3. [t \in Threads |-> pc[t] # "idle"] = [t \in Threads |-> FALSE]
  BY <1>1
<1>4. QED
  BY <1>1, <1>2, <1>3 DEF Abstract!Init, Abstract!Cpus, Cpus

(* A record of full length is a record of the abstract level. *)
LEMMA FullRecord ==
  ASSUME NEW r \in Seq(Cpus), Len(r) = NumLeaves
  PROVE  r \in Abstract!Records
BY DEF Abstract!Records, Abstract!Cpus

(* The steps a call takes inside are invisible to its caller. *)
LEMMA InnerStep ==
  ASSUME TypeOK, NEW t \in Threads,
         \/ SkipAffinity(t) \/ Pin(t) \/ PinUnsupported(t)
         \/ PinFailsOnZero(t) \/ SaveAffinity(t) \/ ReadLeaves(t)
  PROVE  UNCHANGED Abstract!vars
<1>1. UNCHANGED <<allowed, everOffline, all, logical, data, ret>>
  BY DEF SkipAffinity, Pin, PinUnsupported, PinFailsOnZero, SaveAffinity,
         ReadLeaves, kernelVars
<1>2. pc[t] # "idle" /\ \E s \in Steps \ {"idle"} : pc' = [pc EXCEPT ![t] = s]
  BY DEF SkipAffinity, Pin, PinUnsupported, PinFailsOnZero, SaveAffinity,
         ReadLeaves
<1>3. \A u \in Threads : (pc'[u] # "idle") <=> (pc[u] # "idle")
  BY <1>2 DEF TypeOK
<1>4. QED
  BY <1>1, <1>3 DEF Abstract!vars

(* What the caller sees of the return from the core function. *)
LEMMA ReturnStep ==
  ASSUME TypeOK, NEW t \in Threads, NEW err \in Results, CoreReturns(t, err),
         pc[t] # "idle", ~(all[t] /\ err = "ERR_OK"),
         UNCHANGED <<all, logical, allowed, everOffline>>,
         NEW r \in Results, r = IF all[t] /\ err = "ERR_INVCNB" THEN "ERR_OK" ELSE err,
         Abstract!FinishAll(t, r) \/ Abstract!FinishOne(t, r)
  PROVE  Abstract!Finish(t)
<1>1. ret' = [ret EXCEPT ![t] = r] /\ pc' = [pc EXCEPT ![t] = "idle"]
  BY DEF CoreReturns
<1>2. [u \in Threads |-> pc'[u] # "idle"]
        = [[u \in Threads |-> pc[u] # "idle"] EXCEPT ![t] = FALSE]
  BY <1>1 DEF TypeOK
<1>3. QED
  BY <1>1, <1>2 DEF Abstract!Finish

LEMMA AbstractStep ==
  ASSUME Capacity
  PROVE  /\ IInv
         /\ \A t \in Threads : EndInv(t)
         /\ \A t \in Threads : Complete(t)
         /\ [Next]_vars
         => [Abstract!Next]_Abstract!vars
<1> SUFFICES ASSUME IInv, \A t \in Threads : EndInv(t),
                    \A t \in Threads : Complete(t), [Next]_vars
             PROVE  [Abstract!Next]_Abstract!vars
  OBVIOUS
<1>1. TypeOK /\ Placed
  BY DEF IInv
<1>2. ASSUME NEW t \in Threads, Migrate(t) PROVE UNCHANGED Abstract!vars
  BY <1>2 DEF Migrate, kernelVars, Abstract!vars
<1>3. ASSUME NEW c \in Cpus, Unplug(c) PROVE Abstract!LoseCpu
  BY <1>3 DEF Unplug, Abstract!LoseCpu, Abstract!Cpus
<1>4. ASSUME NEW c \in Cpus, Plug(c) PROVE UNCHANGED Abstract!vars
  BY <1>4 DEF Plug, Abstract!vars
<1>5. ASSUME NEW t \in Threads, Call(t) PROVE Abstract!Start(t)
  <2>1. ASSUME NEW a \in BOOLEAN, NEW c \in (0 .. NumCpus) \union {AnyCpu},
               a => c = 0, Enter(t, a, c)
        PROVE  Abstract!Start(t)
    <3>1. [u \in Threads |-> pc'[u] # "idle"]
            = [[u \in Threads |-> pc[u] # "idle"] EXCEPT ![t] = TRUE]
      BY <1>1, <2>1 DEF TypeOK, Enter
    <3>2. pc[t] = "idle"
      BY <2>1 DEF Enter
    <3>3. /\ all' = [all EXCEPT ![t] = a]
          /\ logical' = [logical EXCEPT ![t] = c]
          /\ data' = [data EXCEPT ![t] = <<>>]
          /\ UNCHANGED <<ret, allowed, everOffline>>
      BY <2>1 DEF Enter, kernelVars
    <3>4. QED
      BY <2>1, <3>1, <3>2, <3>3 DEF Abstract!Start, Abstract!AnyCpu
  <2>2. CASE CallAll(t)
    <3>1. 0 \in (0 .. NumCpus) \union {AnyCpu}
      OBVIOUS
    <3>2. QED
      BY <2>1, <2>2, <3>1 DEF CallAll
  <2>3. CASE CallCore(t)
    <3>1. PICK c \in 0 .. NumCpus : Enter(t, FALSE, c)
      BY <2>3 DEF CallCore
    <3>2. QED
      BY <2>1, <3>1
  <2>4. CASE CallCurrent(t)
    BY <2>1, <2>4 DEF CallCurrent
  <2>5. QED
    BY <1>5, <2>2, <2>3, <2>4 DEF Call
<1>6. ASSUME NEW t \in Threads, PinFails(t) PROVE Abstract!Finish(t)
  <2>1. /\ pc[t] = "set" /\ logical[t] > 0 /\ logical[t] # AnyCpu
        /\ logical[t] \notin online \cap allowed /\ CoreReturns(t, "ERR_INVCNB")
        /\ UNCHANGED <<all, logical, allowed, everOffline>>
    BY <1>6 DEF PinFails, KernelAccepts, kernelVars
  <2>2. data' = data
    BY <2>1 DEF CoreReturns
  <2>3. logical[t] \in Suspect \/ logical[t] = NumCpus
    BY <1>1, <2>1 DEF EndInv, InRange, Placed
  <2>4. CASE all[t]
    <3>1. logical[t] = Len(data[t]) /\ data[t] # <<>>
      BY <2>1, <2>4 DEF IInv, ThreadInv, Dense
    <3>2. Abstract!FinishAll(t, "ERR_OK")
      BY <2>1, <2>2, <2>3, <2>4, <3>1 DEF Abstract!FinishAll
    <3>3. QED
      BY <1>1, <2>1, <2>4, <3>2, ReturnStep
  <2>5. CASE ~all[t]
    <3>1. Abstract!FinishOne(t, "ERR_INVCNB")
      <4>1. logical[t] \in Suspect \/ logical[t] \notin Abstract!Cpus
        BY <2>3 DEF Abstract!Cpus
      <4>2. logical[t] # 0
        BY <1>1, <2>1 DEF TypeOK
      <4>3. QED
        BY <2>1, <2>2, <2>5, <4>1, <4>2 DEF Abstract!FinishOne
    <3>2. QED
      BY <1>1, <2>1, <2>5, <3>1, ReturnStep
  <2>6. QED
    BY <2>4, <2>5
<1>7. ASSUME NEW t \in Threads, NoCpuid(t) PROVE Abstract!Finish(t)
  <2>1. /\ pc[t] = "read" /\ ~cpuidPresent /\ CoreReturns(t, "ERR_NO_CPUID")
        /\ UNCHANGED <<all, logical, allowed, everOffline>>
    BY <1>7 DEF NoCpuid, kernelVars
  <2>2. data' = data /\ data[t] = <<>>
    BY <2>1 DEF CoreReturns, Complete
  <2>3. \/ Abstract!FinishAll(t, "ERR_NO_CPUID")
        \/ Abstract!FinishOne(t, "ERR_NO_CPUID")
    BY <2>1, <2>2 DEF Abstract!FinishAll, Abstract!FinishOne
  <2>4. QED
    BY <1>1, <2>1, <2>3, ReturnStep
<1>8. ASSUME NEW t \in Threads, Restore(t), all[t]
      PROVE  UNCHANGED Abstract!vars
  <2>1. /\ pc[t] = "restore" /\ pc' = [pc EXCEPT ![t] = "store"]
        /\ UNCHANGED <<all, logical, allowed, everOffline, data, ret>>
    BY <1>8 DEF Restore, CoreReturns, kernelVars
  <2>2. \A u \in Threads : (pc'[u] # "idle") <=> (pc[u] # "idle")
    BY <1>1, <2>1 DEF TypeOK
  <2>3. QED
    BY <2>1, <2>2 DEF Abstract!vars
<1>9. ASSUME NEW t \in Threads, Restore(t), ~all[t] PROVE Abstract!Finish(t)
  <2>1. /\ pc[t] = "restore" /\ CoreReturns(t, "ERR_OK")
        /\ UNCHANGED <<all, logical, allowed, everOffline>>
    BY <1>9 DEF Restore, kernelVars
  <2>2. data' = [data EXCEPT ![t] = <<record[t]>>]
    BY <1>9, <2>1 DEF CoreReturns
  <2>3. record[t] \in Abstract!Records
    BY <1>1, <2>1, FullRecord DEF TypeOK, Complete
  <2>4. logical[t] \in Cpus \union {AnyCpu}
    BY <2>1 DEF EndInv, InRange
  <2>5. Abstract!Describes(record[t], logical[t])
    BY <2>1, <2>4 DEF Abstract!Describes, Abstract!AnyCpu, Capacity, IInv,
                      ThreadInv, RecordPure, Reachable
  <2>6. Abstract!FinishOne(t, "ERR_OK")
    BY <1>9, <2>1, <2>2, <2>3, <2>4, <2>5
       DEF Abstract!FinishOne, Abstract!Cpus, Abstract!AnyCpu
  <2>7. QED
    BY <1>1, <1>9, <2>1, <2>6, ReturnStep
<1>10. ASSUME NEW t \in Threads, Store(t) 
       PROVE  Abstract!Deliver(t) \/ UNCHANGED Abstract!vars
  <2>1. /\ pc[t] = "store" /\ all[t] /\ logical[t] = Len(data[t])
        /\ UNCHANGED <<all, ret, allowed, everOffline>>
    BY <1>10 DEF Store, kernelVars, IInv, ThreadInv, Dense
  <2>2. logical[t] \in Cpus
    BY <2>1 DEF EndInv, InRange
  <2>3. (logical[t] + 1) % IndexMod = logical[t] + 1
    BY <2>2, GrowsByOne DEF Capacity
  <2>4. logical[t] < Grown(Len(data[t]), logical[t] + 1)
    <3>1. logical[t] \in Nat /\ logical[t] + 1 < IndexMod
      BY <2>2 DEF Capacity
    <3>2. QED
      BY <2>1, <3>1, GrowsByOne
  <2>5. CASE pc' = [pc EXCEPT ![t] = "set"]
    <3>1. /\ data' = [data EXCEPT ![t] = Append(@, record[t])]
          /\ logical' = [logical EXCEPT ![t] = @ + 1]
      BY <1>1, <1>10, <2>1, <2>3, <2>4, <2>5 DEF Store, TypeOK
    <3>2. record[t] \in Abstract!Records
      BY <1>1, <2>1, FullRecord DEF TypeOK, Complete
    <3>3. Abstract!Describes(record[t], logical[t])
      BY <2>2 DEF Abstract!Describes, Abstract!AnyCpu, Capacity, IInv,
                  ThreadInv, RecordPure, Reachable
    <3>4. [u \in Threads |-> pc'[u] # "idle"] = [u \in Threads |-> pc[u] # "idle"]
      BY <1>1, <2>1, <2>5 DEF TypeOK
    <3>5. QED
      BY <2>1, <2>2, <3>1, <3>2, <3>3, <3>4 DEF Abstract!Deliver, Abstract!Cpus
  <2>6. CASE pc' = [pc EXCEPT ![t] = "ub"]
    <3>1. UNCHANGED <<data, logical>>
      BY <1>1, <1>10, <2>1, <2>6 DEF Store, TypeOK
    <3>2. \A u \in Threads : (pc'[u] # "idle") <=> (pc[u] # "idle")
      BY <1>1, <2>1, <2>6 DEF TypeOK
    <3>3. QED
      BY <2>1, <3>1, <3>2 DEF Abstract!vars
  <2>7. QED
    BY <1>10, <2>5, <2>6 DEF Store
<1>11. CASE UNCHANGED vars
  BY <1>11 DEF vars, Abstract!vars
<1>12. ASSUME NEW t \in Threads, Run(t) PROVE [Abstract!Next]_Abstract!vars
  BY <1>1, <1>6, <1>7, <1>8, <1>9, <1>10, <1>12, InnerStep
     DEF Run, Abstract!Next
<1>13. QED
  BY <1>2, <1>3, <1>4, <1>5, <1>11, <1>12 DEF Next, System, Abstract!Next

(* The detailed acquisition implements the abstract one: callers see       *)
(* records arrive one CPU at a time, each describing its CPU, and a result *)
(* that tells where the machine ends.                                      *)
THEOREM AcquisitionIsImplemented == ASSUME Capacity PROVE Spec => Implements
<1>1. QED
  BY AbstractInit, AbstractStep, InvariantHolds, EndAlways, CompleteAlways, PTL
     DEF Spec, Implements, Abstract!Spec
=============================================================================
