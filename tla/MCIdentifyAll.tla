--------------------------- MODULE MCIdentifyAll ----------------------------
(* Instances of IdentifyAll for TLC: small machines and dumps of them. *)
EXTENDS IdentifyAll, TLC

(* A logical CPU of an x86 machine whose cores have two threads and whose  *)
(* packages have four APIC IDs; L1 per core, L3 per package.               *)
X86(apic, purpose) ==
  [arch |-> "x86", purpose |-> purpose, known |-> TRUE,
   levels |-> <<[type |-> 1, span |-> 2], [type |-> 2, span |-> 4]>>,
   apic |-> apic, mpidr |-> <<>>, cores |-> 2,
   sharing |-> [L1D |-> 2, L3 |-> IF purpose = "efficiency" THEN 0 ELSE 4]]

(* The same CPU in a dump that lacks leaf 0Bh for it. *)
NoLeaf11(cpu) == [cpu EXCEPT !.levels = <<>>]

(* A CPU that no identification code knows. *)
Unknown(cpu) == [cpu EXCEPT !.known = FALSE]

Arm(package, core) ==
  [arch |-> "arm", purpose |-> "general", known |-> TRUE, levels |-> <<>>,
   apic |-> 0, mpidr |-> <<package, core>>, cores |-> 1,
   sharing |-> [L1D |-> 0, L3 |-> 0]]

(* The purpose of a CPU by its APIC ID: all alike, or hybrid packages. *)
PurposeMaps ==
  {[a \in 0 .. 7 |-> "general"],
   [a \in 0 .. 7 |-> IF a % 4 < 2 THEN "performance" ELSE "efficiency"]}

(* Dumps of up to Size CPUs of the machine, in any order of APIC IDs. *)
ApicOrders(Size) ==
  UNION {{s \in [1 .. n -> 0 .. 7] : \A i, j \in 1 .. n : i # j => s[i] # s[j]} :
            n \in 0 .. Size}

Machines == {[i \in DOMAIN s |-> X86(s[i], p[s[i]])] :
               s \in ApicOrders(3), p \in PurposeMaps}

(* One CPU of the dump lacks its topology, or cannot be identified. *)
Damaged(m) == {[m EXCEPT ![i] = NoLeaf11(@)] : i \in DOMAIN m}
                \union {[m EXCEPT ![i] = Unknown(@)] : i \in DOMAIN m}

SmallArrays == Machines \union UNION {Damaged(m) : m \in Machines}

(* Eight CPUs of two packages at once. *)
FullArrays ==
  {[i \in 1 .. 8 |-> X86(o[i], p[o[i]])] :
     o \in {<<0, 1, 2, 3, 4, 5, 6, 7>>, <<0, 2, 4, 6, 1, 3, 5, 7>>,
            <<7, 0, 6, 1, 5, 2, 4, 3>>},
     p \in PurposeMaps}

WholeArrays == FullArrays \union UNION {Damaged(m) : m \in FullArrays}

ArmArrays == {<<Arm(0, 0), Arm(0, 1), Arm(1, 0)>>, <<Arm(-1, 0)>>}

(* A dump of a single CPU, of the format that has no affinity. *)
OldDumps == {<<X86(0, "general")>>}

(* CPUs of one-core packages, and CPUs whose leaf 0Bh stops after SMT. *)
Package(p) == [X86(2 * p, "general") EXCEPT
  !.levels = <<[type |-> 1, span |-> 2], [type |-> 2, span |-> 2]>>,
  !.sharing = [L1D |-> 2, L3 |-> 2]]
SmtOnly(apic) == [X86(apic, "general") EXCEPT
  !.levels = <<[type |-> 1, span |-> 2]>>]

LimitArrays ==
  {[i \in 1 .. n |-> Package(s[i])] :
     n \in 4 .. 6, s \in {<<0, 1, 2, 3, 4, 0>>, <<3, 1, 3, 0, 4, 2>>}}
    \union {<<X86(0, "general"), X86(1, "general"), SmtOnly(2)>>, <<SmtOnly(0)>>}

MCArrays == SmallArrays \union WholeArrays \union ArmArrays \union LimitArrays

=============================================================================
