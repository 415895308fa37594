------------------------------- MODULE MCDump -------------------------------
(* TLC instances of Dump: a record has four x86 and two ARM registers. *)
EXTENDS Dump

MCX86Fields == <<"basic0", "basic4", "fn4_0", "fn4_1">>
MCArmFields == <<"midr", "mpidr">>
MCBasicFields == {"basic0", "basic4"}

Set(f, values) == [g \in Fields |-> IF \E i \in DOMAIN f : f[i] = g
                                    THEN values[CHOOSE i \in DOMAIN f : f[i] = g]
                                    ELSE 0]
X86Records == {Set(MCX86Fields, v) :
                 v \in {<<1, 1, 1, 1>>, <<2, 0, 2, 0>>, <<3, 3, 0, 3>>}}
ArmRecords == {Set(MCArmFields, v) : v \in {<<1, 1>>, <<2, 0>>}}

(* Up to three CPUs, and as many as a narrow logical_cpu_t can count. A    *)
(* blank record is a CPU that a dump read before did not have.             *)
Arrays(S) == UNION {[1 .. n -> S] : n \in 0 .. 3}
MCSources ==
  Arrays(X86Records \union {Blank}) \union Arrays(ArmRecords \union {Blank})
    \union {[i \in 1 .. 7 |-> Set(MCX86Fields, <<1 + (i % 3), i % 2, i % 4, 1>>)]}

Text(kind, n) == [kind |-> kind, n |-> n, fields |-> {}, value |-> 0]
Reg(kind, fields, value) == [kind |-> kind, n |-> 0, fields |-> fields, value |-> value]
Leaf(v)    == Reg("aidaReg", {"basic0"}, v)
SubLeaf0(v) == Reg("aidaReg", {"basic4", "fn4_0"}, v)
SubLeaf1(v) == Reg("aidaReg", {"fn4_1"}, v)
Cpu(v) == <<Leaf(v), SubLeaf0(v), SubLeaf1(v)>>

MCForeign == {
  (* AIDA64, counted from 0, from 1, from 2, with other lines and results. *)
  <<Text("aidaCpu", 0)>> \o Cpu(1) \o <<Text("aidaCpu", 1)>> \o Cpu(2),
  <<Text("aidaRegisters", 1)>> \o Cpu(1) \o <<Text("aidaRegisters", 2), Leaf(2)>>
    \o <<Text("aidaRegisters", 3)>> \o Cpu(3) \o <<Text("dashes", 0), Leaf(1)>>,
  <<Text("aidaStart", 0), Text("other", 0), Text("aidaCpu", 2)>> \o Cpu(1)
    \o <<Text("aidaCpu", 3)>> \o Cpu(2) \o <<Reg("reg", {"basic0"}, 3)>>,
  <<Text("other", 0), Text("aidaStart", 0), Text("aidaCpu", 0), Leaf(1), Leaf(2)>>,
  (* AIDA64, not recognised, without CPUs, not in order. *)
  <<Text("aidaCpu", 1)>> \o Cpu(1),
  <<Text("aidaStart", 0)>> \o Cpu(1),
  <<Text("aidaStart", 0), Text("aidaCpu", 2)>> \o Cpu(1) \o <<Text("aidaCpu", 1)>> \o Cpu(2),
  (* libcpuid: without a version, with test results, with gaps, one dump   *)
  (* after another, with the last CPU number there is.                     *)
  <<Reg("reg", {"basic0"}, 1), Reg("reg", {"fn4_0"}, 2), Text("dashes", 0),
    Reg("reg", {"fn4_0"}, 3)>>,
  <<Reg("reg", {"fn4_0"}, 1), Reg("reg", {"basic0"}, 2)>>,
  <<Text("version", 0), Text("cpu", 0), Reg("reg", {"basic0"}, 1), Text("cpu", 2),
    Reg("reg", {"basic0"}, 2), Text("version", 0), Text("cpu", 1), Reg("reg", {"basic0"}, 3)>>,
  <<Text("version", 0), Reg("reg", {"basic0"}, 1), Text("cpu", 1), Reg("reg", {"basic0"}, 2)>>,
  <<Text("version", 0), Text("aidaCpu", 0), Leaf(2)>>,
  <<Text("cpu", -1), Reg("reg", {"basic0"}, 1)>>,
  (* Indices past their arrays, where they are not checked and where lines *)
  (* of the other format are not understood.                               *)
  <<Text("cpu", 0), Reg("reg", {"midr"}, 1), Reg("regPast", {}, 2)>>,
  <<Text("aidaCpu", 0), Leaf(1), Reg("regPast", {}, 1), Reg("aidaPast", {}, 2), Leaf(2)>>,
  <<Text("cpu", 0), Reg("reg", {"basic0"}, 1), Reg("aidaPast", {}, 2)>>,
  <<Text("dashes", 0)>>, <<Text("other", 0)>>}
=============================================================================
