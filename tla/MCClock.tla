------------------------------- MODULE MCClock -------------------------------
(* An instance of Clock for TLC: a millisecond of 8 ticks, a pass of the   *)
(* busy loop of 3.                                                         *)
EXTENDS Clock, TLC

Call(fn, millis, quad, runs) == [fn |-> fn, millis |-> millis, quad |-> quad, runs |-> runs]

(* Measurements that one pass of the busy loop is longer than, that it is  *)
(* more than a quarter of, and that the loop has to grow for; refused      *)
(* arguments; one run and two of an eighth that cycles_inner and           *)
(* cycles_outer must both grow for.                                        *)
MCCalls ==
  {Call("measure", 0, FALSE, 0), Call("measure", 1, FALSE, 0), Call("measure", 1, TRUE, 0),
   Call("measure", 4, FALSE, 0), Call("measure", 8, TRUE, 0), Call("clock", 4, FALSE, 0), Call("mark", 0, FALSE, 0),
   Call("ic", 1, FALSE, 0), Call("ic", 3, FALSE, 1), Call("ic", 4, FALSE, 2),
   Call("delay", 1, FALSE, 0), Call("perf", 1, FALSE, 0), Call("tsc", 0, FALSE, 0)}

(* The clock may be set back three times and not pass 0; one counter is ahead.   *)
MCStart   == {90}
MCTscBase == <<0, 50>>
MCJumps   == {-20, -3, 5, 12}

Id(vendor, family, model, size, freq, ipc) ==
  [sse |-> TRUE, sseSize |-> size, vendor |-> vendor, family |-> family, model |-> model,
   freq |-> freq, ipc |-> ipc]

(* The instruction rates of the comment in adjust_march_ic_multiplier:     *)
(* half an instruction per clock for 64-bit units, 1 for 128-bit ones, 1.4 *)
(* for Bulldozer and later, 1.6 for Skylake and later.  The frequencies    *)
(* make a pass of one cycle one tick.                                      *)
MCCpuIds ==
  {Id("intel", 6, 14, 64, 112, <<1, 2>>), Id("intel", 6, 58, 128, 56, <<1, 1>>),
   Id("amd", 16, 10, 128, 56, <<1, 1>>), Id("amd", 21, 2, 128, 40, <<7, 5>>),
   Id("hygon", 24, 1, 128, 40, <<7, 5>>), Id("intel", 6, 94, 128, 35, <<8, 5>>),
   [Id("other", 6, 9, 64, 112, <<1, 2>>) EXCEPT !.sse = FALSE]}

Raw(maxLeaf, num, den, crystal, base, family, model) ==
  [readable |-> TRUE, vendor |-> "intel", maxLeaf |-> maxLeaf, num |-> num, den |-> den,
   crystal |-> crystal, base |-> base, family |-> family, model |-> model]

(* Crystals that are enumerated, in the table and in neither, ratios that  *)
(* divide and that do not, no ratio, no leaf 15h, no leaf 16h.             *)
MCRawClocks ==
  {Raw(22, 188, 2, 0, 2300, 6, 158), Raw(22, 84, 2, 0, 2100, 6, 85),
   Raw(21, 78, 3, 0, 0, 6, 92), Raw(24, 162, 2, 38400, 2400, 6, 140),
   Raw(22, 216, 2, 0, 2600, 6, 183), Raw(22, 137, 7, 0, 2999, 6, 183),
   Raw(22, 113, 3, 0, 1701, 15, 94), Raw(21, 200, 2, 0, 0, 6, 183),
   Raw(22, 0, 2, 0, 2600, 6, 183), Raw(13, 0, 0, 0, 0, 6, 58),
   [Raw(22, 10, 2, 0, 100, 6, 94) EXCEPT !.readable = FALSE],
   [Raw(22, 10, 2, 0, 100, 6, 94) EXCEPT !.vendor = "other"]}

Line(mhz, isNumber, value) == [mhz |-> mhz, isNumber |-> isNumber, value |-> value]

(* No file, a file without the line, one with text in it, a good one, 0. *)
MCOsClocks ==
  {<<>>, <<Line(FALSE, TRUE, 0)>>, <<Line(TRUE, FALSE, 0), Line(TRUE, TRUE, 3)>>,
   <<Line(FALSE, TRUE, 7), Line(TRUE, TRUE, 2), Line(TRUE, TRUE, 3)>>,
   <<Line(TRUE, TRUE, 0)>>}
=============================================================================
