--------------------------- MODULE MCRemuxFailed ---------------------------
(* A source that loops into a new connection, and one of probed audio whose  *)
(* timestamps jump and which ends.                                           *)
EXTENDS RemuxPipeline

CONSTANTS push  \* an output

P(c, t, d) == [conn |-> c, track |-> t, dts |-> d]
Eof(c) == [conn |-> c, track |-> 0, dts |-> 0]
Plan(script, loop, flagged, aac, adds, stops, breaks) ==
  [items |-> script, loop |-> loop, flagged |-> flagged, aac |-> aac, adds |-> adds,
   requests |-> stops, faults |-> breaks]
MCPlans == {
  Plan(<<P(1, 1, 0), P(1, 2, 5), Eof(1), P(2, 1, 0)>>, TRUE, FALSE, FALSE, {push}, 1, 1),
  Plan(<<P(1, 1, 0), P(1, 2, 0), P(1, 1, 5), Eof(1)>>, FALSE, TRUE, TRUE, {}, 1, 1) }
=============================================================================
