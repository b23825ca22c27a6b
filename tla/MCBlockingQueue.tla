--------------------------- MODULE MCBlockingQueue ---------------------------
(***************************************************************************)
(* A polling producer against blocking consumers and a selector on a queue *)
(* of one slot, with Close at any time and at most one exception.  Either  *)
(* the signals are set, at any time, and one consumer pops, or they are    *)
(* never set and two consumers do.                                         *)
(***************************************************************************)
EXTENDS BlockingQueue

CONSTANTS q1, c1, c2, s1
VARIABLE scene

MCPollers == {q1}
MCConsumers == {c1, c2}
MCSelectors == {s1}

MCInit == Init /\ scene \in {"signals", "consumers"}

MCNext ==
  /\ Next /\ UNCHANGED scene
  /\ scene = "signals" => pc'[c2] = "idle"
  /\ scene = "consumers" => registered' = {}

MCSpec == MCInit /\ [][MCNext]_<<vars, scene>> /\ Fairness
=============================================================================
