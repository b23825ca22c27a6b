-------------------------- MODULE MCAvMediaSource ---------------------------
(* Two tracks and queues of one: a reconnection, a loop, a failure at any  *)
(* point, a stop at any point with a restart, and both on an empty source. *)
EXTENDS AvMediaSource

BothTracks == <<"video", "audio">>

Plan(repeats, conns, drops, faults, begins, stops, size) ==
  [loop |-> repeats, conns |-> conns, drops |-> drops, faults |-> faults,
   starts |-> begins, stops |-> stops, packets |-> size]

SourcePlans ==
  {Plan(FALSE, 2, 1, 0, 1, 0, 1), Plan(TRUE, 2, 0, 0, 1, 0, 1),
   Plan(FALSE, 1, 0, 1, 1, 0, 1), Plan(FALSE, 1, 0, 0, 2, 1, 1),
   Plan(FALSE, 1, 0, 1, 1, 1, 0)}
=============================================================================
