--------------------------- MODULE MCSchedulerDrops ---------------------------
(* Audio alone, with a business callback that may drop a converted frame.  *)
EXTENDS Scheduler

DropPlans ==
  {[enabled |-> {"audio"}, droppers |-> {"audio"},
    supply |-> [k \in Tracks |-> IF k = "audio" THEN MaxInput ELSE 0],
    spent |-> [event \in Events |-> 0]]}
FinalEof == {MaxInput}
=============================================================================
