--------------------------- MODULE MCSchedulerStop ---------------------------
(***************************************************************************)
(* A video track beside a disabled audio track over two sessions, with     *)
(* failures and stop requests at any time.                                 *)
(***************************************************************************)
EXTENDS Scheduler

StopPlans ==
  {[enabled |-> {"video"}, droppers |-> {},
    supply |-> [k \in Tracks |-> IF k = "video" THEN MaxInput ELSE 0],
    spent |-> [event \in Events |-> 0]]}
FinalEof == {}
=============================================================================
