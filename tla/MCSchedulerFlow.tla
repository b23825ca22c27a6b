--------------------------- MODULE MCSchedulerFlow ---------------------------
(***************************************************************************)
(* An audio track with a frame and an EOF.  Its callback may drop frames,  *)
(* so that the resampler may refuse an input, while the converter makes an *)
(* extra output and a due frame is deferred; or the syncer fills in front  *)
(* of a frame; or the disabled video track has an input to discard.        *)
(***************************************************************************)
EXTENDS Scheduler

Plan(dropping, videoInputs, events) ==
  [enabled |-> {"audio"}, droppers |-> dropping,
   supply |-> [k \in Tracks |-> IF k = "audio" THEN MaxInput - videoInputs ELSE videoInputs],
   spent |-> [event \in Events |-> IF event \in events THEN 0 ELSE 1]]

FlowPlans ==
  {Plan({"audio"}, 0, {"copy", "defer"}), Plan({}, 0, {"fill"}), Plan({}, 1, {})}
FinalEof == {MaxInput}
=============================================================================
