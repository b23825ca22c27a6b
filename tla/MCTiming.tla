------------------------------ MODULE MCTiming ------------------------------
(* The passive timing components, one of them in each behaviour: two tracks *)
(* that share a mapping and whose range overflows; a video and an audio     *)
(* track that jump, end and start late; a frame rate filter of two items.   *)
EXTENDS RealtimeTiming, Sequences

CONSTANTS None, FrameTicks, SampleTicks, SilenceSamples, BatchLimit, Hold, Poll, Pause,
          InitialTimeout, Timeout, MaxDiff, MaxRefusals, Plans, Advances, LastInstant,
          Capacity, Period, HalfSecond, MaxInputs, Times

\* A video track has one time base, in which a frame is a whole number of ticks;
\* no tick is longer than the tolerance of a jump to either side.
ASSUME SyncerAssumption ==
  /\ None \notin Int /\ FrameTicks \in Nat \ {0} /\ SampleTicks \in Nat \ {0}
  /\ MaxDiff \in Nat \ {0} /\ SampleTicks <= 2 * MaxDiff
  /\ {SilenceSamples, Hold, Poll, Pause, InitialTimeout, Timeout} \subseteq Nat
  /\ Advances \subseteq Nat
  /\ \A p \in Plans :
       /\ \A t \in {"video", "audio"} :
            p.input[t] \in Seq([eof : BOOLEAN, pts : Int, tb : Nat \ {0}, samples : Nat])
       /\ p.startShift \in BOOLEAN
       /\ \A i, j \in DOMAIN p.input["video"] :
            p.input["video"][i].tb = p.input["video"][j].tb
       /\ \A i \in DOMAIN p.input["video"] :
            LET tick == p.input["video"][i].tb IN
            tick <= 2 * MaxDiff /\ \E n \in 1..FrameTicks : FrameTicks = n * tick

ASSUME RateAssumption == Times \subseteq Int /\ Period \in Nat \ {0} /\ HalfSecond \in Nat

VARIABLES which, plan, clock, track, next, here, output, refusals,
          stopped, inputs, picture, used, lastInput, nextPts, pushed, shown, taken

Lowest == -7
Pts == -3 .. 6
DiscardAt == {0}

F(p) == [eof |-> FALSE, pts |-> p, tb |-> 1, samples |-> 2]
E == [eof |-> TRUE, pts |-> 0, tb |-> 1, samples |-> 0]
P(v, a, s) == [input |-> [video |-> v, audio |-> a], startShift |-> s]
SyncerPlans == {
  P(<<F(0), F(2), F(13)>>, <<F(0), F(2)>>, FALSE),
  P(<<F(9), F(11), F(2)>>, <<F(9), E, F(3)>>, TRUE),
  P(<<F(3), F(14)>>, <<F(3), F(20)>>, FALSE) }

RateTimes == {-3, 0, 1, 2, 3, 4, 9, 12}

S == INSTANCE SyncerTiming WITH MaxNow <- LastInstant
R == INSTANCE ForceFps

syncerVars == <<plan, clock, track, next, here, output, refusals>>
rateVars == <<stopped, inputs, picture, used, lastInput, nextPts, pushed, shown, taken>>

MCInit ==
  /\ which \in {"realtime", "syncer", "rate"}
  /\ Init /\ S!Init /\ R!Init
  /\ which # "syncer" => plan = CHOOSE p \in Plans : TRUE

MCNext ==
  /\ UNCHANGED which
  /\ \/ which = "realtime" /\ Next /\ UNCHANGED <<syncerVars, rateVars>>
     \/ which = "syncer" /\ S!Next /\ UNCHANGED <<anchored, offset, frame, failed, rateVars>>
     \/ which = "rate" /\ R!Next /\ UNCHANGED <<vars, syncerVars>>

MCSpec == MCInit /\ [][MCNext]_<<which, vars, syncerVars, rateVars>>

\* The output of a Syncer track has no overlap and no gap of the tolerance or
\* more (SyncerTiming.tla; Correct and Fill).
Continuous == S!Continuous
\* A real frame leaves the Syncer with the shared shift, also after a wait
\* (SyncerTiming.tla; Correct).
InSync == S!InSync
\* Between jumps, EOFs and resets ForceFps gives a grid without gaps that shows
\* the newest picture (ForceFps.tla; TryReadFrame).
Grid == R!Grid
=============================================================================
