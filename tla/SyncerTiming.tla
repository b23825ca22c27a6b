---------------------------- MODULE SyncerTiming ----------------------------
(***************************************************************************)
(* The shared output timeline of live video and audio (syncer_timing.cc):  *)
(* Step is called for one track with the head of its input, if there is    *)
(* one, and emits the head with a mapped timestamp, a filler, or nothing.  *)
(* Each track maps its input by a shift of its own, which follows the      *)
(* shared one; jumps of the input and missing input are bridged with a     *)
(* bounded batch of fillers.  A Step is atomic: its owner serializes them. *)
(*                                                                         *)
(* Time is counted in ticks (microseconds in the code); a track counts in  *)
(* units of tb ticks, and Rescale rounds as av_rescale_q does.  External:  *)
(* the owner, which keeps a head until it is consumed and may refuse any   *)
(* output, and the script of the inputs.                                   *)
(***************************************************************************)
EXTENDS Integers, Sequences

CONSTANTS
  None,
  Plans,          \* bound: inputs of the tracks and options; one is chosen
  FrameTicks,     \* ticks of a video frame, 1 / fps
  SampleTicks,    \* ticks of an audio sample
  SilenceSamples, \* 1024
  BatchLimit,     \* 5 fillers
  Hold,           \* the two seconds of the ContinuityClock
  Poll,           \* kPollUs
  Pause,          \* 1000 us
  InitialTimeout, Timeout, MaxDiff,  \* SyncerOptions
  Advances,       \* bound: how far the clock moves at once
  MaxNow,         \* bound: the time at which a behaviour stops
  MaxRefusals     \* bound: outputs the owner refuses

VARIABLES
  plan,    \* .input: what each track reads; .startShift: forward_start_shift
  now,
  clock,   \* ContinuityClock: pts, wall and the shared shift
  track,   \* struct Track, per track
  next,    \* items a track has consumed
  here,    \* the item after them is the head
  output,  \* history: the last frame emitted on a track
  refusals

vars == <<plan, now, clock, track, next, here, output, refusals>>

TrackNames == {"video", "audio"}
StartTs == 0

Abs(n) == IF n < 0 THEN -n ELSE n
Least(a, b) == IF a < b THEN a ELSE b
Most(a, b) == IF a > b THEN a ELSE b

\* av_rescale_q: to the nearest unit, halves away from zero.
Rescale(value, from, to) ==
  LET ticks == Abs(value * from)
      units == (2 * ticks + to) \div (2 * to) IN
  IF value < 0 THEN -units ELSE units
\* A time base is a whole number of ticks here, so this one is exact; the code
\* is off by at most half a microsecond, far below every threshold.
ToUs(value, r) == Rescale(value, r.tb, 1)
FromUs(value, r) == Rescale(value, 1, r.tb)
Apart(a, b, tolerance) == Abs(a - b) >= tolerance

NewTrack(t, startShift) ==
  LET tb == IF t = "video" THEN FrameTicks ELSE SampleTicks IN
  [tb |-> tb, next |-> IF startShift THEN None ELSE Rescale(StartTs, 1, tb),
   shift |-> None, lastSuccess |-> TRUE, hasOutput |-> FALSE,
   waitUntil |-> InitialTimeout, tryWithoutFilling |-> FALSE, fillUntil |-> None,
   forward |-> FALSE, filled |-> 0, filledUs |-> 0, pending |-> FALSE,
   suspendedUntil |-> 0]

Init ==
  /\ plan \in Plans
  /\ now = 0
  /\ clock = [pts |-> None, wall |-> 0, shift |-> None]
  /\ track = [t \in TrackNames |-> NewTrack(t, plan.startShift)]
  /\ next = [t \in TrackNames |-> 0] /\ here = [t \in TrackNames |-> FALSE]
  /\ output = [t \in TrackNames |-> None] /\ refusals = 0

Item(t) == plan.input[t][next[t] + 1]

-----------------------------------------------------------------------------
(* The clock and the shifts, on a pair of a clock c and a track r.         *)

\* Update moves the anchor only with media that advances.
Update(c, pts) ==
  IF c.pts = None \/ pts > c.pts THEN [c EXCEPT !.pts = pts, !.wall = now] ELSE c

\* Now anchors the clock at the start when nothing has.
Anchored(c) == IF c.pts = None THEN Update(c, StartTs) ELSE c
Reading(c) ==
  LET a == Anchored(c) IN
  IF now - a.wall < Hold THEN a.pts ELSE a.pts + now - a.wall

Converted(value, from, to) == IF value = None THEN None ELSE Rescale(value, from, to)
ChangeTimeBase(r, tb) ==
  [r EXCEPT !.tb = tb, !.next = Converted(@, r.tb, tb), !.shift = Converted(@, r.tb, tb),
            !.fillUntil = Converted(@, r.tb, tb)]

\* Adjust: the input continues at the next output timestamp, for both tracks.
AdjustTrack(r, original) == [r EXCEPT !.shift = r.next - original]
AdjustShared(c, r, original) == [c EXCEPT !.shift = ToUs(r.next - original, r)]

-----------------------------------------------------------------------------
(* Fillers.                                                                *)

BeginFill(r, target, forward) ==
  [r EXCEPT !.fillUntil = target, !.forward = forward, !.filled = 0, !.filledUs = 0]

VideoDuration(r) == Rescale(1, FrameTicks, r.tb)
FillDuration(t, r) ==
  IF t = "video" THEN VideoDuration(r) ELSE Least(SilenceSamples, r.fillUntil - r.next)

Emit(t, r, pts, duration, real) ==
  /\ output' = [output EXCEPT ![t] =
       [real |-> real, start |-> ToUs(pts, r), end |-> ToUs(pts + duration, r)]]
  /\ UNCHANGED refusals
Refuse == refusals < MaxRefusals /\ refusals' = refusals + 1 /\ UNCHANGED output

\* FinishFill; pts is where the last filler went, or would have gone.
FinishFill(t, c, r, pts, blocked) ==
  IF r.forward
  THEN LET original == Rescale(Item(t).pts, Item(t).tb, r.tb)
           c1 == IF r.filled = BatchLimit \/ blocked THEN Update(c, ToUs(pts, r)) ELSE c IN
       /\ clock' = AdjustShared(c1, r, original)
       /\ track' = [track EXCEPT ![t] =
            [AdjustTrack(r, original) EXCEPT
               !.fillUntil = None, !.tryWithoutFilling = TRUE, !.pending = TRUE,
               !.suspendedUntil = IF r.filled = BatchLimit /\ ~blocked
                                  THEN now + Most(Pause, r.filledUs \div 2) ELSE now]]
  ELSE /\ clock' = c
       /\ track' = [track EXCEPT ![t] =
            [r EXCEPT !.fillUntil = None, !.waitUntil = IF blocked THEN now ELSE @]]

\* Fill: one filler, or a refused one, which ends the batch.
Fill(t, c, r) ==
  LET duration == FillDuration(t, r)
      filled == [r EXCEPT !.next = @ + duration, !.hasOutput = TRUE, !.filled = @ + 1,
                          !.filledUs = @ + ToUs(duration, r)] IN
  /\ UNCHANGED next
  /\ \/ /\ Emit(t, r, r.next, duration, FALSE)
        /\ IF filled.next >= r.fillUntil \/ filled.filled = BatchLimit
           THEN FinishFill(t, c, filled, r.next, FALSE)
           ELSE clock' = c /\ track' = [track EXCEPT ![t] = filled]
     \/ Refuse /\ FinishFill(t, c, r, r.next, TRUE)

-----------------------------------------------------------------------------
(* Real frames.                                                            *)

\* A refused frame has moved the clock, and nothing else.
Real(t, c, r, pts) ==
  LET duration == IF t = "video" THEN VideoDuration(r) ELSE Item(t).samples
      c1 == Update(c, ToUs(pts, r)) IN
  /\ clock' = c1
  /\ \/ /\ Emit(t, r, pts, duration, TRUE)
        /\ next' = [next EXCEPT ![t] = @ + 1]
        /\ track' = [track EXCEPT ![t] =
             [r EXCEPT !.next = pts + duration, !.hasOutput = TRUE,
                       !.lastSuccess = TRUE, !.waitUntil = now + Timeout,
                       !.pending = FALSE]]
     \/ Refuse /\ track' = [track EXCEPT ![t] = r] /\ UNCHANGED next

\* A first frame placed on the clock although fillers went past it.
AnchorOnClock(c, r) == FromUs(Reading(c), r)
\* The first real frame of the session anchors both tracks, after the fillers.
Anchor(c, r) ==
  LET pts == FromUs(Reading(c), r) IN IF r.hasOutput THEN Most(pts, r.next) ELSE pts

Desync(c, r) == r.shift # None /\ Apart(ToUs(r.shift, r), c.shift, MaxDiff + 1)
\* The local shift is given up for the shared one.
Adopt(c, r) ==
  IF r.shift = None \/ Desync(c, r) THEN [r EXCEPT !.shift = FromUs(c.shift, r)] ELSE r

Jump(r, pts) ==
  r.next # None /\ pts # r.next /\ Apart(ToUs(pts, r), ToUs(r.next, r), MaxDiff)

Correct(t, r0) ==
  LET item == Item(t)
      r1 == IF t = "video" /\ r0.tb # item.tb THEN ChangeTimeBase(r0, item.tb) ELSE r0
      original == Rescale(item.pts, item.tb, r1.tb) IN
  IF clock.shift = None
  THEN LET pts == Anchor(clock, r1)
           r2 == [r1 EXCEPT !.shift = pts - original] IN
       Real(t, [Anchored(clock) EXCEPT !.shift = ToUs(r2.shift, r2)], r2, pts)
  ELSE LET r2 == Adopt(clock, r1)  pts == original + r2.shift IN
       IF ~Jump(r2, pts)
       THEN Real(t, IF Desync(clock, r1) THEN [clock EXCEPT !.shift = ToUs(r2.shift, r2)]
                    ELSE clock, r2, pts)
       ELSE IF pts < r2.next
       THEN Real(t, AdjustShared(clock, r2, original), AdjustTrack(r2, original),
                 r2.next)
       ELSE IF ~r2.tryWithoutFilling
       THEN Fill(t, clock, BeginFill(r2, pts, TRUE))
       ELSE /\ clock' = AdjustShared(clock, r2, original)
            /\ track' = [track EXCEPT ![t] =
                 [AdjustTrack(r2, original) EXCEPT
                    !.tryWithoutFilling = FALSE, !.pending = TRUE,
                    !.suspendedUntil = now + Pause]]
            /\ UNCHANGED <<next, output, refusals>>

\* Emitting the pending frame where it was to go when it was suspended.
ResumeAsPlanned(t) ==
  LET r == [track[t] EXCEPT !.pending = FALSE] IN
  IF clock.shift = None THEN Correct(t, r) ELSE Real(t, clock, r, r.next)
\* The peer may have moved the shared shift during the suspension.
Resume(t) == Correct(t, [track[t] EXCEPT !.pending = FALSE])

-----------------------------------------------------------------------------
(* Step, by the state of the track and its head.                           *)

Idle == UNCHANGED <<clock, track, next, output, refusals>>

\* A track with nothing to read is filled up to the shared clock.
Missing(t) ==
  LET r0 == track[t]
      r1 == IF r0.next = None THEN [r0 EXCEPT !.next = FromUs(StartTs, r0)] ELSE r0
      target == FromUs(Reading(clock), r1)
      fill == ~r0.lastSuccess \/ Reading(clock) - ToUs(r1.next, r1) > Timeout
      r2 == [r1 EXCEPT !.lastSuccess = FALSE, !.waitUntil = now + Poll] IN
  IF fill /\ r1.next < target
  THEN Fill(t, Anchored(clock), BeginFill(r2, target, FALSE))
  ELSE /\ clock' = Anchored(clock) /\ track' = [track EXCEPT ![t] = r2]
       /\ UNCHANGED <<next, output, refusals>>

Step(t) ==
  /\ IF track[t].fillUntil # None THEN Fill(t, clock, track[t])
     ELSE IF track[t].pending
     THEN IF now < track[t].suspendedUntil THEN Idle ELSE Resume(t)
     ELSE IF here[t]
     THEN IF Item(t).eof
          THEN next' = [next EXCEPT ![t] = @ + 1] /\ UNCHANGED <<clock, track, output, refusals>>
          ELSE Correct(t, track[t])
     ELSE IF now < track[t].waitUntil THEN Idle ELSE Missing(t)
  /\ here' = IF next'[t] # next[t] THEN [here EXCEPT ![t] = FALSE] ELSE here
  /\ UNCHANGED <<plan, now>>

\* The decoder delivers the next item of a track.
Arrive(t) ==
  /\ ~here[t] /\ next[t] < Len(plan.input[t])
  /\ here' = [here EXCEPT ![t] = TRUE]
  /\ UNCHANGED <<plan, now, clock, track, next, output, refusals>>

Advance ==
  /\ \E d \in Advances : now + d <= MaxNow /\ now' = now + d
  /\ UNCHANGED <<plan, clock, track, next, here, output, refusals>>

Next == Advance \/ \E t \in TrackNames : Step(t) \/ Arrive(t)

Spec == Init /\ [][Next]_vars

-----------------------------------------------------------------------------
TypeOK ==
  /\ plan \in Plans /\ now \in 0..MaxNow
  /\ \A t \in TrackNames : track[t].filled \in 0..BatchLimit /\ next[t] <= Len(plan.input[t])

\* The output of a track is continuous (Correct, Fill): a frame starts where the
\* one before it ended, to less than the tolerance of a jump, whatever the
\* input, the fillers, a refusal or the other track did; only the frame that
\* anchors the session may leave a gap, and it never starts before that end.
Continuous ==
  [][\A t \in TrackNames :
       (output'[t] # output[t] /\ output[t] # None) =>
         LET gap == output'[t].start - output[t].end IN
         IF clock.shift = None /\ clock'.shift # None THEN gap >= 0
         ELSE Abs(gap) < MaxDiff]_vars

\* A real frame leaves with the shared shift (Correct): its track's shift is not
\* further from it than the tolerance, although the other track may have moved
\* the shared one while the frame waited.
InSync ==
  [][\A t \in TrackNames :
       (output'[t] # output[t] /\ output'[t].real) =>
         Abs(ToUs(track'[t].shift, track'[t]) - clock'.shift) <= MaxDiff]_vars
=============================================================================
