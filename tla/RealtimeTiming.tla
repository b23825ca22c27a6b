--------------------------- MODULE RealtimeTiming ---------------------------
(***************************************************************************)
(* The shared mapping from presentation time to the steady clock           *)
(* (realtime_timing.cc), as the driver uses it: both tracks ask when their *)
(* next frame may go, and a frame that is told to wait asks again whenever *)
(* the driver is awake, before or after its deadline.                      *)
(***************************************************************************)
EXTENDS Integers

CONSTANTS
  Tracks,           \* the tracks that share the mapping
  Tolerance,        \* negative_time_tolerance
  Discard,          \* {negative_time_discard}, or {} when it is not set
  Threshold,        \* discontinuity_threshold
  Jitter,           \* jitter_margin
  MinInt, MaxInt,   \* the range of std::int64_t
  PtsValues,        \* the timestamps a frame may have
  MaxNow            \* bound: the last instant of the clock

\* What the constructor accepts.
ASSUME ConfigAssumption ==
  /\ Tolerance \in Nat /\ Threshold \in Nat \ {0} /\ Jitter \in Nat
  /\ Jitter < Threshold
  /\ Discard \subseteq Nat /\ \A d \in Discard : d < Tolerance
  /\ \A d, e \in Discard : d = e

ASSUME RangeAssumption ==
  /\ MinInt \in Int /\ MaxInt \in Int /\ MinInt < 0 /\ MaxInt >= Jitter
  /\ PtsValues \subseteq MinInt .. MaxInt /\ MaxNow \in Nat

VARIABLES
  anchored,  \* offset_us_ has a value
  offset,    \* that value
  now,       \* the clock
  frame,     \* the frame a track is asking for
  failed     \* Subtract threw: the scheduler gives up

vars == <<anchored, offset, now, frame, failed>>

Frames == [status : {"none", "new", "waiting"},
           pts : Int,
           deadline : Int,    \* the wake_us it was given
           promised : Int]    \* the offset it was given with

NoFrame == [status |-> "none", pts |-> 0, deadline |-> 0, promised |-> 0]

TypeOK ==
  /\ anchored \in BOOLEAN
  /\ offset \in MinInt .. MaxInt
  /\ now \in 0 .. MaxNow
  /\ frame \in [Tracks -> Frames]
  /\ failed \in BOOLEAN

Init ==
  /\ anchored = FALSE /\ offset = 0
  /\ now = 0
  /\ frame = [k \in Tracks |-> NoFrame]
  /\ failed = FALSE

-----------------------------------------------------------------------------
Fits(x) == MinInt <= x /\ x <= MaxInt

Present(k) == frame[k].status # "none" /\ ~failed

Due(k) == frame[k].pts - offset
Difference(k) == Due(k) - now

Representable(k) == Fits(Due(k)) /\ Fits(Difference(k))

\* The mapping under which the frame would be due after the jitter margin.
Candidate(k) == frame[k].pts - now - Jitter

CandidateFits(k) == Fits(frame[k].pts - now) /\ Fits(Candidate(k))

\* The frame is released, or discarded.
Gone(k) == frame' = [frame EXCEPT ![k] = NoFrame]

Late(k) == anchored /\ Difference(k) < -Tolerance

\* Mutant: anything in the future counts as a discontinuity.
JumpsAtOnce(k) == anchored /\ Difference(k) > 0
Jumped(k) == anchored /\ Difference(k) >= Threshold

\* The first frame of a session, or one far ahead, sets the mapping.
ScheduleAnchor(k) ==
  /\ Present(k)
  /\ ~anchored \/ (Representable(k) /\ Jumped(k))
  /\ CandidateFits(k)
  /\ anchored' = TRUE /\ offset' = Candidate(k)
  /\ Gone(k)
  /\ UNCHANGED <<now, failed>>

\* A late frame may only delay the mapping.
ScheduleLate(k) ==
  /\ Present(k)
  /\ Representable(k) /\ Late(k)
  /\ CandidateFits(k)
  /\ offset' = IF Candidate(k) < offset THEN Candidate(k) ELSE offset
  /\ Gone(k)
  /\ UNCHANGED <<anchored, now, failed>>

ScheduleDiscard(k) ==
  /\ Present(k)
  /\ anchored /\ Representable(k) /\ ~Late(k) /\ ~Jumped(k)
  /\ \E d \in Discard : Difference(k) < -d
  /\ Gone(k)
  /\ UNCHANGED <<anchored, offset, now, failed>>

\* Mutant: the deadline is the time left, not an instant.
WaitForPts(k) ==
  /\ Present(k)
  /\ anchored /\ Representable(k) /\ ~Jumped(k) /\ Difference(k) > 0
  /\ frame' = [frame EXCEPT ![k].status = "waiting",
                            ![k].deadline = Difference(k),
                            ![k].promised = offset]
  /\ UNCHANGED <<anchored, offset, now, failed>>

ScheduleWait(k) ==
  /\ Present(k)
  /\ anchored /\ Representable(k) /\ ~Jumped(k) /\ Difference(k) > 0
  /\ frame' = [frame EXCEPT ![k].status = "waiting",
                            ![k].deadline = Due(k),
                            ![k].promised = offset]
  /\ UNCHANGED <<anchored, offset, now, failed>>

ScheduleReady(k) ==
  /\ Present(k)
  /\ anchored /\ Representable(k) /\ ~Late(k) /\ Difference(k) <= 0
  /\ \A d \in Discard : Difference(k) >= -d
  /\ Gone(k)
  /\ UNCHANGED <<anchored, offset, now, failed>>

\* Subtract throws instead of wrapping around.
ScheduleOverflow(k) ==
  /\ Present(k)
  /\ \/ anchored /\ ~Representable(k)
     \/ (~anchored \/ Late(k) \/ Jumped(k)) /\ ~CandidateFits(k)
  /\ failed' = TRUE
  /\ UNCHANGED <<anchored, offset, now, frame>>

Schedule(k) ==
  \/ ScheduleAnchor(k) \/ ScheduleLate(k) \/ ScheduleDiscard(k)
  \/ ScheduleWait(k) \/ ScheduleReady(k) \/ ScheduleOverflow(k)

\* Scheduler::Start: frames of the last session are cleared.
Reset ==
  /\ anchored' = FALSE /\ offset' = 0
  /\ frame' = [k \in Tracks |-> NoFrame]
  /\ failed' = FALSE
  /\ UNCHANGED now

-----------------------------------------------------------------------------
(* The environment: frames with any timestamp, a clock that only advances. *)

Read(k, pts) ==
  /\ frame[k].status = "none" /\ ~failed
  /\ frame' = [frame EXCEPT ![k] = [status |-> "new", pts |-> pts,
                                       deadline |-> 0, promised |-> 0]]
  /\ UNCHANGED <<anchored, offset, now, failed>>

Tick ==
  /\ now < MaxNow
  /\ now' = now + 1
  /\ UNCHANGED <<anchored, offset, frame, failed>>

Next ==
  \/ Reset \/ Tick
  \/ \E k \in Tracks : Schedule(k)
  \/ \E k \in Tracks : \E pts \in PtsValues : Read(k, pts)

Spec == Init /\ [][Next]_vars

-----------------------------------------------------------------------------
(* Properties.                                                             *)

\* "Late audio/video cannot accelerate the other track": within a session
\* the offset only grows, which moves the deadlines of the other track
\* forward, for a frame that is at least the threshold ahead.
OffsetRaisedOnlyByJump ==
  [][anchored /\ anchored' /\ offset' > offset
     => \E k \in Tracks : Present(k) /\ Difference(k) >= Threshold]_vars

\* A resynchronising frame passes, and leaves exactly the jitter margin to
\* the frames after it, whichever of the two offsets the minimum picks.
ResetLeavesMargin ==
  [][anchored' /\ (anchored => offset' # offset)
     => \E k \in Tracks : /\ Present(k) /\ frame'[k].status = "none"
                          /\ frame[k].pts - offset' = now + Jitter]_vars

\* A deadline that was given is kept: a frame that asks again at or after it
\* waits again only when a peer's lateness has lowered the offset meanwhile.
DeadlineKept ==
  [][\A k \in Tracks :
       frame[k].status = "waiting" /\ now >= frame[k].deadline
       /\ frame'[k].status = "waiting" /\ frame'[k].deadline # frame[k].deadline
       => offset < frame[k].promised]_vars

=============================================================================
