---------------------------- MODULE TimingProofs ----------------------------
(***************************************************************************)
(* The passive timing components for every input.  The realtime mapping:   *)
(* every configuration the constructor accepts, every range of integers,   *)
(* any number of tracks.  The syncer: every script of the two tracks, at   *)
(* every length of its waits, fillers and batches.  The frame rate filter: *)
(* any timestamps and any period.                                          *)
(***************************************************************************)
EXTENDS MCTiming, TLAPS

-----------------------------------------------------------------------------
(* The realtime mapping.                                                   *)

\* A waiting frame was given the deadline that its promised offset implies.
PromiseInv ==
  \A k \in Tracks :
    frame[k].status = "waiting" => frame[k].deadline = frame[k].pts - frame[k].promised

\* What each answer of Schedule does to the frame that asked, and that it
\* touches no other.
LEMMA OneFrame ==
  ASSUME TypeOK, NEW k \in Tracks, NEW f \in Frames,
         frame' = [frame EXCEPT ![k] = f]
  PROVE  /\ frame' \in [Tracks -> Frames]
         /\ frame'[k] = f
         /\ \A j \in Tracks \ {k} : frame'[j] = frame[j]
BY DEF TypeOK

\* A track without a frame.
LEMMA NoFrameType == NoFrame \in Frames
BY DEF NoFrame, Frames

\* The values a decision is computed from are integers.
LEMMA Arithmetic ==
  ASSUME TypeOK, NEW k \in Tracks
  PROVE  /\ frame[k].pts \in Int /\ frame[k].deadline \in Int
         /\ frame[k].promised \in Int
         /\ frame[k].status \in {"none", "new", "waiting"}
         /\ offset \in Int /\ now \in Int
         /\ Due(k) \in Int /\ Difference(k) \in Int /\ Candidate(k) \in Int
<1>1. /\ frame[k] \in Frames /\ offset \in Int /\ now \in Int
  BY RangeAssumption DEF TypeOK
<1>2. /\ frame[k].pts \in Int /\ frame[k].deadline \in Int
      /\ frame[k].promised \in Int
      /\ frame[k].status \in {"none", "new", "waiting"}
  BY <1>1, RangeAssumption DEF Frames
<1>3. Jitter \in Int
  BY ConfigAssumption
<1> QED
  BY <1>1, <1>2, <1>3 DEF Due, Difference, Candidate

\* A frame of a track is released by every answer but Wait and Overflow.
LEMMA WaitedFrame ==
  ASSUME TypeOK, NEW k \in Tracks, ScheduleWait(k)
  PROVE  /\ frame'[k] \in Frames
         /\ frame'[k].status = "waiting"
         /\ frame'[k].pts = frame[k].pts
         /\ frame'[k].deadline = Due(k)
         /\ frame'[k].promised = offset
         /\ frame' \in [Tracks -> Frames]
         /\ \A j \in Tracks \ {k} : frame'[j] = frame[j]
<1>1. frame[k] \in Frames
  BY DEF TypeOK
<1>2. Due(k) \in Int /\ offset \in Int
  BY Arithmetic
<1> DEFINE f == [frame[k] EXCEPT !.status = "waiting", !.deadline = Due(k),
                                 !.promised = offset]
<1>3. /\ f \in Frames /\ f.status = "waiting" /\ f.pts = frame[k].pts
      /\ f.deadline = Due(k) /\ f.promised = offset
  BY <1>1, <1>2 DEF Frames
<1>4. frame' = [frame EXCEPT ![k] = f]
  BY DEF ScheduleWait, TypeOK
<1> HIDE DEF f
<1> QED
  BY <1>3, <1>4, OneFrame

\* Every variable keeps its type; in particular the offset stays in the range
\* of std::int64_t because Subtract throws instead of wrapping.
THEOREM TypeCorrect == Spec => []TypeOK
<1>1. Init => TypeOK
  <2> SUFFICES ASSUME Init PROVE TypeOK
    OBVIOUS
  <2>1. anchored \in BOOLEAN /\ failed \in BOOLEAN
    BY Zenon DEF Init
  <2>2. offset \in MinInt .. MaxInt /\ now \in 0 .. MaxNow
    BY RangeAssumption, ConfigAssumption DEF Init
  <2>3. frame \in [Tracks -> Frames]
    BY NoFrameType DEF Init
  <2> QED
    BY <2>1, <2>2, <2>3 DEF TypeOK
<1>2. TypeOK /\ [Next]_vars => TypeOK'
  <2> SUFFICES ASSUME TypeOK, [Next]_vars PROVE TypeOK'
    OBVIOUS
  <2>1. CASE Reset
    <3>1. anchored' \in BOOLEAN /\ failed' \in BOOLEAN
      BY <2>1, Zenon DEF Reset
    <3>2. offset' \in MinInt .. MaxInt /\ now' \in 0 .. MaxNow
      BY <2>1, RangeAssumption, ConfigAssumption DEF Reset, TypeOK
    <3>3. frame' \in [Tracks -> Frames]
      BY <2>1, NoFrameType DEF Reset
    <3> QED
      BY <3>1, <3>2, <3>3 DEF TypeOK
  <2>2. CASE Tick
    <3>1. now' \in 0 .. MaxNow
      BY <2>2, RangeAssumption DEF Tick, TypeOK
    <3>2. /\ anchored' = anchored /\ offset' = offset /\ frame' = frame
          /\ failed' = failed
      BY <2>2 DEF Tick
    <3> QED
      BY <3>1, <3>2, Zenon DEF TypeOK
  <2>3. ASSUME NEW k \in Tracks, NEW pts \in PtsValues, Read(k, pts) PROVE TypeOK'
    <3> DEFINE f == [status |-> "new", pts |-> pts, deadline |-> 0, promised |-> 0]
    <3>1. f \in Frames
      BY RangeAssumption DEF Frames
    <3>2. frame' = [frame EXCEPT ![k] = f]
      BY <2>3 DEF Read
    <3> HIDE DEF f
    <3>3. frame' \in [Tracks -> Frames]
      BY <3>1, <3>2, OneFrame
    <3>4. /\ anchored' = anchored /\ offset' = offset /\ now' = now
          /\ failed' = failed
      BY <2>3 DEF Read
    <3> QED
      BY <3>3, <3>4, Zenon DEF TypeOK
  <2>4. ASSUME NEW k \in Tracks, Schedule(k) PROVE TypeOK'
    <3>1. Gone(k) => frame' \in [Tracks -> Frames]
      BY OneFrame, NoFrameType DEF Gone
    <3>2. CASE ScheduleAnchor(k)
      <4>1. offset' \in MinInt .. MaxInt
        BY <3>2, Arithmetic, RangeAssumption DEF ScheduleAnchor, CandidateFits, Fits
      <4>2. anchored' \in BOOLEAN /\ now' = now /\ failed' = failed /\ Gone(k)
        BY <3>2, Zenon DEF ScheduleAnchor
      <4> QED
        BY <3>1, <4>1, <4>2, Zenon DEF TypeOK
    <3>3. CASE ScheduleLate(k)
      <4>1. offset' \in MinInt .. MaxInt
        BY <3>3, Arithmetic, RangeAssumption DEF ScheduleLate, CandidateFits, Fits, TypeOK
      <4>2. anchored' = anchored /\ now' = now /\ failed' = failed /\ Gone(k)
        BY <3>3 DEF ScheduleLate
      <4> QED
        BY <3>1, <4>1, <4>2, Zenon DEF TypeOK
    <3>4. CASE ScheduleDiscard(k) \/ ScheduleReady(k)
      <4>1. /\ anchored' = anchored /\ offset' = offset /\ now' = now
            /\ failed' = failed /\ Gone(k)
        BY <3>4 DEF ScheduleDiscard, ScheduleReady
      <4> QED
        BY <3>1, <4>1, Zenon DEF TypeOK
    <3>5. CASE ScheduleWait(k)
      <4>1. /\ anchored' = anchored /\ offset' = offset /\ now' = now
            /\ failed' = failed
        BY <3>5 DEF ScheduleWait
      <4>2. frame' \in [Tracks -> Frames]
        BY <3>5, WaitedFrame
      <4> QED
        BY <4>1, <4>2, Zenon DEF TypeOK
    <3>6. CASE ScheduleOverflow(k)
      <4>1. /\ anchored' = anchored /\ offset' = offset /\ now' = now
            /\ failed' = TRUE /\ frame' = frame
        BY <3>6 DEF ScheduleOverflow
      <4> QED
        BY <4>1, Zenon DEF TypeOK
    <3> QED
      BY <2>4, <3>2, <3>3, <3>4, <3>5, <3>6 DEF Schedule
  <2>5. CASE UNCHANGED vars
    <3>1. /\ anchored' = anchored /\ offset' = offset /\ now' = now
          /\ failed' = failed /\ frame' = frame
      BY <2>5 DEF vars
    <3> QED
      BY <3>1, Zenon DEF TypeOK
  <2> QED
    BY <2>1, <2>2, <2>3, <2>4, <2>5 DEF Next
<1> QED
  BY <1>1, <1>2, PTL DEF Spec

\* The offset, and with it every deadline of the peer track, is moved forward
\* by a jump of at least the threshold and by nothing else.
THEOREM NoAcceleration == Spec => OffsetRaisedOnlyByJump
<1> DEFINE Raise == anchored /\ anchored' /\ offset' > offset
                    => \E k \in Tracks : Present(k) /\ Difference(k) >= Threshold
<1>1. TypeOK /\ [Next]_vars => [Raise]_vars
  <2> SUFFICES ASSUME TypeOK, Next, anchored, anchored', offset' > offset
               PROVE  \E k \in Tracks : Present(k) /\ Difference(k) >= Threshold
    OBVIOUS
  <2>1. offset \in Int
    BY RangeAssumption DEF TypeOK
  <2>2. offset' # offset
    BY <2>1
  <2>3. ~Reset /\ ~Tick
    BY <2>2 DEF Reset, Tick
  <2>4. ASSUME NEW k \in Tracks, NEW pts \in PtsValues, Read(k, pts) PROVE FALSE
    BY <2>2, <2>4 DEF Read
  <2>5. PICK k \in Tracks : Schedule(k)
    BY <2>3, <2>4 DEF Next
  <2>6. ~ScheduleDiscard(k) /\ ~ScheduleWait(k) /\ ~ScheduleReady(k)
        /\ ~ScheduleOverflow(k)
    BY <2>2 DEF ScheduleDiscard, ScheduleWait, ScheduleReady, ScheduleOverflow
  <2>7. ~ScheduleLate(k)
    BY <2>1, Arithmetic DEF ScheduleLate
  <2>8. ScheduleAnchor(k)
    BY <2>5, <2>6, <2>7 DEF Schedule
  <2> QED
    BY <2>8 DEF ScheduleAnchor, Jumped
<1> QED
  BY <1>1, TypeCorrect, PTL DEF Spec, OffsetRaisedOnlyByJump

\* Whichever frame sets or lowers the mapping passes at once and is placed
\* exactly the margin ahead: for a late frame the minimum is the candidate.
THEOREM MarginAfterReset == Spec => ResetLeavesMargin
<1> DEFINE Margin == anchored' /\ (anchored => offset' # offset)
                     => \E k \in Tracks : /\ Present(k) /\ frame'[k].status = "none"
                                          /\ frame[k].pts - offset' = now + Jitter
<1>1. TypeOK /\ [Next]_vars => [Margin]_vars
  <2> SUFFICES ASSUME TypeOK, Next, anchored', anchored => offset' # offset
               PROVE  \E k \in Tracks : /\ Present(k) /\ frame'[k].status = "none"
                                        /\ frame[k].pts - offset' = now + Jitter
    OBVIOUS
  <2>1. ~Reset /\ ~Tick
    BY DEF Reset, Tick
  <2>2. ASSUME NEW k \in Tracks, NEW pts \in PtsValues, Read(k, pts) PROVE FALSE
    BY <2>2 DEF Read
  <2>3. PICK k \in Tracks : Schedule(k)
    BY <2>1, <2>2 DEF Next
  <2>4. ~ScheduleDiscard(k) /\ ~ScheduleWait(k) /\ ~ScheduleReady(k)
        /\ ~ScheduleOverflow(k)
    BY DEF ScheduleDiscard, ScheduleWait, ScheduleReady, ScheduleOverflow
  <2>9. NoFrame.status = "none"
    BY DEF NoFrame
  <2>5. Gone(k) => frame'[k].status = "none"
    BY <2>9, OneFrame, NoFrameType DEF Gone
  <2>6. Jitter \in Nat /\ Tolerance \in Nat
    BY ConfigAssumption
  <2>7. CASE ScheduleAnchor(k)
    <3>1. Present(k) /\ Gone(k) /\ offset' = Candidate(k)
      BY <2>7 DEF ScheduleAnchor
    <3>2. frame[k].pts - Candidate(k) = now + Jitter
      BY <2>6, Arithmetic DEF Candidate
    <3> QED
      BY <2>5, <3>1, <3>2
  <2>8. CASE ScheduleLate(k)
    <3>1. Present(k) /\ Gone(k)
          /\ offset' = IF Candidate(k) < offset THEN Candidate(k) ELSE offset
      BY <2>8 DEF ScheduleLate
    <3>2. Candidate(k) < offset
      BY <2>8, <2>6, Arithmetic DEF ScheduleLate, Late, Difference, Due, Candidate
    <3>3. frame[k].pts - Candidate(k) = now + Jitter
      BY <2>6, Arithmetic DEF Candidate
    <3> QED
      BY <2>5, <3>1, <3>2, <3>3
  <2> QED
    BY <2>3, <2>4, <2>7, <2>8 DEF Schedule
<1> QED
  BY <1>1, TypeCorrect, PTL DEF Spec, ResetLeavesMargin

\* Deadlines are kept: waiting again after the deadline means that the offset
\* is below the one the deadline was computed with.
THEOREM DeadlinesKept == Spec => DeadlineKept
<1> DEFINE Kept == \A k \in Tracks :
                     frame[k].status = "waiting" /\ now >= frame[k].deadline
                     /\ frame'[k].status = "waiting"
                     /\ frame'[k].deadline # frame[k].deadline
                     => offset < frame[k].promised
<1>1. Init => PromiseInv
  BY DEF Init, PromiseInv, NoFrame
<1>2. ASSUME TypeOK, [Next]_vars, NEW k \in Tracks
      PROVE  \/ frame'[k].status # "waiting"
             \/ frame'[k] = frame[k]
             \/ ScheduleWait(k)
  <2>1. CASE Reset
    BY <2>1 DEF Reset, NoFrame
  <2>2. CASE Tick \/ UNCHANGED vars
    BY <2>2 DEF Tick, vars
  <2>3. ASSUME NEW j \in Tracks, NEW pts \in PtsValues, Read(j, pts)
        PROVE  frame'[k].status # "waiting" \/ frame'[k] = frame[k]
    <3> DEFINE f == [status |-> "new", pts |-> pts, deadline |-> 0, promised |-> 0]
    <3>1. f \in Frames /\ f.status = "new"
      BY RangeAssumption DEF Frames
    <3>2. frame' = [frame EXCEPT ![j] = f]
      BY <2>3 DEF Read
    <3> HIDE DEF f
    <3> QED
      BY <1>2, <3>1, <3>2, OneFrame
  <2>4. ASSUME NEW j \in Tracks, Schedule(j)
        PROVE  \/ frame'[k].status # "waiting"
               \/ frame'[k] = frame[k]
               \/ ScheduleWait(k)
    <3>1. CASE Gone(j)
      BY <1>2, <3>1, OneFrame, NoFrameType DEF Gone, NoFrame
    <3>2. CASE ScheduleWait(j)
      BY <1>2, <3>2, WaitedFrame
    <3>3. CASE ScheduleOverflow(j)
      BY <3>3 DEF ScheduleOverflow
    <3> QED
      BY <2>4, <3>1, <3>2, <3>3
      DEF Schedule, ScheduleAnchor, ScheduleLate, ScheduleDiscard, ScheduleReady
  <2> QED
    BY <1>2, <2>1, <2>2, <2>3, <2>4 DEF Next
<1>3. TypeOK /\ PromiseInv /\ [Next]_vars => PromiseInv'
  <2> SUFFICES ASSUME TypeOK, PromiseInv, [Next]_vars, NEW k \in Tracks,
                      frame'[k].status = "waiting"
               PROVE  frame'[k].deadline = frame'[k].pts - frame'[k].promised
    BY DEF PromiseInv
  <2>1. CASE frame'[k] = frame[k]
    BY <2>1 DEF PromiseInv
  <2>2. CASE ScheduleWait(k)
    BY <2>2, WaitedFrame DEF Due
  <2> QED
    BY <1>2, <2>1, <2>2
<1>4. TypeOK /\ PromiseInv /\ [Next]_vars => [Kept]_vars
  <2> SUFFICES ASSUME TypeOK, PromiseInv, Next, NEW k \in Tracks,
                      frame[k].status = "waiting", now >= frame[k].deadline,
                      frame'[k].status = "waiting",
                      frame'[k].deadline # frame[k].deadline
               PROVE  offset < frame[k].promised
    OBVIOUS
  <2>1. ScheduleWait(k)
    BY <1>2
  <2>2. frame[k].deadline = frame[k].pts - frame[k].promised
    BY DEF PromiseInv
  <2>3. frame[k].pts - offset - now > 0
    BY <2>1 DEF ScheduleWait, Difference, Due
  <2> QED
    BY <2>2, <2>3, Arithmetic
<1> QED
  BY <1>1, <1>3, <1>4, TypeCorrect, PTL DEF Spec, DeadlineKept

-----------------------------------------------------------------------------
(* The syncer for any script of the two tracks.                            *)

\* What Euclid's division gives.
LEMMA Quotient ==
  ASSUME NEW o \in Nat, NEW b \in Nat \ {0}
  PROVE  /\ o \div b \in Nat
         /\ b * (o \div b) <= o /\ o < b * (o \div b) + b
BY SMTT(20)

\* Products of integers.
LEMMA Product ==
  ASSUME NEW a \in Int, NEW b \in Int
  PROVE  /\ a * b \in Int /\ (-a) * b = -(a * b)
         /\ a >= 0 /\ b >= 0 => a * b >= 0
BY SMTT(20)

\* A multiple that is smaller than half of its divisor is none.
LEMMA SmallMultiple ==
  ASSUME NEW d \in Int, NEW b \in Nat \ {0}, 2 * (d * b) <= b, -b <= 2 * (d * b)
  PROVE  d = 0
<1>1. d >= 1 => d * b >= b
  BY SMTT(20)
<1>2. d <= -1 => d * b <= -b
  BY SMTT(20)
<1>3. d * b \in Int
  BY Product
<1> QED
  BY <1>1, <1>2, <1>3

\* av_rescale_q rounds to the nearest unit.
LEMMA RescaleNear ==
  ASSUME NEW v \in Int, NEW a \in Nat, NEW b \in Nat \ {0}
  PROVE  /\ S!Rescale(v, a, b) \in Int
         /\ 2 * (S!Rescale(v, a, b) * b) <= 2 * (v * a) + b
         /\ 2 * (v * a) - b <= 2 * (S!Rescale(v, a, b) * b)
<1> DEFINE ticks == S!Abs(v * a)
           q == (2 * ticks + b) \div (2 * b)
<1>1. /\ v * a \in Int /\ ticks \in Nat
      /\ v < 0 => ticks = -(v * a)
      /\ ~(v < 0) => ticks = v * a
  <2>1. v * a \in Int /\ (v >= 0 => v * a >= 0) /\ (-v >= 0 => (-v) * a >= 0)
        /\ (-v) * a = -(v * a)
    BY Product
  <2> DEFINE x == v * a
  <2> HIDE DEF x
  <2> QED
    BY <2>1 DEF S!Abs, x
<1> HIDE DEF ticks
<1>2. 2 * ticks + b \in Nat /\ 2 * b \in Nat \ {0}
  BY <1>1
<1>3. q \in Nat /\ (2 * b) * q <= 2 * ticks + b /\ 2 * ticks + b < (2 * b) * q + 2 * b
  BY <1>2, Quotient
<1>4. S!Rescale(v, a, b) = IF v < 0 THEN -q ELSE q
  BY DEF S!Rescale, ticks, q
<1> HIDE DEF q
<1>5. (2 * b) * q = 2 * (q * b) /\ q * b \in Int /\ (-q) * b = -(q * b)
  BY <1>3, Product, SMTT(20)
<1>6. CASE v < 0
  <2>1. S!Rescale(v, a, b) = -q
    BY <1>4, <1>6
  <2> QED
    BY <1>1, <1>3, <1>5, <1>6, <2>1
<1>7. CASE ~(v < 0)
  <2>1. S!Rescale(v, a, b) = q
    BY <1>4, <1>7
  <2> QED
    BY <1>1, <1>3, <1>5, <1>7, <2>1
<1> QED
  BY <1>6, <1>7

\* It gives a number.
LEMMA RescaleType ==
  ASSUME NEW v \in Int, NEW a \in Nat, NEW b \in Nat \ {0}
  PROVE  S!Rescale(v, a, b) \in Int
BY RescaleNear

\* The duration of a frame is one.
LEMMA FrameType ==
  ASSUME NEW b \in Nat \ {0} PROVE S!Rescale(1, FrameTicks, b) \in Int
<1>1. FrameTicks \in Nat /\ 1 \in Int
  BY SyncerAssumption
<1> QED
  BY <1>1, RescaleType, Zenon

\* It is exact when the new unit divides the old one.
LEMMA RescaleExact ==
  ASSUME NEW v \in Int, NEW n \in Nat, NEW a \in Nat, NEW b \in Nat \ {0}, a = n * b
  PROVE  S!Rescale(v, a, b) = v * n
<1> DEFINE s == S!Rescale(v, a, b)
           d == s - v * n
<1>1. /\ s \in Int /\ 2 * (s * b) <= 2 * (v * a) + b
      /\ 2 * (v * a) - b <= 2 * (s * b)
  BY RescaleNear
<1> HIDE DEF s
<1>2. v * n \in Int /\ v * a = (v * n) * b /\ s * b \in Int /\ (v * n) * b \in Int
  BY <1>1, Product, SMTT(20)
<1>3. d \in Int /\ d * b = s * b - (v * n) * b
  BY <1>1, <1>2, SMTT(20)
<1> HIDE DEF d
<1>4. d = 0
  BY <1>1, <1>2, <1>3, SmallMultiple
<1> QED
  BY <1>1, <1>2, <1>4 DEF d, s

Time == Int \cup {None}
Tracked ==
  [tb : Nat \ {0}, next : Time, shift : Time, lastSuccess : BOOLEAN, hasOutput : BOOLEAN,
   waitUntil : Int, tryWithoutFilling : BOOLEAN, fillUntil : Time, forward : BOOLEAN,
   filled : Int, filledUs : Int, pending : BOOLEAN, suspendedUntil : Int]
Clocks == [pts : Time, wall : Int, shift : Time]
Outs == {None} \cup [real : BOOLEAN, start : Int, end : Int]

\* Times are exact in the ticks of the clock.
LEMMA Ticks ==
  ASSUME NEW v \in Int, NEW r \in Tracked
  PROVE  S!ToUs(v, r) = v * r.tb /\ S!ToUs(v, r) \in Int /\ S!FromUs(v, r) \in Int
<1> DEFINE n == r.tb
<1>1. n \in Nat \ {0}
  BY DEF Tracked
<1> HIDE DEF n
<1>2. S!Rescale(v, n, 1) = v * n
  <2>1. \A b \in Nat \ {0} : n = n * b => S!Rescale(v, n, b) = v * n
    BY <1>1, RescaleExact
  <2>2. n = n * 1
    BY <1>1
  <2> QED
    BY <2>1, <2>2
<1>3. v * n \in Int /\ S!Rescale(v, 1, n) \in Int
  BY <1>1, Product, RescaleType
<1> QED
  BY <1>2, <1>3 DEF S!ToUs, S!FromUs, n

\* What a track r with the last output o and the head h knows: where its output
\* ended; that a filler has somewhere to go; that it waits or makes way for a
\* head; and which ticks it counts.
TrackFits(p, t, r, o, h) ==
  /\ r \in Tracked
  /\ o # None => r.hasOutput /\ o.end = r.next * r.tb
  /\ r.hasOutput \/ r.fillUntil # None => r.next # None
  /\ (r.fillUntil # None /\ r.forward) \/ r.pending => h
  /\ t = "audio" => r.tb = SampleTicks
  /\ t = "video" =>
       \/ r.tb = FrameTicks
       \/ \E i \in DOMAIN p.input["video"] : r.tb = p.input["video"][i].tb

SyncTyped ==
  /\ plan \in Plans /\ now \in Int /\ clock \in Clocks
  /\ track \in [S!TrackNames -> Tracked]
  /\ output \in [S!TrackNames -> Outs]
  /\ here \in [S!TrackNames -> BOOLEAN] /\ next \in [S!TrackNames -> Nat]
  /\ \A t \in S!TrackNames : here[t] => next[t] < Len(plan.input[t])

SyncInv ==
  /\ SyncTyped
  /\ \A t \in S!TrackNames : TrackFits(plan, t, track[t], output[t], here[t])

\* The head is an item of the plan.
LEMMA HeadType ==
  ASSUME SyncTyped, NEW t \in S!TrackNames, here[t]
  PROVE  /\ S!Item(t) \in [eof : BOOLEAN, pts : Int, tb : Nat \ {0}, samples : Nat]
         /\ next[t] + 1 \in DOMAIN plan.input[t]
<1> DEFINE s == plan.input[t]
           k == next[t]
           X == [eof : BOOLEAN, pts : Int, tb : Nat \ {0}, samples : Nat]
<1>1. s \in Seq(X)
      /\ k \in Nat /\ k < Len(s)
  BY SyncerAssumption DEF SyncTyped, S!TrackNames
<1>2. s[k + 1] = S!Item(t)
  BY DEF S!Item
<1> HIDE DEF s, k, X
<1>3. k + 1 \in DOMAIN s /\ s[k + 1] \in X
  BY <1>1
<1> QED
  BY <1>2, <1>3 DEF s, k, X

\* One output of a track at most, and none of another track.
OnlyOutput(t) ==
  /\ output' \in [S!TrackNames -> Outs]
  /\ \A u \in S!TrackNames \ {t} : output'[u] = output[u]

\* A filler takes the place after the last output.
LEMMA FillerPlace ==
  ASSUME SyncTyped, NEW t \in S!TrackNames, NEW r \in Tracked,
         TrackFits(plan, t, r, output[t], here[t]), NEW pts \in Int, NEW d \in Int, NEW real \in BOOLEAN, S!Emit(t, r, pts, d, real)
  PROVE  /\ OnlyOutput(t) /\ output'[t].real = real
         /\ output'[t].end = (pts + d) * r.tb /\ output'[t].start = pts * r.tb
<1> DEFINE o == [real |-> real, start |-> S!ToUs(pts, r), end |-> S!ToUs(pts + d, r)]
<1>1. pts + d \in Int
  OBVIOUS
<1>2. o \in Outs /\ o.real = real /\ o.start = pts * r.tb /\ o.end = (pts + d) * r.tb
  BY <1>1, Ticks DEF Outs
<1>3. output' = [output EXCEPT ![t] = o]
  BY DEF S!Emit
<1> HIDE DEF o
<1> QED
  BY <1>2, <1>3 DEF SyncTyped, OnlyOutput

\* The end of a batch of fillers, for any last output o.
LEMMA FinishKeeps ==
  ASSUME SyncTyped, NEW t \in S!TrackNames, NEW c \in Clocks, NEW r, NEW o,
         TrackFits(plan, t, r, o, here[t]), r.fillUntil # None,
         NEW pts \in Int, NEW blocked \in BOOLEAN, S!FinishFill(t, c, r, pts, blocked)
  PROVE  /\ clock' \in Clocks
         /\ \E q \in Tracked : track' = [track EXCEPT ![t] = q] /\ TrackFits(plan, t, q, o, here[t])
<1>0. r \in Tracked /\ r.next \in Int /\ now \in Int
  BY DEF TrackFits, Tracked, Time, SyncTyped
<1>1. CASE r.forward
  <2> DEFINE original == S!Rescale(S!Item(t).pts, S!Item(t).tb, r.tb)
             c1 == IF r.filled = BatchLimit \/ blocked THEN S!Update(c, S!ToUs(pts, r)) ELSE c
             until == IF r.filled = BatchLimit /\ ~blocked
                      THEN now + S!Most(Pause, r.filledUs \div 2) ELSE now
             q == [S!AdjustTrack(r, original) EXCEPT !.fillUntil = None,
                     !.tryWithoutFilling = TRUE, !.pending = TRUE, !.suspendedUntil = until]
  <2>1. here[t]
    BY <1>1 DEF TrackFits
  <2>2. original \in Int
    BY <1>0, <2>1, HeadType, RescaleType DEF Tracked
  <2>3. until \in Int
    <3>1. r.filledUs \div 2 \in Int /\ Pause \in Int
      BY <1>0, SyncerAssumption DEF Tracked
    <3>2. S!Most(Pause, r.filledUs \div 2) \in Int
      BY <3>1 DEF S!Most
    <3> QED
      BY <1>0, <3>2
  <2>4. c1 \in Clocks
    BY <1>0, Ticks DEF S!Update, Clocks, Time
  <2>5. clock' = S!AdjustShared(c1, r, original) /\ track' = [track EXCEPT ![t] = q]
    BY <1>1 DEF S!FinishFill
  <2> HIDE DEF original, until, c1
  <2>6. r.next - original \in Int /\ S!ToUs(r.next - original, r) \in Int
    BY <1>0, <2>2, Ticks
  <2>7. clock' \in Clocks
    BY <2>4, <2>5, <2>6 DEF S!AdjustShared, Clocks, Time
  <2>8. /\ q \in Tracked /\ q.tb = r.tb /\ q.next = r.next /\ q.hasOutput = r.hasOutput
        /\ q.fillUntil = None
    BY <1>0, <2>2, <2>3, <2>6 DEF S!AdjustTrack, Tracked, Time
  <2> HIDE DEF q
  <2> QED
    BY <2>1, <2>5, <2>7, <2>8 DEF TrackFits
<1>2. CASE ~r.forward
  <2> DEFINE q == [r EXCEPT !.fillUntil = None, !.waitUntil = IF blocked THEN now ELSE @]
  <2>1. clock' = c /\ track' = [track EXCEPT ![t] = q]
    BY <1>2 DEF S!FinishFill
  <2>2. /\ q \in Tracked /\ q.tb = r.tb /\ q.next = r.next /\ q.hasOutput = r.hasOutput
        /\ q.fillUntil = None /\ q.pending = r.pending
    BY <1>0 DEF Tracked, Time
  <2> HIDE DEF q
  <2> QED
    BY <2>1, <2>2 DEF TrackFits
<1> QED
  BY <1>1, <1>2

\* A filler starts where the output ended, and moves that end.
LEMMA FillKeeps ==
  ASSUME SyncTyped, NEW t \in S!TrackNames, NEW c \in Clocks, NEW r,
         TrackFits(plan, t, r, output[t], here[t]), r.fillUntil # None, S!Fill(t, c, r)
  PROVE  /\ clock' \in Clocks /\ next' = next /\ OnlyOutput(t)
         /\ \E q \in Tracked :
              track' = [track EXCEPT ![t] = q] /\ TrackFits(plan, t, q, output'[t], here[t])
         /\ output'[t] # output[t] =>
              /\ ~output'[t].real
              /\ output[t] # None => output'[t].start = output[t].end
<1>0. r \in Tracked /\ r.next \in Int /\ r.fillUntil \in Int
  BY DEF TrackFits, Tracked, Time
<1> DEFINE d == S!FillDuration(t, r)
           filled == [r EXCEPT !.next = @ + d, !.hasOutput = TRUE, !.filled = @ + 1,
                               !.filledUs = @ + S!ToUs(d, r)]
<1>1. d \in Int
  <2>1. SilenceSamples \in Int /\ r.tb \in Nat \ {0}
    BY <1>0, SyncerAssumption DEF Tracked
  <2>2. S!Rescale(1, FrameTicks, r.tb) \in Int
    BY <2>1, FrameType
  <2> QED
    BY <1>0, <2>1, <2>2 DEF S!FillDuration, S!VideoDuration, S!Least
<1>2. next' = next
  BY DEF S!Fill
<1>3. ASSUME S!Emit(t, r, r.next, d, FALSE),
             IF filled.next >= r.fillUntil \/ filled.filled = BatchLimit
             THEN S!FinishFill(t, c, filled, r.next, FALSE)
             ELSE clock' = c /\ track' = [track EXCEPT ![t] = filled]
      PROVE  /\ clock' \in Clocks /\ OnlyOutput(t)
             /\ \E q \in Tracked :
                  track' = [track EXCEPT ![t] = q] /\ TrackFits(plan, t, q, output'[t], here[t])
             /\ output'[t] # output[t] =>
                  /\ ~output'[t].real
                  /\ output[t] # None => output'[t].start = output[t].end
  <2> DEFINE us == S!ToUs(d, r)
  <2>1. us \in Int
    BY <1>0, <1>1, Ticks
  <2> HIDE DEF d, us
  <2>2. /\ filled \in Tracked /\ filled.next = r.next + d /\ filled.tb = r.tb /\ filled.hasOutput
        /\ filled.fillUntil = r.fillUntil /\ filled.forward = r.forward
        /\ filled.pending = r.pending /\ filled.next \in Int
    <3>1. filled = [r EXCEPT !.next = r.next + d, !.hasOutput = TRUE,
                             !.filled = r.filled + 1, !.filledUs = r.filledUs + us]
      BY <1>0 DEF us, Tracked
    <3> HIDE DEF filled
    <3>2. r.next + d \in Int /\ r.filled + 1 \in Int /\ r.filledUs + us \in Int
      BY <1>0, <1>1, <2>1 DEF Tracked
    <3> QED
      BY <1>0, <3>1, <3>2 DEF Tracked, Time
  <2>3. /\ OnlyOutput(t) /\ output'[t].real = FALSE
        /\ output'[t].end = (r.next + d) * r.tb /\ output'[t].start = r.next * r.tb
    BY <1>0, <1>1, <1>3, FillerPlace
  <2>4. filled.next # None
    BY <2>2, SyncerAssumption
  <2> HIDE DEF filled
  <2>5. TrackFits(plan, t, filled, output'[t], here[t])
    BY <2>2, <2>3, <2>4 DEF TrackFits
  <2>6. /\ clock' \in Clocks
        /\ \E q \in Tracked :
             track' = [track EXCEPT ![t] = q] /\ TrackFits(plan, t, q, output'[t], here[t])
    <3>1. CASE filled.next >= r.fillUntil \/ filled.filled = BatchLimit
      BY <1>0, <1>3, <2>2, <2>5, <3>1, FinishKeeps
    <3>2. CASE ~(filled.next >= r.fillUntil \/ filled.filled = BatchLimit)
      BY <1>3, <2>2, <2>5, <3>2
    <3> QED
      BY <3>1, <3>2
  <2>7. output[t] # None => output'[t].start = output[t].end
    BY <2>3 DEF TrackFits
  <2> QED
    BY <2>3, <2>6, <2>7
<1>4. ASSUME S!Refuse, S!FinishFill(t, c, r, r.next, TRUE)
      PROVE  /\ clock' \in Clocks /\ OnlyOutput(t) /\ output' = output
             /\ \E q \in Tracked :
                  track' = [track EXCEPT ![t] = q] /\ TrackFits(plan, t, q, output'[t], here[t])
  <2>1. output' = output /\ OnlyOutput(t)
    BY <1>4 DEF S!Refuse, OnlyOutput, SyncTyped
  <2> QED
    BY <1>0, <1>4, <2>1, FinishKeeps
<1> QED
  BY <1>2, <1>3, <1>4 DEF S!Fill


\* The head is not consumed.
Still(t) == here[t] /\ next'[t] = next[t]

\* What a Step of track t does: it emits on that track, keeps what the track
\* knows, and its output is continuous and in sync.
Outcome(t) ==
  /\ clock' \in Clocks /\ OnlyOutput(t)
  /\ next' = next \/ (here[t] /\ next' = [next EXCEPT ![t] = @ + 1])
  /\ \E q \in Tracked :
       /\ track' = [track EXCEPT ![t] = q]
       /\ TrackFits(plan, t, q, output'[t], Still(t))
  /\ output'[t] # output[t] =>
       /\ output[t] # None =>
            LET gap == output'[t].start - output[t].end IN
            IF clock.shift = None /\ clock'.shift # None THEN gap >= 0
            ELSE S!Abs(gap) < MaxDiff
       /\ output'[t].real =>
            S!Abs(S!ToUs(track'[t].shift, track'[t]) - clock'.shift) <= MaxDiff

\* A filler is such a step.
LEMMA FillOutcome ==
  ASSUME SyncTyped, NEW t \in S!TrackNames, NEW c \in Clocks, NEW r,
         TrackFits(plan, t, r, output[t], here[t]), r.fillUntil # None, S!Fill(t, c, r)
  PROVE  Outcome(t)
<1>1. /\ clock' \in Clocks /\ next' = next /\ OnlyOutput(t)
      /\ \E q \in Tracked :
           track' = [track EXCEPT ![t] = q] /\ TrackFits(plan, t, q, output'[t], here[t])
      /\ output'[t] # output[t] =>
           /\ ~output'[t].real
           /\ output[t] # None => output'[t].start = output[t].end
  BY FillKeeps
<1>2. output[t] # None => output[t].end \in Int
  BY DEF SyncTyped, Outs
<1>3. ASSUME NEW a \in Int PROVE a - a >= 0 /\ S!Abs(a - a) < MaxDiff
  BY SyncerAssumption DEF S!Abs
<1>4. here[t] \in BOOLEAN
  BY DEF SyncTyped
<1>5. TRUE /\ next'[t] = next[t]
  BY <1>1
<1>6. PICK q \in Tracked :
        track' = [track EXCEPT ![t] = q] /\ TrackFits(plan, t, q, output'[t], here[t])
  BY <1>1
<1>7. Still(t) = here[t]
  BY <1>4, <1>5 DEF Still
<1>8. TrackFits(plan, t, q, output'[t], Still(t))
  BY <1>6, <1>7
<1> QED
  BY <1>1, <1>2, <1>3, <1>6, <1>8 DEF Outcome

\* An output of track t starts at pts.
StartsAt(t, pts, r) == output'[t] # output[t] => output'[t].start = S!ToUs(pts, r)

\* A real frame at pts, with the shifts of r and c.
LEMMA RealKeeps ==
  ASSUME SyncTyped, NEW t \in S!TrackNames, NEW c \in Clocks, NEW r,
         TrackFits(plan, t, r, output[t], here[t]), r.fillUntil = None, here[t],
         NEW pts \in Int, S!Real(t, c, r, pts)
  PROVE  /\ clock' \in Clocks /\ clock'.shift = c.shift /\ OnlyOutput(t)
         /\ next' = next \/ (here[t] /\ next' = [next EXCEPT ![t] = @ + 1])
         /\ \E q \in Tracked :
              /\ track' = [track EXCEPT ![t] = q] /\ q.shift = r.shift /\ q.tb = r.tb
              /\ TrackFits(plan, t, q, output'[t], Still(t))
         /\ StartsAt(t, pts, r)
<1> DEFINE d == IF t = "video" THEN S!VideoDuration(r) ELSE S!Item(t).samples
           c1 == S!Update(c, S!ToUs(pts, r))
<1>0. r \in Tracked /\ now \in Int
  BY DEF TrackFits, SyncTyped
<1>1. d \in Int
  <2>1. r.tb \in Nat \ {0}
    BY <1>0 DEF Tracked
  <2>2. S!Rescale(1, FrameTicks, r.tb) \in Int
    BY <2>1, FrameType
  <2>3. S!Item(t).samples \in Int
    BY HeadType
  <2> QED
    BY <2>2, <2>3 DEF S!VideoDuration
<1>2. c1 \in Clocks /\ c1.shift = c.shift
  <2> DEFINE us == S!ToUs(pts, r)
  <2>1. us \in Int
    BY <1>0, Ticks
  <2>2. c1 = S!Update(c, us)
    OBVIOUS
  <2> HIDE DEF us, c1
  <2> QED
    BY <1>0, <2>1, <2>2 DEF S!Update, Clocks, Time
<1>3. clock' = c1
  BY DEF S!Real
<1> HIDE DEF c1
<1>4. ASSUME S!Emit(t, r, pts, d, TRUE), next' = [next EXCEPT ![t] = @ + 1],
             track' = [track EXCEPT ![t] =
               [r EXCEPT !.next = pts + d, !.hasOutput = TRUE, !.lastSuccess = TRUE,
                         !.waitUntil = now + Timeout, !.pending = FALSE]]
      PROVE  /\ OnlyOutput(t) /\ output'[t].start = pts * r.tb
             /\ \E q \in Tracked :
                  /\ track' = [track EXCEPT ![t] = q] /\ q.shift = r.shift /\ q.tb = r.tb
                  /\ TrackFits(plan, t, q, output'[t], Still(t))
  <2> DEFINE q == [r EXCEPT !.next = pts + d, !.hasOutput = TRUE, !.lastSuccess = TRUE,
                            !.waitUntil = now + Timeout, !.pending = FALSE]
             until == now + Timeout
             pts2 == pts + d
  <2> HIDE DEF d
  <2>0. until \in Int /\ pts2 \in Int
    BY <1>0, <1>1, SyncerAssumption
  <2>1. /\ q \in Tracked /\ q.next = pts + d /\ q.hasOutput /\ ~q.pending /\ q.shift = r.shift
        /\ q.tb = r.tb /\ q.fillUntil = None /\ pts + d \in Int
    <3>1. q = [r EXCEPT !.next = pts2, !.hasOutput = TRUE, !.lastSuccess = TRUE,
                        !.waitUntil = until, !.pending = FALSE]
      OBVIOUS
    <3> HIDE DEF q, until, pts2
    <3>2. /\ q \in Tracked /\ q.next = pts2 /\ q.hasOutput /\ ~q.pending /\ q.shift = r.shift
          /\ q.tb = r.tb /\ q.fillUntil = r.fillUntil
      BY <1>0, <2>0, <3>1 DEF Tracked, Time
    <3> QED
      BY <2>0, <3>2 DEF pts2
  <2>2. track' = [track EXCEPT ![t] = q]
    BY <1>4
  <2> HIDE DEF q
  <2>3. /\ OnlyOutput(t) /\ output'[t].start = pts * r.tb /\ output'[t].end = (pts + d) * r.tb
    BY <1>0, <1>1, <1>4, FillerPlace
  <2>4. q.next # None
    BY <2>1, SyncerAssumption
  <2> QED
    BY <2>1, <2>2, <2>3, <2>4 DEF TrackFits
<1>5. ASSUME S!Refuse, track' = [track EXCEPT ![t] = r], UNCHANGED next
      PROVE  /\ OnlyOutput(t) /\ output' = output
             /\ TrackFits(plan, t, r, output'[t], Still(t))
  BY <1>5 DEF S!Refuse, OnlyOutput, SyncTyped, TrackFits, Still
<1>6. \/ S!Emit(t, r, pts, d, TRUE) /\ next' = [next EXCEPT ![t] = @ + 1]
         /\ track' = [track EXCEPT ![t] =
               [r EXCEPT !.next = pts + d, !.hasOutput = TRUE, !.lastSuccess = TRUE,
                         !.waitUntil = now + Timeout, !.pending = FALSE]]
      \/ S!Refuse /\ track' = [track EXCEPT ![t] = r] /\ UNCHANGED next
  BY DEF S!Real
<1> HIDE DEF d
<1>7. CASE S!Emit(t, r, pts, d, TRUE) /\ next' = [next EXCEPT ![t] = @ + 1]
         /\ track' = [track EXCEPT ![t] =
               [r EXCEPT !.next = pts + d, !.hasOutput = TRUE, !.lastSuccess = TRUE,
                         !.waitUntil = now + Timeout, !.pending = FALSE]]
  <2>1. S!ToUs(pts, r) = pts * r.tb
    BY <1>0, Ticks
  <2> QED
    BY <1>2, <1>3, <1>4, <1>7, <2>1 DEF StartsAt
<1>8. CASE S!Refuse /\ track' = [track EXCEPT ![t] = r] /\ UNCHANGED next
  BY <1>0, <1>2, <1>3, <1>5, <1>8 DEF StartsAt
<1> QED
  BY <1>6, <1>7, <1>8

\* A video track takes over the ticks of its input, and its output goes on
\* where it was.
LEMMA RebaseKeeps ==
  ASSUME SyncTyped, NEW t \in S!TrackNames, here[t], NEW r,
         TrackFits(plan, t, r, output[t], here[t]), r.fillUntil = None
  PROVE  LET q == IF t = "video" /\ r.tb # S!Item(t).tb
                  THEN S!ChangeTimeBase(r, S!Item(t).tb) ELSE r IN
         /\ TrackFits(plan, t, q, output[t], here[t]) /\ q.fillUntil = None
         /\ q.tb <= 2 * MaxDiff
<1>0. r \in Tracked /\ MaxDiff \in Nat
  BY SyncerAssumption DEF TrackFits
<1>1. CASE t = "video" /\ r.tb # S!Item(t).tb
  <2> DEFINE b == S!Item(t).tb
             q == S!ChangeTimeBase(r, b)
  <2>1. b \in Nat \ {0} /\ next[t] + 1 \in DOMAIN plan.input[t]
    BY HeadType
  <2>2. /\ b = plan.input["video"][next[t] + 1].tb
        /\ next[t] + 1 \in DOMAIN plan.input["video"] /\ plan \in Plans
    BY <1>1, <2>1 DEF S!Item, SyncTyped
  <2> HIDE DEF b
  <2>3. \A i \in DOMAIN plan.input["video"] : plan.input["video"][i].tb = b
    BY <2>2, SyncerAssumption
  <2>4. b <= 2 * MaxDiff /\ \E n \in 1..FrameTicks : FrameTicks = n * b
    BY <2>2, SyncerAssumption
  <2>5. r.tb = FrameTicks
    BY <1>1, <2>3 DEF TrackFits, b
  <2>6. PICK n \in Nat \ {0} : FrameTicks = n * b
    BY <2>4, SyncerAssumption
  <2>7. r.tb \in Nat
    BY <1>0 DEF Tracked
  <2>8. ASSUME NEW v \in Int PROVE S!Rescale(v, r.tb, b) = v * n /\ v * n \in Int
    <3> DEFINE a == r.tb
    <3>1. a \in Nat /\ a = n * b /\ n \in Nat
      BY <2>5, <2>6, <2>7
    <3> HIDE DEF a
    <3>2. \A w \in Nat : w = n * b => S!Rescale(v, w, b) = v * n
      BY <2>1, <2>8, <3>1, RescaleExact, Zenon
    <3>3. v * n \in Int
      BY <2>8, <3>1, Product
    <3>4. S!Rescale(v, a, b) = v * n
      BY <3>1, <3>2, Zenon
    <3> QED
      BY <3>3, <3>4 DEF a
  <2>9. ASSUME NEW v \in Time PROVE S!Converted(v, r.tb, b) \in Time
                                    /\ (v # None => S!Converted(v, r.tb, b) = v * n)
    BY <2>8, <2>9 DEF S!Converted, Time
  <2>10. /\ q \in Tracked /\ q.tb = b /\ q.hasOutput = r.hasOutput /\ q.pending = r.pending
         /\ q.forward = r.forward /\ q.fillUntil = None
         /\ q.next = S!Converted(r.next, r.tb, b)
    <3> DEFINE x == S!Converted(r.next, r.tb, b)
               y == S!Converted(r.shift, r.tb, b)
               z == S!Converted(r.fillUntil, r.tb, b)
    <3>1. x \in Time /\ y \in Time /\ z \in Time
      BY <1>0, <2>9 DEF Tracked
    <3>2. z = None
      BY DEF S!Converted
    <3>3. q = [r EXCEPT !.tb = b, !.next = x, !.shift = y, !.fillUntil = z]
      BY <1>0 DEF S!ChangeTimeBase, Tracked
    <3> HIDE DEF x, y, z, q
    <3>4. /\ q \in Tracked /\ q.tb = b /\ q.hasOutput = r.hasOutput /\ q.pending = r.pending
          /\ q.forward = r.forward /\ q.fillUntil = z /\ q.next = x
      BY <1>0, <2>1, <3>1, <3>3 DEF Tracked
    <3> QED
      BY <3>2, <3>4 DEF x
  <2>11. ASSUME r.next \in Int PROVE q.next \in Int /\ q.next * b = r.next * r.tb
    <3>1. r.next # None
      BY <2>11, SyncerAssumption
    <3>2. q.next = r.next * n
      BY <2>9, <2>10, <2>11, <3>1 DEF Time
    <3> DEFINE v == r.next
    <3>3. v \in Int /\ q.next = v * n
      BY <2>11, <3>2
    <3> HIDE DEF v
    <3>4. (v * n) * b = v * (n * b) /\ v * n \in Int
      BY <2>1, <3>3, Product, SMTT(20)
    <3> QED
      BY <2>5, <2>6, <3>3, <3>4 DEF v
  <2> HIDE DEF q
  <2>12. r.next # None => r.next \in Int
    BY <1>0 DEF Tracked, Time
  <2>13. q.next # None <=> r.next # None
    BY <2>10, <2>11, <2>12, SyncerAssumption DEF S!Converted
  <2>14. output[t] # None => output[t].end = q.next * q.tb
    BY <2>10, <2>11, <2>12 DEF TrackFits
  <2>15. \E i \in DOMAIN plan.input["video"] : q.tb = plan.input["video"][i].tb
    BY <2>2, <2>10
  <2>16. TrackFits(plan, t, q, output[t], here[t])
    BY <1>1, <2>10, <2>13, <2>14, <2>15 DEF TrackFits
  <2> QED
    BY <1>1, <2>4, <2>10, <2>16 DEF q, b
<1>2. CASE t = "audio"
  BY <1>0, <1>2, SyncerAssumption DEF TrackFits
<1>3. CASE t = "video" /\ r.tb = S!Item(t).tb
  <2>1. next[t] + 1 \in DOMAIN plan.input[t]
    BY HeadType
  <2>2. r.tb <= 2 * MaxDiff
    BY <1>3, <2>1, SyncerAssumption DEF S!Item, SyncTyped
  <2> QED
    BY <1>3, <2>2
<1> QED
  BY <1>1, <1>2, <1>3 DEF S!TrackNames


\* The clock can be read, and reading it keeps the shift.
LEMMA ClockReads ==
  ASSUME SyncTyped
  PROVE  /\ S!Anchored(clock) \in Clocks /\ S!Anchored(clock).shift = clock.shift
         /\ S!Reading(clock) \in Int
<1>1. clock \in Clocks /\ now \in Int
  BY DEF SyncTyped
<1> DEFINE a == S!Anchored(clock)
<1>2. a \in Clocks /\ a.shift = clock.shift /\ a.pts # None
  <2>1. CASE clock.pts = None
    <3> DEFINE start == S!StartTs
    <3>1. a = [clock EXCEPT !.pts = start, !.wall = now]
      BY <2>1 DEF S!Anchored, S!Update
    <3>2. start \in Int /\ start # None
      BY SyncerAssumption DEF S!StartTs
    <3> HIDE DEF a, start
    <3>3. start \in Time
      BY <3>2 DEF Time
    <3>4. a \in Clocks /\ a.shift = clock.shift /\ a.pts = start
      BY <1>1, <3>1, <3>3 DEF Clocks
    <3> QED
      BY <3>2, <3>4
  <2>2. CASE clock.pts # None
    BY <1>1, <2>2 DEF S!Anchored
  <2> QED
    BY <2>1, <2>2
<1> HIDE DEF a
<1>3. a.pts \in Int /\ a.wall \in Int
  BY <1>2 DEF Clocks, Time
<1>4. S!Reading(clock) = IF now - a.wall < Hold THEN a.pts ELSE a.pts + now - a.wall
  BY DEF S!Reading, a
<1> QED
  BY <1>1, <1>2, <1>3, <1>4 DEF a

\* A later frame starts later.
LEMMA LaterStarts ==
  ASSUME NEW a \in Int, NEW b \in Int, NEW w \in Nat, a >= b
  PROVE  a * w - b * w >= 0 /\ a * w \in Int /\ b * w \in Int
<1>1. a - b >= 0 /\ a - b \in Int
  OBVIOUS
<1>2. (a - b) * w >= 0 /\ a * w \in Int /\ b * w \in Int
  BY <1>1, Product
<1>3. (a - b) * w = a * w - b * w
  BY SMTT(20)
<1> QED
  BY <1>2, <1>3

\* A real frame, given what Correct decided about its place and the shifts.
LEMMA RealOutcome ==
  ASSUME SyncTyped, NEW t \in S!TrackNames, here[t], NEW c \in Clocks, NEW r,
         TrackFits(plan, t, r, output[t], here[t]), r.fillUntil = None,
         NEW pts \in Int, S!Real(t, c, r, pts),
         r.shift \in Int, c.shift \in Int,
         S!Abs(S!ToUs(r.shift, r) - c.shift) <= MaxDiff,
         r.next \in Int => IF clock.shift = None THEN r.hasOutput => pts >= r.next
                           ELSE S!Abs(pts * r.tb - r.next * r.tb) < MaxDiff
  PROVE  Outcome(t)
<1>0. r \in Tracked
  BY DEF TrackFits
<1>1. /\ clock' \in Clocks
      /\ clock'.shift = c.shift
      /\ OnlyOutput(t)
      /\ next' = next \/ (here[t] /\ next' = [next EXCEPT ![t] = @ + 1])
      /\ output'[t] # output[t] => output'[t].start = pts * r.tb
  <2>1. clock' \in Clocks /\ clock'.shift = c.shift
    BY RealKeeps, Zenon
  <2>3. OnlyOutput(t) /\ (next' = next \/ (here[t] /\ next' = [next EXCEPT ![t] = @ + 1]))
    BY RealKeeps, Zenon
  <2>4. StartsAt(t, pts, r)
    BY RealKeeps, Zenon
  <2>2. S!ToUs(pts, r) = pts * r.tb
    BY <1>0, Ticks
  <2> QED
    BY <2>1, <2>2, <2>3, <2>4 DEF StartsAt
<1>7. \E q \in Tracked :
         /\ track' = [track EXCEPT ![t] = q] /\ q.shift = r.shift /\ q.tb = r.tb
         /\ TrackFits(plan, t, q, output'[t], Still(t))
  BY RealKeeps, Zenon
<1>2. PICK q \in Tracked :
         /\ track' = [track EXCEPT ![t] = q] /\ q.shift = r.shift /\ q.tb = r.tb
         /\ TrackFits(plan, t, q, output'[t], Still(t))
  BY <1>7
<1>3. track'[t] = q
  BY <1>2 DEF SyncTyped
<1>4. S!ToUs(track'[t].shift, track'[t]) = S!ToUs(r.shift, r)
  BY <1>2, <1>3 DEF S!ToUs
<1>5. clock'.shift # None
  BY <1>1, SyncerAssumption
<1>6. ASSUME output'[t] # output[t], output[t] # None
      PROVE  LET gap == output'[t].start - output[t].end IN
             IF clock.shift = None /\ clock'.shift # None THEN gap >= 0
             ELSE S!Abs(gap) < MaxDiff
  <2>1. output'[t].start = pts * r.tb /\ output[t].end = r.next * r.tb /\ r.hasOutput
    BY <1>1, <1>6 DEF TrackFits
  <2>2. r.next \in Int /\ r.tb \in Nat
    BY <1>0, <2>1 DEF TrackFits, Tracked, Time
  <2>3. CASE clock.shift = None
    BY <1>5, <2>1, <2>2, <2>3, LaterStarts
  <2>4. CASE clock.shift # None
    BY <2>1, <2>2, <2>4
  <2> QED
    BY <2>3, <2>4
<1> QED
  BY <1>1, <1>2, <1>4, <1>6 DEF Outcome

\* Correct, for a track r0 whose head is a frame.
LEMMA CorrectOutcome ==
  ASSUME SyncTyped, NEW t \in S!TrackNames, here[t], NEW r0,
         TrackFits(plan, t, r0, output[t], here[t]), r0.fillUntil = None, S!Correct(t, r0)
  PROVE  Outcome(t)
<1> DEFINE item == S!Item(t)
           r1 == IF t = "video" /\ r0.tb # S!Item(t).tb
                 THEN S!ChangeTimeBase(r0, S!Item(t).tb) ELSE r0
           original == S!Rescale(item.pts, item.tb, r1.tb)
<1>1. /\ TrackFits(plan, t, r1, output[t], here[t]) /\ r1.fillUntil = None
      /\ r1.tb <= 2 * MaxDiff
  BY RebaseKeeps
<1>2. IF clock.shift = None
      THEN LET pts == S!Anchor(clock, r1)
               r2 == [r1 EXCEPT !.shift = pts - original] IN
           S!Real(t, [S!Anchored(clock) EXCEPT !.shift = S!ToUs(r2.shift, r2)], r2, pts)
      ELSE LET r2 == S!Adopt(clock, r1)  pts == original + r2.shift IN
           IF ~S!Jump(r2, pts)
           THEN S!Real(t, IF S!Desync(clock, r1)
                          THEN [clock EXCEPT !.shift = S!ToUs(r2.shift, r2)]
                          ELSE clock, r2, pts)
           ELSE IF pts < r2.next
           THEN S!Real(t, S!AdjustShared(clock, r2, original),
                       S!AdjustTrack(r2, original), r2.next)
           ELSE IF ~r2.tryWithoutFilling
           THEN S!Fill(t, clock, S!BeginFill(r2, pts, TRUE))
           ELSE /\ clock' = S!AdjustShared(clock, r2, original)
                /\ track' = [track EXCEPT ![t] =
                     [S!AdjustTrack(r2, original) EXCEPT
                        !.tryWithoutFilling = FALSE, !.pending = TRUE,
                        !.suspendedUntil = now + Pause]]
                /\ UNCHANGED <<next, output, refusals>>
  BY DEF S!Correct
<1>3. r1 \in Tracked /\ r1.tb \in Nat \ {0}
  BY <1>1 DEF TrackFits, Tracked
<1>4. original \in Int
  <2>1. item.pts \in Int /\ item.tb \in Nat
    BY HeadType
  <2> HIDE DEF item, r1
  <2> QED
    BY <1>3, <2>1, RescaleType
<1> HIDE DEF r1, original
<1>5. clock \in Clocks /\ now \in Int /\ MaxDiff \in Nat \ {0}
  BY SyncerAssumption DEF SyncTyped
<1>6. CASE clock.shift = None
  <2> DEFINE pts == S!Anchor(clock, r1)
             r2 == [r1 EXCEPT !.shift = pts - original]
             us == S!ToUs(r2.shift, r2)
             c == [S!Anchored(clock) EXCEPT !.shift = us]
  <2>1. pts \in Int /\ (r1.next \in Int => (r1.hasOutput => pts >= r1.next))
    <3> DEFINE x == S!FromUs(S!Reading(clock), r1)
    <3>1. x \in Int
      BY <1>3, ClockReads, Ticks
    <3>2. r1.hasOutput => r1.next \in Int
      BY <1>1, <1>3 DEF TrackFits, Tracked, Time
    <3>3. pts = IF r1.hasOutput THEN S!Most(x, r1.next) ELSE x
      BY DEF S!Anchor
    <3> HIDE DEF x, pts
    <3> QED
      BY <3>1, <3>2, <3>3 DEF S!Most
  <2>2. S!Real(t, c, r2, pts)
    BY <1>2, <1>6
  <2> HIDE DEF pts
  <2>3. /\ r2 \in Tracked /\ r2.shift \in Int /\ r2.tb = r1.tb /\ r2.next = r1.next
        /\ r2.hasOutput = r1.hasOutput /\ r2.fillUntil = None /\ r2.pending = r1.pending
        /\ r2.forward = r1.forward
    BY <1>1, <1>3, <1>4, <2>1 DEF Tracked, Time
  <2> HIDE DEF r2
  <2>4. TrackFits(plan, t, r2, output[t], here[t])
    BY <1>1, <2>3 DEF TrackFits
  <2>5. us \in Int
    BY <2>3, Ticks
  <2>6. c \in Clocks /\ c.shift = us
    <3> HIDE DEF us
    <3> QED
      BY <2>5, ClockReads DEF Clocks, Time
  <2> HIDE DEF c
  <2>7. S!Abs(us - c.shift) <= MaxDiff
    BY <1>5, <2>5, <2>6 DEF S!Abs
  <2> QED
    BY <1>6, <2>1, <2>2, <2>3, <2>4, <2>5, <2>6, <2>7, RealOutcome
<1>7. CASE clock.shift # None
  <2> DEFINE r2 == S!Adopt(clock, r1)
             pts == original + r2.shift
             us == S!ToUs(r2.shift, r2)
             adjusted == S!ToUs(r2.next - original, r2)
  <2>0. clock.shift \in Int
    BY <1>5, <1>7 DEF Clocks, Time
  <2>1. /\ r2 \in Tracked /\ r2.shift \in Int /\ r2.tb = r1.tb /\ r2.next = r1.next
        /\ r2.hasOutput = r1.hasOutput /\ r2.fillUntil = None /\ r2.pending = r1.pending
        /\ r2.forward = r1.forward
    <3>1. S!FromUs(clock.shift, r1) \in Int
      BY <1>3, <2>0, Ticks
    <3> DEFINE x == S!FromUs(clock.shift, r1)
    <3>2. r2 = IF r1.shift = None \/ S!Desync(clock, r1) THEN [r1 EXCEPT !.shift = x] ELSE r1
      BY DEF S!Adopt
    <3> HIDE DEF x, r2
    <3>3. CASE r1.shift = None \/ S!Desync(clock, r1)
      BY <1>1, <1>3, <3>1, <3>2, <3>3 DEF Tracked, Time, x
    <3>4. CASE r1.shift # None /\ ~S!Desync(clock, r1)
      BY <1>1, <1>3, <3>2, <3>4 DEF Tracked, Time
    <3> QED
      BY <3>3, <3>4
  <2>2. ~S!Desync(clock, r1) => S!Abs(us - clock.shift) <= MaxDiff
    <3>1. CASE r1.shift = None
      <4> DEFINE x == S!FromUs(clock.shift, r1)
                 b == r1.tb
      <4>1. r2.shift = x /\ x = S!Rescale(clock.shift, 1, b)
        BY <1>3, <3>1 DEF S!Adopt, S!FromUs, Tracked
      <4>2. us = x * b
        BY <2>1, <4>1, Ticks
      <4> HIDE DEF us, b, x
      <4> DEFINE v == clock.shift
      <4>3. v \in Int /\ b \in Nat \ {0} /\ b <= 2 * MaxDiff
        BY <1>1, <1>3, <2>0 DEF b
      <4>4. x = S!Rescale(v, 1, b)
        BY <4>1
      <4> HIDE DEF v
      <4>5. 2 * (x * b) <= 2 * (v * 1) + b /\ 2 * (v * 1) - b <= 2 * (x * b) /\ x \in Int
        BY <4>3, <4>4, RescaleNear
      <4>6. us \in Int /\ 2 * us <= 2 * v + b /\ 2 * v - b <= 2 * us
        BY <4>2, <4>3, <4>5, Product
      <4>7. S!Abs(us - v) <= MaxDiff
        BY <1>5, <4>3, <4>6 DEF S!Abs
      <4> QED
        BY <4>7 DEF v
    <3>2. CASE r1.shift # None
      <4> SUFFICES ASSUME ~S!Desync(clock, r1) PROVE S!Abs(us - clock.shift) <= MaxDiff
        OBVIOUS
      <4>1. r2 = r1
        BY <3>2 DEF S!Adopt
      <4>2. ~(S!Abs(us - clock.shift) >= MaxDiff + 1) /\ us \in Int
        BY <2>1, <3>2, <4>1, Ticks DEF S!Desync, S!Apart
      <4> HIDE DEF us
      <4> QED
        BY <1>5, <2>0, <4>2 DEF S!Abs
    <3> QED
      BY <3>1, <3>2
  <2>3. IF ~S!Jump(r2, pts)
        THEN S!Real(t, IF S!Desync(clock, r1)
                       THEN [clock EXCEPT !.shift = us] ELSE clock, r2, pts)
        ELSE IF pts < r2.next
        THEN S!Real(t, S!AdjustShared(clock, r2, original),
                    S!AdjustTrack(r2, original), r2.next)
        ELSE IF ~r2.tryWithoutFilling
        THEN S!Fill(t, clock, S!BeginFill(r2, pts, TRUE))
        ELSE /\ clock' = S!AdjustShared(clock, r2, original)
             /\ track' = [track EXCEPT ![t] =
                  [S!AdjustTrack(r2, original) EXCEPT
                     !.tryWithoutFilling = FALSE, !.pending = TRUE,
                     !.suspendedUntil = now + Pause]]
             /\ UNCHANGED <<next, output, refusals>>
    BY <1>2, <1>7
  <2>4. pts \in Int /\ us \in Int
    BY <1>4, <2>1, Ticks
  <2> HIDE DEF r2
  <2>5. TrackFits(plan, t, r2, output[t], here[t])
    BY <1>1, <2>1 DEF TrackFits
  <2>6. S!Jump(r2, pts) =>
          /\ r2.next \in Int /\ adjusted \in Int
          /\ S!AdjustShared(clock, r2, original) \in Clocks
          /\ S!AdjustShared(clock, r2, original).shift = adjusted
    <3> SUFFICES ASSUME S!Jump(r2, pts)
                 PROVE  /\ r2.next \in Int /\ adjusted \in Int
                        /\ S!AdjustShared(clock, r2, original) \in Clocks
                        /\ S!AdjustShared(clock, r2, original).shift = adjusted
      OBVIOUS
    <3>1. r2.next \in Int
      BY <2>1 DEF S!Jump, Tracked, Time
    <3>2. adjusted \in Int
      BY <1>4, <2>1, <3>1, Ticks
    <3>3. S!AdjustShared(clock, r2, original) = [clock EXCEPT !.shift = adjusted]
      BY DEF S!AdjustShared
    <3> HIDE DEF adjusted
    <3> QED
      BY <1>5, <3>1, <3>2, <3>3 DEF Clocks, Time
  <2>7. CASE ~S!Jump(r2, pts)
    <3> DEFINE c == IF S!Desync(clock, r1) THEN [clock EXCEPT !.shift = us] ELSE clock
    <3>1. S!Real(t, c, r2, pts)
      BY <2>3, <2>7
    <3>2. /\ c \in Clocks /\ c.shift \in Int
          /\ S!Abs(us - c.shift) <= MaxDiff
      <4> HIDE DEF us
      <4>1. CASE S!Desync(clock, r1)
        BY <1>5, <2>4, <4>1 DEF Clocks, Time, S!Abs
      <4>2. CASE ~S!Desync(clock, r1)
        BY <1>5, <2>0, <2>2, <4>2
      <4> QED
        BY <4>1, <4>2
    <3> HIDE DEF c
    <3>3. r2.next \in Int => S!Abs(pts * r2.tb - r2.next * r2.tb) < MaxDiff
      <4> SUFFICES ASSUME r2.next \in Int
                   PROVE  S!Abs(pts * r2.tb - r2.next * r2.tb) < MaxDiff
        OBVIOUS
      <4>1. r2.tb \in Int
        BY <2>1 DEF Tracked
      <4> DEFINE x == pts * r2.tb
                 y == r2.next * r2.tb
      <4>2. x \in Int /\ y \in Int
        BY <2>4, <4>1, Product
      <4>3. S!ToUs(pts, r2) = x /\ S!ToUs(r2.next, r2) = y
        BY <2>1, <2>4, Ticks
      <4>4. r2.next # None
        BY SyncerAssumption
      <4>5. pts = r2.next \/ ~(S!Abs(x - y) >= MaxDiff)
        BY <2>7, <4>3, <4>4 DEF S!Jump, S!Apart
      <4>6. pts = r2.next => x = y
        OBVIOUS
      <4> HIDE DEF x, y
      <4> QED
        BY <1>5, <4>2, <4>5, <4>6 DEF S!Abs, x, y
    <3> QED
      BY <1>7, <2>1, <2>4, <2>5, <3>1, <3>2, <3>3, RealOutcome
  <2>8. CASE S!Jump(r2, pts) /\ pts < r2.next
    <3> DEFINE q == S!AdjustTrack(r2, original)
               c == S!AdjustShared(clock, r2, original)
    <3>1. S!Real(t, c, q, r2.next)
      BY <2>3, <2>8
    <3>2. /\ q \in Tracked /\ q.shift = r2.next - original /\ q.tb = r2.tb /\ q.next = r2.next
          /\ q.hasOutput = r2.hasOutput /\ q.fillUntil = None /\ q.pending = r2.pending
          /\ q.forward = r2.forward
      BY <1>4, <2>1, <2>6, <2>8 DEF S!AdjustTrack, Tracked, Time
    <3>3. q.shift \in Int /\ c \in Clocks /\ c.shift = adjusted /\ adjusted \in Int
      BY <1>4, <2>6, <2>8, <3>2
    <3>4. S!ToUs(q.shift, q) = adjusted
      BY <3>2 DEF S!ToUs
    <3> HIDE DEF q, c
    <3>5. TrackFits(plan, t, q, output[t], here[t])
      BY <2>5, <3>2 DEF TrackFits
    <3> HIDE DEF adjusted
    <3>6. S!Abs(S!ToUs(q.shift, q) - c.shift) <= MaxDiff
      BY <1>5, <3>3, <3>4 DEF S!Abs
    <3>7. S!Abs(r2.next * q.tb - q.next * q.tb) < MaxDiff
      <4>1. r2.next * q.tb = q.next * q.tb
        BY <3>2
      <4> DEFINE x == q.next * q.tb
      <4>2. x \in Int
        BY <2>6, <2>8, <3>2, Product DEF Tracked
      <4> HIDE DEF x
      <4>3. S!Abs(x - x) < MaxDiff
        BY <1>5, <4>2 DEF S!Abs
      <4> QED
        BY <4>1, <4>3 DEF x
    <3> QED
      BY <1>7, <2>6, <2>8, <3>1, <3>2, <3>3, <3>5, <3>6, <3>7, RealOutcome
  <2>9. CASE S!Jump(r2, pts) /\ ~(pts < r2.next) /\ ~r2.tryWithoutFilling
    <3> DEFINE q == S!BeginFill(r2, pts, TRUE)
    <3>1. S!Fill(t, clock, q)
      BY <2>3, <2>9
    <3> HIDE DEF pts, q
    <3>2. /\ q \in Tracked /\ q.tb = r2.tb /\ q.next = r2.next /\ q.hasOutput = r2.hasOutput
          /\ q.fillUntil = pts /\ q.pending = r2.pending
      <4> DEFINE zero == 0
      <4>1. /\ q = [r2 EXCEPT !.fillUntil = pts, !.forward = TRUE, !.filled = zero,
                               !.filledUs = zero]
            /\ pts \in Time /\ zero \in Int
        BY <2>4 DEF S!BeginFill, Time, q
      <4> HIDE DEF zero
      <4> QED
        BY <2>1, <4>1 DEF Tracked
    <3> HIDE DEF q
    <3>3. q.next # None /\ q.fillUntil # None
      BY <2>4, <2>6, <2>9, <3>2, SyncerAssumption
    <3>4. TrackFits(plan, t, q, output[t], here[t])
      BY <2>5, <3>2, <3>3 DEF TrackFits
    <3> QED
      BY <1>5, <3>1, <3>3, <3>4, FillOutcome
  <2>10. CASE S!Jump(r2, pts) /\ ~(pts < r2.next) /\ r2.tryWithoutFilling
    <3> DEFINE until == now + Pause
               q == [S!AdjustTrack(r2, original) EXCEPT !.tryWithoutFilling = FALSE,
                       !.pending = TRUE, !.suspendedUntil = until]
    <3>1. /\ clock' = S!AdjustShared(clock, r2, original)
          /\ track' = [track EXCEPT ![t] = q] /\ next' = next /\ output' = output
      BY <2>3, <2>10
    <3>2. until \in Int
      BY <1>5, SyncerAssumption
    <3> DEFINE shift == r2.next - original
    <3>0. shift \in Int /\ shift \in Time
      BY <1>4, <2>6, <2>10 DEF Time
    <3>6. q = [r2 EXCEPT !.shift = shift, !.tryWithoutFilling = FALSE,
                         !.pending = TRUE, !.suspendedUntil = until]
      BY <2>1 DEF S!AdjustTrack, Tracked
    <3> HIDE DEF until, shift, q
    <3>3. /\ q \in Tracked /\ q.tb = r2.tb /\ q.next = r2.next
          /\ q.hasOutput = r2.hasOutput /\ q.fillUntil = None
      BY <2>1, <3>0, <3>2, <3>6 DEF Tracked
    <3>4. TrackFits(plan, t, q, output'[t], Still(t))
      BY <1>7, <2>5, <3>1, <3>3 DEF TrackFits, Still
    <3>5. OnlyOutput(t)
      BY <3>1 DEF OnlyOutput, SyncTyped
    <3> QED
      BY <2>6, <2>10, <3>1, <3>3, <3>4, <3>5 DEF Outcome
  <2> QED
    BY <2>7, <2>8, <2>9, <2>10
<1> QED
  BY <1>6, <1>7


\* A step that only may take the head.
LEMMA IdleOutcome ==
  ASSUME SyncTyped, NEW t \in S!TrackNames,
         TrackFits(plan, t, track[t], output[t], here[t]),
         clock' = clock, track' = track, output' = output,
         next' = next \/ (/\ here[t] /\ next' = [next EXCEPT ![t] = @ + 1]
                          /\ track[t].fillUntil = None /\ ~track[t].pending)
  PROVE  Outcome(t)
<1> DEFINE q == track[t]
<1>1. q \in Tracked /\ track' = [track EXCEPT ![t] = q]
  BY DEF TrackFits, SyncTyped
<1>2. clock' \in Clocks /\ OnlyOutput(t)
  BY DEF SyncTyped, OnlyOutput
<1>3. TrackFits(plan, t, q, output'[t], Still(t))
  <2>1. CASE next' = next
    BY <2>1 DEF TrackFits, Still
  <2>2. CASE /\ here[t] /\ next' = [next EXCEPT ![t] = @ + 1]
             /\ track[t].fillUntil = None /\ ~track[t].pending
    BY <2>2 DEF TrackFits
  <2> QED
    BY <2>1, <2>2
<1>4. next' = next \/ (here[t] /\ next' = [next EXCEPT ![t] = @ + 1])
  OBVIOUS
<1>5. output'[t] = output[t]
  OBVIOUS
<1> HIDE DEF q
<1> QED
  BY <1>1, <1>2, <1>3, <1>4, <1>5 DEF Outcome

\* Missing, for a track that rests.
LEMMA MissingOutcome ==
  ASSUME SyncTyped, NEW t \in S!TrackNames,
         TrackFits(plan, t, track[t], output[t], here[t]),
         track[t].fillUntil = None, ~track[t].pending, S!Missing(t)
  PROVE  Outcome(t)
<1> DEFINE r0 == track[t]
           r1 == IF r0.next = None THEN [r0 EXCEPT !.next = S!FromUs(S!StartTs, r0)] ELSE r0
           target == S!FromUs(S!Reading(clock), r1)
           r2 == [r1 EXCEPT !.lastSuccess = FALSE, !.waitUntil = now + Poll]
           q == S!BeginFill(r2, target, FALSE)
           c == S!Anchored(clock)
<1>1. \/ S!Fill(t, c, q)
      \/ /\ clock' = c /\ track' = [track EXCEPT ![t] = r2]
         /\ next' = next /\ output' = output
  BY DEF S!Missing
<1>2. c \in Clocks /\ S!Reading(clock) \in Int
  BY ClockReads
<1>3. r0 \in Tracked /\ now \in Int
  BY DEF TrackFits, SyncTyped
<1>4. /\ r1 \in Tracked /\ r1.next \in Int /\ r1.tb = r0.tb /\ r1.hasOutput = r0.hasOutput
      /\ r1.fillUntil = None /\ r1.pending = FALSE
      /\ (r0.next # None => r1.next = r0.next)
  <2> DEFINE start == S!FromUs(S!StartTs, r0)
  <2>1. start \in Int
    BY <1>3, Ticks DEF S!StartTs
  <2>2. r1 = IF r0.next = None THEN [r0 EXCEPT !.next = start] ELSE r0
    OBVIOUS
  <2>3. r0.fillUntil = None /\ r0.pending = FALSE
    BY <1>3 DEF Tracked
  <2> HIDE DEF start, r1, r0
  <2> QED
    BY <1>3, <2>1, <2>2, <2>3 DEF Tracked, Time
<1>5. target \in Int
  BY <1>2, <1>4, Ticks
<1>6. TrackFits(plan, t, r0, output[t], here[t])
  OBVIOUS
<1> HIDE DEF r0
<1>7. r1.next # None
  BY <1>4, SyncerAssumption
<1>8. r0.hasOutput => r0.next # None
  BY <1>6 DEF TrackFits
<1> HIDE DEF r1, target, c
<1>9. /\ r2 \in Tracked /\ r2.next = r1.next /\ r2.tb = r1.tb /\ r2.hasOutput = r1.hasOutput
      /\ r2.fillUntil = None /\ r2.pending = FALSE /\ r2.forward = r1.forward
  <2> DEFINE until == now + Poll
  <2>1. until \in Int
    BY <1>3, SyncerAssumption
  <2>2. r2 = [r1 EXCEPT !.lastSuccess = FALSE, !.waitUntil = until]
    OBVIOUS
  <2> HIDE DEF until, r2
  <2> QED
    <3>1. r1 \in Tracked
      BY <1>4
    <3>2. /\ r2 \in Tracked /\ r2.next = r1.next /\ r2.tb = r1.tb
          /\ r2.hasOutput = r1.hasOutput /\ r2.fillUntil = r1.fillUntil
          /\ r2.pending = r1.pending /\ r2.forward = r1.forward
      BY <2>1, <2>2, <3>1 DEF Tracked
    <3> QED
      BY <1>4, <3>2
<1> HIDE DEF r2
<1>10. TrackFits(plan, t, r2, output[t], here[t])
  <2>1. r2.tb = r0.tb /\ r2.hasOutput = r0.hasOutput /\ r2.next # None
    BY <1>4, <1>7, <1>9
  <2>2. r0.hasOutput => r2.next = r0.next
    BY <1>4, <1>8, <1>9
  <2>3. output[t] # None => r2.hasOutput /\ output[t].end = r2.next * r2.tb
    BY <1>6, <2>1, <2>2 DEF TrackFits
  <2> QED
    BY <1>6, <1>9, <2>1, <2>3 DEF TrackFits
<1>11. CASE S!Fill(t, c, q)
  <2> DEFINE zero == 0
  <2>1. /\ q = [r2 EXCEPT !.fillUntil = target, !.forward = FALSE, !.filled = zero,
                          !.filledUs = zero]
        /\ target \in Time /\ zero \in Int
    BY <1>5 DEF S!BeginFill, Time
  <2>2. target # None
    BY <1>5, SyncerAssumption
  <2> HIDE DEF zero, q
  <2>3. /\ q \in Tracked /\ q.next = r2.next /\ q.tb = r2.tb /\ q.hasOutput = r2.hasOutput
        /\ q.fillUntil = target /\ q.pending = r2.pending /\ q.forward = FALSE
    BY <1>9, <2>1 DEF Tracked
  <2>4. TrackFits(plan, t, q, output[t], here[t])
    BY <1>4, <1>7, <1>9, <1>10, <2>3 DEF TrackFits
  <2> QED
    BY <1>2, <1>11, <2>2, <2>3, <2>4, FillOutcome
<1>12. CASE /\ clock' = c /\ track' = [track EXCEPT ![t] = r2]
            /\ next' = next /\ output' = output
  <2>1. OnlyOutput(t)
    BY <1>12 DEF SyncTyped, OnlyOutput
  <2>2. TrackFits(plan, t, r2, output'[t], Still(t))
    BY <1>4, <1>9, <1>10, <1>12 DEF TrackFits
  <2> QED
    BY <1>2, <1>9, <1>12, <2>1, <2>2 DEF Outcome
<1> QED
  BY <1>1, <1>11, <1>12

\* Step is an Outcome, and lets go of the head it consumed.
LEMMA StepOutcome ==
  ASSUME SyncInv, NEW t \in S!TrackNames, S!Step(t)
  PROVE  Outcome(t)
<1> DEFINE r == track[t]
<1>1. SyncTyped /\ TrackFits(plan, t, r, output[t], here[t])
  BY DEF SyncInv
<1>2. r \in Tracked /\ clock \in Clocks
  BY <1>1 DEF TrackFits, SyncTyped
<1>3. \/ r.fillUntil # None /\ S!Fill(t, clock, r)
      \/ S!Idle
      \/ r.fillUntil = None /\ r.pending /\ S!Resume(t)
      \/ /\ r.fillUntil = None /\ ~r.pending /\ here[t]
         /\ next' = [next EXCEPT ![t] = @ + 1]
         /\ UNCHANGED <<clock, track, output, refusals>>
      \/ r.fillUntil = None /\ here[t] /\ S!Correct(t, r)
      \/ r.fillUntil = None /\ ~r.pending /\ S!Missing(t)
  BY DEF S!Step
<1>4. CASE r.fillUntil # None /\ S!Fill(t, clock, r)
  BY <1>1, <1>2, <1>4, FillOutcome
<1>5. CASE S!Idle
  BY <1>1, <1>5, IdleOutcome DEF S!Idle
<1>6. CASE r.fillUntil = None /\ r.pending /\ S!Resume(t)
  <2> DEFINE q == [r EXCEPT !.pending = FALSE]
  <2>1. here[t] /\ S!Correct(t, q)
    BY <1>1, <1>6 DEF TrackFits, S!Resume
  <2> HIDE DEF r
  <2>2. /\ q \in Tracked /\ q.next = r.next /\ q.tb = r.tb /\ q.hasOutput = r.hasOutput
        /\ q.fillUntil = None /\ ~q.pending
    BY <1>2, <1>6 DEF Tracked
  <2> HIDE DEF q
  <2>3. TrackFits(plan, t, q, output[t], here[t])
    BY <1>1, <2>2 DEF TrackFits
  <2> QED
    BY <1>1, <2>1, <2>2, <2>3, CorrectOutcome
<1>7. CASE /\ r.fillUntil = None /\ ~r.pending /\ here[t]
           /\ next' = [next EXCEPT ![t] = @ + 1]
           /\ UNCHANGED <<clock, track, output, refusals>>
  BY <1>1, <1>7, IdleOutcome
<1>8. CASE r.fillUntil = None /\ here[t] /\ S!Correct(t, r)
  BY <1>1, <1>8, CorrectOutcome
<1>9. CASE r.fillUntil = None /\ ~r.pending /\ S!Missing(t)
  BY <1>1, <1>9, MissingOutcome
<1> QED
  BY <1>3, <1>4, <1>5, <1>6, <1>7, <1>8, <1>9


\* The tracks start with nothing emitted.
LEMMA SyncStarts ==
  ASSUME S!Init PROVE SyncInv
<1>1. /\ plan \in Plans /\ now \in Int /\ clock = [pts |-> None, wall |-> 0, shift |-> None]
      /\ track = [t \in S!TrackNames |-> S!NewTrack(t, plan.startShift)]
      /\ next = [t \in S!TrackNames |-> 0] /\ here = [t \in S!TrackNames |-> FALSE]
      /\ output = [t \in S!TrackNames |-> None]
  BY DEF S!Init
<1>2. clock \in Clocks
  BY <1>1 DEF Clocks, Time
<1>3. ASSUME NEW t \in S!TrackNames
      PROVE  /\ S!NewTrack(t, plan.startShift) \in Tracked
             /\ TrackFits(plan, t, S!NewTrack(t, plan.startShift), None, FALSE)
  <2> DEFINE tb == IF t = "video" THEN FrameTicks ELSE SampleTicks
             start == IF plan.startShift THEN None ELSE S!Rescale(S!StartTs, 1, tb)
             wait == InitialTimeout
             zero == 0
             r == S!NewTrack(t, plan.startShift)
  <2>1. tb \in Nat \ {0} /\ wait \in Int /\ zero \in Int
    BY SyncerAssumption
  <2>2. start \in Time
    <3>1. S!Rescale(S!StartTs, 1, tb) \in Int
      BY <2>1, RescaleType DEF S!StartTs
    <3> QED
      BY <3>1 DEF Time
  <2>3. r = [tb |-> tb, next |-> start, shift |-> None, lastSuccess |-> TRUE,
             hasOutput |-> FALSE, waitUntil |-> wait, tryWithoutFilling |-> FALSE,
             fillUntil |-> None, forward |-> FALSE, filled |-> zero, filledUs |-> zero,
             pending |-> FALSE, suspendedUntil |-> zero]
    BY DEF S!NewTrack
  <2>4. (t = "audio" => tb = SampleTicks) /\ (t = "video" => tb = FrameTicks)
    OBVIOUS
  <2> HIDE DEF tb, start, wait, zero, r
  <2>5. r \in Tracked
    BY <2>1, <2>2, <2>3 DEF Tracked, Time
  <2>6. /\ r.tb = tb /\ r.hasOutput = FALSE /\ r.fillUntil = None /\ r.forward = FALSE
        /\ r.pending = FALSE
    BY <2>3
  <2>7. TrackFits(plan, t, r, None, FALSE)
    BY <2>4, <2>5, <2>6 DEF TrackFits
  <2> QED
    BY <2>5, <2>7 DEF r
<1>4. /\ track \in [S!TrackNames -> Tracked] /\ output \in [S!TrackNames -> Outs]
      /\ here \in [S!TrackNames -> BOOLEAN] /\ next \in [S!TrackNames -> Nat]
      /\ \A t \in S!TrackNames : ~here[t]
  BY <1>1, <1>3 DEF Outs
<1>5. SyncTyped
  BY <1>1, <1>2, <1>4 DEF SyncTyped
<1>6. ASSUME NEW t \in S!TrackNames PROVE TrackFits(plan, t, track[t], output[t], here[t])
  <2>1. track[t] = S!NewTrack(t, plan.startShift) /\ output[t] = None /\ here[t] = FALSE
    BY <1>1
  <2> QED
    BY <1>3, <2>1
<1> QED
  BY <1>5, <1>6 DEF SyncInv

\* Every step of the syncer keeps what its tracks know.
LEMMA SyncKeeps ==
  ASSUME SyncInv, S!Next PROVE SyncInv'
<1>0. SyncTyped /\ \A t \in S!TrackNames : TrackFits(plan, t, track[t], output[t], here[t])
  BY DEF SyncInv
<1>1. CASE S!Advance
  <2>1. /\ now' \in Int /\ plan' = plan /\ clock' = clock /\ track' = track /\ next' = next
        /\ here' = here /\ output' = output
    <3>1. PICK d \in Advances : now' = now + d
      BY <1>1 DEF S!Advance
    <3>2. d \in Int /\ now \in Int
      BY <1>0, SyncerAssumption DEF SyncTyped
    <3> QED
      BY <1>1, <3>1, <3>2 DEF S!Advance
  <2> QED
    BY <1>0, <2>1 DEF SyncInv, SyncTyped
<1>2. ASSUME NEW t \in S!TrackNames, S!Arrive(t) PROVE SyncInv'
  <2>1. /\ now' = now /\ plan' = plan /\ clock' = clock /\ track' = track /\ next' = next
        /\ output' = output /\ here' = [here EXCEPT ![t] = TRUE]
        /\ ~here[t] /\ next[t] < Len(plan.input[t])
    BY <1>2 DEF S!Arrive
  <2>2. here' \in [S!TrackNames -> BOOLEAN]
        /\ \A u \in S!TrackNames : here'[u] => next'[u] < Len(plan'.input[u])
    BY <1>0, <2>1 DEF SyncTyped
  <2>3. SyncTyped'
    BY <1>0, <2>1, <2>2 DEF SyncTyped
  <2>4. ASSUME NEW u \in S!TrackNames
        PROVE  TrackFits(plan', u, track'[u], output'[u], here'[u])
    <3>1. TrackFits(plan, u, track[u], output[u], here[u]) /\ (here[u] => here'[u])
      BY <1>0, <2>1 DEF SyncTyped
    <3> QED
      BY <2>1, <3>1 DEF TrackFits
  <2> QED
    BY <2>3, <2>4 DEF SyncInv
<1>3. ASSUME NEW t \in S!TrackNames, S!Step(t) PROVE SyncInv'
  <2>1. /\ plan' = plan /\ now' = now
        /\ here' = IF next'[t] # next[t] THEN [here EXCEPT ![t] = FALSE] ELSE here
    BY <1>3 DEF S!Step
  <2>2. Outcome(t)
    BY <1>3, StepOutcome
  <2>3. PICK q \in Tracked :
          /\ track' = [track EXCEPT ![t] = q]
          /\ TrackFits(plan, t, q, output'[t], Still(t))
    BY <2>2 DEF Outcome
  <2>4. /\ clock' \in Clocks /\ OnlyOutput(t)
        /\ next' = next \/ (here[t] /\ next' = [next EXCEPT ![t] = @ + 1])
    BY <2>2 DEF Outcome
  <2>5. /\ here' \in [S!TrackNames -> BOOLEAN] /\ next' \in [S!TrackNames -> Nat]
        /\ track' \in [S!TrackNames -> Tracked]
        /\ here'[t] = Still(t)
        /\ \A u \in S!TrackNames \ {t} :
             here'[u] = here[u] /\ next'[u] = next[u] /\ track'[u] = track[u]
        /\ track'[t] = q
    <3>1. /\ next \in [S!TrackNames -> Nat] /\ here \in [S!TrackNames -> BOOLEAN]
          /\ track \in [S!TrackNames -> Tracked]
      BY <1>0 DEF SyncTyped
    <3>2. CASE next' = next
      BY <2>1, <2>3, <3>1, <3>2 DEF Still
    <3>3. CASE next' = [next EXCEPT ![t] = @ + 1]
      <4>1. next'[t] = next[t] + 1 /\ next[t] \in Nat
        BY <3>1, <3>3
      <4>2. here' = [here EXCEPT ![t] = FALSE] /\ Still(t) = FALSE
        BY <2>1, <4>1 DEF Still
      <4>3. /\ here' \in [S!TrackNames -> BOOLEAN] /\ here'[t] = FALSE
            /\ \A u \in S!TrackNames \ {t} : here'[u] = here[u]
        BY <3>1, <4>2
      <4>4. /\ next' \in [S!TrackNames -> Nat]
            /\ \A u \in S!TrackNames \ {t} : next'[u] = next[u]
        BY <3>1, <3>3
      <4>5. /\ track' \in [S!TrackNames -> Tracked] /\ track'[t] = q
            /\ \A u \in S!TrackNames \ {t} : track'[u] = track[u]
        BY <2>3, <3>1
      <4> QED
        BY <4>2, <4>3, <4>4, <4>5
    <3> QED
      BY <2>4, <3>2, <3>3
  <2>6. \A u \in S!TrackNames : here'[u] => next'[u] < Len(plan'.input[u])
    <3> SUFFICES ASSUME NEW u \in S!TrackNames, here'[u]
                 PROVE  next'[u] < Len(plan.input[u])
      BY <2>1
    <3>1. here[u] /\ next'[u] = next[u]
      BY <2>5 DEF Still
    <3> QED
      BY <1>0, <3>1 DEF SyncTyped
  <2>7. SyncTyped'
    BY <1>0, <2>1, <2>4, <2>5, <2>6 DEF SyncTyped, OnlyOutput
  <2>8. ASSUME NEW u \in S!TrackNames
        PROVE  TrackFits(plan', u, track'[u], output'[u], here'[u])
    <3>1. CASE u = t
      BY <2>1, <2>3, <2>5, <3>1
    <3>2. CASE u # t
      <4>1. /\ track'[u] = track[u] /\ output'[u] = output[u] /\ here'[u] = here[u]
            /\ plan' = plan
        BY <2>1, <2>4, <2>5, <3>2 DEF OnlyOutput
      <4>2. TrackFits(plan, u, track[u], output[u], here[u])
        BY <1>0
      <4> QED
        BY <4>1, <4>2
    <3> QED
      BY <3>1, <3>2
  <2> QED
    BY <2>7, <2>8 DEF SyncInv
<1> QED
  BY <1>1, <1>2, <1>3 DEF S!Next

\* What an output relates, in any step.
Continues ==
  \A t \in S!TrackNames :
    (output'[t] # output[t] /\ output[t] # None) =>
      LET gap == output'[t].start - output[t].end IN
      IF clock.shift = None /\ clock'.shift # None THEN gap >= 0
      ELSE S!Abs(gap) < MaxDiff
KeepsSync ==
  \A t \in S!TrackNames :
    (output'[t] # output[t] /\ output'[t].real) =>
      S!Abs(S!ToUs(track'[t].shift, track'[t]) - clock'.shift) <= MaxDiff

\* Every step of the syncer does both.
LEMMA SyncSteps ==
  ASSUME SyncInv, S!Next PROVE Continues /\ KeepsSync
<1>1. CASE output' = output
  BY <1>1 DEF Continues, KeepsSync
<1>2. ASSUME NEW t \in S!TrackNames, S!Step(t) PROVE Continues /\ KeepsSync
  <2>1. Outcome(t)
    BY <1>2, StepOutcome
  <2>2. \A u \in S!TrackNames \ {t} : output'[u] = output[u]
    BY <2>1 DEF Outcome, OnlyOutput
  <2>3. output'[t] # output[t] =>
       /\ output[t] # None =>
            LET gap == output'[t].start - output[t].end IN
            IF clock.shift = None /\ clock'.shift # None THEN gap >= 0
            ELSE S!Abs(gap) < MaxDiff
       /\ output'[t].real =>
            S!Abs(S!ToUs(track'[t].shift, track'[t]) - clock'.shift) <= MaxDiff
    BY <2>1 DEF Outcome
  <2>4. Continues
    BY <2>2, <2>3 DEF Continues
  <2>5. KeepsSync
    BY <2>2, <2>3 DEF KeepsSync
  <2> QED
    BY <2>4, <2>5
<1> QED
  BY <1>1, <1>2 DEF S!Next, S!Advance, S!Arrive

\* The invariant of the syncer, in the behaviours that run it.
SyncRuns == which = "syncer" => SyncInv

\* It holds.
LEMMA SyncHolds == MCSpec => []SyncRuns
<1>1. MCInit => SyncRuns
  BY SyncStarts DEF MCInit, SyncRuns
<1>2. SyncRuns /\ [MCNext]_<<which, vars, syncerVars, rateVars>> => SyncRuns'
  <2> SUFFICES ASSUME SyncRuns, [MCNext]_<<which, vars, syncerVars, rateVars>>,
                      which' = "syncer"
               PROVE  SyncInv'
    BY DEF SyncRuns
  <2>1. which = "syncer" /\ SyncInv
    BY DEF MCNext, SyncRuns
  <2>2. CASE S!Next
    BY <2>1, <2>2, SyncKeeps
  <2>3. CASE UNCHANGED <<which, vars, syncerVars, rateVars>>
    <3>1. /\ now' = now /\ plan' = plan /\ clock' = clock /\ track' = track /\ next' = next
          /\ output' = output /\ here' = here
      BY <2>3 DEF vars, syncerVars
    <3> QED
      BY <2>1, <3>1 DEF SyncInv, SyncTyped
  <2> QED
    BY <2>1, <2>2, <2>3 DEF MCNext
<1> QED
  BY <1>1, <1>2, PTL DEF MCSpec

\* No step of a behaviour breaks either property.
LEMMA SyncActs ==
  ASSUME SyncRuns, [MCNext]_<<which, vars, syncerVars, rateVars>>
  PROVE  Continues /\ KeepsSync
<1>1. CASE output' = output
  BY <1>1 DEF Continues, KeepsSync
<1>2. CASE which = "syncer" /\ S!Next
  BY <1>2, SyncSteps DEF SyncRuns
<1> QED
  BY <1>1, <1>2 DEF MCNext, syncerVars

\* The output of a track of the Syncer is continuous (Correct, Fill): whatever
\* the input, the fillers, the refusals and the other track do, a frame starts
\* where the one before it ended, to less than the tolerance of a jump, and the
\* frame that anchors the session not before that end.
THEOREM OutputContinuous == MCSpec => Continuous
<1>1. SyncRuns /\ [MCNext]_<<which, vars, syncerVars, rateVars>> => [Continues]_(S!vars)
  BY SyncActs
<1> QED
  BY <1>1, SyncHolds, PTL DEF MCSpec, Continuous, S!Continuous, Continues

\* A real frame leaves the Syncer with the shared shift (Correct), to the
\* tolerance, although the other track moves that shift while a frame waits.
THEOREM RealInSync == MCSpec => InSync
<1>1. SyncRuns /\ [MCNext]_<<which, vars, syncerVars, rateVars>> => [KeepsSync]_(S!vars)
  BY SyncActs
<1> QED
  BY <1>1, SyncHolds, PTL DEF MCSpec, InSync, S!InSync, KeepsSync

-----------------------------------------------------------------------------
(* The frame rate filter, for any timestamps and any period.               *)

Queued == [eof : BOOLEAN, time : Int \cup {None}, image : Int]

\* A frame has a timestamp; with a grid, its memory is the picture taken last,
\* and the slot after the last output is next.
RateInv ==
  /\ pushed \in Nat /\ lastInput \in Time /\ nextPts \in Time
  /\ inputs \in Seq({q \in Queued : ~q.eof => q.time \in Int})
  /\ nextPts # None => picture.image = taken
  /\ shown # None => /\ nextPts \in Int /\ shown.pts \in Int
                     /\ nextPts = shown.pts + 1

\* A timestamp has a slot.
LEMMA SlotType ==
  ASSUME NEW ticks \in Int PROVE R!Rescale(ticks) \in Int
<1> DEFINE a == 2 * R!Size(ticks) + Period
           b == 2 * Period
<1>1. a \in Nat /\ b \in Nat \ {0}
  BY RateAssumption DEF R!Size
<1> HIDE DEF a, b
<1>2. a \div b \in Int
  BY <1>1, Quotient
<1>3. R!Rescale(ticks) = IF ticks < 0 THEN -(a \div b) ELSE a \div b
  BY DEF R!Rescale, a, b
<1> QED
  BY <1>2, <1>3

\* The step of the grid.
OnGrid ==
  (shown' # shown /\ shown # None /\ shown' # None) =>
    /\ shown'.image = taken'
    /\ \/ shown'.pts = shown.pts + 1
       \/ /\ ~shown'.duplicate /\ inputs' = Tail(inputs)
          /\ shown'.pts = R!Rescale(Head(inputs).time)
          /\ shown'.pts < lastInput \/ shown'.pts > lastInput + 1 + HalfSecond

\* The filter starts without a grid.
LEMMA RateStarts ==
  ASSUME R!Init PROVE RateInv
<1>1. /\ pushed = 0 /\ lastInput = None /\ nextPts = None /\ inputs = <<>> /\ shown = None
  BY DEF R!Init
<1> QED
  BY <1>1 DEF RateInv, Time

\* Every call keeps the grid.
LEMMA RateSteps ==
  ASSUME RateInv, R!Next PROVE RateInv' /\ OnGrid
<1> DEFINE X == {q \in Queued : ~q.eof => q.time \in Int}
<1>0. inputs \in Seq(X) /\ pushed \in Nat /\ lastInput \in Time /\ nextPts \in Time
  BY DEF RateInv
<1>1. CASE R!TryPushFrame
  <2>1. PICK time \in Times \cup {None} :
          /\ inputs' = Append(inputs, [eof |-> time = None, time |-> time, image |-> pushed'])
          /\ pushed' = pushed + 1
    BY <1>1 DEF R!TryPushFrame
  <2> DEFINE q == [eof |-> time = None, time |-> time, image |-> pushed']
  <2>2. q \in X
    BY <1>0, <2>1, RateAssumption DEF Queued
  <2> HIDE DEF q, X
  <2>3. inputs' \in Seq(X) /\ pushed' \in Nat
    BY <1>0, <2>1, <2>2 DEF q
  <2>4. /\ picture' = picture /\ lastInput' = lastInput /\ nextPts' = nextPts
        /\ shown' = shown /\ taken' = taken
    BY <1>1 DEF R!TryPushFrame, R!memory
  <2> QED
    BY <2>3, <2>4 DEF RateInv, OnGrid, X
<1>2. ASSUME R!ClearHistory, pushed' = pushed,
             inputs' = <<>> \/ (inputs # <<>> /\ inputs' = Tail(inputs))
      PROVE  RateInv' /\ OnGrid
  <2>1. inputs' \in Seq(X)
    <3> HIDE DEF X
    <3>1. <<>> \in Seq(X)
      OBVIOUS
    <3>2. inputs # <<>> => Tail(inputs) \in Seq(X)
      BY <1>0
    <3> QED
      BY <1>2, <3>1, <3>2
  <2>2. shown' = None /\ lastInput' = None /\ nextPts' = None
    BY <1>2 DEF R!ClearHistory
  <2> QED
    BY <1>0, <1>2, <2>1, <2>2 DEF RateInv, OnGrid, Time
<1>3. CASE R!Stop \/ R!Reset
  BY <1>2, <1>3 DEF R!Stop, R!Reset
<1>4. CASE R!TryReadFrame
  <2> DEFINE h == Head(inputs)
             pts == R!Rescale(h.time)
  <2>1. inputs # <<>>
    BY <1>4 DEF R!TryReadFrame
  <2>2. h \in X /\ Tail(inputs) \in Seq(X)
    <3> HIDE DEF X
    <3> QED
      BY <1>0, <2>1
  <2>3. CASE R!ReadEof
    BY <1>2, <2>1, <2>3 DEF R!ReadEof
  <2>4. ASSUME ~h.eof PROVE pts \in Int
    BY <2>2, <2>4, SlotType
  <2>5. ASSUME ~h.eof, R!ReadSurplus(pts) PROVE RateInv' /\ OnGrid
    <3>1. /\ picture' = h /\ taken' = h.image /\ inputs' = Tail(inputs)
          /\ lastInput' = lastInput /\ nextPts' = nextPts /\ pushed' = pushed
          /\ shown' = shown
      BY <2>5 DEF R!ReadSurplus, R!Remember
    <3> QED
      BY <1>0, <2>2, <3>1 DEF RateInv, OnGrid
  <2>6. ASSUME ~h.eof, R!ReadGap(pts) PROVE RateInv' /\ OnGrid
    <3>1. /\ shown' = [image |-> picture.image, pts |-> nextPts, duplicate |-> used]
          /\ nextPts' = nextPts + 1 /\ inputs' = inputs /\ picture' = picture
          /\ lastInput' = lastInput /\ pushed' = pushed /\ taken' = taken
          /\ nextPts # None
      BY <2>6 DEF R!ReadGap, R!Output
    <3>2. nextPts \in Int /\ nextPts' \in Int /\ nextPts' # None
      BY <1>0, <3>1, SyncerAssumption DEF Time
    <3>3. shown'.image = picture.image /\ shown'.pts = nextPts
      BY <3>1
    <3>4. picture.image = taken
      BY <3>1 DEF RateInv
    <3>5. RateInv'
      BY <1>0, <3>1, <3>2, <3>3, <3>4 DEF RateInv, Time
    <3>6. OnGrid
      BY <3>1, <3>3, <3>4 DEF RateInv, OnGrid
    <3> QED
      BY <3>5, <3>6
  <2>7. ASSUME ~h.eof, R!ReadInput(pts) PROVE RateInv' /\ OnGrid
    <3>0. pts \in Int
      BY <2>4, <2>7
    <3>1. /\ shown' = [image |-> h.image, pts |-> pts, duplicate |-> FALSE]
          /\ picture' = h /\ taken' = h.image /\ lastInput' = pts /\ nextPts' = pts + 1
          /\ inputs' = Tail(inputs) /\ pushed' = pushed
          /\ nextPts = None \/ pts = nextPts \/ R!IsDiscontinuity(pts)
      BY <2>7 DEF R!ReadInput, R!Output
    <3>2. shown'.image = h.image /\ shown'.pts = pts /\ shown'.duplicate = FALSE
      BY <3>1
    <3>3. pts = R!Rescale(Head(inputs).time)
      OBVIOUS
    <3> HIDE DEF pts
    <3>4. nextPts' \in Int
      BY <3>0, <3>1
    <3>5. RateInv'
      BY <1>0, <2>2, <3>0, <3>1, <3>2, <3>4 DEF RateInv, Time
    <3>6. R!IsDiscontinuity(pts) => pts < lastInput \/ pts > lastInput + 1 + HalfSecond
      <4>1. R!IsDiscontinuity(pts) =>
              lastInput # None /\ (pts < lastInput \/ pts - lastInput - 1 > HalfSecond)
        BY DEF R!IsDiscontinuity
      <4>2. HalfSecond \in Int /\ (lastInput # None => lastInput \in Int)
        BY <1>0, RateAssumption DEF Time
      <4> QED
        BY <3>0, <4>1, <4>2
    <3>7. shown # None => nextPts # None /\ nextPts = shown.pts + 1
      BY SyncerAssumption DEF RateInv
    <3>8. OnGrid
      BY <3>1, <3>2, <3>3, <3>6, <3>7 DEF OnGrid
    <3> QED
      BY <3>5, <3>8
  <2>8. R!ReadEof \/ (~h.eof /\ (R!ReadSurplus(pts) \/ R!ReadGap(pts) \/ R!ReadInput(pts)))
    BY <1>4 DEF R!TryReadFrame
  <2> QED
    BY <2>3, <2>5, <2>6, <2>7, <2>8
<1> QED
  BY <1>1, <1>3, <1>4 DEF R!Next

\* The invariant of the filter, in the behaviours that run it.
RateRuns == which = "rate" => RateInv

\* It holds.
LEMMA RateHolds == MCSpec => []RateRuns
<1>1. MCInit => RateRuns
  BY RateStarts DEF MCInit, RateRuns
<1>2. RateRuns /\ [MCNext]_<<which, vars, syncerVars, rateVars>> => RateRuns'
  <2> SUFFICES ASSUME RateRuns, [MCNext]_<<which, vars, syncerVars, rateVars>>,
                      which' = "rate"
               PROVE  RateInv'
    BY DEF RateRuns
  <2>1. which = "rate" /\ RateInv
    BY DEF MCNext, RateRuns
  <2>2. CASE R!Next
    BY <2>1, <2>2, RateSteps
  <2>3. CASE UNCHANGED <<which, vars, syncerVars, rateVars>>
    <3>1. /\ pushed' = pushed /\ lastInput' = lastInput /\ nextPts' = nextPts
          /\ inputs' = inputs /\ picture' = picture /\ taken' = taken /\ shown' = shown
      BY <2>3 DEF rateVars
    <3> QED
      BY <2>1, <3>1 DEF RateInv
  <2> QED
    BY <2>1, <2>2, <2>3 DEF MCNext
<1> QED
  BY <1>1, <1>2, PTL DEF MCSpec

\* Between EOFs and resets the output of ForceFps is a grid without gaps or
\* repetitions that shows the newest picture, and only a jump of the input moves
\* it (TryReadFrame).
THEOREM GridKept == MCSpec => Grid
<1>1. RateRuns /\ [MCNext]_<<which, vars, syncerVars, rateVars>> => [OnGrid]_(R!vars)
  <2> SUFFICES ASSUME RateRuns, [MCNext]_<<which, vars, syncerVars, rateVars>>
               PROVE  OnGrid
    OBVIOUS
  <2>1. CASE shown' = shown
    BY <2>1 DEF OnGrid
  <2>2. CASE which = "rate" /\ R!Next
    BY <2>2, RateSteps DEF RateRuns
  <2> QED
    BY <2>1, <2>2 DEF MCNext, rateVars
<1> QED
  BY <1>1, RateHolds, PTL DEF MCSpec, Grid, R!Grid, OnGrid
=============================================================================
