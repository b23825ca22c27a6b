------------------------------ MODULE ForceFps ------------------------------
(***************************************************************************)
(* The fixed frame rate filter (force_fps.cc): a producer queues frames    *)
(* and EOF, a reader takes at most one output for each call, on a grid of  *)
(* one frame per Period; surplus frames are dropped and gaps filled with   *)
(* the newest picture, until the input jumps.  Every call holds mutex_.    *)
(***************************************************************************)
EXTENDS Integers, Sequences

CONSTANTS
  None,
  Capacity,     \* config.input_capacity
  Period,       \* ticks of the input's time base in a slot of the grid
  HalfSecond,   \* slots in half a second
  Times,        \* bound: timestamps of the input, in ticks
  MaxInputs     \* bound: frames and EOFs pushed

VARIABLES
  stopped, inputs,
  picture,      \* last_, last_used_
  used,
  lastInput,    \* last_input_pts_
  nextPts,      \* next_pts_
  pushed,       \* history: items accepted
  shown,        \* history: the last output since the history was cleared
  taken         \* history: the last frame taken from the queue since then

memory == <<picture, used, lastInput, nextPts>>
vars == <<stopped, inputs, memory, pushed, shown, taken>>

Init ==
  /\ stopped = FALSE /\ inputs = <<>>
  /\ picture = None /\ used = FALSE /\ lastInput = None /\ nextPts = None
  /\ pushed = 0 /\ shown = None /\ taken = None

Size(n) == IF n < 0 THEN -n ELSE n
\* Rescale: to the nearest slot, halves away from zero.
Rescale(ticks) ==
  LET slot == (2 * Size(ticks) + Period) \div (2 * Period) IN
  IF ticks < 0 THEN -slot ELSE slot

\* TryPushFrame; the n-th item, EOF if it has no timestamp.
TryPushFrame ==
  /\ ~stopped /\ Len(inputs) < Capacity /\ pushed < MaxInputs
  /\ pushed' = pushed + 1
  /\ \E time \in Times \cup {None} :
       inputs' = Append(inputs, [eof |-> time = None, time |-> time, image |-> pushed'])
  /\ UNCHANGED <<stopped, memory, shown, taken>>

\* A jump that is measured from the next slot of the grid.
JumpFromSlot(pts) ==
  lastInput # None /\ (pts < nextPts \/ pts - nextPts - 1 > HalfSecond)
IsDiscontinuity(pts) ==
  lastInput # None /\ (pts < lastInput \/ pts - lastInput - 1 > HalfSecond)

ClearHistory ==
  /\ picture' = None /\ used' = FALSE /\ lastInput' = None /\ nextPts' = None
  /\ shown' = None /\ taken' = None

Output(input, pts, duplicate) ==
  shown' = [image |-> input.image, pts |-> pts, duplicate |-> duplicate]

\* A frame without a slot that is forgotten.
Forget(input) == UNCHANGED <<picture, used>>
Remember(input) == picture' = input /\ used' = FALSE

ReadEof ==
  /\ Head(inputs).eof /\ ClearHistory /\ inputs' = Tail(inputs)
  /\ UNCHANGED <<stopped, pushed>>

\* The loop of TryReadFrame goes on after a frame that has no slot.
ReadSurplus(pts) ==
  /\ nextPts # None /\ ~IsDiscontinuity(pts) /\ pts < nextPts
  /\ Remember(Head(inputs)) /\ inputs' = Tail(inputs) /\ taken' = Head(inputs).image
  /\ UNCHANGED <<stopped, lastInput, nextPts, pushed, shown>>

ReadGap(pts) ==
  /\ nextPts # None /\ ~IsDiscontinuity(pts) /\ pts > nextPts
  /\ Output(picture, nextPts, used)
  /\ used' = TRUE /\ nextPts' = nextPts + 1
  /\ UNCHANGED <<stopped, inputs, picture, lastInput, pushed, taken>>

ReadInput(pts) ==
  /\ nextPts = None \/ IsDiscontinuity(pts) \/ pts = nextPts
  /\ Output(Head(inputs), pts, FALSE)
  /\ picture' = Head(inputs) /\ used' = TRUE
  /\ lastInput' = pts /\ nextPts' = pts + 1
  /\ inputs' = Tail(inputs) /\ taken' = Head(inputs).image
  /\ UNCHANGED <<stopped, pushed>>

TryReadFrame ==
  /\ ~stopped /\ inputs # <<>>
  /\ \/ ReadEof
     \/ /\ ~Head(inputs).eof
        /\ LET pts == Rescale(Head(inputs).time) IN
           ReadSurplus(pts) \/ ReadGap(pts) \/ ReadInput(pts)

Stop ==
  /\ ~stopped /\ stopped' = TRUE /\ inputs' = <<>> /\ ClearHistory
  /\ UNCHANGED pushed
\* Reset opens admission again; pictures of before are gone.
Reset ==
  /\ stopped' = FALSE /\ inputs' = <<>> /\ ClearHistory
  /\ UNCHANGED pushed

Next == TryPushFrame \/ TryReadFrame \/ Stop \/ Reset

Spec == Init /\ [][Next]_vars

-----------------------------------------------------------------------------
TypeOK ==
  /\ stopped \in BOOLEAN /\ used \in BOOLEAN /\ Len(inputs) <= Capacity
  /\ (lastInput = None) <=> (nextPts = None)

\* Between EOFs and resets the output is a grid without gaps or repetitions
\* (TryReadFrame): each frame takes the slot after the one before it, and shows
\* the newest picture taken from the queue; only a frame of the input that goes
\* back, or further than the limit beyond the last one that had its own slot,
\* moves the grid, and it is shown at its own time.
Grid ==
  [][ (shown' # shown /\ shown # None /\ shown' # None) =>
        /\ shown'.image = taken'
        /\ \/ shown'.pts = shown.pts + 1
           \/ /\ ~shown'.duplicate /\ inputs' = Tail(inputs)
              /\ shown'.pts = Rescale(Head(inputs).time)
              /\ shown'.pts < lastInput \/ shown'.pts > lastInput + 1 + HalfSecond ]_vars
=============================================================================
