----------------------------- MODULE AvEncoder ------------------------------
(***************************************************************************)
(* The encoder (av_encoder.cc): one bounded queue and one worker for each  *)
(* track, producers that never wait, a worker that feeds the audio filter  *)
(* and the codec and drains both when its queue is closed, and an owner    *)
(* that starts and stops the session.  Either worker may fail at any call  *)
(* and ends the session for both.                                          *)
(*                                                                         *)
(* A step is one critical section under mutex_, one operation of a queue   *)
(* (see BlockingQueue) or one call into the filter, the codec or OnPacket. *)
(* External: the filter, which makes blocks of Block[t] frames, and the    *)
(* codec, which keeps back Delay blocks and accepts input after it asked   *)
(* for it: the retries of avcodec_send_frame never happen with it.         *)
(***************************************************************************)
EXTENDS Integers, SequencesExt

CONSTANTS
  None,         \* no error
  Tracks,       \* the enabled tracks, in the order of Start
  FrameCapacity,\* kFrameCapacity
  Block,        \* frames in a block of the filter; 1 for video, which has none
  Delay,        \* blocks the codec keeps back
  MaxFrames,    \* bound: frames pushed per track
  MaxSessions,  \* bound: calls of Start
  MaxFaults     \* bound: failures, per behaviour

TrackSet == {Tracks[i] : i \in DOMAIN Tracks}

VARIABLES
  accepting, error,  \* accepting_, error_: who failed, or None
  frames, closed,    \* the queue of a track
  waiting,           \* the producer was told that the queue is full and has
                     \* not been notified since
  worker,            \* where Run is, per track
  hand,              \* the frame Run popped, 0 for the end of the queue
  filter,            \* frames in the filter of a track
  codec,             \* blocks in its codec, and whether it was sent EOF
  owner,             \* where the owner is
  closing,           \* queues Stop or a failing worker has still to close
  accepted,          \* history: frames accepted from a producer
  delivered,         \* history: blocks given to OnPacket
  reports,           \* history: who called OnError in this session
  sessions, faults

queue == <<frames, closed, waiting>>
work == <<worker, hand, filter, codec>>
history == <<accepted, delivered, reports>>
vars == <<accepting, error, queue, work, owner, closing, history, sessions, faults>>

Fault == faults < MaxFaults /\ faults' = faults + 1
Each(value) == [t \in TrackSet |-> value]
Fresh == [held |-> <<>>, eof |-> FALSE]

Init ==
  /\ accepting = FALSE /\ error = None
  /\ frames = Each(<<>>) /\ closed = Each(TRUE) /\ waiting = Each(FALSE)
  /\ worker = Each("off") /\ hand = Each(0)
  /\ filter = Each(<<>>) /\ codec = Each(Fresh)
  /\ owner = "idle" /\ closing = [w \in {"owner"} \cup TrackSet |-> {}]
  /\ accepted = Each(0) /\ delivered = Each(<<>>) /\ reports = <<>>
  /\ sessions = 0 /\ faults = 0

-----------------------------------------------------------------------------
(* The owner.                                                              *)

\* Start first forgets the error of the last session.
Start ==
  /\ owner = "idle" /\ sessions < MaxSessions
  /\ error' = None /\ owner' = "open" /\ sessions' = sessions + 1
  /\ UNCHANGED <<accepting, queue, work, closing, history, faults>>

\* The codecs are open: the queues and the workers are created under mutex_,
\* and a thread that cannot be created fails the session for those before it.
StartWorkers ==
  /\ owner = "open"
  /\ accepted' = Each(0) /\ delivered' = Each(<<>>) /\ reports' = <<>>
  /\ hand' = Each(0) /\ filter' = Each(<<>>) /\ codec' = Each(Fresh)
  /\ \/ \* opening fails: there is nothing to stop
        /\ Fault /\ owner' = "failed"
        /\ UNCHANGED <<accepting, error, frames, closed, worker>>
     \/ /\ frames' = Each(<<>>) /\ closed' = Each(FALSE)
        /\ \/ /\ worker' = Each("begin") /\ accepting' = TRUE /\ owner' = "up"
              /\ UNCHANGED <<error, faults>>
           \/ \E n \in 0..(Len(Tracks) - 1) :
                /\ Fault /\ error' = "start" /\ owner' = "failed" /\ accepting' = FALSE
                /\ worker' = [t \in TrackSet |->
                     IF \E i \in 1..n : Tracks[i] = t THEN "begin" ELSE "off"]
  /\ waiting' = Each(FALSE)
  /\ UNCHANGED <<closing, sessions>>

\* Stop, by the owner, or by Start after a failure.
Stop ==
  /\ owner \in {"up", "failed"}
  /\ accepting' = FALSE
  /\ closing' = [closing EXCEPT !["owner"] = TrackSet]
  /\ owner' = IF owner = "up" THEN "stop" ELSE "undo"
  /\ UNCHANGED <<error, queue, work, history, sessions, faults>>

\* Closing a queue notifies its write signal.
CloseQueue(t) ==
  /\ closed' = [closed EXCEPT ![t] = TRUE]
  /\ waiting' = [waiting EXCEPT ![t] = FALSE]

\* Joining the workers before the queue of the last track is closed.
JoinFirst ==
  /\ owner \in {"stop", "undo"}
  /\ \E t \in closing["owner"] :
       /\ t = Tracks[1] /\ CloseQueue(t)
       /\ closing' = [closing EXCEPT !["owner"] = @ \ {t}]
  /\ UNCHANGED <<accepting, error, frames, work, owner, history, sessions, faults>>
StopClose ==
  /\ owner \in {"stop", "undo"}
  /\ \E t \in closing["owner"] :
       /\ \A i, j \in DOMAIN Tracks : Tracks[i] \in closing["owner"] /\ Tracks[j] = t => j <= i
       /\ CloseQueue(t)
       /\ closing' = [closing EXCEPT !["owner"] = @ \ {t}]
  /\ UNCHANGED <<accepting, error, frames, work, owner, history, sessions, faults>>

StopJoin ==
  /\ owner \in {"stop", "undo"} /\ closing["owner"] = {}
  /\ worker = Each("off")
  /\ frames' = Each(<<>>) /\ owner' = "idle"
  /\ error' = IF owner = "undo" THEN "start" ELSE error
  /\ UNCHANGED <<accepting, closed, waiting, work, closing, history, sessions, faults>>

-----------------------------------------------------------------------------
(* A producer.  One that was told that the queue is full waits for the     *)
(* write signal of its track.                                              *)

TryPush(t) ==
  /\ accepting /\ ~waiting[t] /\ accepted[t] < MaxFrames
  /\ IF Len(frames[t]) >= FrameCapacity
     THEN waiting' = [waiting EXCEPT ![t] = TRUE] /\ UNCHANGED <<frames, accepted>>
     ELSE /\ accepted' = [accepted EXCEPT ![t] = @ + 1]
          /\ frames' = [frames EXCEPT ![t] = Append(@, accepted'[t])]
          /\ UNCHANGED waiting
  /\ UNCHANGED <<accepting, error, closed, work, owner, closing, delivered, reports,
                 sessions, faults>>

-----------------------------------------------------------------------------
(* The worker of a track.                                                  *)

Goto(t, place) == worker' = [worker EXCEPT ![t] = place]
Quiet == UNCHANGED <<accepting, error, owner, closing, accepted, reports, sessions>>

\* Run looks at error_ before it starts, and after every Pop.
Checked(t, next) ==
  /\ Goto(t, IF error # None THEN "off" ELSE next)
  /\ Quiet /\ UNCHANGED <<queue, hand, filter, codec, delivered, faults>>
Begin(t) == worker[t] = "begin" /\ Checked(t, "pop")
Check(t) == worker[t] = "check" /\ Checked(t, "feed")

Pop(t) ==
  /\ worker[t] = "pop" /\ Goto(t, "check")
  /\ IF frames[t] # <<>>
     THEN /\ hand' = [hand EXCEPT ![t] = Head(frames[t])]
          /\ frames' = [frames EXCEPT ![t] = Tail(@)]
          /\ waiting' = [waiting EXCEPT ![t] = FALSE]
     ELSE closed[t] /\ hand' = [hand EXCEPT ![t] = 0] /\ UNCHANGED <<frames, waiting>>
  /\ Quiet /\ UNCHANGED <<closed, filter, codec, delivered, faults>>

Throw(t) == Fault /\ Goto(t, "caught")

\* PrepareVideoFrame, or Submit and End of the audio filter.
Feed(t) ==
  /\ worker[t] = "feed"
  /\ \/ /\ Goto(t, "pull") /\ UNCHANGED faults
        /\ filter' = IF hand[t] = 0 THEN filter
                     ELSE [filter EXCEPT ![t] = Append(@, hand[t])]
     \/ Throw(t) /\ UNCHANGED filter
  /\ Quiet /\ UNCHANGED <<queue, hand, codec, delivered>>

\* What the filter gives: a full block, and after End the samples left.
FullBlocks(t) == IF Len(filter[t]) >= Block[t] THEN Block[t] ELSE 0
Ready(t) ==
  IF Len(filter[t]) >= Block[t] THEN Block[t]
  ELSE IF hand[t] = 0 THEN Len(filter[t]) ELSE 0

\* Receive of the filter and avcodec_send_frame, or its EOF.
Pull(t) ==
  LET n == Ready(t) IN
  /\ worker[t] = "pull"
  /\ \/ /\ n > 0
        /\ codec' = [codec EXCEPT ![t].held = Append(@, SubSeq(filter[t], 1, n))]
        /\ filter' = [filter EXCEPT ![t] = SubSeq(@, n + 1, Len(@))]
        /\ Goto(t, "receive") /\ UNCHANGED faults
     \/ /\ n = 0 /\ hand[t] = 0
        /\ codec' = [codec EXCEPT ![t].eof = TRUE]
        /\ Goto(t, "receive") /\ UNCHANGED <<filter, faults>>
     \/ /\ n = 0 /\ hand[t] # 0
        /\ Goto(t, "pop") /\ UNCHANGED <<filter, codec, faults>>
     \/ /\ n > 0 \/ hand[t] = 0
        /\ Throw(t) /\ UNCHANGED <<filter, codec>>
  /\ Quiet /\ UNCHANGED <<queue, hand, delivered>>

\* avcodec_receive_packet and OnPacket; both may throw.
Receive(t) ==
  LET held == codec[t].held IN
  /\ worker[t] = "receive"
  /\ \/ /\ Len(held) > (IF codec[t].eof THEN 0 ELSE Delay)
        /\ codec' = [codec EXCEPT ![t].held = Tail(@)]
        /\ \/ delivered' = [delivered EXCEPT ![t] = Append(@, Head(held))]
              /\ UNCHANGED <<worker, faults>>
           \/ Throw(t) /\ UNCHANGED delivered
     \/ /\ Len(held) <= (IF codec[t].eof THEN 0 ELSE Delay)
        /\ Goto(t, IF codec[t].eof THEN "off" ELSE "pull")
        /\ UNCHANGED <<codec, delivered, faults>>
  /\ Quiet /\ UNCHANGED <<queue, hand, filter>>

FirstFailure(t) ==
  IF error = None THEN error' = t /\ Goto(t, "fail") ELSE UNCHANGED error /\ Goto(t, "late")
Caught(t) ==
  /\ worker[t] = "caught" /\ FirstFailure(t)
  /\ accepting' = FALSE /\ closing' = [closing EXCEPT ![t] = TrackSet]
  /\ UNCHANGED <<queue, hand, filter, codec, owner, history, sessions, faults>>

\* Both queues are closed, then emptied: nothing is pushed in between.
Abandon(t) ==
  /\ worker[t] \in {"fail", "late"}
  /\ \E q \in closing[t] :
       /\ \A i, j \in DOMAIN Tracks : Tracks[i] \in closing[t] /\ Tracks[j] = q => j <= i
       /\ CloseQueue(q)
       /\ frames' = [frames EXCEPT ![q] = <<>>]
       /\ closing' = [closing EXCEPT ![t] = @ \ {q}]
  /\ UNCHANGED <<accepting, error, work, owner, history, sessions, faults>>

\* OnError, by the first only.
Report(t) ==
  /\ worker[t] \in {"fail", "late"} /\ closing[t] = {}
  /\ reports' = IF worker[t] = "fail" THEN Append(reports, t) ELSE reports
  /\ Goto(t, "off")
  /\ UNCHANGED <<accepting, error, queue, hand, filter, codec, owner, closing, accepted,
                 delivered, sessions, faults>>

-----------------------------------------------------------------------------
Run(t) == Begin(t) \/ Pop(t) \/ Check(t) \/ Feed(t) \/ Pull(t) \/ Receive(t)
          \/ Caught(t) \/ Abandon(t) \/ Report(t)
OwnerStep == StartWorkers \/ StopClose \/ StopJoin \/ (owner = "failed" /\ Stop)

Next == Start \/ Stop \/ OwnerStep \/ \E t \in TrackSet : TryPush(t) \/ Run(t)

Spec == Init /\ [][Next]_vars /\ WF_vars(OwnerStep)
        /\ \A t \in TrackSet : WF_vars(Run(t))

-----------------------------------------------------------------------------
TypeOK ==
  /\ accepting \in BOOLEAN /\ error \in {None, "start"} \cup TrackSet
  /\ \A t \in TrackSet : Len(frames[t]) <= FrameCapacity
  /\ closed \in [TrackSet -> BOOLEAN] /\ waiting \in [TrackSet -> BOOLEAN]

Encoded(t) == FlattenSeq(delivered[t])

\* Stop drains (av_encoder.cc:588, DrainCodec, AudioFilter::End): packets leave
\* in the order of the frames, none twice; a session that was stopped without
\* an error encoded every frame it accepted, those in the filter and in the
\* codec included; a failed one has left nothing queued and has called OnError
\* once, with the error that is kept.
StopDrains ==
  /\ \A t \in TrackSet :
       Encoded(t) = [n \in 1..Len(Encoded(t)) |-> n]
  /\ (owner = "idle" /\ error = None) =>
       \A t \in TrackSet : Len(Encoded(t)) = accepted[t]
  /\ (error \in TrackSet /\ worker = Each("off")) =>
       \A t \in TrackSet : frames[t] = <<>> /\ closed[t]
  /\ (worker = Each("off") /\ owner \in {"idle", "up"}) =>
       reports = IF error \in TrackSet THEN <<error>> ELSE <<>>

\* Nobody is left waiting: Stop and Start return, and a producer that was told
\* that the queue is full is notified, although the worker may fail meanwhile.
NobodyStuck ==
  /\ owner = "stop" ~> owner = "idle"
  /\ owner = "open" ~> owner \in {"up", "idle"}
  /\ \A t \in TrackSet : waiting[t] ~> ~waiting[t]
=============================================================================
