------------------------------ MODULE MCOutput ------------------------------
(* The output side, one component in each behaviour.  An encoder of two    *)
(* tracks whose filter makes blocks of two audio frames and whose codec    *)
(* keeps one block, with two failures in a session or one in two sessions. *)
(* A remuxer with two tracks and up to three packets of a track: the usual *)
(* interleaving with a negative first DTS, a track that stalls beyond      *)
(* Delta, one that never starts, one whose DTS goes back, and packets with *)
(* a PTS below their DTS, which the common shift still lifts to the start  *)
(* (in milliseconds, not in units of time) or does not.                    *)
EXTENDS Remuxer

CONSTANTS push, mp4,  \* the outputs of the remuxer
          None, FrameCapacity, Delay, MaxFrames, MaxSessions, MaxEncoderFaults
VARIABLES which, admitting, failure, frames, shut, waiting, worker, hand, filter, codec,
          owner, closers, admitted, encoded, reports, starts, failures

Encoder == INSTANCE AvEncoder WITH
  Tracks <- <<"video", "audio">>, Block <- [video |-> 1, audio |-> 2],
  MaxFaults <- MaxEncoderFaults, accepting <- admitting, error <- failure,
  closed <- shut, closing <- closers, accepted <- admitted, delivered <- encoded,
  sessions <- starts, faults <- failures

remuxerVars == vars
encoderVars == <<admitting, failure, frames, shut, waiting, worker, hand, filter, codec,
                 owner, closers, admitted, encoded, reports, starts, failures>>

At(d, p) == [dts |-> d, pts |-> p]
Plan(m, n, a) == [media |-> m, sessions |-> n, adds |-> a]
MCPlans == {
  Plan(<< <<At(-1, 2), At(0, 0)>>, <<At(0, 0)>> >>, 1, {push, mp4}),
  Plan(<< <<At(0, 0)>>, <<>> >>, 2, {push}),
  Plan(<< <<At(0, 0)>>, <<At(0, 0)>> >>, 2, {}),
  Plan(<< <<At(0, 0), At(8, 8), At(16, 16)>>, <<At(0, 0), At(6, 6)>> >>, 1, {}),
  Plan(<< <<At(0, 0), At(8, 8)>>, <<>> >>, 1, {mp4}),
  Plan(<< <<At(2, 2), At(0, 0)>>, <<At(0, 0)>> >>, 1, {}),
  Plan(<< <<At(-3, 0), At(0, -4)>>, <<At(-2, -2)>> >>, 1, {}),
  Plan(<< <<At(-3, 0), At(0, -5)>>, <<At(-1, -1)>> >>, 1, {}) }

MCInit ==
  /\ which \in {"remuxer", "encoder"} /\ Init /\ Encoder!Init
  /\ which = "encoder" => plan = CHOOSE p \in MCPlans : TRUE

MCNext ==
  /\ UNCHANGED which
  /\ \/ which = "remuxer" /\ Next /\ UNCHANGED encoderVars
     \/ which = "encoder" /\ Encoder!Next /\ UNCHANGED remuxerVars
        /\ (starts' > 1 => failures' < 2)

\* The fairness of the two specifications, for the one that runs.
MCFairness ==
  /\ WF_remuxerVars(which = "remuxer" /\ PollerStep)
  /\ WF_remuxerVars(which = "remuxer" /\ ControlStep)
  /\ \A t \in 1..2 :
       WF_remuxerVars(which = "remuxer" /\ t \in Tracks /\ (Push(t) \/ SubmitSchedule(t)))
  /\ WF_encoderVars(which = "encoder" /\ Encoder!OwnerStep)
  /\ \A t \in Encoder!TrackSet : WF_encoderVars(which = "encoder" /\ Encoder!Run(t))

MCSpec == MCInit /\ [][MCNext]_<<which, remuxerVars, encoderVars>> /\ MCFairness

\* Drain of the remuxer and Stop of the encoder leave nothing accepted behind,
\* once and in order, unless the session failed; a failure is reported once
\* (Remuxer.tla, DrainedComplete; AvEncoder.tla, StopDrains; Drain, Finish,
\* DrainCodec, AudioFilter::End, the catch of Run).
DrainsComplete == DrainedComplete /\ Encoder!StopDrains
\* Stop of both, a failing Start of the encoder and a producer that found its
\* queue full are always answered (Remuxer.tla, StopReturns; AvEncoder.tla,
\* NobodyStuck; StopProtocolsLocked, AvEncoder::Stop, the catch of Run).
CallsReturn == StopReturns /\ Encoder!NobodyStuck
=============================================================================
