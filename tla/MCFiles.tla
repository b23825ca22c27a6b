------------------------------- MODULE MCFiles -------------------------------
(* The two ends that FFmpeg's muxers serve, one in each behaviour: a        *)
(* Recorder of a video track and an ADTS audio track with different time    *)
(* bases, and two connections of an AvInput with a queue of one packet.     *)
EXTENDS Recorder

CONSTANTS Capacity, MaxCancels, MaxSkipped
VARIABLES which, status, cancelled, installed, packets, closed, deadline, opener, demuxer,
          current, target, reader, waits, taken, result, canceller, demuxed, delivered,
          connections, cancels, skipped

Input == INSTANCE AvInput WITH
  queue <- packets, owner <- opener, worker <- demuxer, hand <- current,
  sessions <- connections

ASSUME CapacityAssumption == Capacity \in Nat \ {0}

inputVars == <<status, cancelled, installed, packets, closed, deadline, opener, demuxer,
               current, target, reader, waits, taken, result, canceller, demuxed,
               delivered, connections, cancels, skipped>>

MCTick == [t \in Tracks |-> IF t \in Adts THEN 2 ELSE 3]
MCSize == [t \in Tracks |-> IF t \in Adts THEN 1 ELSE 2]

MCInit == which \in {"recorder", "input"} /\ Init /\ Input!Init

MCNext ==
  /\ UNCHANGED which
  /\ \/ which = "recorder" /\ Next /\ UNCHANGED inputVars
     \/ which = "input" /\ Input!Next /\ UNCHANGED vars

\* The fairness of the two specifications, for the one that runs.
MCFairness ==
  /\ WF_vars(which = "recorder" /\ Worker)
  /\ WF_vars(which = "recorder" /\ StopNotify)
  /\ WF_vars(which = "recorder" /\ Join)
  /\ WF_vars(which = "recorder" /\ DrainNotify)
  /\ \A t \in Tracks : WF_vars(which = "recorder" /\ SubmitNotify(t))
  /\ WF_inputVars(which = "input" /\ Input!OwnerStep)
  /\ WF_inputVars(which = "input" /\ Input!Interrupted /\ Input!OpenIo)
  /\ WF_inputVars(which = "input" /\ Input!WorkerStep)
  /\ WF_inputVars(which = "input" /\ Input!Interrupted /\ Input!ReadFrame)
  /\ WF_inputVars(which = "input" /\ Input!CancelUnblock)
  /\ WF_inputVars(which = "input" /\ Input!ReaderStep)
  /\ WF_inputVars(which = "input" /\ Input!Expire)

MCSpec == MCInit /\ [][MCNext]_<<which, vars, inputVars>> /\ MCFairness

\* Every packet a Recorder accepted is in its file or on its way, in order, and
\* in the file when a session ends without a failure (Recorder.tla, Accounted and
\* StoppedComplete; TrySubmitPacket, Drain, Run, Fail), and no packet an AvInput
\* demuxed is lost before it reports the end (AvInput.tla, NothingLost;
\* ReadPacket, Run).
NothingLost == Accounted /\ StoppedComplete /\ Input!NothingLost
\* A cancelled AvInput delivers no packet (AvInput.tla; ReadPacket).
CancelSilences == Input!CancelSilences
\* Recorder::Stop, and the Open, Close and ReadPacket of an AvInput whose source
\* hangs, return (Recorder.tla, StopReturns; AvInput.tla, CallsReturn).
CallsReturn == StopReturns /\ Input!CallsReturn
=============================================================================
