----------------------------- MODULE AvDecoder ------------------------------
(***************************************************************************)
(* One decoder and its worker (av_decoder.cc): a producer submits packets, *)
(* EOF and Reset through one queue, the worker feeds the codec and puts    *)
(* frames and EOF into another, a reader takes them, and any thread may    *)
(* stop it.  The worker may fail at every call into the codec.             *)
(*                                                                         *)
(* A step is one critical section under mutex_, one operation of a queue   *)
(* (see BlockingQueue) or one call into the codec.  External: the codec,   *)
(* which keeps back up to Delay packets, gives a frame for each, accepts   *)
(* input only after it asked for it, and none after EOF until it is        *)
(* flushed.                                                                *)
(***************************************************************************)
EXTENDS Integers, Sequences

CONSTANTS
  PacketCapacity,  \* config.packet_capacity
  FrameCapacity,   \* config.frame_capacity
  Delay,           \* packets the codec keeps back without a frame
  MaxItems         \* bound: items submitted

ASSUME DecoderAssumption ==
  /\ PacketCapacity \in Nat \ {0} /\ FrameCapacity \in Nat \ {0}
  /\ Delay \in Nat /\ MaxItems \in Nat

Kinds == {"packet", "eof", "reset"}

\* The n-th item the producer got accepted, or the frame or EOF made of it.
Items == [kind : Kinds, n : Nat]

VARIABLES
  stopping,       \* stopping_
  error,          \* error_ is set
  submittedEof,   \* submitted_eof_
  packets,        \* packets_ and whether it is closed
  packetsClosed,
  frames,         \* frames_ and whether it is closed
  framesClosed,
  producer,       \* "idle", or the item a blocking submission waits with
  worker,         \* where Run is
  started,        \* Run's locals
  drained,
  hand,           \* the item Run popped or is about to emit
  codec,          \* packets inside, the EOF it was sent (0: none), input asked
  reader,         \* where ReadFrame is
  waits,          \* ReadFrame (TRUE) or TryReadFrame (FALSE)
  taken,          \* what its queue operation gave
  result,         \* what the last read returned
  stopper,        \* where RequestStop and Stop are
  accepted,       \* history: kinds of the accepted items
  delivered       \* history: what the reader got

queues == <<packets, packetsClosed, frames, framesClosed>>
workerVars == <<worker, started, drained, hand, codec>>
readerVars == <<reader, waits, taken, result, delivered>>
vars == <<stopping, error, submittedEof, queues, producer, workerVars,
          readerVars, stopper, accepted>>

Stoppers == {"owner", "other"}
Fresh == [held |-> <<>>, eof |-> 0, asked |-> TRUE]

TypeOK ==
  /\ stopping \in BOOLEAN /\ error \in BOOLEAN /\ submittedEof \in BOOLEAN
  /\ packets \in Seq(Items) /\ Len(packets) <= PacketCapacity
  /\ frames \in Seq(Items) /\ Len(frames) <= FrameCapacity
  /\ packetsClosed \in BOOLEAN /\ framesClosed \in BOOLEAN
  /\ producer \in {"idle"} \cup Kinds
  /\ worker \in {"look", "receive", "emit", "pop", "act", "fail", "close",
                 "close frames", "exited"}
  /\ started \in BOOLEAN /\ drained \in BOOLEAN
  /\ hand \in Seq(Items) /\ taken \in Seq(Items) /\ delivered \in Seq(Items)
  /\ codec \in [held : Seq(Nat), eof : Nat, asked : BOOLEAN]
  /\ reader \in {"idle", "pop", "check"} /\ waits \in BOOLEAN
  /\ result \in {"none", "frame", "eof", "null"}
  /\ stopper \in [Stoppers -> {"idle", "packets", "frames", "join", "discard",
                               "done"}]
  /\ accepted \in Seq(Kinds)

\* The constructor has opened the codec and started the worker.
Init ==
  /\ stopping = FALSE /\ error = FALSE /\ submittedEof = FALSE
  /\ packets = <<>> /\ packetsClosed = FALSE
  /\ frames = <<>> /\ framesClosed = FALSE
  /\ producer = "idle"
  /\ worker = "look" /\ started = FALSE /\ drained = FALSE /\ hand = <<>>
  /\ codec = Fresh
  /\ reader = "idle" /\ waits = FALSE /\ taken = <<>> /\ result = "none"
  /\ stopper = [p \in Stoppers |-> "idle"]
  /\ accepted = <<>> /\ delivered = <<>>

-----------------------------------------------------------------------------
(* Push: PushPacket, PushEof, Reset and their Try variants.  A submission  *)
(* after EOF that is not a Reset throws and changes nothing.               *)

ProducerOnly == UNCHANGED <<stopping, error, packetsClosed, frames,
                            framesClosed, workerVars, readerVars, stopper>>

Admit(kind) ==
  /\ packets' = Append(packets, [kind |-> kind, n |-> Len(accepted) + 1])
  /\ accepted' = Append(accepted, kind)
  /\ submittedEof' = (kind = "eof")

Allowed(kind) == submittedEof => kind = "reset"

Push(kind, wait) ==
  /\ producer = "idle" /\ Len(accepted) < MaxItems
  /\ ~stopping /\ ~error
  /\ Allowed(kind)
  /\ \/ wait /\ producer' = kind /\ UNCHANGED <<packets, accepted, submittedEof>>
     \/ /\ ~wait /\ ~packetsClosed /\ Len(packets) < PacketCapacity
        /\ Admit(kind) /\ UNCHANGED producer
  /\ ProducerOnly

PushWaits ==
  /\ producer # "idle" /\ producer' = "idle"
  /\ \/ packetsClosed /\ UNCHANGED <<packets, accepted, submittedEof>>
     \/ ~packetsClosed /\ Len(packets) < PacketCapacity /\ Admit(producer)
  /\ ProducerOnly

-----------------------------------------------------------------------------
(* Run.                                                                    *)

WorkerOnly == UNCHANGED <<stopping, error, submittedEof, packetsClosed,
                          framesClosed, producer, readerVars, stopper, accepted>>

\* Frames are received before another packet is popped.
Receives == started /\ ~drained

Look ==
  /\ worker = "look"
  /\ worker' = CASE stopping -> "exited"
                 [] ~stopping /\ Receives -> "receive"
                 [] OTHER -> "pop"
  /\ UNCHANGED <<packets, frames, started, drained, hand, codec>> /\ WorkerOnly

\* avcodec_receive_frame gives a frame, EOF, asks for input, or fails.
Receive ==
  /\ worker = "receive"
  /\ \/ /\ codec.held # <<>>
        /\ hand' = <<[kind |-> "packet", n |-> Head(codec.held)]>>
        /\ codec' = [codec EXCEPT !.held = Tail(@)]
        /\ worker' = "emit"
     \/ /\ codec.held = <<>> /\ codec.eof # 0
        /\ hand' = <<[kind |-> "eof", n |-> codec.eof]>>
        /\ worker' = "emit" /\ UNCHANGED codec
     \/ /\ Len(codec.held) <= Delay /\ codec.eof = 0
        /\ codec' = [codec EXCEPT !.asked = TRUE]
        /\ worker' = "pop" /\ UNCHANGED hand
     \/ worker' = "fail" /\ UNCHANGED <<hand, codec>>
  /\ UNCHANGED <<packets, frames, started, drained>> /\ WorkerOnly

\* A frame that finds the queue full is dropped.
EmitOrDrop ==
  /\ worker = "emit" /\ hand' = <<>>
  /\ IF framesClosed THEN worker' = "exited" /\ UNCHANGED <<frames, drained>>
     ELSE /\ frames' = IF Len(frames) < FrameCapacity THEN frames \o hand ELSE frames
          /\ drained' = (hand[1].kind = "eof")
          /\ worker' = "look"
  /\ UNCHANGED <<packets, started, codec>> /\ WorkerOnly

Emit ==
  /\ worker = "emit" /\ hand' = <<>>
  /\ \/ framesClosed /\ worker' = "exited" /\ UNCHANGED <<frames, drained>>
     \/ /\ ~framesClosed /\ Len(frames) < FrameCapacity
        /\ frames' = frames \o hand
        /\ drained' = (hand[1].kind = "eof")
        /\ worker' = "look"
  /\ UNCHANGED <<packets, started, codec>> /\ WorkerOnly

Pop ==
  /\ worker = "pop"
  /\ \/ /\ packets # <<>>
        /\ hand' = <<Head(packets)>> /\ packets' = Tail(packets)
        /\ worker' = "act"
     \/ /\ packets = <<>> /\ packetsClosed
        /\ worker' = "exited" /\ UNCHANGED <<hand, packets>>
  /\ UNCHANGED <<frames, started, drained, codec>> /\ WorkerOnly

\* The codec's contract for avcodec_send_packet.
Accepts == codec.asked /\ codec.eof = 0

Sent(item) ==
  IF item.kind = "eof" THEN [codec EXCEPT !.eof = item.n, !.asked = FALSE]
  ELSE [codec EXCEPT !.held = Append(@, item.n), !.asked = FALSE]

Act ==
  /\ worker = "act" /\ hand' = <<>>
  /\ \/ stopping /\ worker' = "exited" /\ UNCHANGED <<started, drained, codec>>
     \/ /\ ~stopping /\ hand[1].kind = "reset"
        /\ codec' = Fresh /\ started' = FALSE /\ drained' = FALSE
        /\ worker' = "look"
     \/ /\ ~stopping /\ hand[1].kind # "reset" /\ Accepts
        /\ codec' = Sent(hand[1]) /\ started' = TRUE
        /\ worker' = "look" /\ UNCHANGED drained
     \/ /\ ~stopping /\ hand[1].kind # "reset"
        /\ worker' = "fail" /\ UNCHANGED <<started, drained, codec>>
  /\ UNCHANGED <<packets, frames>> /\ WorkerOnly

\* A failure: the error is stored, then both queues are closed and the input
\* is discarded; the output stays.
Fail ==
  /\ worker = "fail" /\ worker' = "close"
  /\ error' = TRUE /\ hand' = <<>>
  /\ UNCHANGED <<stopping, submittedEof, queues, producer, started, drained,
                 codec, readerVars, stopper, accepted>>

FailPackets ==
  /\ worker = "close" /\ worker' = "close frames"
  /\ packetsClosed' = TRUE
  /\ UNCHANGED <<stopping, error, submittedEof, packets, frames, framesClosed,
                 producer, started, drained, hand, codec, readerVars, stopper,
                 accepted>>

FailFrames ==
  /\ worker = "close frames" /\ worker' = "exited"
  /\ framesClosed' = TRUE /\ packets' = <<>>
  /\ UNCHANGED <<stopping, error, submittedEof, packetsClosed, frames, producer,
                 started, drained, hand, codec, readerVars, stopper, accepted>>

-----------------------------------------------------------------------------
(* ReadFrame and TryReadFrame.                                             *)

ReaderOnly == UNCHANGED <<stopping, error, submittedEof, packets, packetsClosed,
                          framesClosed, producer, workerVars, stopper, accepted>>

Read(wait) ==
  /\ reader = "idle"
  /\ waits' = wait
  /\ IF stopping THEN result' = "null" /\ UNCHANGED reader
                 ELSE reader' = "pop" /\ UNCHANGED result
  /\ UNCHANGED <<frames, taken, delivered>> /\ ReaderOnly

ReadPop ==
  /\ reader = "pop" /\ reader' = "check"
  /\ \/ frames # <<>> /\ taken' = <<Head(frames)>> /\ frames' = Tail(frames)
     \/ frames = <<>> /\ (framesClosed \/ ~waits) /\ UNCHANGED <<taken, frames>>
  /\ UNCHANGED <<waits, result, delivered>> /\ ReaderOnly

\* Trusting the test made before the queue was read.
StopUnseen == FALSE
StopSeen == stopping

ReadCheck ==
  /\ reader = "check" /\ reader' = "idle" /\ taken' = <<>>
  /\ \/ /\ StopSeen \/ taken = <<>>
        /\ result' = "null" /\ UNCHANGED delivered
     \/ /\ ~StopSeen /\ taken # <<>>
        /\ result' = IF taken[1].kind = "eof" THEN "eof" ELSE "frame"
        /\ delivered' = delivered \o taken
  /\ UNCHANGED <<frames, waits>> /\ ReaderOnly

-----------------------------------------------------------------------------
(* RequestStop, and Stop, which joins the worker and discards both queues. *)

StopOnly == UNCHANGED <<error, submittedEof, producer, workerVars, readerVars,
                        accepted>>

RequestStop(p) ==
  /\ stopper[p] = "idle"
  /\ stopper' = [stopper EXCEPT ![p] = "packets"]
  /\ stopping' = TRUE
  /\ UNCHANGED queues /\ StopOnly

\* Closing the output alone.
StopOutputOnly(p) ==
  /\ stopper[p] = "packets"
  /\ stopper' = [stopper EXCEPT ![p] = "frames"]
  /\ UNCHANGED <<stopping, queues>> /\ StopOnly

StopPackets(p) ==
  /\ stopper[p] = "packets"
  /\ stopper' = [stopper EXCEPT ![p] = "frames"]
  /\ packetsClosed' = TRUE
  /\ UNCHANGED <<stopping, packets, frames, framesClosed>> /\ StopOnly

StopFrames(p) ==
  /\ stopper[p] = "frames"
  /\ stopper' = [stopper EXCEPT ![p] = IF p = "owner" THEN "join" ELSE "done"]
  /\ framesClosed' = TRUE
  /\ UNCHANGED <<stopping, packets, packetsClosed, frames>> /\ StopOnly

Join ==
  /\ stopper["owner"] = "join" /\ worker = "exited"
  /\ stopper' = [stopper EXCEPT !["owner"] = "done"]
  /\ packets' = <<>> /\ frames' = <<>>
  /\ UNCHANGED <<stopping, packetsClosed, framesClosed>> /\ StopOnly

-----------------------------------------------------------------------------
Worker == Look \/ Receive \/ Emit \/ Pop \/ Act \/ Fail \/ FailPackets
          \/ FailFrames
StopStep(p) == StopPackets(p) \/ StopFrames(p)

Next ==
  \/ (\E kind \in Kinds, wait \in BOOLEAN : Push(kind, wait)) \/ PushWaits
  \/ Worker
  \/ (\E wait \in BOOLEAN : Read(wait)) \/ ReadPop \/ ReadCheck
  \/ (\E p \in Stoppers : RequestStop(p) \/ StopStep(p)) \/ Join

Fairness ==
  /\ WF_vars(Worker) /\ WF_vars(PushWaits) /\ WF_vars(ReadPop \/ ReadCheck)
  /\ WF_vars(Join) /\ \A p \in Stoppers : WF_vars(StopStep(p))

\* A consumer that keeps reading.
Consuming == WF_vars(Read(TRUE))

Spec == Init /\ [][Next]_vars /\ Fairness /\ Consuming

-----------------------------------------------------------------------------
(* Properties.                                                             *)

\* What has left the worker, in order.
Output == delivered \o taken \o frames

SameEpoch(i, j) == \A k \in i..j : accepted[k] # "reset"

\* Output follows the order of submission, so that no frame of one connection
\* comes after one of the next, and an EOF comes after the frame of every packet
\* submitted since the last Reset: a drain loses nothing.
EofAfterFrames ==
  /\ TypeOK
  /\ \A i, j \in DOMAIN Output : i < j => Output[i].n < Output[j].n
  /\ ~stopping =>
       \A j \in DOMAIN Output : Output[j].kind = "eof" =>
         \A p \in 1..Output[j].n :
           accepted[p] = "packet" /\ SameEpoch(p, Output[j].n) =>
             \E i \in 1..j : Output[i].n = p

\* Once a stop is requested nothing is delivered, also by a read that already
\* took an item.
StopSilences == [][stopping => delivered' = delivered]_vars

\* Stop returns although the worker may be blocked on either queue; a
\* submission blocked on a full queue returns after a stop or a failure; and a
\* submitted EOF reaches a consumer that keeps reading, unless the decoder
\* stops, fails or is reset.
CallsServed ==
  /\ stopper["owner"] = "packets" ~> stopper["owner"] = "done"
  /\ (stopping \/ error) /\ producer # "idle" ~> producer = "idle"
  /\ submittedEof ~> \/ stopping \/ error \/ ~submittedEof
                     \/ \E i \in DOMAIN delivered : delivered[i].kind = "eof"

=============================================================================
