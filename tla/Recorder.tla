------------------------------ MODULE Recorder ------------------------------
(***************************************************************************)
(* The asynchronous MP4 recorder (recorder.cc): submitters append packets  *)
(* to a queue bounded in bytes, one worker per session opens the file,     *)
(* drains the queue into the muxer and writes the trailer.  A step is one  *)
(* critical section under mutex_, one notification after it, or one call   *)
(* the worker makes into the file writer outside the lock.                 *)
(*                                                                         *)
(* External: the muxer and the disk, which may fail at any call, and the   *)
(* bitstream filter, which may keep a packet back until it is flushed.     *)
(***************************************************************************)
EXTENDS Integers, Sequences, SequencesExt

CONSTANTS
  Tracks,       \* the streams given to Start; one submitter each
  Adts,         \* the AAC tracks whose packets carry ADTS headers
  Tick,         \* length of a tick of a track's time_base
  Size,         \* PacketBytes of a packet of each track
  MaxBytes,     \* config.max_queue_bytes
  MaxPackets,   \* bound: packets a track submits in a session
  MaxSessions,  \* bound: calls of Start
  MaxFaults     \* bound: failures of the file, the muxer or thread creation

ASSUME RecorderAssumption ==
  /\ Adts \subseteq Tracks
  /\ Tick \in [Tracks -> Nat \ {0}]
  /\ Size \in [Tracks -> Nat \ {0}]
  /\ MaxBytes \in Nat \ {0}
  /\ MaxPackets \in Nat /\ MaxSessions \in Nat /\ MaxFaults \in Nat

\* The n-th packet of a track has timestamp n in the track's time_base.
Packets == [track : Tracks, ts : Nat]

VARIABLES
  state,      \* status_.state
  queue,      \* queue_
  queueBytes, \* status_.queue_bytes
  written,    \* status_.written_packets
  dropped,    \* status_.dropped_packets
  joinable,   \* worker_.joinable()
  worker,     \* where Run is
  hand,       \* the packet the worker took, until it is counted
  filter,     \* packets the bitstream filter keeps back
  origin,     \* origin_ in units of time, or NoOrigin
  file,       \* what was muxed: packets and the shift they were given
  submitter,  \* "notify" between a submitter's unlock and its notify_one
  owner,      \* where the thread that calls Start and Stop is
  drainer,    \* where a thread that calls Drain is
  accepted,   \* history: packets for which TrySubmitPacket returned true
  submitted,  \* packets offered by a track in this session
  errors,     \* OnError calls of this session
  sessions,   \* calls of Start
  faults      \* failures so far

session == <<written, dropped, accepted, submitted, errors>>
writer == <<hand, filter, origin, file>>
vars == <<state, queue, queueBytes, joinable, worker, submitter, owner, drainer,
          session, writer, sessions, faults>>

NoOrigin == -1

TypeOK ==
  /\ state \in {"stopped", "running", "stopping", "failed"}
  /\ queue \in Seq(Packets) /\ hand \in Seq(Packets) /\ filter \in Seq(Packets)
  /\ queueBytes \in 0..MaxBytes
  /\ written \in Nat /\ dropped \in Nat /\ errors \in Nat
  /\ joinable \in BOOLEAN
  /\ worker \in {"none", "open", "look", "waiting", "write", "count", "finish",
                 "stop", "fail", "callback", "exited"}
  /\ origin \in Nat \cup {NoOrigin}
  /\ file \in Seq([packet : Packets, shift : Int])
  /\ submitter \in [Tracks -> {"idle", "notify"}]
  /\ owner \in {"idle", "notify", "join"}
  /\ drainer \in {"idle", "notify"}
  /\ accepted \in Seq(Packets)
  /\ submitted \in [Tracks -> Nat]
  /\ sessions \in Nat /\ faults \in Nat

Init ==
  /\ state = "stopped"
  /\ queue = <<>> /\ queueBytes = 0
  /\ joinable = FALSE /\ worker = "none"
  /\ submitter = [t \in Tracks |-> "idle"]
  /\ owner = "idle" /\ drainer = "idle"
  /\ written = 0 /\ dropped = 0 /\ accepted = <<>> /\ errors = 0
  /\ submitted = [t \in Tracks |-> 0]
  /\ hand = <<>> /\ filter = <<>> /\ origin = NoOrigin /\ file = <<>>
  /\ sessions = 0 /\ faults = 0

Fault == faults < MaxFaults /\ faults' = faults + 1

\* notify_one on ready_, where only the worker waits.
NotifyReady == worker' = IF worker = "waiting" THEN "look" ELSE worker

-----------------------------------------------------------------------------
(* Start.  It resets the status but neither queue_ nor its contents.       *)

ResetSession ==
  /\ written' = 0 /\ dropped' = 0 /\ accepted' = <<>> /\ errors' = 0
  /\ submitted' = [t \in Tracks |-> 0]
  /\ hand' = <<>> /\ filter' = <<>> /\ origin' = NoOrigin /\ file' = <<>>
  /\ queueBytes' = 0

Start ==
  /\ owner = "idle" /\ sessions < MaxSessions /\ ~joinable
  /\ ResetSession
  /\ sessions' = sessions + 1
  /\ \/ state' = "running" /\ joinable' = TRUE /\ worker' = "open"
        /\ UNCHANGED faults
     \/ state' = "failed" /\ Fault /\ UNCHANGED <<joinable, worker>>
  /\ UNCHANGED <<queue, submitter, owner, drainer>>

-----------------------------------------------------------------------------
(* TrySubmitPacket.  A call that is refused or throws changes nothing.     *)

Accepting == state = "running"

Fits(p) == Size[p.track] <= MaxBytes - queueBytes

TrySubmitPacket(t) ==
  LET p == [track |-> t, ts |-> submitted[t] + 1] IN
  /\ submitter[t] = "idle" /\ submitted[t] < MaxPackets
  /\ Accepting
  /\ submitted' = [submitted EXCEPT ![t] = @ + 1]
  /\ \/ /\ Fits(p)
        /\ queue' = Append(queue, p)
        /\ queueBytes' = queueBytes + Size[t]
        /\ accepted' = Append(accepted, p)
        /\ submitter' = [submitter EXCEPT ![t] = "notify"]
        /\ UNCHANGED dropped
     \/ /\ ~Fits(p)
        /\ dropped' = dropped + 1
        /\ UNCHANGED <<queue, queueBytes, accepted, submitter>>
  /\ UNCHANGED <<state, joinable, worker, owner, drainer, written, errors,
                 writer, sessions, faults>>

SubmitNotify(t) ==
  /\ submitter[t] = "notify"
  /\ submitter' = [submitter EXCEPT ![t] = "idle"]
  /\ NotifyReady
  /\ UNCHANGED <<state, queue, queueBytes, joinable, owner, drainer, session,
                 writer, sessions, faults>>

-----------------------------------------------------------------------------
(* Drain, called by any thread and by Stop, which then joins the worker.   *)

DrainState == IF state = "running" THEN "stopping" ELSE state

Drain ==
  /\ drainer = "idle"
  /\ state' = DrainState
  /\ drainer' = "notify"
  /\ UNCHANGED <<queue, queueBytes, joinable, worker, submitter, owner, session,
                 writer, sessions, faults>>

DrainNotify ==
  /\ drainer = "notify"
  /\ drainer' = "idle"
  /\ NotifyReady
  /\ UNCHANGED <<state, queue, queueBytes, joinable, submitter, owner, session,
                 writer, sessions, faults>>

Stop ==
  /\ owner = "idle" /\ joinable
  /\ state' = DrainState
  /\ owner' = "notify"
  /\ UNCHANGED <<queue, queueBytes, joinable, worker, submitter, drainer,
                 session, writer, sessions, faults>>

StopNotify ==
  /\ owner = "notify"
  /\ owner' = "join"
  /\ NotifyReady
  /\ UNCHANGED <<state, queue, queueBytes, joinable, submitter, drainer,
                 session, writer, sessions, faults>>

Join ==
  /\ owner = "join" /\ worker = "exited"
  /\ owner' = "idle" /\ joinable' = FALSE /\ worker' = "none"
  /\ UNCHANGED <<state, queue, queueBytes, submitter, drainer, session, writer,
                 sessions, faults>>

-----------------------------------------------------------------------------
(* FileWriter.  Muxing a packet fixes the common origin if there is none   *)
(* yet: the packet's timestamp plus its initial padding.  The origin is    *)
(* rescaled to the nearest tick of the track it is subtracted from.        *)

Paddings == {0, 1}

\* A new origin for every packet that is written.
OriginOfPacket(p, pad) == (p.ts + pad) * Tick[p.track]

OriginWith(p, pad) ==
  IF origin = NoOrigin THEN (p.ts + pad) * Tick[p.track] ELSE origin

Rescaled(o, t) == (2 * o + Tick[t]) \div (2 * Tick[t])

WritePackets(ps) ==
  IF ps = <<>> THEN UNCHANGED <<origin, file>> ELSE
  \E pad \in Paddings :
    /\ origin' = OriginWith(ps[1], pad)
    /\ file' = file \o [i \in DOMAIN ps |->
         [packet |-> ps[i], shift |-> Rescaled(origin', ps[i].track)]]

\* The worker leaves the try block: Fail is next.
Throw == worker' = "fail" /\ Fault /\ UNCHANGED <<origin, file>>

WorkerOnly == UNCHANGED <<state, queue, queueBytes, joinable, submitter, owner,
                          drainer, session, sessions>>

Open ==
  /\ worker = "open"
  /\ \/ worker' = "look" /\ UNCHANGED <<origin, file, faults>>
     \/ Throw
  /\ UNCHANGED <<hand, filter>> /\ WorkerOnly

\* A packet with an ADTS header goes through the filter, which gives back all
\* it has or keeps the newest.
Write ==
  LET p == hand[1]
      inside == IF p.track \in Adts THEN Append(filter, p) ELSE hand IN
  /\ worker = "write"
  /\ \/ \E keep \in IF p.track \in Adts THEN 0..1 ELSE {0} :
          /\ WritePackets(SubSeq(inside, 1, Len(inside) - keep))
          /\ filter' = IF p.track \in Adts
                       THEN SubSeq(inside, Len(inside) - keep + 1, Len(inside))
                       ELSE filter
          /\ hand' = <<>> /\ worker' = "count" /\ UNCHANGED faults
     \/ Throw /\ UNCHANGED <<hand, filter>>
     \/ \* the packets are muxed, but CheckIo finds an IO error
        /\ WritePackets(inside) /\ worker' = "fail" /\ Fault
        /\ hand' = <<>> /\ filter' = IF p.track \in Adts THEN <<>> ELSE filter
  /\ WorkerOnly

Finish ==
  /\ worker = "finish"
  /\ \/ WritePackets(filter) /\ filter' = <<>> /\ worker' = "stop"
        /\ UNCHANGED faults
     \/ Throw /\ UNCHANGED filter
  /\ UNCHANGED hand /\ WorkerOnly

-----------------------------------------------------------------------------
(* Run and Fail.                                                           *)

\* The wait predicate, the break, and the packet taken from the queue.
TakePacket ==
  /\ worker = "look"
  /\ \/ /\ queue = <<>> /\ state = "running"
        /\ worker' = "waiting" /\ UNCHANGED <<queue, queueBytes, hand>>
     \/ /\ queue = <<>> /\ state # "running"
        /\ worker' = "finish" /\ UNCHANGED <<queue, queueBytes, hand>>
     \/ /\ queue # <<>>
        /\ queueBytes' = queueBytes - Size[Head(queue).track]
        /\ hand' = <<Head(queue)>> /\ queue' = Tail(queue)
        /\ worker' = "write"
  /\ UNCHANGED <<state, joinable, submitter, owner, drainer, session, filter,
                 origin, file, sessions, faults>>

\* wait may return without a notification.
SpuriousWakeup ==
  /\ worker = "waiting" /\ worker' = "look"
  /\ UNCHANGED writer /\ WorkerOnly /\ UNCHANGED faults

CountWritten ==
  /\ worker = "count"
  /\ written' = written + 1
  /\ worker' = "look"
  /\ UNCHANGED <<state, queue, queueBytes, joinable, submitter, owner, drainer,
                 dropped, accepted, submitted, errors, writer, sessions, faults>>

Stopped ==
  /\ worker = "stop"
  /\ state' = "stopped"
  /\ worker' = "exited"
  /\ UNCHANGED <<queue, queueBytes, joinable, submitter, owner, drainer,
                 session, writer, sessions, faults>>

\* Leaving the packets in the queue.
FailKeepsQueue ==
  /\ worker = "fail"
  /\ state' = "failed" /\ queueBytes' = 0
  /\ worker' = "callback"
  /\ UNCHANGED <<queue, joinable, submitter, owner, drainer, session, writer,
                 sessions, faults>>

Fail ==
  /\ worker = "fail"
  /\ state' = "failed" /\ queueBytes' = 0 /\ queue' = <<>>
  /\ worker' = "callback"
  /\ UNCHANGED <<joinable, submitter, owner, drainer, session, writer, sessions,
                 faults>>

OnError ==
  /\ worker = "callback"
  /\ errors' = errors + 1
  /\ worker' = "exited"
  /\ UNCHANGED <<state, queue, queueBytes, joinable, submitter, owner, drainer,
                 written, dropped, accepted, submitted, writer, sessions, faults>>

-----------------------------------------------------------------------------
Worker == Open \/ TakePacket \/ Write \/ CountWritten \/ Finish \/ Stopped
          \/ Fail \/ OnError

Next ==
  \/ Start \/ Stop \/ StopNotify \/ Join
  \/ Drain \/ DrainNotify
  \/ \E t \in Tracks : SubmitNotify(t) \/ TrySubmitPacket(t)
  \/ Worker \/ SpuriousWakeup

\* The threads inside a call proceed and the worker runs; nobody has to call,
\* and a wakeup nobody caused is not relied on.
Fairness ==
  /\ WF_vars(Worker)
  /\ WF_vars(StopNotify) /\ WF_vars(Join) /\ WF_vars(DrainNotify)
  /\ \A t \in Tracks : WF_vars(SubmitNotify(t))

Spec == Init /\ [][Next]_vars /\ Fairness

-----------------------------------------------------------------------------
(* Properties.                                                             *)

Bytes(ps) == FoldLeft(LAMBDA sum, p : sum + Size[p.track], 0, ps)
OfTrack(ps, t) ==
  FoldLeft(LAMBDA kept, p : IF p.track = t THEN Append(kept, p) ELSE kept, <<>>, ps)
Muxed == [i \in DOMAIN file |-> file[i].packet]

\* Nothing accepted is lost or reordered.  Until a failure every accepted
\* packet of a track is in the file, in the filter, in the worker's hand or
\* queued, in the order of submission; after a failure the file holds a prefix.
\* queue_bytes is the size of what is queued in every session, although Start
\* resets the count and not the queue.  A failure is reported once, after it is
\* stored and the queue released, and no Drain or Stop that races it hides it.
Accounted ==
  /\ TypeOK
  /\ queueBytes = Bytes(queue)
  /\ \A t \in Tracks :
       /\ IsPrefix(OfTrack(Muxed, t), OfTrack(accepted, t))
       /\ state # "failed" =>
            OfTrack(accepted, t) = OfTrack(Muxed \o filter \o hand \o queue, t)
  /\ errors <= 1
  /\ errors = 1 => state = "failed" /\ queue = <<>>

\* A session that ended without a failure wrote every packet it accepted, and
\* counted them, however Drain raced the submissions.
StoppedComplete ==
  state = "stopped" =>
    /\ Len(file) = Len(accepted)
    /\ written = Len(accepted)

\* Tracks keep their relative timing: any two packets of a file were shifted by
\* the same time, up to the rounding to a tick of either track.
RelativeTimingKept ==
  \A i, j \in DOMAIN file :
    LET a == file[i]
        b == file[j]
        d == a.shift * Tick[a.packet.track] - b.shift * Tick[b.packet.track]
    IN  2 * d <= Tick[a.packet.track] + Tick[b.packet.track]

\* Stop returns: the worker is woken and ends.
StopReturns == owner = "notify" ~> owner = "idle"

=============================================================================
