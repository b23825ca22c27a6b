------------------------------ MODULE AvInput -------------------------------
(***************************************************************************)
(* One demux connection (av_input.cc): an owner opens and closes it, its   *)
(* worker demuxes into a bounded queue, one reader takes packets, and any  *)
(* thread may cancel.  A step is one critical section under mutex_, one    *)
(* operation of the packet queue (see BlockingQueue), one notification, or *)
(* the return of one call into FFmpeg.                                     *)
(*                                                                         *)
(* External: FFmpeg's demuxer, which may return any result, and may hang   *)
(* until its interrupt callback reports a cancellation or a deadline; the  *)
(* steady clock, which lets an armed deadline expire.                      *)
(***************************************************************************)
EXTENDS Integers, Sequences

CONSTANTS
  Capacity,     \* config.packet_capacity
  MaxPackets,   \* bound: packets the source holds in a session
  MaxSessions,  \* bound: calls of Open
  MaxCancels,   \* bound: calls of RequestCancel by another thread
  MaxSkipped    \* bound: packets of other streams in a session

VARIABLES
  status,     \* status_.state
  cancelled,  \* cancelled_
  installed,  \* packets_ is set
  queue,      \* the packets of this session's queue, by number
  closed,     \* this session's queue is closed
  deadline,   \* deadline_ns_: not set, in the future, or passed
  owner,      \* where the thread calling Open and Close is
  worker,     \* where Run is
  hand,       \* the packet the worker demuxed and did not yet admit
  target,     \* the state a thread is publishing
  reader,     \* where ReadPacket is
  waits,      \* ReadPacket (TRUE) or TryReadPacket (FALSE)
  taken,      \* what the reader's Pop gave: a packet, or none
  result,     \* what the last read of this session returned
  canceller,  \* the session whose queue RequestCancel is to close, 0 if none
  demuxed,    \* packets demuxed in this session
  delivered,  \* packets handed to the reader in this session
  sessions, cancels, skipped

readerVars == <<reader, waits, taken, result, delivered>>
workerVars == <<worker, hand, demuxed, skipped>>
bounds == <<sessions, cancels>>
vars == <<status, cancelled, installed, queue, closed, deadline, owner, target,
          canceller, readerVars, workerVars, bounds>>

NoCall == -1   \* canceller: no RequestCancel is in progress

States == {"closed", "opening", "opened", "ended", "failed", "cancelled"}
Terminal == {"ended", "failed", "cancelled"}

TypeOK ==
  /\ status \in States
  /\ cancelled \in BOOLEAN /\ installed \in BOOLEAN /\ closed \in BOOLEAN
  /\ queue \in Seq(Nat) /\ Len(queue) <= Capacity
  /\ deadline \in {"none", "armed", "expired"}
  /\ owner \in {"idle", "install", "publish", "published", "io", "probe",
                "start", "failed", "cancel", "unblock", "join", "release",
                "discard"}
  /\ worker \in {"none", "look", "io", "again", "push", "drain", "waiting",
                 "failed", "publish", "published", "exited"}
  /\ hand \in Seq(Nat) /\ taken \in Seq(Nat)
  /\ target \in [{"owner", "worker"} -> States]
  /\ reader \in {"idle", "pop", "check", "notify"}
  /\ waits \in BOOLEAN
  /\ result \in {"none", "packet", "eof", "null"}
  /\ canceller \in Nat \cup {NoCall}
  /\ demuxed \in Nat /\ delivered \in Nat
  /\ sessions \in Nat /\ cancels \in Nat /\ skipped \in Nat

Init ==
  /\ status = "closed"
  /\ cancelled = FALSE /\ installed = FALSE
  /\ queue = <<>> /\ closed = FALSE
  /\ deadline = "none"
  /\ owner = "idle" /\ worker = "none" /\ reader = "idle"
  /\ hand = <<>> /\ taken = <<>> /\ waits = FALSE /\ result = "none"
  /\ target = [p \in {"owner", "worker"} |-> "closed"]
  /\ canceller = NoCall
  /\ demuxed = 0 /\ delivered = 0
  /\ sessions = 0 /\ cancels = 0 /\ skipped = 0

\* changed_.notify_all: the worker waits there until the queue is drained.
Notified(w) == IF w = "waiting" THEN "drain" ELSE w

-----------------------------------------------------------------------------
(* Publish, by the owner or by the worker: the state under mutex_, then    *)
(* the queue is closed in a terminal state, and observers are told.        *)

PublishStatus(p) ==
  /\ status' = target[p]
  /\ UNCHANGED <<cancelled, installed, queue, closed, deadline, target,
                 canceller, readerVars, hand, demuxed, skipped, bounds>>

ClosesQueue(p) == closed' = (closed \/ target[p] \in Terminal)

OwnerPublish ==
  /\ owner = "publish" /\ owner' = "published"
  /\ PublishStatus("owner") /\ UNCHANGED worker

\* After Opening the deadline of the open call is set.
OpenDeadline == IF target["owner"] = "opening" THEN "armed" ELSE deadline

OwnerPublished ==
  /\ owner = "published"
  /\ owner' = CASE target["owner"] = "opening" -> "io"
                [] target["owner"] = "opened" -> "start"
                [] OTHER -> "idle"
  /\ deadline' = OpenDeadline
  /\ ClosesQueue("owner")
  /\ worker' = Notified(worker)
  /\ UNCHANGED <<status, cancelled, installed, queue, target, canceller,
                 readerVars, hand, demuxed, skipped, bounds>>

WorkerPublish ==
  /\ worker = "publish" /\ worker' = "published"
  /\ PublishStatus("worker") /\ UNCHANGED owner

WorkerPublished ==
  /\ worker = "published" /\ worker' = "exited"
  /\ ClosesQueue("worker")
  /\ UNCHANGED <<status, cancelled, installed, queue, deadline, owner, target,
                 canceller, readerVars, hand, demuxed, skipped, bounds>>

OwnerWill(state) ==
  owner' = "publish" /\ target' = [target EXCEPT !["owner"] = state]
WorkerWill(state) ==
  worker' = "publish" /\ target' = [target EXCEPT !["worker"] = state]

-----------------------------------------------------------------------------
(* Open.  It must not overlap packet reads.                                *)

OpenBegin ==
  /\ owner = "idle" /\ status = "closed" /\ reader = "idle"
  /\ sessions < MaxSessions
  /\ sessions' = sessions + 1
  /\ cancelled' = FALSE
  /\ owner' = "install"
  /\ demuxed' = 0 /\ skipped' = 0 /\ delivered' = 0 /\ result' = "none"
  /\ UNCHANGED <<status, installed, queue, closed, deadline, target, canceller,
                 reader, waits, taken, worker, hand, cancels>>

OpenInstall ==
  /\ owner = "install"
  /\ installed' = TRUE /\ queue' = <<>> /\ closed' = FALSE
  /\ OwnerWill("opening")
  /\ UNCHANGED <<status, cancelled, deadline, canceller, readerVars, workerVars,
                 bounds>>

\* CheckIo: cancellation and the deadline override what FFmpeg returned.
CheckIo == ~cancelled /\ deadline # "expired"

\* avformat_open_input, then avformat_find_stream_info under one deadline.
OpenIo ==
  /\ owner \in {"io", "probe"}
  /\ \/ /\ CheckIo /\ owner = "io"
        /\ owner' = "probe" /\ UNCHANGED <<deadline, target>>
     \/ /\ CheckIo /\ owner = "probe"
        /\ OwnerWill("opened") /\ deadline' = "none"
     \/ owner' = "failed" /\ UNCHANGED <<deadline, target>>
  /\ UNCHANGED <<status, cancelled, installed, queue, closed, canceller,
                 readerVars, workerVars, bounds>>

OpenStart ==
  /\ owner = "start"
  /\ \/ owner' = "idle" /\ worker' = "look"
     \/ owner' = "failed" /\ UNCHANGED worker
  /\ UNCHANGED <<status, cancelled, installed, queue, closed, deadline, target,
                 canceller, readerVars, hand, demuxed, skipped, bounds>>

\* What a failure is reported as.
FailureState == IF cancelled THEN "cancelled" ELSE "failed"

OpenFailed ==
  /\ owner = "failed"
  /\ deadline' = "none"
  /\ OwnerWill(FailureState)
  /\ UNCHANGED <<status, cancelled, installed, queue, closed, canceller,
                 readerVars, workerVars, bounds>>

-----------------------------------------------------------------------------
(* RequestCancel, and Close, which begins with it.                         *)

RequestCancel ==
  /\ canceller = NoCall /\ cancels < MaxCancels
  /\ cancels' = cancels + 1
  /\ cancelled' = TRUE
  /\ canceller' = IF installed THEN sessions ELSE 0
  /\ UNCHANGED <<status, installed, queue, closed, deadline, owner, target,
                 readerVars, workerVars, sessions>>

CancelUnblock ==
  /\ canceller # NoCall
  /\ closed' = (closed \/ canceller = sessions)
  /\ canceller' = NoCall
  /\ worker' = Notified(worker)
  /\ UNCHANGED <<status, cancelled, installed, queue, deadline, owner, target,
                 readerVars, hand, demuxed, skipped, bounds>>

Close ==
  /\ owner = "idle" /\ status # "closed"
  /\ cancelled' = TRUE
  /\ owner' = "unblock"
  /\ UNCHANGED <<status, installed, queue, closed, deadline, target, canceller,
                 readerVars, workerVars, bounds>>

CloseUnblock ==
  /\ owner = "unblock" /\ owner' = "join"
  /\ closed' = TRUE
  /\ worker' = Notified(worker)
  /\ UNCHANGED <<status, cancelled, installed, queue, deadline, target,
                 canceller, readerVars, hand, demuxed, skipped, bounds>>

CloseJoin ==
  /\ owner = "join" /\ worker \in {"none", "exited"}
  /\ worker' = IF worker = "exited" THEN "none" ELSE worker
  /\ hand' = <<>>
  /\ deadline' = "none"
  /\ owner' = "release"
  /\ UNCHANGED <<status, cancelled, installed, queue, closed, target, canceller,
                 readerVars, demuxed, skipped, bounds>>

CloseRelease ==
  /\ owner = "release" /\ owner' = "discard"
  /\ installed' = FALSE
  /\ UNCHANGED <<status, cancelled, queue, closed, deadline, target, canceller,
                 readerVars, workerVars, bounds>>

CloseDiscard ==
  /\ owner = "discard"
  /\ queue' = <<>>
  /\ OwnerWill("closed")
  /\ UNCHANGED <<status, cancelled, installed, closed, deadline, canceller,
                 readerVars, workerVars, bounds>>

-----------------------------------------------------------------------------
(* Run.                                                                    *)

WorkerOnly == UNCHANGED <<status, cancelled, installed, closed, owner,
                          canceller, readerVars, bounds>>

Look ==
  /\ worker = "look"
  /\ \/ cancelled /\ WorkerWill("cancelled") /\ deadline' = "none"
     \/ /\ ~cancelled /\ worker' = "io" /\ UNCHANGED target
        /\ deadline' = IF deadline = "none" THEN "armed" ELSE deadline
  /\ UNCHANGED <<queue, hand, demuxed, skipped>> /\ WorkerOnly

\* av_read_frame returns a packet of a delivered stream or of another one, the
\* end of the source, no data yet, or an error.
ReadFrame ==
  /\ worker = "io"
  /\ \/ /\ cancelled /\ WorkerWill("cancelled") /\ deadline' = "none"
        /\ UNCHANGED <<hand, demuxed, skipped>>
     \/ /\ CheckIo /\ demuxed + skipped < MaxPackets
        /\ demuxed' = demuxed + 1 /\ hand' = <<demuxed + 1>>
        /\ deadline' = "none" /\ worker' = "push"
        /\ UNCHANGED <<skipped, target>>
     \/ /\ CheckIo /\ skipped < MaxSkipped /\ demuxed + skipped < MaxPackets
        /\ skipped' = skipped + 1
        /\ deadline' = "none" /\ worker' = "look"
        /\ UNCHANGED <<demuxed, hand, target>>
     \/ /\ CheckIo /\ deadline' = "none" /\ worker' = "drain"
        /\ UNCHANGED <<demuxed, hand, skipped, target>>
     \/ /\ CheckIo /\ worker' = "again"
        /\ UNCHANGED <<deadline, demuxed, hand, skipped, target>>
     \/ /\ ~cancelled /\ worker' = "failed"
        /\ UNCHANGED <<deadline, demuxed, hand, skipped, target>>
  /\ UNCHANGED queue /\ WorkerOnly

\* The 5 ms wait after no data, which a cancellation cuts short.
Again ==
  /\ worker = "again" /\ worker' = "look"
  /\ UNCHANGED <<queue, deadline, target, hand, demuxed, skipped>> /\ WorkerOnly

\* Room in the packet queue.
HasRoom == Len(queue) < Capacity

\* Push blocks until there is room or the queue is closed.
Push ==
  /\ worker = "push"
  /\ \/ /\ closed /\ deadline' = "none" /\ WorkerWill("cancelled")
        /\ UNCHANGED <<queue, hand>>
     \/ /\ ~closed /\ HasRoom
        /\ queue' = queue \o hand /\ hand' = <<>> /\ worker' = "look"
        /\ UNCHANGED <<deadline, target>>
  /\ UNCHANGED <<demuxed, skipped>> /\ WorkerOnly

\* The end of the source is published once the queue is empty.
Drain ==
  /\ worker = "drain"
  /\ \/ cancelled /\ WorkerWill("cancelled")
     \/ ~cancelled /\ queue = <<>> /\ WorkerWill("ended")
     \/ ~cancelled /\ queue # <<>> /\ worker' = "waiting" /\ UNCHANGED target
  /\ UNCHANGED <<queue, deadline, hand, demuxed, skipped>> /\ WorkerOnly

FinishFailure ==
  /\ worker = "failed"
  /\ deadline' = "none"
  /\ WorkerWill(FailureState)
  /\ UNCHANGED <<queue, hand, demuxed, skipped>> /\ WorkerOnly

-----------------------------------------------------------------------------
(* ReadPacket and TryReadPacket.                                           *)

ReadOnly == UNCHANGED <<status, cancelled, installed, closed, deadline, owner,
                        target, canceller, hand, demuxed, skipped, bounds>>

Read(wait) ==
  /\ reader = "idle" /\ owner # "install" /\ status # "opening"
  /\ waits' = wait
  /\ IF cancelled \/ ~installed
     THEN result' = "null" /\ UNCHANGED reader
     ELSE reader' = "pop" /\ UNCHANGED result
  /\ UNCHANGED <<queue, taken, delivered, worker>> /\ ReadOnly

Pop ==
  /\ reader = "pop" /\ reader' = "check"
  /\ \/ queue # <<>> /\ taken' = <<Head(queue)>> /\ queue' = Tail(queue)
     \/ queue = <<>> /\ (closed \/ ~waits) /\ UNCHANGED <<taken, queue>>
  /\ UNCHANGED <<waits, result, delivered, worker>> /\ ReadOnly

\* Trusting what was checked before the queue was read.
StaleUnchecked == FALSE

\* The connection the packet came from is over.
Stale == cancelled \/ status \in {"closed", "cancelled"} \/ ~installed

Check ==
  /\ reader = "check"
  /\ taken' = <<>>
  /\ \/ /\ Stale
        /\ result' = "null" /\ reader' = "idle" /\ UNCHANGED delivered
     \/ /\ ~Stale /\ taken # <<>>
        /\ result' = "packet" /\ reader' = "notify" /\ delivered' = taken[1]
     \/ /\ ~Stale /\ taken = <<>>
        /\ result' = IF status = "ended" THEN "eof" ELSE "null"
        /\ reader' = "idle" /\ UNCHANGED delivered
  /\ UNCHANGED <<queue, waits, worker>> /\ ReadOnly

ReadNotify ==
  /\ reader = "notify" /\ reader' = "idle"
  /\ worker' = Notified(worker)
  /\ UNCHANGED <<queue, waits, taken, result, delivered>> /\ ReadOnly

-----------------------------------------------------------------------------
\* An armed deadline passes.
Expire ==
  /\ deadline = "armed" /\ deadline' = "expired"
  /\ UNCHANGED <<status, cancelled, installed, queue, closed, owner, target,
                 canceller, readerVars, workerVars, bounds>>

OwnerStep ==
  \/ OpenInstall \/ OwnerPublish \/ OwnerPublished \/ OpenStart \/ OpenFailed
  \/ CloseUnblock \/ CloseJoin \/ CloseRelease \/ CloseDiscard

WorkerStep ==
  \/ Look \/ Again \/ Push \/ Drain \/ FinishFailure \/ WorkerPublish
  \/ WorkerPublished

ReaderStep == Pop \/ Check \/ ReadNotify

Next ==
  \/ OpenBegin \/ Close \/ OwnerStep \/ OpenIo
  \/ RequestCancel \/ CancelUnblock
  \/ WorkerStep \/ ReadFrame
  \/ (\E wait \in BOOLEAN : Read(wait)) \/ ReaderStep
  \/ Expire

\* An interrupt callback that looks at the cancellation alone.
InterruptedByCancel == cancelled

\* FFmpeg polls the interrupt callback: a call returns once it is interrupted.
Interrupted == cancelled \/ deadline = "expired"

Fairness ==
  /\ WF_vars(OwnerStep) /\ WF_vars(Interrupted /\ OpenIo)
  /\ WF_vars(WorkerStep) /\ WF_vars(Interrupted /\ ReadFrame)
  /\ WF_vars(CancelUnblock) /\ WF_vars(ReaderStep) /\ WF_vars(Expire)

Spec == Init /\ [][Next]_vars /\ Fairness

-----------------------------------------------------------------------------
(* Properties.                                                             *)

\* Until a cancellation no packet is lost or reordered, and the end is told
\* truly: every packet demuxed after the delivered ones is with the reader,
\* queued or in the worker's hand; kEof is returned only after all of them,
\* also to a TryReadPacket that found the queue empty while the source was
\* active; and a blocking read returns kNull only for a failed connection
\* whose queue is drained.
NothingLost ==
  /\ TypeOK
  /\ ~cancelled /\ installed =>
       taken \o queue \o hand = [i \in 1..(demuxed - delivered) |-> delivered + i]
  /\ result = "eof" /\ ~cancelled => delivered = demuxed
  /\ result = "null" /\ waits /\ reader = "idle" /\ ~cancelled /\ installed =>
       status = "failed" /\ delivered = demuxed

\* Once a cancellation is requested no packet is delivered, also by a read that
\* already took one from the queue.
CancelSilences == [][cancelled /\ cancelled' => delivered' = delivered]_vars

\* Close, Open and a blocked read return although the source may hang: the
\* deadlines and the cancellation interrupt it, whichever call the worker is
\* blocked in.
CallsReturn ==
  /\ owner = "unblock" ~> owner = "idle"
  /\ owner = "install" ~> owner = "idle"
  /\ reader = "pop" ~> reader = "idle"

=============================================================================
