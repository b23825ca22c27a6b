------------------------------ MODULE Remuxer ------------------------------
(***************************************************************************)
(* The remuxer (remuxer.cc) with its interleaver, its common time shift    *)
(* and the registration of outputs (packet_interleaver.h,                  *)
(* media_timestamp_converter.h, remux_output.cc).  One encoder thread per  *)
(* track submits packets through a one-slot queue; every other media step  *)
(* runs as a task of one poller thread; one thread at a time holds         *)
(* control_; Drain may come from any thread.  A step is one critical       *)
(* section under mutex_, one access to the slot, or the part of a poller   *)
(* task between two of them.                                               *)
(*                                                                         *)
(* External: ZLMediaKit, which may refuse an output or a frame or close a  *)
(* push for good, and the file workers of the recorders (module Recorder). *)
(***************************************************************************)
EXTENDS Integers, Sequences, FiniteSets, SequencesExt

CONSTANTS
  Plans,       \* bound: the packets of each track, the sessions started and
               \* the outputs added; one plan is chosen
  Delta,       \* ten seconds, in units of time
  Unit,        \* units of time in a millisecond
  Outputs,     \* the outputs that may be registered
  Files,       \* those that are local recordings
  MaxFaults    \* bound: failures of ZLMediaKit

ASSUME RemuxerAssumption ==
  /\ Delta \in Nat /\ Unit \in Nat \ {0} /\ MaxFaults \in Nat
  /\ Files \subseteq Outputs
  /\ \A p \in Plans : /\ p.media \in Seq(Seq([dts : Int, pts : Int]))
                        /\ p.sessions \in Nat /\ p.adds \subseteq Outputs

VARIABLES
  plan,        \* .media: packets of each track, as [dts, pts] in units of
               \* time; .sessions: calls of Start; .adds: outputs to add
  running, accepting, draining, closing, scheduled, errorReported, error,
  session,     \* which packets_ object is current
  slot,        \* packets_: at most one packet
  closed,      \* packets_ was closed
  queue,       \* interleaver_.queue_
  highest,     \* the last DTS pushed for a track, <<>> before the first
  initialized, \* interleaver_.initialized_
  shift,       \* timestamps_.shift_ms_, <<>> before the first release
  recordOnly,  \* record_only_
  tasks,       \* what is queued on the poller
  poller,      \* where the running task is
  batch,       \* packets the task released
  feeds,       \* recordings the task copied under the lock
  finish,      \* the task's local finish
  registration,\* registration_
  attached,    \* outputs of output_ and recordings_ in this session
  path,        \* this app/stream is in published_paths
  control,     \* where the holder of control_ is
  pending,     \* the output it registers
  producer,    \* where SubmitPacket is, per track
  captured,    \* the session whose queue it captured
  next,        \* packets a track has submitted in this session
  accepted,    \* history: packets admitted by the slot, per track
  out,         \* history: packets released and handled in this session
  since,       \* history: how many were released before an output came
  fed,         \* history: packets given to an output
  errors,      \* history: OnError calls of this session
  faults       \* failures so far

state == <<running, accepting, draining, closing, scheduled, errorReported, error>>
media == <<slot, closed, queue, highest, initialized, shift>>
task == <<poller, batch, feeds, finish>>
outputs == <<registration, attached, path, recordOnly, control, pending>>
submit == <<producer, captured, next, accepted>>
history == <<out, since, fed, errors>>
vars == <<plan, state, session, media, tasks, task, outputs, submit, history, faults>>

Tracks == DOMAIN plan.media
Packets == UNION {{[track |-> t, dts |-> plan.media[t][i].dts, pts |-> plan.media[t][i].pts] :
                    i \in DOMAIN plan.media[t]} : t \in Tracks}

TypeOK ==
  /\ plan \in Plans
  /\ {running, accepting, draining, closing, scheduled, errorReported, error}
       \subseteq BOOLEAN
  /\ session \in 0..plan.sessions
  /\ slot \in Seq(Packets) /\ Len(slot) <= 1 /\ closed \in BOOLEAN
  /\ queue \in Seq(Packets) /\ initialized \in BOOLEAN
  /\ \A t \in Tracks : Len(highest[t]) <= 1
  /\ Len(shift) <= 1 /\ recordOnly \in BOOLEAN
  /\ tasks \in Seq({"start", "attach", "process", "finish", "stopped"})
  /\ poller \in {"idle", "output", "throw", "close", "flush"}
  /\ batch \in Seq(Packets) /\ feeds \subseteq Files /\ finish \in BOOLEAN
  /\ registration \subseteq Outputs /\ attached \subseteq Outputs
  /\ path \in BOOLEAN
  /\ control \in {"idle", "join", "starting", "record", "attaching", "register",
                  "stopping"}
  /\ pending \subseteq Outputs
  /\ producer \in [Tracks -> {"idle", "push", "schedule"}]
  /\ captured \in [Tracks -> 0..plan.sessions]
  /\ out \in Seq(Packets) /\ errors \in Nat /\ faults \in 0..MaxFaults

Fresh ==  \* what a new session starts with
  /\ slot' = <<>> /\ closed' = FALSE /\ queue' = <<>>
  /\ highest' = [t \in Tracks |-> <<>>]
  /\ initialized' = FALSE /\ shift' = <<>>
  /\ next' = [t \in Tracks |-> 0] /\ accepted' = [t \in Tracks |-> <<>>]
  /\ out' = <<>> /\ errors' = 0
  /\ since' = [o \in Outputs |-> 0] /\ fed' = [o \in Outputs |-> <<>>]

Init ==
  /\ plan \in Plans
  /\ running = FALSE /\ accepting = FALSE /\ draining = FALSE /\ closing = FALSE
  /\ scheduled = FALSE /\ errorReported = FALSE /\ error = FALSE
  /\ session = 0 /\ slot = <<>> /\ closed = TRUE
  /\ queue = <<>> /\ highest = [t \in Tracks |-> <<>>]
  /\ initialized = FALSE /\ shift = <<>> /\ recordOnly = FALSE
  /\ tasks = <<>> /\ poller = "idle" /\ batch = <<>> /\ feeds = {}
  /\ finish = FALSE
  /\ registration = {} /\ attached = {} /\ path = FALSE
  /\ control = "idle" /\ pending = {}
  /\ producer = [t \in Tracks |-> "idle"] /\ captured = [t \in Tracks |-> 0]
  /\ next = [t \in Tracks |-> 0] /\ accepted = [t \in Tracks |-> <<>>]
  /\ out = <<>> /\ since = [o \in Outputs |-> 0] /\ fed = [o \in Outputs |-> <<>>]
  /\ errors = 0 /\ faults = 0

Fault == faults < MaxFaults /\ faults' = faults + 1

\* Schedule: what it appends to the poller's tasks q.
Schedule(q, isClosing) ==
  IF scheduled \/ isClosing THEN tasks' = q /\ UNCHANGED scheduled
  ELSE tasks' = Append(q, "process") /\ scheduled' = TRUE

-----------------------------------------------------------------------------
(* Lifecycle: Start, the Add operations, Drain, StopProtocols and Stop.    *)

Start ==
  /\ control = "idle" /\ session < plan.sessions /\ ~running
  /\ error' = FALSE /\ control' = "join"
  /\ UNCHANGED <<plan, running, accepting, draining, closing, scheduled,
                 errorReported, session, media, tasks, task, registration,
                 attached, path, recordOnly, pending, submit, history, faults>>

\* The recorders of the last session are joined, then Sync queues the start.
StartSync ==
  /\ control = "join"
  /\ control' = "starting" /\ tasks' = Append(tasks, "start")
  /\ UNCHANGED <<plan, state, session, media, task, registration, attached, path,
                 recordOnly, pending, submit, history, faults>>

\* On the poller: reserve the path, open every registered output, commit.
StartTask ==
  /\ poller = "idle" /\ tasks # <<>> /\ Head(tasks) = "start"
  /\ tasks' = Tail(tasks) /\ control' = "idle"
  /\ \/ /\ ~path /\ path' = TRUE
        /\ attached' = registration
        /\ recordOnly' = (registration # {} /\ registration \subseteq Files)
        /\ Fresh /\ session' = session + 1
        /\ running' = TRUE /\ accepting' = TRUE
        /\ draining' = FALSE /\ closing' = FALSE /\ scheduled' = FALSE
        /\ errorReported' = FALSE
        /\ UNCHANGED <<error, faults>>
     \/ \* the path, the muxer or an output fails: SetStartError
        /\ Fault /\ error' = TRUE /\ path' = FALSE
        /\ UNCHANGED <<running, accepting, draining, closing, scheduled,
                       errorReported, attached, recordOnly, session, media,
                       next, accepted, history>>
  /\ UNCHANGED <<plan, task, registration, pending, producer, captured>>

Registerable == ~((running /\ ~accepting) \/ draining \/ closing)

\* AddPushUrl, AddRtspPublish, AddHlsPublish.  A second RTSP or HLS point
\* throws and a known URL returns: both change nothing.
Register(o) ==
  /\ control = "idle" /\ o \in plan.adds \ registration /\ Registerable
  /\ IF ~running
     THEN registration' = registration \cup {o} /\ UNCHANGED <<control, pending, tasks>>
     ELSE /\ control' = IF o \in Files THEN "record" ELSE "attaching"
          /\ tasks' = IF o \in Files THEN tasks ELSE Append(tasks, "attach")
          /\ pending' = {o} /\ UNCHANGED registration
  /\ UNCHANGED <<plan, state, session, media, task, attached, path, recordOnly,
                 submit, history, faults>>

Attach(o) ==
  /\ attached' = attached \cup {o}
  /\ since' = [since EXCEPT ![o] = Len(out) + Len(batch)]
  /\ fed' = [fed EXCEPT ![o] = <<>>]

\* The recorder runs; it joins the session under the lock, or Register throws.
RegisterFile ==
  /\ control = "record"
  /\ IF accepting
     THEN /\ \A o \in pending : Attach(o)
          /\ control' = "register" /\ UNCHANGED pending
     ELSE control' = "idle" /\ pending' = {} /\ UNCHANGED <<attached, since, fed>>
  /\ UNCHANGED <<plan, state, session, media, tasks, task, registration, path,
                 recordOnly, submit, out, errors, faults>>

\* Leaving record_only_ set when a protocol output joins.
ConversionStaysOff == UNCHANGED recordOnly
ConversionResumes == recordOnly' = FALSE

AttachTask ==
  /\ poller = "idle" /\ tasks # <<>> /\ Head(tasks) = "attach"
  /\ tasks' = Tail(tasks)
  /\ \/ /\ accepting
        /\ \A o \in pending : Attach(o)
        /\ ConversionResumes /\ control' = "register"
        /\ UNCHANGED <<pending, faults>>
     \/ /\ IF accepting THEN Fault ELSE UNCHANGED faults
        /\ control' = "idle" /\ pending' = {}
        /\ UNCHANGED <<attached, since, fed, recordOnly>>
  /\ UNCHANGED <<plan, state, session, media, task, registration, path, submit,
                 out, errors>>

RegisterDone ==
  /\ control = "register"
  /\ registration' = registration \cup pending
  /\ pending' = {} /\ control' = "idle"
  /\ UNCHANGED <<plan, state, session, media, tasks, task, attached, path,
                 recordOnly, submit, history, faults>>

\* Drain as called by any thread, and by Stop.
DrainEffect ==
  IF ~running \/ closing
  THEN UNCHANGED <<accepting, closed, draining, scheduled, tasks>>
  ELSE /\ accepting' = FALSE /\ closed' = TRUE /\ draining' = TRUE
       /\ Schedule(tasks, closing)

Drain ==
  /\ running /\ ~draining /\ DrainEffect
  /\ UNCHANGED <<plan, running, closing, errorReported, error, session, slot, queue,
                 highest, initialized, shift, task, outputs, submit, history, faults>>

Stop ==
  /\ control = "idle" /\ (running \/ draining \/ registration # {})
  /\ DrainEffect /\ control' = "stopping"
  /\ UNCHANGED <<plan, running, closing, errorReported, error, session, slot, queue,
                 highest, initialized, shift, task, registration, attached, path,
                 recordOnly, pending, submit, history, faults>>

StopDone ==
  /\ control = "stopping" /\ ~running
  /\ registration' = {} /\ draining' = FALSE /\ closing' = FALSE
  /\ control' = "idle"
  /\ UNCHANGED <<plan, running, accepting, scheduled, errorReported, error, session,
                 media, tasks, task, attached, path, recordOnly, pending, submit,
                 history, faults>>

-----------------------------------------------------------------------------
(* SubmitPacket, one producer per track: capture the queue under the lock, *)
(* push into the slot outside it, then schedule the poller.                *)

Submit(t) ==
  /\ producer[t] = "idle" /\ accepting /\ next[t] < Len(plan.media[t])
  /\ next' = [next EXCEPT ![t] = @ + 1]
  /\ captured' = [captured EXCEPT ![t] = session]
  /\ producer' = [producer EXCEPT ![t] = "push"]
  /\ UNCHANGED <<plan, state, session, media, tasks, task, outputs, accepted,
                 history, faults>>

Refused(t) == captured[t] # session \/ closed

\* Push waits while the slot of the captured queue is full; a closed queue,
\* such as that of an earlier session, refuses.
Push(t) ==
  LET p == [track |-> t, dts |-> plan.media[t][next[t]].dts, pts |-> plan.media[t][next[t]].pts] IN
  /\ producer[t] = "push"
  /\ IF Refused(t)
     THEN /\ producer' = [producer EXCEPT ![t] = "idle"]
          /\ UNCHANGED <<slot, accepted>>
     ELSE /\ slot = <<>>
          /\ slot' = <<p>>
          /\ accepted' = [accepted EXCEPT ![t] = Append(@, p)]
          /\ producer' = [producer EXCEPT ![t] = "schedule"]
  /\ UNCHANGED <<plan, state, session, closed, queue, highest, initialized, shift,
                 tasks, task, outputs, captured, next, history, faults>>

SubmitSchedule(t) ==
  /\ producer[t] = "schedule"
  /\ producer' = [producer EXCEPT ![t] = "idle"]
  /\ IF captured[t] = session /\ running THEN Schedule(tasks, closing)
     ELSE UNCHANGED <<tasks, scheduled>>
  /\ UNCHANGED <<plan, running, accepting, draining, closing, errorReported, error,
                 session, media, task, outputs, captured, next, accepted, history,
                 faults>>

-----------------------------------------------------------------------------
(* The interleaver: one queue in DTS order, tracks in order on a tie.      *)

Before(p, q) == p.dts < q.dts \/ (p.dts = q.dts /\ p.track <= q.track)

Inserted(q, p) ==
  LET k == Cardinality({i \in DOMAIN q : Before(q[i], p)})
  IN  SubSeq(q, 1, k) \o <<p>> \o SubSeq(q, k + 1, Len(q))

\* Using the watermarks of the tracks instead of what is buffered.
AllTracksSeen(q) == \A t \in Tracks : highest[t] # <<>>
AllTracksBuffered(q) == \A t \in Tracks : \E i \in DOMAIN q : q[i].track = t

ExceedsDelta(q) == Len(q) >= 2 /\ Last(q).dts - Head(q).dts > Delta

\* How many packets PopReady releases: it stops at the first front it may not.
Releasable(q, flush) ==
  LET rest(k) == SubSeq(q, k + 1, Len(q))
      go(k) == k < Len(q) /\ (flush \/ AllTracksBuffered(rest(k)) \/ ExceedsDelta(rest(k)))
  IN  CHOOSE k \in 0..Len(q) : ~go(k) /\ \A j \in 0..(k - 1) : go(j)

\* FirstPackets and Initialize: one shift for all tracks, from the first packet
\* that each of them has.
FirstPackets(q) ==
  {q[i] : i \in {j \in DOMAIN q : \A k \in 1..(j - 1) : q[k].track # q[j].track}}

Minimum(S) == CHOOSE x \in S : \A y \in S : x <= y

\* av_rescale_q: to the nearest millisecond, halves away from zero.
Nearest(n) == (2 * n + Unit) \div (2 * Unit)
Milliseconds(time) == IF time < 0 THEN -Nearest(-time) ELSE Nearest(time)

\* From the presentation times alone.
ShiftOfPts(q) == <<-Minimum({0} \cup {Milliseconds(p.pts) : p \in FirstPackets(q)})>>
ShiftOf(q) ==
  <<-Minimum({0} \cup {Milliseconds(p.pts) : p \in FirstPackets(q)}
                  \cup {Milliseconds(p.dts) : p \in FirstPackets(q)})>>

-----------------------------------------------------------------------------
(* Process.  Under the lock: take the slot, order it, release what is ready.*)

TakesTask(name) ==
  poller = "idle" /\ tasks # <<>> /\ Head(tasks) = name

Regresses(p) == highest[p.track] # <<>> /\ p.dts < highest[p.track][1]

\* The interleaver's queue and watermarks after the packet in the slot.
Pushed == IF slot = <<>> THEN queue ELSE Inserted(queue, slot[1])
Watermarks == IF slot = <<>> THEN highest
              ELSE [highest EXCEPT ![slot[1].track] = <<slot[1].dts>>]
Ready == initialized \/ draining \/ \A t \in Tracks : Watermarks[t] # <<>>

\* Process finds the session closing.
ProcessLate ==
  /\ TakesTask("process") /\ closing
  /\ tasks' = Tail(tasks) /\ scheduled' = FALSE
  /\ UNCHANGED <<plan, running, accepting, draining, closing, errorReported, error,
                 session, media, task, outputs, submit, history, faults>>

\* A DTS that goes back throws in Push, a track that is missing for longer
\* than Delta at the start throws in PopReady; scheduled_ stays set.
ProcessThrow ==
  /\ TakesTask("process") /\ ~closing
  /\ \/ slot # <<>> /\ Regresses(slot[1]) /\ UNCHANGED <<queue, highest>>
     \/ /\ slot # <<>> => ~Regresses(slot[1])
        /\ ~Ready /\ ExceedsDelta(Pushed)
        /\ queue' = Pushed /\ highest' = Watermarks
  /\ slot' = <<>> /\ tasks' = Tail(tasks) /\ poller' = "throw"
  /\ UNCHANGED <<plan, state, session, closed, initialized, shift, batch, feeds,
                 finish, outputs, submit, history, faults>>

ProcessTake ==
  LET n == IF Ready THEN Releasable(Pushed, draining) ELSE 0 IN
  /\ TakesTask("process") /\ ~closing
  /\ slot # <<>> => ~Regresses(slot[1])
  /\ ~Ready => ~ExceedsDelta(Pushed)
  /\ slot' = <<>> /\ highest' = Watermarks /\ initialized' = Ready
  /\ queue' = SubSeq(Pushed, n + 1, Len(Pushed))
  /\ batch' = SubSeq(Pushed, 1, n)
  /\ shift' = IF shift = <<>> /\ n > 0 THEN ShiftOf(Pushed) ELSE shift
  /\ feeds' = attached \cap Files
  /\ finish' = draining /\ scheduled' = FALSE
  /\ tasks' = Tail(tasks) /\ poller' = "output"
  /\ UNCHANGED <<plan, running, accepting, draining, closing, errorReported, error,
                 session, closed, outputs, submit, history, faults>>

\* Outside the lock: every packet goes to the recordings that were copied and,
\* converted with the common shift, to the protocols.
Unconvertible(p) ==
  Milliseconds(p.dts) + shift[1] < 0 \/ Milliseconds(p.pts) + shift[1] < 0

Feed(k, n) ==  \* k packets of the batch reach the recordings, n the protocols
  /\ fed' = [o \in Outputs |->
       IF o \in feeds THEN fed[o] \o SubSeq(batch, 1, k)
       ELSE IF o \in attached \ Files /\ ~recordOnly
            THEN fed[o] \o SubSeq(batch, 1, n) ELSE fed[o]]
  /\ out' = out \o SubSeq(batch, 1, k)

ProcessOutput ==
  /\ poller = "output"
  /\ \/ /\ ~recordOnly => \A i \in DOMAIN batch : ~Unconvertible(batch[i])
        /\ Feed(Len(batch), Len(batch))
        /\ poller' = IF finish THEN "close" ELSE "idle"
        /\ UNCHANGED faults
     \/ \E i \in DOMAIN batch :  \* the conversion or ZLMediaKit throws at i
        /\ ~recordOnly
        /\ IF Unconvertible(batch[i]) THEN UNCHANGED faults ELSE Fault
        /\ Feed(i, i - 1)
        /\ poller' = "throw"
  /\ batch' = <<>> /\ feeds' = {} /\ finish' = FALSE
  /\ UNCHANGED <<plan, state, session, media, tasks, outputs, submit, since, errors>>

\* Error: the first one of a session is kept, reported and drains the session.
Error(q) ==
  IF ~running \/ errorReported
  THEN tasks' = q /\ UNCHANGED <<errors, error, errorReported, accepting, closed,
                                 draining, scheduled>>
  ELSE /\ errors' = errors + 1
       /\ error' = TRUE /\ errorReported' = TRUE /\ accepting' = FALSE
       /\ closed' = TRUE /\ draining' = TRUE /\ Schedule(q, closing)

ProcessError ==
  /\ poller = "throw" /\ poller' = "close"
  /\ Error(tasks)
  /\ UNCHANGED <<plan, running, closing, session, slot, queue, highest, initialized,
                 shift, batch, feeds, finish, outputs, submit, out, since, fed, faults>>

\* A push that ZLMediaKit gives up calls RemuxOutput::Error on the poller.
PusherError ==
  /\ poller = "idle" /\ path /\ running /\ attached \ Files # {}
  /\ Fault /\ Error(tasks)
  /\ UNCHANGED <<plan, running, closing, session, slot, queue, highest, initialized,
                 shift, task, outputs, submit, out, since, fed>>

ProcessClose ==
  /\ poller = "close" /\ poller' = "flush"
  /\ accepting' = FALSE /\ closed' = TRUE /\ closing' = TRUE
  /\ UNCHANGED <<plan, running, draining, scheduled, errorReported, error, session,
                 slot, queue, highest, initialized, shift, tasks, batch, feeds, finish,
                 outputs, submit, history, faults>>

\* output_->Flush, then Finish behind the dispatches already queued.
ProcessFlush ==
  /\ poller = "flush" /\ poller' = "idle"
  /\ \/ /\ tasks' = Append(tasks, "finish")
        /\ UNCHANGED <<errors, error, errorReported, accepting, closed, draining,
                       scheduled, faults>>
     \/ ~recordOnly /\ Fault /\ Error(Append(tasks, "finish"))
  /\ UNCHANGED <<plan, running, closing, session, slot, queue, highest, initialized,
                 shift, batch, feeds, finish, outputs, submit, out, since, fed>>

\* Finish: RemuxOutput::Close releases the path.  It drops references and erases
\* an entry under a lock, so what Finish would catch from it does not occur.
FinishTask ==
  /\ TakesTask("finish")
  /\ tasks' = Append(Tail(tasks), "stopped")
  /\ path' = FALSE /\ recordOnly' = FALSE /\ shift' = <<>>
  /\ UNCHANGED <<plan, state, session, slot, closed, queue, highest, initialized,
                 task, registration, attached, control, pending, submit, history,
                 faults>>

StoppedTask ==
  /\ TakesTask("stopped")
  /\ tasks' = Tail(tasks)
  /\ slot' = <<>> /\ queue' = <<>>
  /\ running' = FALSE /\ scheduled' = FALSE
  /\ UNCHANGED <<plan, accepting, draining, closing, errorReported, error, session,
                 closed, highest, initialized, shift, task, outputs, submit, history,
                 faults>>

-----------------------------------------------------------------------------
PollerStep ==
  \/ StartTask \/ AttachTask \/ ProcessLate \/ ProcessThrow \/ ProcessTake
  \/ ProcessOutput \/ ProcessError \/ ProcessClose \/ ProcessFlush
  \/ FinishTask \/ StoppedTask

ControlStep == StartSync \/ RegisterFile \/ RegisterDone \/ StopDone

Next ==
  \/ Start \/ (\E o \in Outputs : Register(o)) \/ Drain \/ Stop
  \/ ControlStep \/ PollerStep \/ PusherError
  \/ \E t \in Tracks : Submit(t) \/ Push(t) \/ SubmitSchedule(t)

Spec ==
  /\ Init /\ [][Next]_vars
  /\ WF_vars(PollerStep) /\ WF_vars(ControlStep)
  /\ \A t \in 1..2 : WF_vars(t \in Tracks /\ (Push(t) \/ SubmitSchedule(t)))

-----------------------------------------------------------------------------
(* Properties.                                                             *)

\* What is released for output is in DTS order, unless a track fell more than
\* Delta behind: a packet overtaken by an older one was released because some
\* packet of this session lay more than Delta beyond it (PopReady).
Interleaved ==
  \A j \in DOMAIN out : \A i \in 1..(j - 1) :
    out[i].dts > out[j].dts =>
      \E t \in Tracks : \E k \in DOMAIN accepted[t] :
        accepted[t][k].dts > out[i].dts + Delta

\* SubmitPacket's promise: a track's packets come out in the order they were
\* accepted, and when a session ends without an error none of them is missing,
\* whatever Drain found in the slot, in the interleaver or on the poller.
DrainedComplete ==
  \A t \in Tracks :
    LET released == SelectSeq(out, LAMBDA p : p.track = t) IN
    /\ IsPrefix(released, accepted[t])
    /\ (session > 0 /\ ~running /\ ~error /\ control = "idle")
         => released = accepted[t]

\* An output whose Add call returned is served: while the session may still
\* take packets it is attached, and it has been given every packet released
\* since, whether the recording-only shortcut was on before or not.
Served ==
  \A o \in registration :
    (running /\ ~closing /\ poller \notin {"throw", "close"}) =>
      /\ o \in attached
      /\ fed[o] = SubSeq(out, since[o] + 1, Len(out))

\* A DTS that goes back on its track.
WentBack ==
  \E t \in Tracks : \E i \in 2..Len(accepted[t]) :
    accepted[t][i].dts < accepted[t][i - 1].dts
\* A track of which nothing came while packets lie more than Delta apart.
StartedLate ==
  /\ \E t \in Tracks : highest[t] = <<>>
  /\ \E t, u \in Tracks : \E i \in DOMAIN accepted[t], j \in DOMAIN accepted[u] :
       accepted[t][i].dts + Delta < accepted[u][j].dts
\* A packet that is presented before zero and before the first packet of every
\* track, which B-frames do not do: the shift was made from those.
PresentedEarly ==
  \E t \in Tracks : \E i \in DOMAIN accepted[t] :
    LET early == Milliseconds(accepted[t][i].pts) IN
    /\ early < 0
    /\ \A u \in Tracks : accepted[u] # <<>> =>
         early < Milliseconds(accepted[u][1].pts) /\ early < Milliseconds(accepted[u][1].dts)

\* A session fails only for a cause: a fault of ZLMediaKit, a DTS that goes
\* back, a track missing for Delta at the start, or a packet presented before
\* everything the shift could be made from.  One error is reported for each
\* failed session, and a path is held only by a session that is not yet closed.
FailsForCause ==
  /\ errors <= 1
  /\ (error /\ faults = 0) => WentBack \/ StartedLate \/ PresentedEarly
  /\ path => running
  /\ (~running /\ tasks = <<>>) => ~path

\* Stop returns, and no producer stays blocked in SubmitPacket once the
\* session is being drained: the poller empties the slot or closes the queue.
StopReturns ==
  /\ control = "stopping" ~> control = "idle"
  /\ \A t \in 1..2 : (t \in Tracks /\ draining /\ producer[t] = "push")
                       ~> (t \notin Tracks \/ producer[t] # "push")
=============================================================================
