--------------------------- MODULE AvMediaSource ----------------------------
(***************************************************************************)
(* The media source (av_media_source.cc): a dispatcher reads packets and   *)
(* connection events from the input proxy and feeds one decoder per track; *)
(* a consumer per track reads frames.  A reconnection resets the decoders  *)
(* in packet order, and the final end waits until the consumers have read  *)
(* EOF from every track.                                                   *)
(*                                                                         *)
(* The proxy behaves as module AvInputProxy says: it queues an event       *)
(* before it interrupts the read, and offers the packets of a connection   *)
(* after Connected and its EOF once.  A decoder behaves as AvDecoder says: *)
(* bounded queues in submission order, after EOF only Reset, silence once  *)
(* it is stopped.  A step is one critical section under mutex_ with the    *)
(* notify_all that follows it, or one call into the proxy or a decoder.    *)
(* The read signal is left out.                                            *)
(***************************************************************************)
EXTENDS Integers, Sequences

CONSTANTS
  Tracks,       \* the selected tracks, in the order of control submissions
  Capacity,     \* packet and frame capacity of a decoder
  Plans         \* config.proxy.loop with bounds: connections, lost ones that
                \* are retried, terminal failures of the proxy, a decoder or
                \* the dispatcher, calls of Start and of Stop, packets of a
                \* connection

ASSUME SourceAssumption ==
  /\ Tracks \in Seq(STRING) /\ Tracks # <<>>
  /\ \A i, j \in DOMAIN Tracks : Tracks[i] = Tracks[j] => i = j
  /\ Capacity \in Nat \ {0}
  /\ Plans \subseteq [loop : BOOLEAN, conns : Nat, drops : Nat, faults : Nat,
                     starts : Nat, stops : Nat, packets : Nat]

Present == {Tracks[i] : i \in DOMAIN Tracks}

\* What is read from the proxy and given to a decoder.
Items == [kind : {"packet", "eof", "reset"}, conn : Nat]

ProxyStates == {"connecting", "connected", "waiting", "failed", "ended",
                "stopped"}

VARIABLES
  plan,       \* the configuration and how often calls and failures are left
  stopping,   \* stopping_
  failure,    \* failure_ is set
  status,     \* status_.state
  events,     \* proxy_events_
  session,    \* session_ is set
  moved,      \* revision_ moved since the dispatcher recorded it
  eofRead,    \* video_eof_ and audio_eof_
  finalEof,   \* final_eof_submitted_
  worker,     \* where Run is
  batch,      \* ProcessEvents: the events taken and not handled yet
  progress,   \* Run: ProcessEvents found events
  hand,       \* Dispatch: what was read
  todo,       \* Dispatch: submissions left, <<track, item>>
  dispatched, \* session->dispatched_info, 0 if none
  ended,      \* Run's local
  proxy,      \* where the proxy's thread is
  saying,     \* the state it reports
  conn,       \* its connection
  packets,    \* packets it delivered of that connection
  news,       \* its read has a state change to report
  cancelled,  \* its stop was requested
  dec,        \* the decoders
  reader,     \* where the consumer of a track is
  stopper     \* where RequestStop and Stop are

shared == <<stopping, failure, status, events, session, moved, eofRead>>
run == <<finalEof, batch, progress, hand, todo, dispatched, ended>>
input == <<proxy, saying, conn, packets, news, cancelled>>
vars == <<shared, run, worker, input, dec, reader, stopper, plan>>

\* at: the connection decoded since the last Reset; eof: submitted_eof_.
NoDecoder == [in |-> <<>>, out |-> <<>>, stopped |-> FALSE, pc |-> "none",
              eof |-> FALSE, at |-> 0]

TypeOK ==
  /\ {stopping, failure, session, moved, finalEof, progress, ended, news,
      cancelled} \subseteq BOOLEAN
  /\ status \in {"stopped", "connecting", "running", "waiting", "draining",
                 "ended", "failed"}
  /\ events \in Seq(ProxyStates) /\ batch \in Seq(ProxyStates)
  /\ eofRead \subseteq Present
  /\ worker \in {"none", "begin", "start", "top", "event", "created", "running",
                 "check", "wait", "asleep", "read", "prepare", "submit",
                 "draining", "catch", "release", "final", "cleanup", "join",
                 "proxy", "last", "exited"}
  /\ hand \in Seq([kind : {"packet", "eof"}, conn : Nat, track : Present])
  /\ todo \in Seq(Present \X Items)
  /\ dispatched \in Nat /\ conn \in Nat
  /\ proxy \in {"off", "report", "release", "news", "open", "offer",
                "acknowledged", "retry", "over"}
  /\ saying \in ProxyStates /\ packets \in 0..plan.packets
  /\ dec \in [Present -> [in : Seq(Items), out : Seq(Items), stopped : BOOLEAN,
                          pc : {"none", "run", "fail", "release", "exited"},
                          eof : BOOLEAN, at : Nat]]
  /\ \A t \in Present : Len(dec[t].in) <= Capacity /\ Len(dec[t].out) <= Capacity
  /\ reader \in [Present -> {"idle", "read", "eof"}]
  /\ stopper \in {"idle", "all", "proxy", "join"}
  /\ plan \in [loop : BOOLEAN, conns : Nat, drops : Nat, faults : Nat,
                starts : Nat, stops : Nat, packets : Nat]

Init ==
  /\ plan \in Plans
  /\ stopping = FALSE /\ failure = FALSE /\ status = "stopped"
  /\ events = <<>> /\ session = FALSE /\ moved = FALSE
  /\ eofRead = {} /\ finalEof = FALSE
  /\ worker = "none" /\ batch = <<>> /\ progress = FALSE /\ hand = <<>>
  /\ todo = <<>> /\ dispatched = 0 /\ ended = FALSE
  /\ proxy = "off" /\ saying = "stopped" /\ conn = 0 /\ packets = 0
  /\ news = FALSE /\ cancelled = FALSE
  /\ dec = [t \in Present |-> NoDecoder]
  /\ reader = [t \in Present |-> "idle"]
  /\ stopper = "idle"

Spend(bound) == plan[bound] > 0 /\ plan' = [plan EXCEPT ![bound] = @ - 1]
Fault == Spend("faults")

\* changed_.notify_all: the dispatcher evaluates its predicate again.
Awake == IF worker = "asleep" THEN "wait" ELSE worker

\* Publish drops a progress state after a stop or a failure.
Published(state) ==
  IF (stopping \/ failure) /\ state \notin {"failed", "stopped", "ended"}
  THEN status ELSE state

\* Session::RequestStop: both queues of each decoder are closed.
Stopped(decoders) ==
  [t \in Present |-> IF decoders[t].pc = "none" THEN decoders[t]
                     ELSE [decoders[t] EXCEPT !.stopped = TRUE]]

StopDecoders == dec' = IF session THEN Stopped(dec) ELSE dec

-----------------------------------------------------------------------------
(* Start, RequestStop and Stop.                                            *)

\* The owner finishes the readers before a restart; starting the thread may
\* fail.
Start ==
  /\ worker = "none" /\ Spend("starts")
  /\ \A t \in Present : reader[t] = "idle"
  /\ failure' = FALSE /\ events' = <<>> /\ eofRead' = {} /\ finalEof' = FALSE
  /\ \/ stopping' = FALSE /\ status' = "connecting" /\ worker' = "begin"
     \/ stopping' = TRUE /\ status' = "stopped" /\ UNCHANGED worker
  /\ batch' = <<>> /\ progress' = FALSE /\ hand' = <<>> /\ todo' = <<>>
  /\ dispatched' = 0 /\ ended' = FALSE
  /\ proxy' = "off" /\ saying' = "stopped" /\ conn' = 0 /\ packets' = 0
  /\ news' = FALSE /\ cancelled' = FALSE
  /\ dec' = [t \in Present |-> NoDecoder]
  /\ UNCHANGED <<session, moved, reader, stopper>>

\* Stopping the decoders alone.
StopDecodersOnly ==
  /\ stopper \in {"all", "proxy"} /\ stopper' = "join"
  /\ dec' = IF stopper = "all" THEN Stopped(dec) ELSE dec
  /\ UNCHANGED <<shared, run, worker, input, reader, plan>>

RequestStop ==
  /\ stopper = "idle" /\ worker # "none" /\ Spend("stops")
  /\ stopper' = IF session THEN "all" ELSE "proxy"
  /\ stopping' = TRUE
  /\ worker' = Awake
  /\ UNCHANGED <<failure, status, events, session, moved, eofRead, run, input,
                 dec, reader>>

\* The proxy and the session that was known at the request are stopped, in one
\* step here as neither call waits.
StopSession ==
  /\ stopper \in {"all", "proxy"} /\ stopper' = "join"
  /\ cancelled' = TRUE
  /\ dec' = IF stopper = "all" THEN Stopped(dec) ELSE dec
  /\ UNCHANGED <<shared, run, worker, proxy, saying, conn, packets, news, reader,
                 plan>>

Join ==
  /\ stopper = "join" /\ worker = "exited"
  /\ stopper' = "idle" /\ worker' = "none"
  /\ UNCHANGED <<shared, run, input, dec, reader, plan>>

-----------------------------------------------------------------------------
(* The proxy and its observer.                                             *)

ProxyOnly == UNCHANGED <<run, reader, stopper>>

\* The proxy goes on to report a state.
Says(state) ==
  /\ proxy' = "report" /\ saying' = state
  /\ UNCHANGED <<conn, packets, news, cancelled, shared, worker, dec>>
  /\ ProxyOnly

\* The observer: a failure is stored together with its event.
Report ==
  /\ proxy = "report"
  /\ proxy' = IF saying = "failed" THEN "release" ELSE "news"
  /\ failure' = (failure \/ saying = "failed")
  /\ events' = Append(events, saying) /\ moved' = TRUE
  /\ worker' = Awake
  /\ UNCHANGED <<stopping, status, session, eofRead, saying, conn, packets, news,
                 cancelled, dec, plan>>
  /\ ProxyOnly

\* A terminal failure also releases delivery blocked on a decoder.
Release ==
  /\ proxy = "release" /\ proxy' = "news"
  /\ StopDecoders
  /\ UNCHANGED <<shared, worker, saying, conn, packets, news, cancelled, plan>>
  /\ ProxyOnly

News ==
  /\ proxy = "news" /\ news' = TRUE
  /\ proxy' = CASE saying = "connecting" -> "open"
                [] saying = "connected" -> "offer"
                [] saying = "waiting" -> "retry"
                [] OTHER -> "over"
  /\ UNCHANGED <<shared, worker, saying, conn, packets, cancelled, dec, plan>>
  /\ ProxyOnly

Connect ==
  /\ proxy = "open" /\ ~cancelled /\ conn < plan.conns
  /\ proxy' = "report" /\ saying' = "connected"
  /\ conn' = conn + 1 /\ packets' = 0
  /\ UNCHANGED <<shared, worker, news, cancelled, dec, plan>>
  /\ ProxyOnly

\* An attempt or a connection fails: another one follows, or none is left.
Disconnect ==
  /\ proxy \in {"open", "offer"} /\ ~cancelled
  /\ \/ Says("waiting") /\ Spend("drops")
     \/ Says("failed") /\ Fault

Retry == proxy = "retry" /\ ~cancelled /\ Says("connecting") /\ UNCHANGED plan

Acknowledged ==
  /\ proxy = "acknowledged" /\ ~cancelled
  /\ Says(IF plan.loop THEN "connecting" ELSE "ended")
  /\ UNCHANGED plan

Cancel ==
  /\ proxy \in {"open", "offer", "acknowledged", "retry"} /\ cancelled
  /\ Says("stopped")
  /\ UNCHANGED plan

-----------------------------------------------------------------------------
(* Run: the loop.                                                          *)

Go(pc) == worker' = pc

WorkerOnly == UNCHANGED <<stopping, failure, events, session, eofRead, proxy,
                          saying, conn, packets, news, cancelled, reader, stopper>>

\* The start of the proxy may fail, which throws.
Begin ==
  /\ worker \in {"begin", "start"}
  /\ \/ /\ worker = "begin" /\ status' = Published("connecting")
        /\ Go(IF stopping THEN "top" ELSE "start")
        /\ UNCHANGED <<proxy, saying, plan>>
     \/ /\ worker = "start" /\ Go("top")
        /\ proxy' = "report" /\ saying' = "connecting"
        /\ UNCHANGED <<status, plan>>
     \/ worker = "start" /\ Go("catch") /\ Fault
        /\ UNCHANGED <<status, proxy, saying>>
  /\ UNCHANGED <<stopping, failure, events, session, moved, eofRead, run, conn,
                 packets, news, cancelled, dec, reader, stopper>>

\* The revision is recorded before the events are taken.
Top ==
  /\ worker = "top"
  /\ moved' = FALSE
  /\ \/ stopping /\ Go("final") /\ UNCHANGED <<events, batch, progress>>
     \/ ~stopping /\ failure /\ Go("catch") /\ UNCHANGED <<events, batch, progress>>
     \/ /\ ~stopping /\ ~failure /\ Go("event")
        /\ batch' = events /\ events' = <<>> /\ progress' = (events # <<>>)
  /\ UNCHANGED <<stopping, failure, status, session, eofRead, finalEof,
                 hand, todo, dispatched, ended, input, dec, reader, stopper,
                 plan>>

\* Of the events Connected makes the session; the others that have a state of
\* the source publish it.
HandleEvent ==
  /\ worker = "event"
  /\ \/ failure /\ Go("catch") /\ UNCHANGED <<batch, status>>
     \/ ~failure /\ (stopping \/ batch = <<>>) /\ Go("check") /\ batch' = <<>>
        /\ UNCHANGED status
     \/ /\ ~failure /\ ~stopping /\ batch # <<>>
        /\ batch' = Tail(batch)
        /\ status' = IF Head(batch) \in {"connecting", "waiting"}
                     THEN Published(Head(batch)) ELSE status
        /\ Go(IF Head(batch) = "connected" THEN "created" ELSE "event")
  /\ UNCHANGED <<moved, finalEof, progress, hand, todo, dispatched, ended, dec,
                 plan>>
  /\ WorkerOnly

\* A session that becomes known after a stop or a failure stops itself.
CancelLateSession ==
  [t \in Present |-> [NoDecoder EXCEPT !.pc = "run",
                                       !.stopped = stopping \/ failure]]

\* Initialize: the first connection makes the decoders, a later one is compared
\* with the first; either may throw.
Initialize ==
  /\ worker = "created"
  /\ \/ /\ Go("running") /\ session' = TRUE
        /\ dec' = IF session THEN dec ELSE CancelLateSession
        /\ UNCHANGED plan
     \/ Go("catch") /\ Fault /\ UNCHANGED <<session, dec>>
  /\ UNCHANGED <<stopping, failure, status, events, moved, eofRead, run, input,
                 reader, stopper>>

Running ==
  /\ worker = "running" /\ Go("event")
  /\ status' = Published("running")
  /\ UNCHANGED <<moved, run, dec, plan>> /\ WorkerOnly

\* The end of one track taken for the end of all.
DrainedEither == finalEof /\ session /\ eofRead # {}
Drained == finalEof /\ session /\ eofRead = Present

Check ==
  /\ worker = "check"
  /\ ended' = (~failure /\ ~stopping /\ Drained)
  /\ Go(CASE failure -> "catch"
          [] ~failure /\ (stopping \/ Drained) -> "final"
          [] ~failure /\ ~stopping /\ ~Drained ->
               IF ~finalEof THEN "read" ELSE IF progress THEN "top" ELSE "wait")
  /\ progress' = FALSE
  /\ UNCHANGED <<status, moved, finalEof, batch, hand, todo, dispatched, dec,
                 plan>>
  /\ WorkerOnly

Wait ==
  /\ worker = "wait"
  /\ Go(IF stopping \/ failure \/ moved \/ events # <<>> THEN "top" ELSE "asleep")
  /\ UNCHANGED <<status, moved, run, dec, plan>> /\ WorkerOnly

-----------------------------------------------------------------------------
(* Run: Dispatch.                                                          *)

\* ReadPacketOrStateChange: null for a state change, a stop or a final state;
\* otherwise it blocks until the connection on offer gives a packet or EOF.
ReadNull ==
  /\ worker = "read" /\ Go("top")
  /\ news \/ cancelled \/ proxy = "over"
  /\ news' = FALSE
  /\ UNCHANGED <<shared, run, proxy, saying, conn, packets, cancelled, dec,
                 reader, stopper, plan>>

Offered == worker = "read" /\ ~news /\ ~cancelled /\ proxy = "offer"

ReadPacket ==
  /\ Offered /\ packets < plan.packets
  /\ packets' = packets + 1
  /\ \E t \in Present :
       hand' = <<[kind |-> "packet", conn |-> conn, track |-> t]>>
  /\ Go("prepare")
  /\ UNCHANGED <<shared, finalEof, batch, progress, todo, dispatched, ended,
                 proxy, saying, conn, news, cancelled, dec, reader, stopper, plan>>

ReadEof ==
  /\ Offered
  /\ proxy' = "acknowledged"
  /\ hand' = <<[kind |-> "eof", conn |-> conn, track |-> Tracks[1]]>>
  /\ Go("prepare")
  /\ UNCHANGED <<shared, finalEof, batch, progress, todo, dispatched, ended,
                 saying, conn, packets, news, cancelled, dec, reader, stopper,
                 plan>>

\* SubmitControl: one item for every track, in order.
Controls(kind, connection) ==
  [i \in DOMAIN Tracks |-> <<Tracks[i], [kind |-> kind, conn |-> connection]>>]

\* The reset of the track alone that gets the packet.
ResetOne(item) ==
  IF dispatched \in {0, item.conn} THEN <<>>
  ELSE <<<<item.track, [kind |-> "reset", conn |-> item.conn]>>>>

\* Both tracks are reset before the first item of another connection.
Resets(item) ==
  IF dispatched \in {0, item.conn} THEN <<>> ELSE Controls("reset", item.conn)

Submissions(item) ==
  Resets(item) \o
    IF item.kind = "eof" THEN Controls("eof", item.conn)
    ELSE <<<<item.track, [kind |-> "packet", conn |-> item.conn]>>>>

\* Initialize finds the session of the Connected event; it or OnPacket may
\* throw.
Prepare ==
  /\ worker = "prepare"
  /\ \/ Go("catch") /\ Fault /\ UNCHANGED <<hand, todo, dispatched>>
     \/ failure /\ Go("catch") /\ UNCHANGED <<hand, todo, dispatched, plan>>
     \/ /\ ~failure /\ stopping /\ Go("top")
        /\ hand' = <<>> /\ UNCHANGED <<todo, dispatched, plan>>
     \/ /\ ~failure /\ ~stopping /\ session /\ Go("submit")
        /\ todo' = Submissions(hand[1]) /\ dispatched' = hand[1].conn
        /\ UNCHANGED <<hand, plan>>
  /\ UNCHANGED <<status, moved, finalEof, batch, progress, ended, dec>>
  /\ WorkerOnly

\* A submission waits for room.  After EOF a decoder throws at all but Reset,
\* which EpochsSeparated says never happens.
Submit ==
  /\ worker = "submit" /\ todo # <<>>
  /\ LET t == todo[1][1]
         item == todo[1][2]
         usable == dec[t].pc = "run" /\ ~dec[t].stopped
     IN \/ /\ usable /\ (dec[t].eof => item.kind = "reset")
           /\ Len(dec[t].in) < Capacity
           /\ dec' = [dec EXCEPT ![t].in = Append(@, item),
                                 ![t].eof = (item.kind = "eof")]
           /\ todo' = Tail(todo) /\ UNCHANGED <<worker, hand>>
        \/ /\ ~usable
           /\ Go(IF failure \/ dec[t].pc \in {"fail", "release"}
                 THEN "catch" ELSE "top")
           /\ todo' = <<>> /\ hand' = <<>> /\ UNCHANGED dec
  /\ UNCHANGED <<status, moved, finalEof, batch, progress, dispatched, ended,
                 plan>>
  /\ WorkerOnly

Submitted ==
  /\ worker = "submit" /\ todo = <<>>
  /\ finalEof' = (hand[1].kind = "eof" /\ ~plan.loop) /\ hand' = <<>>
  /\ Go(IF finalEof' THEN "draining" ELSE "top")
  /\ UNCHANGED <<status, moved, batch, progress, todo, dispatched, ended,
                 dec, plan>>
  /\ WorkerOnly

Draining ==
  /\ worker = "draining" /\ Go("top")
  /\ status' = Published("draining")
  /\ UNCHANGED <<moved, run, dec, plan>> /\ WorkerOnly

-----------------------------------------------------------------------------
(* Run: the end.  Failed stores the failure, then stops the decoders and   *)
(* the proxy, in one step here as neither call waits; Cleanup does so too, *)
(* then joins both.                                                        *)

\* What the loop held is gone.
Catch ==
  /\ worker = "catch" /\ Go("release")
  /\ failure' = TRUE
  /\ batch' = <<>> /\ progress' = FALSE /\ hand' = <<>> /\ todo' = <<>>
  /\ UNCHANGED <<stopping, status, events, session, moved, eofRead, finalEof,
                 dispatched, ended, input, dec, reader, stopper, plan>>

StopAll ==
  /\ worker \in {"release", "cleanup"}
  /\ Go(IF worker = "release" THEN "final" ELSE "join")
  /\ StopDecoders /\ cancelled' = TRUE
  /\ UNCHANGED <<shared, run, proxy, saying, conn, packets, news, reader,
                 stopper, plan>>

PublishFailure ==
  /\ worker = "final" /\ Go("cleanup")
  /\ status' = IF failure THEN "failed" ELSE status
  /\ UNCHANGED <<moved, run, dec, plan>> /\ WorkerOnly

\* Stop of a decoder joins its worker and discards its queues.
JoinDecoders ==
  /\ worker = "join" /\ Go("proxy")
  /\ \A t \in Present : dec[t].pc \in {"none", "exited"}
  /\ dec' = [t \in Present |-> NoDecoder]
  /\ UNCHANGED <<status, moved, run, plan>> /\ WorkerOnly

JoinProxy ==
  /\ worker = "proxy" /\ Go("last")
  /\ proxy \in {"off", "over"}
  /\ session' = FALSE /\ events' = <<>> /\ dispatched' = 0
  /\ UNCHANGED <<stopping, failure, status, moved, eofRead, finalEof, batch,
                 progress, hand, todo, ended, input, dec, reader, stopper, plan>>

\* Only here are all threads gone that could still report a failure.
LastStatus == IF failure THEN "failed" ELSE IF ended THEN "ended" ELSE "stopped"

PublishLast ==
  /\ worker = "last" /\ Go("exited")
  /\ status' = LastStatus
  /\ UNCHANGED <<moved, run, dec, plan>> /\ WorkerOnly

-----------------------------------------------------------------------------
(* A decoder's worker: an item at a time, or its failure, which calls      *)
(* Failed; and the consumer of its frames.                                 *)

DecoderOnly == UNCHANGED <<stopping, status, events, session, eofRead, run,
                           proxy, saying, conn, packets, news, reader, stopper>>

Decode(t) ==
  /\ dec[t].pc = "run" /\ ~dec[t].stopped /\ dec[t].in # <<>>
  /\ LET item == Head(dec[t].in) IN
     \/ /\ item.kind = "reset"
        /\ dec' = [dec EXCEPT ![t].in = Tail(@), ![t].at = 0]
     \/ /\ item.kind # "reset" /\ Len(dec[t].out) < Capacity
        /\ dec' = [dec EXCEPT ![t].in = Tail(@), ![t].out = Append(@, item),
                              ![t].at = item.conn]
  /\ UNCHANGED <<failure, moved, worker, cancelled, plan>> /\ DecoderOnly

\* A failed decoder takes no more input; its frames stay readable.
DecoderFails(t) ==
  /\ dec[t].pc = "run" /\ ~dec[t].stopped /\ dec[t].in # <<>>
  /\ dec' = [dec EXCEPT ![t].pc = "fail", ![t].in = <<>>]
  /\ Fault
  /\ UNCHANGED <<failure, moved, worker, cancelled>> /\ DecoderOnly

OnError(t) ==
  /\ \/ /\ dec[t].pc = "fail" /\ failure' = TRUE /\ worker' = Awake
        /\ dec' = [dec EXCEPT ![t].pc = "release"] /\ UNCHANGED cancelled
     \/ /\ dec[t].pc = "release" /\ cancelled' = TRUE
        /\ dec' = [(IF session THEN Stopped(dec) ELSE dec)
                     EXCEPT ![t].pc = "exited"]
        /\ UNCHANGED <<failure, worker>>
  /\ UNCHANGED <<moved, plan>> /\ DecoderOnly

DecoderExits(t) ==
  /\ dec[t].pc = "run" /\ dec[t].stopped
  /\ dec' = [dec EXCEPT ![t].pc = "exited"]
  /\ UNCHANGED <<failure, moved, worker, cancelled, plan>> /\ DecoderOnly

ReaderOnly == UNCHANGED <<stopping, failure, status, events, session, run,
                          input, stopper, plan>>

\* ReadSession, then a read of the decoder, then the EOF it may have given.  A
\* read that starts when there is no frame is left out: it changes nothing.
Read(t) ==
  /\ reader[t] = "idle"
  /\ ~stopping /\ ~failure /\ status # "ended" /\ session
  /\ dec[t].out # <<>>
  /\ reader' = [reader EXCEPT ![t] = "read"]
  /\ UNCHANGED <<moved, eofRead, worker, dec>> /\ ReaderOnly

ReadDecoder(t) ==
  /\ reader[t] = "read"
  /\ \/ /\ dec[t].out # <<>> /\ ~dec[t].stopped
        /\ dec' = [dec EXCEPT ![t].out = Tail(@)]
        /\ reader' = [reader EXCEPT ![t] =
                        IF Head(dec[t].out).kind = "eof" THEN "eof" ELSE "idle"]
     \/ /\ dec[t].out = <<>> \/ dec[t].stopped
        /\ reader' = [reader EXCEPT ![t] = "idle"] /\ UNCHANGED dec
  /\ UNCHANGED <<moved, eofRead, worker>> /\ ReaderOnly

AcknowledgeEof(t) ==
  /\ reader[t] = "eof"
  /\ reader' = [reader EXCEPT ![t] = "idle"]
  /\ eofRead' = eofRead \cup {t} /\ moved' = TRUE
  /\ worker' = Awake
  /\ UNCHANGED dec /\ ReaderOnly

-----------------------------------------------------------------------------
Proxy == Report \/ Release \/ News \/ Cancel
Connection == Connect \/ Disconnect \/ Retry \/ Acknowledged
Delivery == ReadPacket \/ ReadEof

Worker ==
  \/ Begin \/ Top \/ HandleEvent \/ Initialize \/ Running \/ Check
  \/ Wait \/ ReadNull \/ Prepare \/ Submit \/ Submitted
  \/ Draining \/ Catch \/ StopAll \/ PublishFailure
  \/ JoinDecoders \/ JoinProxy \/ PublishLast

Decoder(t) == Decode(t) \/ OnError(t) \/ DecoderExits(t)
Reading(t) == ReadDecoder(t) \/ AcknowledgeEof(t)

Next ==
  \/ Start \/ RequestStop \/ StopSession \/ Join
  \/ Proxy \/ Connection \/ Delivery \/ Worker
  \/ \E t \in Present : Decoder(t) \/ DecoderFails(t) \/ Read(t) \/ Reading(t)

\* Threads proceed and calls return; a source need not connect, deliver or end
\* unless it is cancelled.
Fairness ==
  /\ WF_vars(Worker) /\ WF_vars(Proxy) /\ WF_vars(Acknowledged)
  /\ WF_vars(StopSession) /\ WF_vars(Join)
  /\ \A t \in Present : WF_vars(Decoder(t)) /\ WF_vars(Reading(t))

\* Consumers that keep reading.
Consuming == \A t \in Present : WF_vars(Read(t))

Spec == Init /\ [][Next]_vars /\ Fairness /\ Consuming

-----------------------------------------------------------------------------
(* Properties.                                                             *)

\* What comes before the i-th queued item of a decoder: an item of which
\* connection, or a Reset (0).
Before(d, i) ==
  IF i = 1 THEN d.at ELSE IF d.in[i - 1].kind = "reset" THEN 0 ELSE d.in[i - 1].conn

\* No decoder is given items of two connections without a Reset in between,
\* also when the Connected event of the next is handled while items of the last
\* are still queued; and nothing but a Reset is submitted after an EOF.
EpochsSeparated ==
  /\ TypeOK
  /\ \A t \in Present : \A i \in DOMAIN dec[t].in :
       dec[t].in[i].kind # "reset" =>
         Before(dec[t], i) \in {0, dec[t].in[i].conn}
  /\ worker = "submit" /\ todo # <<>> /\ dec[todo[1][1]].eof =>
       todo[1][2].kind = "reset"

\* Ended is reported only after the consumers took every frame and the EOF of
\* every track; Failed is the last word exactly when a failure was stored, also
\* one that came while the source was being cleaned up.
EndTruthful ==
  /\ ended => \A t \in Present : dec[t].in = <<>> /\ dec[t].out = <<>>
  /\ worker = "exited" => (status = "failed" <=> failure)

\* Stop returns whatever the dispatcher, the proxy and the decoders wait for; a
\* failure of any of them ends the run; and once the last EOF is submitted,
\* consumers that keep reading bring the run to its end.
Settles ==
  /\ stopper # "idle" ~> stopper = "idle"
  /\ failure ~> worker \in {"exited", "none"}
  /\ finalEof ~> worker \in {"exited", "none"}

=============================================================================
