------------------------ MODULE AvMediaSourceProofs -------------------------
(***************************************************************************)
(* The media source for any tracks, capacity, number of connections, of    *)
(* packets, of failures, of stops and of restarts.  Neither property is    *)
(* inductive.  The invariant says who is alive in which part of Run and    *)
(* why a decoder stopped (Alive), that connections are numbered upwards    *)
(* and end with their EOF (Numbered), what a decoder holds between two     *)
(* dispatches (Settled), what is still owed to it during one (Submitting), *)
(* and that the EOF of a source that does not loop is the last item of     *)
(* every track on its way to the consumer (Final).                         *)
(*                                                                         *)
(* The second part is about the input that the dispatcher reads (module    *)
(* AvInputProxy, the instance Link of MCAvInputProxy), for every           *)
(* configuration and any number of attempts, packets and sessions.         *)
(***************************************************************************)
EXTENDS AvMediaSource, MCAvInputProxy, SequenceTheorems, TLAPS

\* Where the loop of Run is, before it leaves for good.
Looping == {"begin", "start", "top", "event", "created", "running", "check",
            "wait", "asleep", "read", "prepare", "draining"}

\* The connection that gives packets, or is about to.
Open ==
  \/ proxy = "offer"
  \/ proxy \in {"report", "release", "news"} /\ saying = "connected"

\* The proxy of an input that does not loop is past its EOF.
Over ==
  \/ proxy \in {"acknowledged", "over"}
  \/ proxy \in {"report", "release", "news"} /\ saying \in {"ended", "failed", "stopped"}

\* Who is still alive, and why a decoder stopped.
Alive ==
  /\ stopper # "idle" => stopping /\ worker # "none"
  /\ worker \in {"begin", "start"} => proxy = "off"
  /\ worker = "release" => failure
  /\ proxy = "release" => failure
  /\ worker \in {"last", "exited"} => proxy \in {"off", "over"}
  /\ worker \in {"last", "exited", "none"} => ~session
  /\ worker \in {"proxy", "last", "exited"} => \A t \in Present : dec[t].pc = "none"
  /\ session /\ worker \in Looping \cup {"submit"} =>
       \A t \in Present : dec[t].pc # "none"
  /\ \A t \in Present : dec[t].pc = "release" => failure
  /\ worker \in Looping \cup {"submit"} =>
       \A t \in Present : dec[t].stopped \/ dec[t].pc = "exited" => stopping \/ failure
  /\ todo # <<>> => worker = "submit"
  /\ worker = "submit" => session /\ hand # <<>>
  /\ worker = "prepare" => hand # <<>>
  /\ Len(hand) <= 1

\* Connections only grow; an EOF is the last that a connection gives.
Numbered ==
  /\ dispatched <= conn
  /\ Open => conn > 0
  /\ hand # <<>> =>
       /\ 0 < hand[1].conn /\ hand[1].conn <= conn
       /\ dispatched <= hand[1].conn
       /\ hand[1].kind = "eof" /\ Open => hand[1].conn < conn
  /\ worker = "submit" => dispatched = hand[1].conn

\* The connection of the last item given to a decoder since a Reset.
Tag(item) == IF item.kind = "reset" THEN 0 ELSE item.conn
LastOf(d) == IF d.in = <<>> THEN d.at ELSE Tag(d.in[Len(d.in)])

Separated(d) ==
  \A i \in DOMAIN d.in : d.in[i].kind # "reset" => Before(d, i) \in {0, d.in[i].conn}

Apart == \A t \in Present : Separated(dec[t])

\* Between two dispatches: a decoder holds the connection dispatched last, and
\* one that was given an EOF awaits another connection.
Settled ==
  worker \in Looping /\ ~stopping /\ ~failure =>
    \A t \in Present :
      /\ dec[t].pc = "run" => LastOf(dec[t]) \in {0, dispatched}
      /\ dec[t].eof =>
           /\ dispatched # 0
           /\ Open => dispatched < conn
           /\ worker = "prepare" => dispatched < hand[1].conn

\* During a dispatch: what is still owed to a decoder.
Awaits(t) == \E i \in DOMAIN todo : todo[i][1] = t /\ todo[i][2].kind = "reset"

Submitting ==
  worker = "submit" =>
    /\ \A i \in DOMAIN todo :
         /\ todo[i][2].conn = dispatched
         /\ todo[i][2].kind = "eof" => hand[1].kind = "eof"
    /\ \A i, j \in DOMAIN todo :
         i < j /\ todo[i][1] = todo[j][1] => todo[i][2].kind = "reset"
    /\ \A t \in Present :
         /\ dec[t].pc = "run" => Awaits(t) \/ LastOf(dec[t]) \in {0, dispatched}
         /\ dec[t].eof /\ ~Awaits(t) =>
              /\ hand[1].kind = "eof"
              /\ \A i \in DOMAIN todo : todo[i][1] # t

\* An EOF of a source that does not loop is the last item of a track.
TookEof(t) == reader[t] = "eof" \/ t \in eofRead
EofIn(t) == \E i \in DOMAIN dec[t].in : dec[t].in[i].kind = "eof"
EofOut(t) == \E i \in DOMAIN dec[t].out : dec[t].out[i].kind = "eof"

Final ==
  /\ finalEof => ~plan.loop
  /\ ~plan.loop =>
       /\ hand # <<>> /\ hand[1].kind = "eof" => Over
       /\ \A t \in Present :
            /\ TookEof(t) \/ EofIn(t) \/ EofOut(t) =>
                 /\ Over /\ worker # "prepare"
                 /\ \A i \in DOMAIN todo : todo[i][1] # t
            /\ TookEof(t) => dec[t].in = <<>> /\ dec[t].out = <<>>
            /\ \A i \in DOMAIN dec[t].out : dec[t].out[i].kind = "eof" =>
                 i = Len(dec[t].out) /\ dec[t].in = <<>>
            /\ \A i \in DOMAIN dec[t].in :
                 dec[t].in[i].kind = "eof" => i = Len(dec[t].in)
  /\ ended => finalEof /\ eofRead = Present /\ worker \notin Looping \cup {"submit"}

Told == worker = "exited" => (status = "failed" <=> failure)

\* The type invariant in three parts: plain values, sequences, decoders.
Decoders == [in : Seq(Items), out : Seq(Items), stopped : BOOLEAN,
             pc : {"none", "run", "fail", "release", "exited"},
             eof : BOOLEAN, at : Nat]
PlanTypes == [loop : BOOLEAN, conns : Nat, drops : Nat, faults : Nat,
              starts : Nat, stops : Nat, packets : Nat]
Hands == [kind : {"packet", "eof"}, conn : Nat, track : Present]

Flags ==
  /\ {stopping, failure, session, moved, finalEof, progress, ended, news,
      cancelled} \subseteq BOOLEAN
  /\ status \in {"stopped", "connecting", "running", "waiting", "draining",
                 "ended", "failed"}
  /\ eofRead \subseteq Present
  /\ worker \in Looping \cup {"none", "submit", "catch", "release", "final",
                              "cleanup", "join", "proxy", "last", "exited"}
  /\ dispatched \in Nat /\ conn \in Nat
  /\ proxy \in {"off", "report", "release", "news", "open", "offer",
                "acknowledged", "retry", "over"}
  /\ saying \in ProxyStates /\ packets \in 0..plan.packets
  /\ reader \in [Present -> {"idle", "read", "eof"}]
  /\ stopper \in {"idle", "all", "proxy", "join"}
  /\ plan \in PlanTypes

Lists ==
  /\ events \in Seq(ProxyStates) /\ batch \in Seq(ProxyStates)
  /\ hand \in Seq(Hands)
  /\ todo \in Seq(Present \X Items)

Filled ==
  /\ dec \in [Present -> Decoders]
  /\ \A t \in Present : Len(dec[t].in) <= Capacity /\ Len(dec[t].out) <= Capacity

IInv == /\ Flags /\ Lists /\ Filled /\ Alive /\ Numbered /\ Apart /\ Settled
        /\ Submitting /\ Final /\ Told

-----------------------------------------------------------------------------
\* The parts make up the type invariant.
LEMMA TypeParts == TypeOK <=> Flags /\ Lists /\ Filled
BY DEF TypeOK, Flags, Lists, Filled, Looping, Decoders, PlanTypes, Hands

\* What a step does to the plan: the bounds may sink.
Steady == /\ plan' \in PlanTypes
          /\ plan'.loop = plan.loop /\ plan'.packets = plan.packets

\* Most steps spend nothing.
LEMMA Unspent == Flags /\ UNCHANGED plan => Steady
BY DEF Flags, Steady

\* Spending a bound leaves the configuration.
LEMMA Spends ==
  ASSUME Flags, NEW b \in {"conns", "drops", "faults", "starts", "stops"}, Spend(b)
  PROVE  Steady
<1>1. plan' = [plan EXCEPT ![b] = plan[b] - 1] /\ plan[b] > 0 /\ plan \in PlanTypes
  BY DEF Spend, Flags
<1>2. plan[b] \in Nat
  BY <1>1 DEF PlanTypes
<1>3. plan[b] - 1 \in Nat
  BY <1>1, <1>2
<1> QED
  BY <1>1, <1>3 DEF Steady, PlanTypes

\* A failure spends a bound too.
LEMMA Faults == Flags /\ Fault => Steady
BY Spends DEF Fault

\* A decoder that was never made.
LEMMA NoDecoderType == NoDecoder \in Decoders
BY DEF NoDecoder, Decoders

\* The first track carries the EOF.
LEMMA FirstTrack == Tracks[1] \in Present
BY SourceAssumption, EmptySeq DEF Present

\* Closing its queues changes nothing else of a decoder.
LEMMA StoppedShape ==
  ASSUME NEW d \in [Present -> Decoders]
  PROVE  /\ Stopped(d) \in [Present -> Decoders]
         /\ \A u \in Present :
              /\ Stopped(d)[u].in = d[u].in /\ Stopped(d)[u].out = d[u].out
              /\ Stopped(d)[u].eof = d[u].eof /\ Stopped(d)[u].at = d[u].at
              /\ Stopped(d)[u].pc = d[u].pc
<1>1. \A u \in Present : Stopped(d)[u] = IF d[u].pc = "none" THEN d[u]
                                         ELSE [d[u] EXCEPT !.stopped = TRUE]
  BY DEF Stopped
<1>2. ASSUME NEW u \in Present
      PROVE  /\ Stopped(d)[u] \in Decoders
             /\ Stopped(d)[u].in = d[u].in /\ Stopped(d)[u].out = d[u].out
             /\ Stopped(d)[u].eof = d[u].eof /\ Stopped(d)[u].at = d[u].at
             /\ Stopped(d)[u].pc = d[u].pc
  <2>1. d[u] \in Decoders
    OBVIOUS
  <2> QED
    BY <1>1, <2>1 DEF Decoders
<1>3. Stopped(d) = [u \in Present |-> Stopped(d)[u]]
  BY DEF Stopped
<1> QED
  BY <1>2, <1>3

\* What a decoder holds stays, and none begins to run.
Same(u) ==
  /\ dec'[u].in = dec[u].in /\ dec'[u].out = dec[u].out
  /\ dec'[u].eof = dec[u].eof /\ dec'[u].at = dec[u].at
  /\ dec'[u].pc = "run" => dec[u].pc = "run"

AllSame == dec' \in [Present -> Decoders] /\ \A u \in Present : Same(u)

\* Most steps leave the decoders alone.
LEMMA Untouched == Filled /\ UNCHANGED dec => AllSame
BY DEF Filled, AllSame, Same

\* Then the queues stay within their capacity, ...
LEMMA FilledFrame == Filled /\ AllSame => Filled'
BY DEF Filled, AllSame, Same

\* ... and the connections stay apart.
LEMMA ApartFrame == Apart /\ AllSame => Apart'
BY DEF Apart, Separated, Before, AllSame, Same

\* A step that submits nothing and reads no EOF keeps what is known of the end.
LEMMA FinalFrame ==
  ASSUME Final, AllSame, Steady, UNCHANGED <<finalEof, ended, eofRead>>,
         todo' = todo \/ todo' = <<>>, hand' = hand \/ hand' = <<>>,
         \A u \in Present : reader'[u] = "eof" => reader[u] = "eof",
         ~plan.loop /\ Over => Over',
         worker' = "prepare" => worker = "prepare",
         worker' \in Looping \cup {"submit"} => worker \in Looping \cup {"submit"}
  PROVE  Final'
<1>1. ASSUME ~plan.loop, NEW u \in Present
      PROVE  /\ (TookEof(u) \/ EofIn(u) \/ EofOut(u) =>
                   /\ Over /\ worker # "prepare"
                   /\ \A i \in DOMAIN todo : todo[i][1] # u)'
             /\ (TookEof(u) => dec[u].in = <<>> /\ dec[u].out = <<>>)'
             /\ (\A i \in DOMAIN dec[u].out : dec[u].out[i].kind = "eof" =>
                   i = Len(dec[u].out) /\ dec[u].in = <<>>)'
             /\ (\A i \in DOMAIN dec[u].in :
                   dec[u].in[i].kind = "eof" => i = Len(dec[u].in))'
  <2>1. dec'[u].in = dec[u].in /\ dec'[u].out = dec[u].out
    BY DEF AllSame, Same
  <2>2. TookEof(u)' => TookEof(u)
    BY DEF TookEof
  <2>3. (EofIn(u)' <=> EofIn(u)) /\ (EofOut(u)' <=> EofOut(u))
    BY <2>1 DEF EofIn, EofOut
  <2>4. TookEof(u)' \/ EofIn(u)' \/ EofOut(u)' =>
          /\ Over /\ worker # "prepare"
          /\ \A i \in DOMAIN todo : todo[i][1] # u
    BY <1>1, <2>2, <2>3 DEF Final
  <2> QED
    BY <1>1, <2>1, <2>2, <2>4 DEF Final
<1>2. ~plan.loop /\ hand' # <<>> /\ hand'[1].kind = "eof" => Over'
  BY DEF Final
<1>3. /\ finalEof' => ~plan'.loop
      /\ ended' => finalEof' /\ eofRead' = Present /\ worker' \notin Looping \cup {"submit"}
  BY DEF Final, Steady
<1> QED
  BY <1>1, <1>2, <1>3 DEF Final, Steady

\* What was read and is not dispatched yet.
LEMMA HandType ==
  ASSUME Lists, hand # <<>>
  PROVE  hand[1] \in Hands /\ hand[1].conn \in Nat /\ hand[1].track \in Present
<1>1. hand[1] \in Hands
  BY EmptySeq DEF Lists
<1> QED
  BY <1>1 DEF Hands

\* While a connection gives packets, no track of a source that does not loop has
\* been given its EOF.
LEMMA NoEofYet ==
  ASSUME Final, Lists, ~plan.loop, ~Over \/ worker = "prepare", NEW u \in Present
  PROVE  ~TookEof(u) /\ ~EofIn(u) /\ ~EofOut(u)
BY DEF Final

\* A session starts from nothing, or its thread cannot be made.
LEMMA StartKeeps == IInv /\ Start => IInv'
<1> SUFFICES ASSUME IInv, Start PROVE IInv'
  OBVIOUS
<1> USE DEF IInv
<1>1. Steady
  BY Spends DEF Start
<1>2. /\ dec' = [u \in Present |-> NoDecoder] /\ dec' \in [Present -> Decoders]
      /\ \A u \in Present : dec'[u] = NoDecoder
  BY NoDecoderType DEF Start
<1>3. /\ failure' = FALSE /\ events' = <<>> /\ eofRead' = {} /\ finalEof' = FALSE
      /\ batch' = <<>> /\ progress' = FALSE /\ hand' = <<>> /\ todo' = <<>>
      /\ dispatched' = 0 /\ ended' = FALSE
      /\ proxy' = "off" /\ saying' = "stopped" /\ conn' = 0 /\ packets' = 0
      /\ news' = FALSE /\ cancelled' = FALSE
      /\ UNCHANGED <<session, moved, reader, stopper>>
      /\ \A u \in Present : reader[u] = "idle"
      /\ worker = "none" /\ ~session /\ stopper = "idle"
      /\ \/ stopping' = FALSE /\ status' = "connecting" /\ worker' = "begin"
         \/ stopping' = TRUE /\ status' = "stopped" /\ UNCHANGED worker
  BY DEF Start, Alive, Flags
<1>4. Flags'
  <2>1. {stopping, failure, session, moved, finalEof, progress, ended, news,
          cancelled}' \subseteq BOOLEAN
    BY <1>3 DEF Flags
  <2>2. packets' \in 0 .. plan'.packets /\ conn' \in Nat /\ dispatched' \in Nat
    BY <1>1, <1>3 DEF Steady, PlanTypes
  <2> QED
    BY <1>1, <1>3, <2>1, <2>2 DEF Flags, Steady, ProxyStates, Looping
<1>5. Lists'
  BY <1>3, EmptySeq DEF Lists
<1>6. \A u \in Present :
        /\ dec'[u].in = <<>> /\ dec'[u].out = <<>> /\ dec'[u].pc = "none"
        /\ dec'[u].stopped = FALSE /\ dec'[u].eof = FALSE
  BY <1>2 DEF NoDecoder
<1>7. Filled'
  BY <1>2, <1>6, SourceAssumption DEF Filled
<1>8. Alive'
  BY <1>3, <1>6 DEF Alive, Looping
<1>9. Numbered'
  BY <1>3 DEF Numbered, Open
<1>10. Apart'
  BY <1>6 DEF Apart, Separated
<1>11. Settled'
  BY <1>3, <1>6 DEF Settled
<1>12. Submitting'
  BY <1>3 DEF Submitting
<1>13. Final'
  BY <1>3, <1>6 DEF Final, TookEof, EofIn, EofOut
<1>14. Told'
  BY <1>3 DEF Told
<1> QED
  BY <1>4, <1>5, <1>7, <1>8, <1>9, <1>10, <1>11, <1>12, <1>13, <1>14

\* RequestStop: the flag, then the dispatcher wakes.
LEMMA RequestStopKeeps == IInv /\ RequestStop => IInv'
<1> SUFFICES ASSUME IInv, RequestStop PROVE IInv'
  OBVIOUS
<1> USE SourceAssumption DEF IInv, RequestStop, run, input, Awake
<1>1. Steady
  BY Unspent, Spends, Faults
<1>2. AllSame
  BY Untouched
<1>3. Flags'
  BY <1>1 DEF Flags, Steady, ProxyStates, Looping
<1>4. Lists'
  BY DEF Lists, Flags, Hands
<1>5. Filled'
  BY <1>2, FilledFrame
<1>6. Alive'
  BY DEF Alive, Looping, Flags
<1>7. Numbered'
  BY DEF Numbered, Open, Flags, Alive
<1>8. Apart'
  BY <1>2, ApartFrame
<1>9. Settled'
  BY DEF Settled, Looping, Open, LastOf, Numbered, Alive, Flags
<1>10. Submitting'
  BY DEF Submitting, Awaits, LastOf, Alive
<1>11. Final'
  <2>1. ~plan.loop /\ Over => Over'
    BY DEF Over, Flags, ProxyStates
  <2>2. /\ worker' = "prepare" => worker = "prepare"
        /\ worker' \in Looping \cup {"submit"} => worker \in Looping \cup {"submit"}
    BY DEF Looping
  <2> QED
    BY <1>1, <1>2, <2>1, <2>2, FinalFrame DEF Flags
<1>12. Told'
  BY DEF Told, Alive
<1> QED
  BY <1>3, <1>4, <1>5, <1>6, <1>7, <1>8, <1>9, <1>10, <1>11, <1>12

\* RequestStop, outside the lock: the proxy and the decoders are stopped.
LEMMA StopSessionKeeps == IInv /\ StopSession => IInv'
<1> SUFFICES ASSUME IInv, StopSession PROVE IInv'
  OBVIOUS
<1> USE DEF IInv
<1>1. /\ UNCHANGED <<stopping, failure, status, events, session, moved, eofRead, finalEof,
                     batch, progress, hand, todo, dispatched, ended, worker, proxy, saying,
                     conn, packets, news, reader, plan>>
      /\ cancelled' = TRUE /\ stopper' = "join" /\ stopper \in {"all", "proxy"}
      /\ dec' = Stopped(dec) \/ dec' = dec
  BY DEF StopSession, shared, run
<1>2. stopping /\ worker # "none"
  BY <1>1 DEF Alive
<1>3. dec \in [Present -> Decoders]
  BY DEF Filled
<1>4. AllSame /\ \A u \in Present : dec'[u].pc = dec[u].pc
  BY <1>1, <1>3, StoppedShape DEF AllSame, Same
<1>5. Steady
  BY <1>1, Unspent
<1>6. Flags'
  BY <1>1, <1>5 DEF Flags, Steady
<1>7. Lists'
  BY <1>1 DEF Lists
<1>8. Filled'
  BY <1>4, FilledFrame
<1>9. Alive'
  BY <1>1, <1>2, <1>4 DEF Alive
<1>10. Numbered'
  BY <1>1 DEF Numbered, Open
<1>11. Apart'
  BY <1>4, ApartFrame
<1>12. Settled'
  BY <1>1, <1>2 DEF Settled
<1>13. Submitting'
  BY <1>1, <1>4 DEF Submitting, Awaits, LastOf, AllSame, Same
<1>14. Final'
  BY <1>1, <1>4, <1>5, FinalFrame DEF Over
<1>15. Told'
  BY <1>1 DEF Told
<1> QED
  BY <1>6, <1>7, <1>8, <1>9, <1>10, <1>11, <1>12, <1>13, <1>14, <1>15

\* Stop joins the dispatcher.
LEMMA JoinKeeps == IInv /\ Join => IInv'
<1> SUFFICES ASSUME IInv, Join PROVE IInv'
  OBVIOUS
<1> USE SourceAssumption DEF IInv, Join, shared, run, input
<1>1. Steady
  BY Unspent, Spends, Faults
<1>2. AllSame
  BY Untouched
<1>3. Flags'
  BY <1>1 DEF Flags, Steady, ProxyStates, Looping
<1>4. Lists'
  BY DEF Lists, Flags, Hands
<1>5. Filled'
  BY <1>2, FilledFrame
<1>6. Alive'
  BY DEF Alive, Looping, Flags
<1>7. Numbered'
  BY DEF Numbered, Open, Flags, Alive
<1>8. Apart'
  BY <1>2, ApartFrame
<1>9. Settled'
  BY DEF Settled, Looping, Open, LastOf, Numbered, Alive, Flags
<1>10. Submitting'
  BY DEF Submitting, Awaits, LastOf, Alive
<1>11. Final'
  <2>1. ~plan.loop /\ Over => Over'
    BY DEF Over, Flags, ProxyStates
  <2>2. /\ worker' = "prepare" => worker = "prepare"
        /\ worker' \in Looping \cup {"submit"} => worker \in Looping \cup {"submit"}
    BY DEF Looping
  <2> QED
    BY <1>1, <1>2, <2>1, <2>2, FinalFrame DEF Flags
<1>12. Told'
  BY DEF Told, Alive
<1> QED
  BY <1>3, <1>4, <1>5, <1>6, <1>7, <1>8, <1>9, <1>10, <1>11, <1>12

\* The observer queues an event.
LEMMA ReportKeeps == IInv /\ Report => IInv'
<1> SUFFICES ASSUME IInv, Report PROVE IInv'
  OBVIOUS
<1> USE SourceAssumption DEF IInv, Report, Awake, ProxyOnly, run
<1>1. Steady
  BY Unspent, Spends, Faults
<1>2. AllSame
  BY Untouched
<1>3. Flags'
  BY <1>1 DEF Flags, Steady, ProxyStates, Looping
<1>4. Lists'
  BY DEF Lists, Flags, Hands
<1>5. Filled'
  BY <1>2, FilledFrame
<1>6. Alive'
  BY DEF Alive, Looping, Flags
<1>7. Numbered'
  BY DEF Numbered, Open, Flags, Alive
<1>8. Apart'
  BY <1>2, ApartFrame
<1>9. Settled'
  BY DEF Settled, Looping, Open, LastOf, Numbered, Alive, Flags
<1>10. Submitting'
  BY DEF Submitting, Awaits, LastOf, Alive
<1>11. Final'
  <2>1. ~plan.loop /\ Over => Over'
    BY DEF Over, Flags, ProxyStates
  <2>2. /\ worker' = "prepare" => worker = "prepare"
        /\ worker' \in Looping \cup {"submit"} => worker \in Looping \cup {"submit"}
    BY DEF Looping
  <2> QED
    BY <1>1, <1>2, <2>1, <2>2, FinalFrame DEF Flags
<1>12. Told'
  BY DEF Told, Alive
<1> QED
  BY <1>3, <1>4, <1>5, <1>6, <1>7, <1>8, <1>9, <1>10, <1>11, <1>12

\* A terminal failure stops the decoders.
LEMMA ReleaseKeeps == IInv /\ Release => IInv'
<1> SUFFICES ASSUME IInv, Release PROVE IInv'
  OBVIOUS
<1> USE DEF IInv
<1>1. /\ UNCHANGED <<stopping, failure, status, events, session, moved, eofRead, finalEof,
                     batch, progress, hand, todo, dispatched, ended, worker, saying,
                     conn, packets, news, cancelled, reader, stopper, plan>>
      /\ proxy = "release" /\ proxy' = "news"
      /\ dec' = Stopped(dec) \/ dec' = dec
  BY DEF Release, StopDecoders, ProxyOnly, shared, run
<1>2. failure
  BY <1>1 DEF Alive
<1>3. dec \in [Present -> Decoders]
  BY DEF Filled
<1>4. AllSame /\ \A u \in Present : dec'[u].pc = dec[u].pc
  BY <1>1, <1>3, StoppedShape DEF AllSame, Same
<1>5. Steady
  BY <1>1, Unspent
<1>6. Flags'
  BY <1>1, <1>5 DEF Flags, Steady
<1>7. Lists'
  BY <1>1 DEF Lists
<1>8. Filled'
  BY <1>4, FilledFrame
<1>9. Alive'
  BY <1>1, <1>2, <1>4 DEF Alive
<1>10. Numbered'
  BY <1>1 DEF Numbered, Open
<1>11. Apart'
  BY <1>4, ApartFrame
<1>12. Settled'
  BY <1>1, <1>2 DEF Settled
<1>13. Submitting'
  BY <1>1, <1>4 DEF Submitting, Awaits, LastOf, AllSame, Same
<1>14. Final'
  <2>1. Over => Over'
    BY <1>1 DEF Over
  <2> QED
    BY <1>1, <1>4, <1>5, <2>1, FinalFrame
<1>15. Told'
  BY <1>1 DEF Told
<1> QED
  BY <1>6, <1>7, <1>8, <1>9, <1>10, <1>11, <1>12, <1>13, <1>14, <1>15

\* A read has a state change to report.
LEMMA NewsKeeps == IInv /\ News => IInv'
<1> SUFFICES ASSUME IInv, News PROVE IInv'
  OBVIOUS
<1> USE SourceAssumption DEF IInv, News, shared, ProxyOnly, run
<1>1. Steady
  BY Unspent, Spends, Faults
<1>2. AllSame
  BY Untouched
<1>3. Flags'
  BY <1>1 DEF Flags, Steady, ProxyStates, Looping
<1>4. Lists'
  BY DEF Lists, Flags, Hands
<1>5. Filled'
  BY <1>2, FilledFrame
<1>6. Alive'
  BY DEF Alive, Looping, Flags
<1>7. Numbered'
  BY DEF Numbered, Open, Flags, Alive
<1>8. Apart'
  BY <1>2, ApartFrame
<1>9. Settled'
  BY DEF Settled, Looping, Open, LastOf, Numbered, Alive, Flags
<1>10. Submitting'
  BY DEF Submitting, Awaits, LastOf, Alive
<1>11. Final'
  <2>1. ~plan.loop /\ Over => Over'
    BY DEF Over, Flags, ProxyStates
  <2>2. /\ worker' = "prepare" => worker = "prepare"
        /\ worker' \in Looping \cup {"submit"} => worker \in Looping \cup {"submit"}
    BY DEF Looping
  <2> QED
    BY <1>1, <1>2, <2>1, <2>2, FinalFrame DEF Flags
<1>12. Told'
  BY DEF Told, Alive
<1> QED
  BY <1>3, <1>4, <1>5, <1>6, <1>7, <1>8, <1>9, <1>10, <1>11, <1>12

\* The proxy ends as stopped.
LEMMA CancelKeeps == IInv /\ Cancel => IInv'
<1> SUFFICES ASSUME IInv, Cancel PROVE IInv'
  OBVIOUS
<1> USE SourceAssumption DEF IInv, Cancel, Says, shared, ProxyOnly, run
<1>1. Steady
  BY Unspent, Spends, Faults
<1>2. AllSame
  BY Untouched
<1>3. Flags'
  BY <1>1 DEF Flags, Steady, ProxyStates, Looping
<1>4. Lists'
  BY DEF Lists, Flags, Hands
<1>5. Filled'
  BY <1>2, FilledFrame
<1>6. Alive'
  BY DEF Alive, Looping, Flags
<1>7. Numbered'
  BY DEF Numbered, Open, Flags, Alive
<1>8. Apart'
  BY <1>2, ApartFrame
<1>9. Settled'
  BY DEF Settled, Looping, Open, LastOf, Numbered, Alive, Flags
<1>10. Submitting'
  BY DEF Submitting, Awaits, LastOf, Alive
<1>11. Final'
  <2>1. ~plan.loop /\ Over => Over'
    BY DEF Over, Flags, ProxyStates
  <2>2. /\ worker' = "prepare" => worker = "prepare"
        /\ worker' \in Looping \cup {"submit"} => worker \in Looping \cup {"submit"}
    BY DEF Looping
  <2> QED
    BY <1>1, <1>2, <2>1, <2>2, FinalFrame DEF Flags
<1>12. Told'
  BY DEF Told, Alive
<1> QED
  BY <1>3, <1>4, <1>5, <1>6, <1>7, <1>8, <1>9, <1>10, <1>11, <1>12

\* A connection succeeds.
LEMMA ConnectKeeps == IInv /\ Connect => IInv'
<1> SUFFICES ASSUME IInv, Connect PROVE IInv'
  OBVIOUS
<1> USE SourceAssumption DEF IInv, Connect, shared, ProxyOnly, run
<1>1. Steady
  BY Unspent, Spends, Faults
<1>2. AllSame
  BY Untouched
<1>3. Flags'
  BY <1>1 DEF Flags, Steady, ProxyStates, PlanTypes, Looping
<1>4. Lists'
  BY DEF Lists, Flags, Hands
<1>5. Filled'
  BY <1>2, FilledFrame
<1>6. Alive'
  BY DEF Alive, Looping, Flags
<1>7. Numbered'
  BY HandType DEF Numbered, Open, Flags, Alive
<1>8. Apart'
  BY <1>2, ApartFrame
<1>9. Settled'
  BY DEF Settled, Looping, Open, LastOf, Numbered, Alive, Flags
<1>10. Submitting'
  BY DEF Submitting, Awaits, LastOf, Alive
<1>11. Final'
  <2>1. ~plan.loop /\ Over => Over'
    BY DEF Over, Flags, ProxyStates
  <2>2. /\ worker' = "prepare" => worker = "prepare"
        /\ worker' \in Looping \cup {"submit"} => worker \in Looping \cup {"submit"}
    BY DEF Looping
  <2> QED
    BY <1>1, <1>2, <2>1, <2>2, FinalFrame DEF Flags
<1>12. Told'
  BY DEF Told, Alive
<1> QED
  BY <1>3, <1>4, <1>5, <1>6, <1>7, <1>8, <1>9, <1>10, <1>11, <1>12

\* An attempt or a connection fails.
LEMMA DisconnectKeeps == IInv /\ Disconnect => IInv'
<1> SUFFICES ASSUME IInv, Disconnect PROVE IInv'
  OBVIOUS
<1> USE SourceAssumption DEF IInv, Disconnect, Says, shared, ProxyOnly, run
<1>1. Steady
  BY Unspent, Spends, Faults
<1>2. AllSame
  BY Untouched
<1>3. Flags'
  BY <1>1 DEF Flags, Steady, ProxyStates, Looping
<1>4. Lists'
  BY DEF Lists, Flags, Hands
<1>5. Filled'
  BY <1>2, FilledFrame
<1>6. Alive'
  BY DEF Alive, Looping, Flags
<1>7. Numbered'
  BY DEF Numbered, Open, Flags, Alive
<1>8. Apart'
  BY <1>2, ApartFrame
<1>9. Settled'
  BY DEF Settled, Looping, Open, LastOf, Numbered, Alive, Flags
<1>10. Submitting'
  BY DEF Submitting, Awaits, LastOf, Alive
<1>11. Final'
  <2>1. ~plan.loop /\ Over => Over'
    BY DEF Over, Flags, ProxyStates
  <2>2. /\ worker' = "prepare" => worker = "prepare"
        /\ worker' \in Looping \cup {"submit"} => worker \in Looping \cup {"submit"}
    BY DEF Looping
  <2> QED
    BY <1>1, <1>2, <2>1, <2>2, FinalFrame DEF Flags
<1>12. Told'
  BY DEF Told, Alive
<1> QED
  BY <1>3, <1>4, <1>5, <1>6, <1>7, <1>8, <1>9, <1>10, <1>11, <1>12

\* The proxy tries again.
LEMMA RetryKeeps == IInv /\ Retry => IInv'
<1> SUFFICES ASSUME IInv, Retry PROVE IInv'
  OBVIOUS
<1> USE SourceAssumption DEF IInv, Retry, Says, shared, ProxyOnly, run
<1>1. Steady
  BY Unspent, Spends, Faults
<1>2. AllSame
  BY Untouched
<1>3. Flags'
  BY <1>1 DEF Flags, Steady, ProxyStates, Looping
<1>4. Lists'
  BY DEF Lists, Flags, Hands
<1>5. Filled'
  BY <1>2, FilledFrame
<1>6. Alive'
  BY DEF Alive, Looping, Flags
<1>7. Numbered'
  BY DEF Numbered, Open, Flags, Alive
<1>8. Apart'
  BY <1>2, ApartFrame
<1>9. Settled'
  BY DEF Settled, Looping, Open, LastOf, Numbered, Alive, Flags
<1>10. Submitting'
  BY DEF Submitting, Awaits, LastOf, Alive
<1>11. Final'
  <2>1. ~plan.loop /\ Over => Over'
    BY DEF Over, Flags, ProxyStates
  <2>2. /\ worker' = "prepare" => worker = "prepare"
        /\ worker' \in Looping \cup {"submit"} => worker \in Looping \cup {"submit"}
    BY DEF Looping
  <2> QED
    BY <1>1, <1>2, <2>1, <2>2, FinalFrame DEF Flags
<1>12. Told'
  BY DEF Told, Alive
<1> QED
  BY <1>3, <1>4, <1>5, <1>6, <1>7, <1>8, <1>9, <1>10, <1>11, <1>12

\* The EOF was read: the next loop, or the end.
LEMMA AcknowledgedKeeps == IInv /\ Acknowledged => IInv'
<1> SUFFICES ASSUME IInv, Acknowledged PROVE IInv'
  OBVIOUS
<1> USE SourceAssumption DEF IInv, Acknowledged, Says, shared, ProxyOnly, run
<1>1. Steady
  BY Unspent, Spends, Faults
<1>2. AllSame
  BY Untouched
<1>3. Flags'
  BY <1>1 DEF Flags, Steady, ProxyStates, Looping
<1>4. Lists'
  BY DEF Lists, Flags, Hands
<1>5. Filled'
  BY <1>2, FilledFrame
<1>6. Alive'
  BY DEF Alive, Looping, Flags
<1>7. Numbered'
  BY DEF Numbered, Open, Flags, Alive
<1>8. Apart'
  BY <1>2, ApartFrame
<1>9. Settled'
  BY DEF Settled, Looping, Open, LastOf, Numbered, Alive, Flags
<1>10. Submitting'
  BY DEF Submitting, Awaits, LastOf, Alive
<1>11. Final'
  <2>1. ~plan.loop /\ Over => Over'
    BY DEF Over, Flags, ProxyStates
  <2>2. /\ worker' = "prepare" => worker = "prepare"
        /\ worker' \in Looping \cup {"submit"} => worker \in Looping \cup {"submit"}
    BY DEF Looping
  <2> QED
    BY <1>1, <1>2, <2>1, <2>2, FinalFrame DEF Flags
<1>12. Told'
  BY DEF Told, Alive
<1> QED
  BY <1>3, <1>4, <1>5, <1>6, <1>7, <1>8, <1>9, <1>10, <1>11, <1>12

\* Dispatch reads a packet.
LEMMA ReadPacketKeeps == IInv /\ ReadPacket => IInv'
<1> SUFFICES ASSUME IInv, ReadPacket PROVE IInv'
  OBVIOUS
<1> USE SourceAssumption DEF IInv, ReadPacket, shared, Go, Offered
<1>1. Steady
  BY Unspent, Spends, Faults
<1>2. AllSame
  BY Untouched
<1>3. Flags'
  BY <1>1 DEF Flags, Steady, ProxyStates, PlanTypes, Looping
<1>4. Lists'
  BY DEF Lists, Flags, Hands
<1>5. Filled'
  BY <1>2, FilledFrame
<1>6. Alive'
  BY DEF Alive, Looping, Flags
<1>7. Numbered'
  BY DEF Numbered, Open, Flags, Alive
<1>8. Apart'
  BY <1>2, ApartFrame
<1>9. Settled'
  BY DEF Settled, Looping, Open, LastOf, Numbered, Alive, Flags
<1>10. Submitting'
  BY DEF Submitting, Awaits, LastOf, Alive
<1>11. Final'
  <2>1. ~Over
    BY DEF Over
  <2>2. ASSUME ~plan.loop, NEW u \in Present
        PROVE  ~TookEof(u)' /\ ~EofIn(u)' /\ ~EofOut(u)'
    BY <2>1, <2>2, NoEofYet DEF TookEof, EofIn, EofOut
  <2>3. hand' # <<>> /\ hand'[1].kind = "eof" => Over'
    BY DEF Over
  <2> QED
    BY <2>2, <2>3 DEF Final, TookEof, EofIn, EofOut, Looping
<1>12. Told'
  BY DEF Told, Alive
<1> QED
  BY <1>3, <1>4, <1>5, <1>6, <1>7, <1>8, <1>9, <1>10, <1>11, <1>12

\* Dispatch reads the EOF of a connection.
LEMMA ReadEofKeeps == IInv /\ ReadEof => IInv'
<1> SUFFICES ASSUME IInv, ReadEof PROVE IInv'
  OBVIOUS
<1> USE SourceAssumption DEF IInv, ReadEof, shared, Go, Offered
<1>1. Steady
  BY Unspent, Spends, Faults
<1>2. AllSame
  BY Untouched
<1>3. Flags'
  BY <1>1 DEF Flags, Steady, ProxyStates, Looping
<1>4. Lists'
  BY FirstTrack DEF Lists, Flags, Hands
<1>5. Filled'
  BY <1>2, FilledFrame
<1>6. Alive'
  BY DEF Alive, Looping, Flags
<1>7. Numbered'
  BY DEF Numbered, Open, Flags, Alive
<1>8. Apart'
  BY <1>2, ApartFrame
<1>9. Settled'
  BY DEF Settled, Looping, Open, LastOf, Numbered, Alive, Flags
<1>10. Submitting'
  BY DEF Submitting, Awaits, LastOf, Alive
<1>11. Final'
  <2>1. ~Over
    BY DEF Over
  <2>2. ASSUME ~plan.loop, NEW u \in Present
        PROVE  ~TookEof(u)' /\ ~EofIn(u)' /\ ~EofOut(u)'
    BY <2>1, <2>2, NoEofYet DEF TookEof, EofIn, EofOut
  <2>3. hand' # <<>> /\ hand'[1].kind = "eof" => Over'
    BY DEF Over
  <2> QED
    BY <2>2, <2>3 DEF Final, TookEof, EofIn, EofOut, Looping
<1>12. Told'
  BY DEF Told, Alive
<1> QED
  BY <1>3, <1>4, <1>5, <1>6, <1>7, <1>8, <1>9, <1>10, <1>11, <1>12

\* Run starts the proxy.
LEMMA BeginKeeps == IInv /\ Begin => IInv'
<1> SUFFICES ASSUME IInv, Begin PROVE IInv'
  OBVIOUS
<1> USE SourceAssumption DEF IInv, Begin, run, Published, Go
<1>1. Steady
  BY Unspent, Spends, Faults
<1>2. AllSame
  BY Untouched
<1>3. Flags'
  BY <1>1 DEF Flags, Steady, ProxyStates, Looping
<1>4. Lists'
  BY DEF Lists, Flags, Hands
<1>5. Filled'
  BY <1>2, FilledFrame
<1>6. Alive'
  BY DEF Alive, Looping, Flags
<1>7. Numbered'
  BY DEF Numbered, Open, Flags, Alive
<1>8. Apart'
  BY <1>2, ApartFrame
<1>9. Settled'
  BY DEF Settled, Looping, Open, LastOf, Numbered, Alive, Flags
<1>10. Submitting'
  BY DEF Submitting, Awaits, LastOf, Alive
<1>11. Final'
  <2>1. ~plan.loop /\ Over => Over'
    BY DEF Over, Flags, ProxyStates, Alive
  <2>2. /\ worker' = "prepare" => worker = "prepare"
        /\ worker' \in Looping \cup {"submit"} => worker \in Looping \cup {"submit"}
    BY DEF Looping
  <2> QED
    BY <1>1, <1>2, <2>1, <2>2, FinalFrame DEF Flags
<1>12. Told'
  BY DEF Told, Alive
<1> QED
  BY <1>3, <1>4, <1>5, <1>6, <1>7, <1>8, <1>9, <1>10, <1>11, <1>12

\* A round of Run takes the events.
LEMMA TopKeeps == IInv /\ Top => IInv'
<1> SUFFICES ASSUME IInv, Top PROVE IInv'
  OBVIOUS
<1> USE SourceAssumption DEF IInv, Top, input, Go
<1>1. Steady
  BY Unspent, Spends, Faults
<1>2. AllSame
  BY Untouched
<1>3. Flags'
  <2>1. progress' \in BOOLEAN
    BY DEF Flags
  <2>2. worker' \in {"final", "catch", "event"} /\ moved' = FALSE
    OBVIOUS
  <2>3. UNCHANGED <<stopping, failure, status, session, eofRead, finalEof, dispatched,
                    ended, proxy, saying, conn, packets, news, cancelled, reader, stopper>>
    OBVIOUS
  <2> HIDE DEF Top
  <2>4. {stopping, failure, session, moved, finalEof, progress, ended, news,
          cancelled}' \subseteq BOOLEAN
    BY <2>1, <2>2, <2>3 DEF Flags
  <2> QED
    BY <1>1, <2>2, <2>3, <2>4 DEF Flags, Steady, ProxyStates, Looping
<1>4. Lists'
  BY EmptySeq DEF Lists
<1>5. Filled'
  BY <1>2, FilledFrame
<1>6. Alive'
  BY DEF Alive, Looping, Flags
<1>7. Numbered'
  BY DEF Numbered, Open, Flags, Alive
<1>8. Apart'
  BY <1>2, ApartFrame
<1>9. Settled'
  BY DEF Settled, Looping, Open, LastOf, Numbered, Alive, Flags
<1>10. Submitting'
  BY DEF Submitting, Awaits, LastOf, Alive
<1>11. Final'
  <2>1. ~plan.loop /\ Over => Over'
    BY DEF Over, Flags, ProxyStates
  <2>2. /\ worker' = "prepare" => worker = "prepare"
        /\ worker' \in Looping \cup {"submit"} => worker \in Looping \cup {"submit"}
    BY DEF Looping
  <2> QED
    BY <1>1, <1>2, <2>1, <2>2, FinalFrame DEF Flags
<1>12. Told'
  BY DEF Told, Alive
<1> QED
  BY <1>3, <1>4, <1>5, <1>6, <1>7, <1>8, <1>9, <1>10, <1>11, <1>12

\* ProcessEvents, one event.
LEMMA HandleEventKeeps == IInv /\ HandleEvent => IInv'
<1> SUFFICES ASSUME IInv, HandleEvent PROVE IInv'
  OBVIOUS
<1> USE SourceAssumption DEF IInv, HandleEvent, Published, Go, WorkerOnly
<1>1. Steady
  BY Unspent, Spends, Faults
<1>2. AllSame
  BY Untouched
<1>3. Flags'
  BY <1>1 DEF Flags, Steady, ProxyStates, Looping
<1>4. Lists'
  <2>1. batch # <<>> => Tail(batch) \in Seq(ProxyStates)
    BY DEF Lists
  <2>2. batch' \in Seq(ProxyStates)
    BY <2>1, EmptySeq DEF Lists
  <2> QED
    BY <2>2 DEF Lists
<1>5. Filled'
  BY <1>2, FilledFrame
<1>6. Alive'
  BY DEF Alive, Looping, Flags
<1>7. Numbered'
  BY DEF Numbered, Open, Flags, Alive
<1>8. Apart'
  BY <1>2, ApartFrame
<1>9. Settled'
  BY DEF Settled, Looping, Open, LastOf, Numbered, Alive, Flags
<1>10. Submitting'
  BY DEF Submitting, Awaits, LastOf, Alive
<1>11. Final'
  <2>1. ~plan.loop /\ Over => Over'
    BY DEF Over, Flags, ProxyStates
  <2>2. /\ worker' = "prepare" => worker = "prepare"
        /\ worker' \in Looping \cup {"submit"} => worker \in Looping \cup {"submit"}
    BY DEF Looping
  <2> QED
    BY <1>1, <1>2, <2>1, <2>2, FinalFrame DEF Flags
<1>12. Told'
  BY DEF Told, Alive
<1> QED
  BY <1>3, <1>4, <1>5, <1>6, <1>7, <1>8, <1>9, <1>10, <1>11, <1>12

\* The decoders are made, or compared with the stream.
LEMMA InitializeKeeps == IInv /\ Initialize => IInv'
<1> SUFFICES ASSUME IInv, Initialize PROVE IInv'
  OBVIOUS
<1> USE DEF IInv
<1>1. Steady
  BY Unspent, Faults DEF Initialize
<1>2. /\ UNCHANGED <<stopping, failure, status, events, moved, eofRead, finalEof, batch,
                     progress, hand, todo, dispatched, ended, proxy, saying, conn, packets,
                     news, cancelled, reader, stopper>>
      /\ worker = "created"
      /\ \/ worker' = "running" /\ session' = TRUE
            /\ dec' = IF session THEN dec ELSE CancelLateSession
         \/ worker' = "catch" /\ UNCHANGED <<session, dec>>
  BY DEF Initialize, Go, run, input
<1> DEFINE fresh == [NoDecoder EXCEPT !.pc = "run", !.stopped = stopping \/ failure]
<1>3. /\ fresh.in = <<>> /\ fresh.out = <<>> /\ fresh.pc = "run" /\ fresh.at = 0
      /\ fresh.eof = FALSE
      /\ fresh.stopped = (stopping \/ failure)
  BY DEF NoDecoder
<1>4. fresh \in Decoders
  <2>1. stopping \in BOOLEAN /\ failure \in BOOLEAN
    BY DEF Flags
  <2>2. (stopping \/ failure) \in BOOLEAN
    BY <2>1
  <2> QED
    BY <2>2, NoDecoderType DEF NoDecoder, Decoders
<1>5. CancelLateSession \in [Present -> Decoders]
      /\ \A u \in Present : CancelLateSession[u] = fresh
  BY <1>4 DEF CancelLateSession
<1> HIDE DEF fresh
<1>6. /\ dec' \in [Present -> Decoders]
      /\ \A u \in Present : dec'[u] = dec[u] \/ dec'[u] = fresh
  BY <1>2, <1>5 DEF Filled
<1>7. Flags'
  <2>1. session' \in BOOLEAN /\ worker' \in Looping \cup {"catch"}
    <3>1. session \in BOOLEAN
      BY DEF Flags
    <3> QED
      BY <1>2, <3>1 DEF Looping
  <2>2. Flags
    OBVIOUS
  <2> HIDE DEF IInv
  <2> QED
    BY <1>1, <1>2, <2>1, <2>2 DEF Flags, Steady
<1>8. Lists'
  BY <1>2 DEF Lists
<1>9. Filled'
  BY <1>3, <1>6, SourceAssumption DEF Filled
<1>10. Alive'
  <2>1. session' => \A u \in Present : dec'[u].pc # "none"
    BY <1>2, <1>3, <1>5 DEF Alive, Looping
  <2>2. \A u \in Present : dec'[u].pc = "release" => failure
    BY <1>3, <1>6 DEF Alive
  <2>3. \A u \in Present : dec'[u].stopped \/ dec'[u].pc = "exited" => stopping \/ failure
    BY <1>2, <1>3, <1>6 DEF Alive, Looping
  <2> QED
    BY <1>2, <2>1, <2>2, <2>3 DEF Alive, Looping
<1>11. Numbered'
  BY <1>2 DEF Numbered, Open
<1>12. Apart'
  <2>1. Separated(fresh)
    BY <1>3 DEF Separated
  <2> QED
    BY <1>6, <2>1 DEF Apart, Separated, Before
<1>13. Settled'
  <2>1. ASSUME ~stopping, ~failure, NEW u \in Present
        PROVE  /\ dec'[u].pc = "run" => LastOf(dec[u])' \in {0, dispatched}
               /\ dec'[u].eof => dispatched # 0 /\ (Open => dispatched < conn)
    <3>1. /\ dec[u].pc = "run" => LastOf(dec[u]) \in {0, dispatched}
          /\ dec[u].eof => dispatched # 0 /\ (Open => dispatched < conn)
      BY <1>2, <2>1 DEF Settled, Looping
    <3>2. CASE dec'[u] = dec[u]
      BY <3>1, <3>2 DEF LastOf
    <3>3. CASE dec'[u] = fresh
      BY <3>3, <1>3 DEF LastOf
    <3> QED
      BY <1>6, <3>2, <3>3
  <2> QED
    BY <1>2, <2>1 DEF Settled, Open, Looping
<1>14. Submitting'
  BY <1>2 DEF Submitting
<1>15. Final'
  <2>1. ASSUME NEW u \in Present
        PROVE  (EofIn(u)' => EofIn(u)) /\ (EofOut(u)' => EofOut(u)) /\ (TookEof(u)' <=> TookEof(u))
    BY <1>2, <1>3, <1>6 DEF EofIn, EofOut, TookEof
  <2>2. ~ended /\ worker' # "prepare"
    BY <1>2 DEF Final, Looping
  <2>3. ASSUME NEW u \in Present, ~plan.loop
        PROVE  /\ (TookEof(u) => dec[u].in = <<>> /\ dec[u].out = <<>>)'
               /\ (\A i \in DOMAIN dec[u].out : dec[u].out[i].kind = "eof" =>
                     i = Len(dec[u].out) /\ dec[u].in = <<>>)'
               /\ (\A i \in DOMAIN dec[u].in :
                     dec[u].in[i].kind = "eof" => i = Len(dec[u].in))'
    BY <1>3, <1>6, <2>1, <2>3 DEF Final
  <2> QED
    BY <1>1, <1>2, <2>1, <2>2, <2>3 DEF Final, Steady, Over
<1>16. Told'
  BY <1>2 DEF Told
<1> QED
  BY <1>7, <1>8, <1>9, <1>10, <1>11, <1>12, <1>13, <1>14, <1>15, <1>16

\* Running is published.
LEMMA RunningKeeps == IInv /\ Running => IInv'
<1> SUFFICES ASSUME IInv, Running PROVE IInv'
  OBVIOUS
<1> USE SourceAssumption DEF IInv, Running, run, Published, Go, WorkerOnly
<1>1. Steady
  BY Unspent, Spends, Faults
<1>2. AllSame
  BY Untouched
<1>3. Flags'
  BY <1>1 DEF Flags, Steady, ProxyStates, Looping
<1>4. Lists'
  BY DEF Lists, Flags, Hands
<1>5. Filled'
  BY <1>2, FilledFrame
<1>6. Alive'
  BY DEF Alive, Looping, Flags
<1>7. Numbered'
  BY DEF Numbered, Open, Flags, Alive
<1>8. Apart'
  BY <1>2, ApartFrame
<1>9. Settled'
  BY DEF Settled, Looping, Open, LastOf, Numbered, Alive, Flags
<1>10. Submitting'
  BY DEF Submitting, Awaits, LastOf, Alive
<1>11. Final'
  <2>1. ~plan.loop /\ Over => Over'
    BY DEF Over, Flags, ProxyStates
  <2>2. /\ worker' = "prepare" => worker = "prepare"
        /\ worker' \in Looping \cup {"submit"} => worker \in Looping \cup {"submit"}
    BY DEF Looping
  <2> QED
    BY <1>1, <1>2, <2>1, <2>2, FinalFrame DEF Flags
<1>12. Told'
  BY DEF Told, Alive
<1> QED
  BY <1>3, <1>4, <1>5, <1>6, <1>7, <1>8, <1>9, <1>10, <1>11, <1>12

\* Run looks for the end.
LEMMA CheckKeeps == IInv /\ Check => IInv'
<1> SUFFICES ASSUME IInv, Check PROVE IInv'
  OBVIOUS
<1> USE SourceAssumption DEF IInv, Check, Go, WorkerOnly, Drained
<1>1. Steady
  BY Unspent, Spends, Faults
<1>2. AllSame
  BY Untouched
<1>3. Flags'
  <2>1. /\ UNCHANGED <<stopping, failure, status, session, moved, eofRead, finalEof, dispatched,
                    news, cancelled, proxy, saying, conn, packets, reader, stopper>>
        /\ worker' \in {"catch", "final", "read", "top", "wait"}
    OBVIOUS
  <2>2. ended' \in BOOLEAN /\ progress' = FALSE
    BY DEF Flags
  <2> HIDE DEF Check
  <2>3. {stopping, failure, session, moved, finalEof, progress, ended, news,
          cancelled}' \subseteq BOOLEAN
    BY <2>1, <2>2 DEF Flags
  <2> QED
    BY <1>1, <2>1, <2>3 DEF Flags, Steady, Looping
<1>4. Lists'
  BY DEF Lists, Flags, Hands
<1>5. Filled'
  BY <1>2, FilledFrame
<1>6. Alive'
  BY DEF Alive, Looping, Flags
<1>7. Numbered'
  BY DEF Numbered, Open, Flags, Alive
<1>8. Apart'
  BY <1>2, ApartFrame
<1>9. Settled'
  BY DEF Settled, Looping, Open, LastOf, Numbered, Alive, Flags
<1>10. Submitting'
  BY DEF Submitting, Awaits, LastOf, Alive
<1>11. Final'
  <2>1. /\ UNCHANGED <<todo, hand, reader, eofRead, finalEof, dec, plan, proxy, saying>>
        /\ worker' # "prepare"
    BY DEF Looping
  <2>2. ended' => finalEof /\ eofRead = Present /\ worker' \notin Looping \cup {"submit"}
    BY DEF Looping
  <2> QED
    BY <2>1, <2>2 DEF Final, Over, TookEof, EofIn, EofOut
<1>12. Told'
  BY DEF Told, Alive
<1> QED
  BY <1>3, <1>4, <1>5, <1>6, <1>7, <1>8, <1>9, <1>10, <1>11, <1>12

\* Run waits for a change.
LEMMA WaitKeeps == IInv /\ Wait => IInv'
<1> SUFFICES ASSUME IInv, Wait PROVE IInv'
  OBVIOUS
<1> USE SourceAssumption DEF IInv, Wait, run, Go, WorkerOnly
<1>1. Steady
  BY Unspent, Spends, Faults
<1>2. AllSame
  BY Untouched
<1>3. Flags'
  BY <1>1 DEF Flags, Steady, ProxyStates, Looping
<1>4. Lists'
  BY DEF Lists, Flags, Hands
<1>5. Filled'
  BY <1>2, FilledFrame
<1>6. Alive'
  BY DEF Alive, Looping, Flags
<1>7. Numbered'
  BY DEF Numbered, Open, Flags, Alive
<1>8. Apart'
  BY <1>2, ApartFrame
<1>9. Settled'
  BY DEF Settled, Looping, Open, LastOf, Numbered, Alive, Flags
<1>10. Submitting'
  BY DEF Submitting, Awaits, LastOf, Alive
<1>11. Final'
  <2>1. ~plan.loop /\ Over => Over'
    BY DEF Over, Flags, ProxyStates
  <2>2. /\ worker' = "prepare" => worker = "prepare"
        /\ worker' \in Looping \cup {"submit"} => worker \in Looping \cup {"submit"}
    BY DEF Looping
  <2> QED
    BY <1>1, <1>2, <2>1, <2>2, FinalFrame DEF Flags
<1>12. Told'
  BY DEF Told, Alive
<1> QED
  BY <1>3, <1>4, <1>5, <1>6, <1>7, <1>8, <1>9, <1>10, <1>11, <1>12

\* Dispatch is woken by a state change.
LEMMA ReadNullKeeps == IInv /\ ReadNull => IInv'
<1> SUFFICES ASSUME IInv, ReadNull PROVE IInv'
  OBVIOUS
<1> USE SourceAssumption DEF IInv, ReadNull, shared, run, Go
<1>1. Steady
  BY Unspent, Spends, Faults
<1>2. AllSame
  BY Untouched
<1>3. Flags'
  <2>1. /\ UNCHANGED <<stopping, failure, status, session, moved, eofRead, finalEof, dispatched,
                    progress, ended, cancelled, proxy, saying, conn, packets, reader, stopper>>
        /\ worker' \in {"top"}
    OBVIOUS
  <2>2. news' = FALSE
    BY DEF Flags
  <2> HIDE DEF ReadNull
  <2>3. {stopping, failure, session, moved, finalEof, progress, ended, news,
          cancelled}' \subseteq BOOLEAN
    BY <2>1, <2>2 DEF Flags
  <2> QED
    BY <1>1, <2>1, <2>3 DEF Flags, Steady, Looping
<1>4. Lists'
  BY DEF Lists, Flags, Hands
<1>5. Filled'
  BY <1>2, FilledFrame
<1>6. Alive'
  BY DEF Alive, Looping, Flags
<1>7. Numbered'
  BY DEF Numbered, Open, Flags, Alive
<1>8. Apart'
  BY <1>2, ApartFrame
<1>9. Settled'
  BY DEF Settled, Looping, Open, LastOf, Numbered, Alive, Flags
<1>10. Submitting'
  BY DEF Submitting, Awaits, LastOf, Alive
<1>11. Final'
  <2>1. ~plan.loop /\ Over => Over'
    BY DEF Over, Flags, ProxyStates
  <2>2. /\ worker' = "prepare" => worker = "prepare"
        /\ worker' \in Looping \cup {"submit"} => worker \in Looping \cup {"submit"}
    BY DEF Looping
  <2> QED
    BY <1>1, <1>2, <2>1, <2>2, FinalFrame DEF Flags
<1>12. Told'
  BY DEF Told, Alive
<1> QED
  BY <1>3, <1>4, <1>5, <1>6, <1>7, <1>8, <1>9, <1>10, <1>11, <1>12

\* A control item for every track.
LEMMA ControlsShape ==
  ASSUME NEW k \in {"eof", "reset"}, NEW c \in Nat
  PROVE  /\ Controls(k, c) \in Seq(Present \X Items)
         /\ Len(Controls(k, c)) = Len(Tracks)
         /\ \A i \in 1 .. Len(Tracks) :
              Controls(k, c)[i] = <<Tracks[i], [kind |-> k, conn |-> c]>>
<1>1. DOMAIN Tracks = 1 .. Len(Tracks) /\ Len(Tracks) \in Nat
  BY SourceAssumption, LenProperties
<1>2. [kind |-> k, conn |-> c] \in Items
  BY DEF Items
<1>3. \A i \in 1 .. Len(Tracks) : Tracks[i] \in Present
  BY <1>1 DEF Present
<1>4. \A i \in 1 .. Len(Tracks) : <<Tracks[i], [kind |-> k, conn |-> c]>> \in Present \X Items
  BY <1>2, <1>3
<1>5. Controls(k, c) = [i \in 1 .. Len(Tracks) |-> <<Tracks[i], [kind |-> k, conn |-> c]>>]
  BY <1>1 DEF Controls
<1>6. Controls(k, c) \in [1 .. Len(Tracks) -> Present \X Items]
  BY <1>4, <1>5
<1>7. Controls(k, c) \in Seq(Present \X Items)
  BY <1>1, <1>6, SeqDef
<1>8. DOMAIN Controls(k, c) = 1 .. Len(Tracks)
  BY <1>5
<1>9. Len(Controls(k, c)) = Len(Tracks)
  BY <1>1, <1>7, <1>8, LenProperties
<1> QED
  BY <1>5, <1>7, <1>9

\* What Dispatch submits: a reset for every track if the connection is another
\* one, then the packet, or an EOF for every track.
LEMMA SubmissionsShape ==
  ASSUME NEW item \in Hands, dispatched \in Nat
  PROVE  /\ Submissions(item) \in Seq(Present \X Items)
         /\ \A i \in DOMAIN Submissions(item) :
              /\ Submissions(item)[i][2].conn = item.conn
              /\ Submissions(item)[i][2].kind = "eof" => item.kind = "eof"
         /\ \A i, j \in DOMAIN Submissions(item) :
              i < j /\ Submissions(item)[i][1] = Submissions(item)[j][1] =>
                Submissions(item)[i][2].kind = "reset"
         /\ dispatched \notin {0, item.conn} =>
              \A u \in Present : \E i \in DOMAIN Submissions(item) :
                Submissions(item)[i][1] = u /\ Submissions(item)[i][2].kind = "reset"
<1> DEFINE first == Resets(item)
           second == IF item.kind = "eof" THEN Controls("eof", item.conn)
                     ELSE <<<<item.track, [kind |-> "packet", conn |-> item.conn]>>>>
           n == Len(first)
<1>0. item.conn \in Nat /\ item.track \in Present /\ item.kind \in {"packet", "eof"}
  BY DEF Hands
<1>t. DOMAIN Tracks = 1 .. Len(Tracks) /\ Len(Tracks) \in Nat
      /\ \A i, j \in 1 .. Len(Tracks) : Tracks[i] = Tracks[j] => i = j
  BY SourceAssumption, LenProperties
<1>1. /\ first \in Seq(Present \X Items)
      /\ \A i \in 1 .. n : first[i][2].conn = item.conn /\ first[i][2].kind = "reset"
      /\ dispatched \notin {0, item.conn} =>
           n = Len(Tracks) /\ \A i \in 1 .. n : first[i][1] = Tracks[i]
  <2>1. CASE dispatched \in {0, item.conn}
    BY <2>1, EmptySeq DEF Resets
  <2>2. CASE dispatched \notin {0, item.conn}
    <3>1. first = Controls("reset", item.conn)
      BY <2>2 DEF Resets
    <3>2. /\ first \in Seq(Present \X Items) /\ n = Len(Tracks)
          /\ \A i \in 1 .. Len(Tracks) :
               first[i] = <<Tracks[i], [kind |-> "reset", conn |-> item.conn]>>
      BY <3>1, <1>0, ControlsShape
    <3> HIDE DEF first, n
    <3> QED
      BY <3>2
  <2> QED
    BY <2>1, <2>2
<1>2. /\ second \in Seq(Present \X Items)
      /\ \A i \in 1 .. Len(second) :
           second[i][2].conn = item.conn /\ second[i][2].kind = item.kind
      /\ \A i, j \in 1 .. Len(second) : second[i][1] = second[j][1] => i = j
  <2>1. CASE item.kind = "eof"
    <3>1. second = Controls("eof", item.conn)
      BY <2>1
    <3> HIDE DEF second
    <3>2. /\ second \in Seq(Present \X Items) /\ Len(second) = Len(Tracks)
          /\ \A i \in 1 .. Len(Tracks) :
               second[i] = <<Tracks[i], [kind |-> "eof", conn |-> item.conn]>>
      BY <3>1, <1>0, ControlsShape
    <3> QED
      BY <3>2, <2>1, <1>t
  <2>2. CASE item.kind = "packet"
    <3>1. second = <<<<item.track, [kind |-> "packet", conn |-> item.conn]>>>>
      BY <2>2
    <3>2. <<item.track, [kind |-> "packet", conn |-> item.conn]>> \in Present \X Items
      BY <1>0 DEF Items
    <3> HIDE DEF second
    <3> QED
      BY <3>1, <3>2, <2>2
  <2> QED
    BY <1>0, <2>1, <2>2
<1>3. Submissions(item) = first \o second
  BY DEF Submissions
<1> HIDE DEF first, second
<1>4. n \in Nat /\ Len(second) \in Nat
  BY <1>1, <1>2, LenProperties
<1>5. /\ Submissions(item) \in Seq(Present \X Items)
      /\ DOMAIN Submissions(item) = 1 .. n + Len(second)
      /\ \A i \in 1 .. n + Len(second) :
           Submissions(item)[i] = IF i <= n THEN first[i] ELSE second[i - n]
  BY <1>1, <1>2, <1>3, <1>4, ConcatProperties, LenProperties
<1> HIDE DEF n
<1>6. ASSUME NEW i \in 1 .. n + Len(second)
      PROVE  \/ i \in 1 .. n /\ Submissions(item)[i] = first[i]
             \/ i - n \in 1 .. Len(second) /\ Submissions(item)[i] = second[i - n]
  BY <1>4, <1>5
<1>7. ASSUME NEW i \in 1 .. n + Len(second)
      PROVE  /\ Submissions(item)[i][2].conn = item.conn
             /\ Submissions(item)[i][2].kind = "eof" => item.kind = "eof"
  <2>1. CASE i \in 1 .. n /\ Submissions(item)[i] = first[i]
    BY <2>1, <1>1 DEF n
  <2>2. CASE i - n \in 1 .. Len(second) /\ Submissions(item)[i] = second[i - n]
    BY <2>2, <1>2
  <2> QED
    BY <2>1, <2>2, <1>6
<1>8. ASSUME NEW i \in 1 .. n + Len(second), NEW j \in 1 .. n + Len(second), i < j,
             Submissions(item)[i][1] = Submissions(item)[j][1]
      PROVE  Submissions(item)[i][2].kind = "reset"
  <2>1. CASE i <= n
    <3>1. i \in 1 .. n
      BY <2>1, <1>4
    <3>2. Submissions(item)[i] = first[i]
      <4>1. Submissions(item)[i] = IF i <= n THEN first[i] ELSE second[i - n]
        BY <1>5
      <4> QED
        BY <2>1, <4>1
    <3>3. first[i][2].kind = "reset"
      BY <3>1, <1>1 DEF n
    <3> QED
      BY <3>2, <3>3
  <2>2. CASE i > n
    <3>1. Submissions(item)[i] = second[i - n] /\ Submissions(item)[j] = second[j - n]
      <4>1. ~(i <= n) /\ ~(j <= n)
        BY <2>2, <1>4, <1>8
      <4>2. /\ Submissions(item)[i] = IF i <= n THEN first[i] ELSE second[i - n]
            /\ Submissions(item)[j] = IF j <= n THEN first[j] ELSE second[j - n]
        BY <1>5
      <4> QED
        BY <4>1, <4>2
    <3>2. i - n \in 1 .. Len(second) /\ j - n \in 1 .. Len(second)
      BY <2>2, <1>4, <1>8
    <3>3. i - n = j - n
      BY <3>1, <3>2, <1>2, <1>8
    <3> QED
      BY <3>3, <1>4, <1>8
  <2> QED
    BY <2>1, <2>2, <1>4
<1>9. ASSUME dispatched \notin {0, item.conn}, NEW u \in Present
      PROVE  \E i \in 1 .. n + Len(second) :
               Submissions(item)[i][1] = u /\ Submissions(item)[i][2].kind = "reset"
  <2>1. PICK i \in 1 .. Len(Tracks) : Tracks[i] = u
    BY <1>t DEF Present
  <2>2. i \in 1 .. n /\ first[i][1] = u /\ first[i][2].kind = "reset"
    BY <2>1, <1>1, <1>9 DEF n
  <2>3. i \in 1 .. n + Len(second) /\ Submissions(item)[i] = first[i]
    BY <2>2, <1>4, <1>5
  <2> QED
    BY <2>2, <2>3
<1> QED
  BY <1>5, <1>7, <1>8, <1>9

\* Dispatch plans its submissions.
LEMMA PrepareKeeps == IInv /\ Prepare => IInv'
<1> SUFFICES ASSUME IInv, Prepare PROVE IInv'
  OBVIOUS
<1> USE SourceAssumption DEF IInv
<1>0. /\ UNCHANGED <<dec, status, moved, finalEof, batch, progress, ended, stopping, failure,
                     events, session, eofRead, proxy, saying, conn, packets, news,
                     cancelled, reader, stopper>>
      /\ worker = "prepare" /\ hand # <<>>
  BY DEF Prepare, WorkerOnly, Alive
<1>1. Steady
  BY Unspent, Faults DEF Prepare
<1>2. AllSame
  BY <1>0, Untouched
<1>h. hand[1] \in Hands /\ hand[1].conn \in Nat /\ hand[1].track \in Present
  BY <1>0, HandType
<1>d. \/ worker' = "catch" /\ UNCHANGED <<hand, todo, dispatched>>
      \/ ~failure /\ stopping /\ worker' = "top" /\ hand' = <<>>
         /\ UNCHANGED <<todo, dispatched>>
      \/ /\ ~failure /\ ~stopping /\ session /\ worker' = "submit" /\ UNCHANGED hand
         /\ todo' = Submissions(hand[1]) /\ dispatched' = hand[1].conn
  BY DEF Prepare, Go
<1>e. dispatched \in Nat
  BY DEF Flags
<1>s. Submissions(hand[1]) \in Seq(Present \X Items)
  BY <1>h, <1>e, SubmissionsShape
<1>3. Flags'
  BY <1>0, <1>1, <1>d, <1>h DEF Flags, Steady, ProxyStates, Looping
<1>4. Lists'
  BY <1>0, <1>d, <1>s, EmptySeq DEF Lists
<1>5. Filled'
  BY <1>2, FilledFrame
<1>6. Alive'
  BY <1>0, <1>d, <1>h DEF Alive, Looping
<1>7. Numbered'
  BY <1>0, <1>d, <1>h, <1>e DEF Numbered, Open, Alive
<1>8. Apart'
  BY <1>2, ApartFrame
<1>9. Settled'
  BY <1>0, <1>d DEF Settled, Looping
<1>10. Submitting'
  <2> SUFFICES ASSUME worker' = "submit" PROVE Submitting'
    BY DEF Submitting
  <2>1. /\ ~failure /\ ~stopping /\ UNCHANGED hand
        /\ todo' = Submissions(hand[1]) /\ dispatched' = hand[1].conn
    BY <1>d
  <2>2. /\ \A i \in DOMAIN todo' :
             /\ todo'[i][2].conn = dispatched'
             /\ todo'[i][2].kind = "eof" => hand'[1].kind = "eof"
        /\ \A i, j \in DOMAIN todo' :
             i < j /\ todo'[i][1] = todo'[j][1] => todo'[i][2].kind = "reset"
    BY <2>1, <1>h, <1>e, SubmissionsShape
  <2>3. dispatched \notin {0, hand[1].conn} => \A u \in Present : Awaits(u)'
    BY <2>1, <1>h, <1>e, SubmissionsShape DEF Awaits
  <2>4. ASSUME NEW u \in Present
        PROVE  /\ dec[u].pc = "run" => LastOf(dec[u]) \in {0, dispatched}
               /\ dec[u].eof => dispatched # 0 /\ dispatched < hand[1].conn
    BY <1>0, <2>1 DEF Settled, Looping
  <2>5. ASSUME NEW u \in Present
        PROVE  /\ (dec[u].pc = "run" => Awaits(u) \/ LastOf(dec[u]) \in {0, dispatched})'
               /\ (dec[u].eof /\ ~Awaits(u) =>
                    /\ hand[1].kind = "eof"
                    /\ \A i \in DOMAIN todo : todo[i][1] # u)'
    <3>1. dec'[u] = dec[u] /\ LastOf(dec[u])' = LastOf(dec[u])
      BY <1>0 DEF LastOf
    <3>2. dec[u].eof => dispatched \notin {0, hand[1].conn}
      BY <2>4, <1>h, <1>e
    <3> QED
      BY <2>1, <2>3, <2>4, <3>1, <3>2
  <2> QED
    BY <2>2, <2>5 DEF Submitting
<1>11. Final'
  <2>1. ASSUME ~plan.loop, NEW u \in Present
        PROVE  ~TookEof(u)' /\ ~EofIn(u)' /\ ~EofOut(u)'
    BY <1>0, <2>1, NoEofYet DEF TookEof, EofIn, EofOut
  <2>2. ~plan.loop /\ hand' # <<>> /\ hand'[1].kind = "eof" => Over'
    BY <1>0, <1>d DEF Final, Over
  <2>3. ~ended
    BY <1>0 DEF Final, Looping
  <2> QED
    BY <1>0, <1>1, <2>1, <2>2, <2>3 DEF Final, Steady, TookEof, EofIn, EofOut
<1>12. Told'
  BY <1>0, <1>d DEF Told
<1> QED
  BY <1>3, <1>4, <1>5, <1>6, <1>7, <1>8, <1>9, <1>10, <1>11, <1>12

\* Dispatch submits one item: the decoder is usable and owes what Submitting
\* says, or the dispatch is given up because the source stops or has failed.
LEMMA SubmitKeeps == IInv /\ Submit => IInv'
<1> SUFFICES ASSUME IInv, Submit PROVE IInv'
  OBVIOUS
<1> USE DEF IInv
<1>1. /\ UNCHANGED <<stopping, failure, status, events, session, moved, eofRead, finalEof,
                     batch, progress, dispatched, ended, proxy, saying,
                     conn, packets, news, cancelled, reader, stopper, plan>>
      /\ worker = "submit" /\ todo # <<>>
  BY DEF Submit, WorkerOnly
<1>2. /\ todo \in Seq(Present \X Items) /\ Len(todo) \in Nat \ {0}
      /\ DOMAIN todo = 1 .. Len(todo)
  BY <1>1, EmptySeq, LenProperties DEF Lists
<1>3. todo[1] \in Present \X Items
  BY <1>2
<1>4. PICK t \in Present, item \in Items : todo[1][1] = t /\ todo[1][2] = item
  BY <1>3
<1>5. dec \in [Present -> Decoders] /\ dec[t] \in Decoders
      /\ dec[t].in \in Seq(Items) /\ dec[t].out \in Seq(Items)
  BY DEF Filled, Decoders
<1>6. Steady
  BY <1>1, Unspent
<1>7. /\ Len(Tail(todo)) = Len(todo) - 1 /\ Tail(todo) \in Seq(Present \X Items)
      /\ DOMAIN Tail(todo) = 1 .. Len(Tail(todo))
      /\ \A i \in 1 .. Len(Tail(todo)) : Tail(todo)[i] = todo[i + 1]
  <2>1. /\ Len(Tail(todo)) = Len(todo) - 1 /\ Tail(todo) \in Seq(Present \X Items)
        /\ \A i \in 1 .. Len(Tail(todo)) : Tail(todo)[i] = todo[i + 1]
    BY <1>1, <1>2, HeadTailProperties
  <2> QED
    BY <2>1, LenProperties
<1>8. CASE /\ dec[t].pc = "run" /\ ~dec[t].stopped
           /\ dec[t].eof => item.kind = "reset"
           /\ Len(dec[t].in) < Capacity
           /\ dec' = [dec EXCEPT ![t].in = Append(@, item), ![t].eof = (item.kind = "eof")]
           /\ todo' = Tail(todo) /\ UNCHANGED <<worker, hand>>
  <2> DEFINE n == Len(dec[t].in)
  <2>1. n \in Nat /\ DOMAIN dec[t].in = 1 .. n
    BY <1>5, LenProperties
  <2>2. /\ Append(dec[t].in, item) \in Seq(Items) /\ Len(Append(dec[t].in, item)) = n + 1
        /\ \A i \in 1 .. n : Append(dec[t].in, item)[i] = dec[t].in[i]
        /\ Append(dec[t].in, item)[n + 1] = item
    BY <1>5, AppendProperties
  <2>3. DOMAIN Append(dec[t].in, item) = 1 .. n + 1
    BY <2>2, LenProperties
  <2>4. dec'[t] = [dec[t] EXCEPT !.in = Append(dec[t].in, item), !.eof = (item.kind = "eof")]
    BY <1>5, <1>8
  <2>5. (item.kind = "eof") \in BOOLEAN
    OBVIOUS
  <2>6. dec'[t] \in Decoders
    BY <1>5, <2>2, <2>4, <2>5 DEF Decoders
  <2>7. /\ dec' \in [Present -> Decoders]
        /\ \A u \in Present \ {t} : dec'[u] = dec[u]
        /\ dec'[t].in = Append(dec[t].in, item) /\ dec'[t].out = dec[t].out
        /\ dec'[t].at = dec[t].at /\ dec'[t].stopped = dec[t].stopped
        /\ dec'[t].pc = "run"
        /\ dec'[t].eof <=> item.kind = "eof"
    BY <1>5, <1>8, <2>4, <2>6 DEF Decoders
  <2>8. /\ dec'[t].in \in Seq(Items) /\ Len(dec'[t].in) = n + 1
        /\ DOMAIN dec'[t].in = 1 .. n + 1
        /\ \A i \in 1 .. n : dec'[t].in[i] = dec[t].in[i]
        /\ dec'[t].in[n + 1] = item /\ dec'[t].in # <<>>
    <3>1. Append(dec[t].in, item) # <<>>
      BY <1>5, AppendProperties
    <3> QED
      BY <2>2, <2>3, <2>7, <3>1
  <2> HIDE DEF n
  <2>9. item.conn = dispatched /\ (item.kind = "eof" => hand[1].kind = "eof")
    BY <1>1, <1>2, <1>4 DEF Submitting
  <2>10. \A i \in DOMAIN todo : i # 1 /\ todo[i][1] = t => item.kind = "reset"
    BY <1>1, <1>2, <1>4 DEF Submitting
  <2>11. item.kind # "reset" => LastOf(dec[t]) \in {0, dispatched}
    BY <1>1, <1>2, <1>4, <1>8, <2>10 DEF Submitting, Awaits
  <2>12. LastOf(dec[t])' \in {0, dispatched}
    BY <2>8, <2>9 DEF LastOf, Tag
  <2>13. \A u \in Present \ {t} : LastOf(dec[u])' = LastOf(dec[u])
    BY <2>7 DEF LastOf
  <2>14. Flags'
    BY <1>1, <1>8 DEF Flags
  <2>15. Lists'
    BY <1>1, <1>7, <1>8 DEF Lists
  <2>16. Filled'
    <3>1. Len(dec'[t].in) <= Capacity
      BY <1>8, <2>1, <2>8, SourceAssumption DEF n
    <3> QED
      BY <2>7, <3>1 DEF Filled
  <2>17. Alive'
    BY <1>1, <1>8, <2>7 DEF Alive
  <2>18. Numbered'
    BY <1>1, <1>8 DEF Numbered, Open
  <2>19. Apart'
    <3>1. ASSUME NEW i \in 1 .. n + 1, dec'[t].in[i].kind # "reset"
          PROVE  Before(dec[t], i)' \in {0, dec'[t].in[i].conn}
      <4>1. CASE i \in 1 .. n
        <5>1. Before(dec[t], i) \in {0, dec[t].in[i].conn}
          BY <2>1, <2>8, <3>1, <4>1 DEF Apart, Separated
        <5>2. Before(dec[t], i)' = Before(dec[t], i)
          BY <2>1, <2>7, <2>8, <4>1 DEF Before
        <5> QED
          BY <2>8, <4>1, <5>1, <5>2
      <4>2. CASE i = n + 1
        <5>1. item.kind # "reset" /\ dec'[t].in[i].conn = dispatched
          BY <2>8, <2>9, <3>1, <4>2
        <5>2. Before(dec[t], i)' = LastOf(dec[t])
          <6>1. CASE n = 0
            <7>1. dec[t].in = <<>>
              BY <1>5, <6>1, EmptySeq DEF n
            <7> QED
              BY <2>7, <4>2, <6>1, <7>1 DEF Before, LastOf
          <6>2. CASE n # 0
            <7>1. dec[t].in # <<>> /\ i # 1 /\ i - 1 = n /\ dec'[t].in[i - 1] = dec[t].in[n]
              BY <1>5, <2>1, <2>8, <4>2, <6>2, EmptySeq DEF n
            <7> QED
              BY <7>1 DEF Before, LastOf, Tag, n
          <6> QED
            BY <6>1, <6>2
        <5> QED
          BY <2>11, <5>1, <5>2
      <4> QED
        BY <2>1, <4>1, <4>2
    <3>2. Separated(dec[t])'
      BY <2>8, <3>1 DEF Separated
    <3>3. \A u \in Present \ {t} : Separated(dec[u])'
      BY <2>7 DEF Apart, Separated, Before
    <3> QED
      BY <3>2, <3>3 DEF Apart
  <2>20. Settled'
    BY <1>1, <1>8 DEF Settled, Looping
  <2>21. Submitting'
    <3>1. \A i \in DOMAIN todo' : i + 1 \in DOMAIN todo /\ todo'[i] = todo[i + 1]
                                   /\ i \in Nat /\ i + 1 # 1
      BY <1>2, <1>7, <1>8
    <3>2. \A i \in DOMAIN todo' :
            /\ todo'[i][2].conn = dispatched'
            /\ todo'[i][2].kind = "eof" => hand'[1].kind = "eof"
      BY <1>1, <1>8, <3>1 DEF Submitting
    <3>3. \A i, j \in DOMAIN todo' :
            i < j /\ todo'[i][1] = todo'[j][1] => todo'[i][2].kind = "reset"
      <4>1. \A i, j \in DOMAIN todo :
              i < j /\ todo[i][1] = todo[j][1] => todo[i][2].kind = "reset"
        BY <1>1 DEF Submitting
      <4> QED
        BY <3>1, <4>1
    <3>4. ASSUME NEW u \in Present \ {t}
          PROVE  Awaits(u) => Awaits(u)'
      <4> SUFFICES ASSUME NEW i \in DOMAIN todo, todo[i][1] = u, todo[i][2].kind = "reset"
                   PROVE  Awaits(u)'
        BY DEF Awaits
      <4>1. i # 1
        BY <1>4
      <4>2. i - 1 \in DOMAIN todo' /\ todo'[i - 1] = todo[i]
        BY <1>2, <1>7, <1>8, <4>1
      <4> QED
        BY <4>2 DEF Awaits
    <3>5. ASSUME NEW u \in Present \ {t}
          PROVE  /\ (dec[u].pc = "run" => Awaits(u) \/ LastOf(dec[u]) \in {0, dispatched})'
                 /\ (dec[u].eof /\ ~Awaits(u) =>
                      /\ hand[1].kind = "eof"
                      /\ \A i \in DOMAIN todo : todo[i][1] # u)'
      <4>1. /\ dec[u].pc = "run" => Awaits(u) \/ LastOf(dec[u]) \in {0, dispatched}
            /\ dec[u].eof /\ ~Awaits(u) =>
                 /\ hand[1].kind = "eof"
                 /\ \A i \in DOMAIN todo : todo[i][1] # u
        BY <1>1 DEF Submitting
      <4> QED
        BY <1>1, <1>8, <2>7, <2>13, <3>1, <3>4, <4>1
    <3>6. dec'[t].eof => hand'[1].kind = "eof" /\ \A i \in DOMAIN todo' : todo'[i][1] # t
      <4> SUFFICES ASSUME item.kind = "eof"
                   PROVE  hand'[1].kind = "eof" /\ \A i \in DOMAIN todo' : todo'[i][1] # t
        BY <2>7
      <4>1. \A i \in DOMAIN todo : i # 1 => todo[i][1] # t
        BY <2>10
      <4> QED
        BY <1>8, <2>9, <3>1, <4>1
    <3> QED
      BY <1>1, <2>12, <3>2, <3>3, <3>5, <3>6 DEF Submitting
  <2>22. Final'
    <3> SUFFICES ASSUME ~plan.loop, NEW u \in Present
                 PROVE  /\ (TookEof(u) \/ EofIn(u) \/ EofOut(u) =>
                              /\ Over /\ worker # "prepare"
                              /\ \A i \in DOMAIN todo : todo[i][1] # u)'
                        /\ (TookEof(u) => dec[u].in = <<>> /\ dec[u].out = <<>>)'
                        /\ (\A i \in DOMAIN dec[u].out : dec[u].out[i].kind = "eof" =>
                              i = Len(dec[u].out) /\ dec[u].in = <<>>)'
                        /\ (\A i \in DOMAIN dec[u].in :
                              dec[u].in[i].kind = "eof" => i = Len(dec[u].in))'
      BY <1>1, <1>8 DEF Final, Over
    <3>1. \A i \in DOMAIN todo' : i + 1 \in DOMAIN todo /\ todo'[i] = todo[i + 1]
                                   /\ i \in Nat /\ i + 1 # 1
      BY <1>2, <1>7, <1>8
    <3>2. CASE u # t
      <4>2. (\A i \in DOMAIN todo : todo[i][1] # u) => \A i \in DOMAIN todo' : todo'[i][1] # u
        BY <3>1
      <4>3. dec'[u] = dec[u]
        BY <2>7, <3>2
      <4>4. (TookEof(u)' <=> TookEof(u)) /\ (EofIn(u)' <=> EofIn(u)) /\ (EofOut(u)' <=> EofOut(u))
        BY <1>1, <4>3 DEF TookEof, EofIn, EofOut
      <4> QED
        <5>1. /\ TookEof(u) \/ EofIn(u) \/ EofOut(u) =>
                   /\ Over /\ worker # "prepare"
                   /\ \A i \in DOMAIN todo : todo[i][1] # u
              /\ TookEof(u) => dec[u].in = <<>> /\ dec[u].out = <<>>
              /\ \A i \in DOMAIN dec[u].out : dec[u].out[i].kind = "eof" =>
                   i = Len(dec[u].out) /\ dec[u].in = <<>>
              /\ \A i \in DOMAIN dec[u].in :
                   dec[u].in[i].kind = "eof" => i = Len(dec[u].in)
          BY DEF Final
        <5>2. (Over' <=> Over) /\ worker' = worker
          BY <1>1, <1>8 DEF Over
        <5> QED
          BY <4>2, <4>3, <4>4, <5>1, <5>2
    <3>3. CASE u = t
      <4>1. ~TookEof(t) /\ ~EofIn(t) /\ ~EofOut(t)
        BY <1>2, <1>4 DEF Final
      <4>2. ~TookEof(t)' /\ ~EofOut(t)'
        BY <1>1, <2>7, <4>1 DEF TookEof, EofOut
      <4>3. \A i \in 1 .. n : dec[t].in[i].kind # "eof"
        BY <2>1, <4>1 DEF EofIn
      <4>4. \A i \in 1 .. n + 1 : dec'[t].in[i].kind = "eof" => i = n + 1 /\ item.kind = "eof"
        <5>1. \A i \in 1 .. n : dec'[t].in[i].kind # "eof"
          BY <2>8, <4>3
        <5>2. \A i \in 1 .. n + 1 : i \in 1 .. n \/ i = n + 1
          BY <2>1
        <5>3. dec'[t].in[n + 1] = item
          BY <2>8
        <5> QED
          BY <5>1, <5>2, <5>3
      <4>5. item.kind = "eof" => Over' /\ worker' # "prepare"
        BY <1>1, <1>8, <2>9 DEF Final, Over, Alive
      <4>6. item.kind = "eof" => \A i \in DOMAIN todo' : todo'[i][1] # t
        BY <2>10, <3>1
      <4> QED
        BY <2>8, <3>3, <4>2, <4>4, <4>5, <4>6 DEF EofIn, EofOut
    <3> QED
      BY <3>2, <3>3
  <2>23. Told'
    BY <1>1, <1>8 DEF Told
  <2> QED
    BY <2>14, <2>15, <2>16, <2>17, <2>18, <2>19, <2>20, <2>21, <2>22, <2>23
<1>9. CASE /\ ~(dec[t].pc = "run" /\ ~dec[t].stopped)
           /\ worker' = IF failure \/ dec[t].pc \in {"fail", "release"} THEN "catch" ELSE "top"
           /\ todo' = <<>> /\ hand' = <<>> /\ UNCHANGED dec
  <2>1. worker' = "top" => stopping \/ failure
    BY <1>1, <1>5, <1>9 DEF Alive, Decoders
  <2>2. AllSame
    BY <1>9, Untouched
  <2>3. worker' \in {"catch", "top"}
    BY <1>9
  <2>4. Flags'
    BY <1>1, <2>3 DEF Flags, Looping
  <2>5. Lists'
    BY <1>1, <1>9, EmptySeq DEF Lists
  <2>6. Filled'
    BY <2>2, FilledFrame
  <2>7. Alive'
    BY <1>1, <1>9, <2>3 DEF Alive, Looping
  <2>8. Numbered'
    BY <1>1, <1>9, <2>3 DEF Numbered, Open
  <2>9. Apart'
    BY <2>2, ApartFrame
  <2>10. Settled'
    BY <1>1, <2>1, <2>3 DEF Settled, Looping
  <2>11. Submitting'
    BY <2>3 DEF Submitting
  <2>12. Final'
    <3>1. /\ worker' # "prepare" /\ (Over => Over')
          /\ worker \in Looping \cup {"submit"}
      BY <1>1, <2>3 DEF Over
    <3> QED
      BY <1>1, <1>6, <1>9, <2>2, <3>1, FinalFrame
  <2>13. Told'
    BY <2>3 DEF Told
  <2> QED
    BY <2>4, <2>5, <2>6, <2>7, <2>8, <2>9, <2>10, <2>11, <2>12, <2>13
<1> QED
  BY <1>4, <1>8, <1>9 DEF Submit, Go

\* Dispatch has submitted everything.
LEMMA SubmittedKeeps == IInv /\ Submitted => IInv'
<1> SUFFICES ASSUME IInv, Submitted PROVE IInv'
  OBVIOUS
<1> USE SourceAssumption DEF IInv, Submitted, Go, WorkerOnly
<1>1. Steady
  BY Unspent, Spends, Faults
<1>2. AllSame
  BY Untouched
<1>3. Flags'
  BY <1>1 DEF Flags, Steady, ProxyStates, Looping
<1>4. Lists'
  BY DEF Lists, Flags, Hands
<1>5. Filled'
  BY <1>2, FilledFrame
<1>6. Alive'
  BY DEF Alive, Looping, Flags
<1>7. Numbered'
  BY DEF Numbered, Open, Flags, Alive
<1>8. Apart'
  BY <1>2, ApartFrame
<1>9. Settled'
  <2>1. \A u \in Present : ~Awaits(u)
    BY DEF Awaits
  <2>2. ASSUME NEW u \in Present
        PROVE  /\ dec[u].pc = "run" => LastOf(dec[u]) \in {0, dispatched}
               /\ dec[u].eof => hand[1].kind = "eof"
    BY <2>1 DEF Submitting
  <2>3. dispatched # 0 /\ dispatched = hand[1].conn
    BY HandType DEF Numbered, Alive
  <2>4. hand[1].kind = "eof" => (Open => dispatched < conn)
    BY <2>3, HandType DEF Numbered, Alive
  <2>5. UNCHANGED <<dec, dispatched, conn, proxy, saying>> /\ worker' # "prepare"
    OBVIOUS
  <2> QED
    BY <2>2, <2>3, <2>4, <2>5 DEF Settled, Open, LastOf
<1>10. Submitting'
  BY DEF Submitting, Awaits, LastOf, Alive
<1>11. Final'
  <2>1. /\ UNCHANGED <<todo, reader, eofRead, dec, plan, proxy, saying, ended>>
        /\ worker' # "prepare" /\ hand' = <<>>
    OBVIOUS
  <2>2. (finalEof' => ~plan.loop) /\ ~ended
    BY DEF Final
  <2> QED
    BY <2>1, <2>2 DEF Final, Over, TookEof, EofIn, EofOut
<1>12. Told'
  BY DEF Told, Alive
<1> QED
  BY <1>3, <1>4, <1>5, <1>6, <1>7, <1>8, <1>9, <1>10, <1>11, <1>12

\* Draining is published.
LEMMA DrainingKeeps == IInv /\ Draining => IInv'
<1> SUFFICES ASSUME IInv, Draining PROVE IInv'
  OBVIOUS
<1> USE SourceAssumption DEF IInv, Draining, run, Published, Go, WorkerOnly
<1>1. Steady
  BY Unspent, Spends, Faults
<1>2. AllSame
  BY Untouched
<1>3. Flags'
  BY <1>1 DEF Flags, Steady, ProxyStates, Looping
<1>4. Lists'
  BY DEF Lists, Flags, Hands
<1>5. Filled'
  BY <1>2, FilledFrame
<1>6. Alive'
  BY DEF Alive, Looping, Flags
<1>7. Numbered'
  BY DEF Numbered, Open, Flags, Alive
<1>8. Apart'
  BY <1>2, ApartFrame
<1>9. Settled'
  BY DEF Settled, Looping, Open, LastOf, Numbered, Alive, Flags
<1>10. Submitting'
  BY DEF Submitting, Awaits, LastOf, Alive
<1>11. Final'
  <2>1. ~plan.loop /\ Over => Over'
    BY DEF Over, Flags, ProxyStates
  <2>2. /\ worker' = "prepare" => worker = "prepare"
        /\ worker' \in Looping \cup {"submit"} => worker \in Looping \cup {"submit"}
    BY DEF Looping
  <2> QED
    BY <1>1, <1>2, <2>1, <2>2, FinalFrame DEF Flags
<1>12. Told'
  BY DEF Told, Alive
<1> QED
  BY <1>3, <1>4, <1>5, <1>6, <1>7, <1>8, <1>9, <1>10, <1>11, <1>12

\* The handler of Run.
LEMMA CatchKeeps == IInv /\ Catch => IInv'
<1> SUFFICES ASSUME IInv, Catch PROVE IInv'
  OBVIOUS
<1> USE SourceAssumption DEF IInv, Catch, input, Go
<1>1. Steady
  BY Unspent, Spends, Faults
<1>2. AllSame
  BY Untouched
<1>3. Flags'
  <2>1. /\ UNCHANGED <<stopping, status, session, moved, eofRead, finalEof, dispatched, ended,
                    news, cancelled, proxy, saying, conn, packets, reader, stopper>>
        /\ worker' \in {"release"}
    OBVIOUS
  <2>2. failure' = TRUE /\ progress' = FALSE
    BY DEF Flags
  <2> HIDE DEF Catch
  <2>3. {stopping, failure, session, moved, finalEof, progress, ended, news,
          cancelled}' \subseteq BOOLEAN
    BY <2>1, <2>2 DEF Flags
  <2> QED
    BY <1>1, <2>1, <2>3 DEF Flags, Steady, Looping
<1>4. Lists'
  BY DEF Lists, Flags, Hands
<1>5. Filled'
  BY <1>2, FilledFrame
<1>6. Alive'
  BY DEF Alive, Looping, Flags
<1>7. Numbered'
  BY DEF Numbered, Open, Flags, Alive
<1>8. Apart'
  BY <1>2, ApartFrame
<1>9. Settled'
  BY DEF Settled, Looping, Open, LastOf, Numbered, Alive, Flags
<1>10. Submitting'
  BY DEF Submitting, Awaits, LastOf, Alive
<1>11. Final'
  <2>1. ~plan.loop /\ Over => Over'
    BY DEF Over, Flags, ProxyStates
  <2>2. /\ worker' = "prepare" => worker = "prepare"
        /\ worker' \in Looping \cup {"submit"} => worker \in Looping \cup {"submit"}
    BY DEF Looping
  <2> QED
    BY <1>1, <1>2, <2>1, <2>2, FinalFrame DEF Flags
<1>12. Told'
  BY DEF Told, Alive
<1> QED
  BY <1>3, <1>4, <1>5, <1>6, <1>7, <1>8, <1>9, <1>10, <1>11, <1>12

\* Run stops the decoders and the proxy.
LEMMA StopAllKeeps == IInv /\ StopAll => IInv'
<1> SUFFICES ASSUME IInv, StopAll PROVE IInv'
  OBVIOUS
<1> USE DEF IInv
<1>1. /\ UNCHANGED <<stopping, failure, status, events, session, moved, eofRead, finalEof,
                     batch, progress, hand, todo, dispatched, ended, proxy, saying,
                     conn, packets, news, reader, stopper, plan>>
      /\ cancelled' = TRUE
      /\ worker \in {"release", "cleanup"} /\ worker' \in {"final", "join"}
      /\ dec' = Stopped(dec) \/ dec' = dec
  BY DEF StopAll, StopDecoders, Go, shared, run
<1>3. dec \in [Present -> Decoders]
  BY DEF Filled
<1>4. AllSame /\ \A u \in Present : dec'[u].pc = dec[u].pc
  BY <1>1, <1>3, StoppedShape DEF AllSame, Same
<1>5. Steady
  BY <1>1, Unspent
<1>6. Flags'
  BY <1>1, <1>5 DEF Flags, Steady, Looping
<1>7. Lists'
  BY <1>1 DEF Lists
<1>8. Filled'
  BY <1>4, FilledFrame
<1>9. Alive'
  BY <1>1, <1>4 DEF Alive, Looping
<1>10. Numbered'
  BY <1>1 DEF Numbered, Open
<1>11. Apart'
  BY <1>4, ApartFrame
<1>12. Settled'
  BY <1>1 DEF Settled, Looping
<1>13. Submitting'
  BY <1>1 DEF Submitting
<1>14. Final'
  <2>1. /\ worker' # "prepare" /\ worker' \notin Looping \cup {"submit"}
        /\ Over => Over'
    BY <1>1 DEF Looping, Over
  <2> QED
    BY <1>1, <1>4, <1>5, <2>1, FinalFrame
<1>15. Told'
  BY <1>1 DEF Told
<1> QED
  BY <1>6, <1>7, <1>8, <1>9, <1>10, <1>11, <1>12, <1>13, <1>14, <1>15

\* Run publishes a failure.
LEMMA PublishFailureKeeps == IInv /\ PublishFailure => IInv'
<1> SUFFICES ASSUME IInv, PublishFailure PROVE IInv'
  OBVIOUS
<1> USE SourceAssumption DEF IInv, PublishFailure, run, Go, WorkerOnly
<1>1. Steady
  BY Unspent, Spends, Faults
<1>2. AllSame
  BY Untouched
<1>3. Flags'
  BY <1>1 DEF Flags, Steady, ProxyStates, Looping
<1>4. Lists'
  BY DEF Lists, Flags, Hands
<1>5. Filled'
  BY <1>2, FilledFrame
<1>6. Alive'
  BY DEF Alive, Looping, Flags
<1>7. Numbered'
  BY DEF Numbered, Open, Flags, Alive
<1>8. Apart'
  BY <1>2, ApartFrame
<1>9. Settled'
  BY DEF Settled, Looping, Open, LastOf, Numbered, Alive, Flags
<1>10. Submitting'
  BY DEF Submitting, Awaits, LastOf, Alive
<1>11. Final'
  <2>1. ~plan.loop /\ Over => Over'
    BY DEF Over, Flags, ProxyStates
  <2>2. /\ worker' = "prepare" => worker = "prepare"
        /\ worker' \in Looping \cup {"submit"} => worker \in Looping \cup {"submit"}
    BY DEF Looping
  <2> QED
    BY <1>1, <1>2, <2>1, <2>2, FinalFrame DEF Flags
<1>12. Told'
  BY DEF Told, Alive
<1> QED
  BY <1>3, <1>4, <1>5, <1>6, <1>7, <1>8, <1>9, <1>10, <1>11, <1>12

\* Run joins the decoders.
LEMMA JoinDecodersKeeps == IInv /\ JoinDecoders => IInv'
<1> SUFFICES ASSUME IInv, JoinDecoders PROVE IInv'
  OBVIOUS
<1> USE DEF IInv
<1>1. /\ UNCHANGED <<stopping, failure, status, events, session, moved, eofRead, finalEof,
                     batch, progress, hand, todo, dispatched, ended, proxy, saying,
                     conn, packets, news, cancelled, reader, stopper, plan>>
      /\ worker = "join" /\ worker' = "proxy"
  BY DEF JoinDecoders, WorkerOnly, Go, run
<1>2. /\ dec' \in [Present -> Decoders]
      /\ \A u \in Present : dec'[u] = NoDecoder
  BY NoDecoderType DEF JoinDecoders
<1>3. \A u \in Present :
        /\ dec'[u].in = <<>> /\ dec'[u].out = <<>> /\ dec'[u].pc = "none"
        /\ dec'[u].stopped = FALSE /\ dec'[u].eof = FALSE
  BY <1>2 DEF NoDecoder
<1>4. Flags'
  BY <1>1 DEF Flags
<1>5. Lists'
  BY <1>1 DEF Lists
<1>6. Filled'
  BY <1>2, <1>3, SourceAssumption DEF Filled
<1>7. Alive'
  BY <1>1, <1>3 DEF Alive, Looping
<1>8. Numbered'
  BY <1>1 DEF Numbered, Open
<1>9. Apart'
  BY <1>3 DEF Apart, Separated
<1>10. Settled'
  BY <1>1 DEF Settled, Looping
<1>11. Submitting'
  BY <1>1 DEF Submitting
<1>12. Final'
  <2>1. \A u \in Present : ~EofIn(u)' /\ ~EofOut(u)' /\ (TookEof(u)' => TookEof(u))
    BY <1>1, <1>3 DEF EofIn, EofOut, TookEof
  <2> QED
    BY <1>1, <1>3, <2>1 DEF Final, Over, Looping
<1>13. Told'
  BY <1>1 DEF Told
<1> QED
  BY <1>4, <1>5, <1>6, <1>7, <1>8, <1>9, <1>10, <1>11, <1>12, <1>13

\* Run joins the proxy.
LEMMA JoinProxyKeeps == IInv /\ JoinProxy => IInv'
<1> SUFFICES ASSUME IInv, JoinProxy PROVE IInv'
  OBVIOUS
<1> USE SourceAssumption DEF IInv, JoinProxy, input, Go
<1>1. Steady
  BY Unspent, Spends, Faults
<1>2. AllSame
  BY Untouched
<1>3. Flags'
  BY <1>1 DEF Flags, Steady, ProxyStates, Looping
<1>4. Lists'
  BY DEF Lists, Flags, Hands
<1>5. Filled'
  BY <1>2, FilledFrame
<1>6. Alive'
  BY DEF Alive, Looping, Flags
<1>7. Numbered'
  BY HandType DEF Numbered, Open, Flags, Alive
<1>8. Apart'
  BY <1>2, ApartFrame
<1>9. Settled'
  BY DEF Settled, Looping, Open, LastOf, Numbered, Alive, Flags
<1>10. Submitting'
  BY DEF Submitting, Awaits, LastOf, Alive
<1>11. Final'
  <2>1. ~plan.loop /\ Over => Over'
    BY DEF Over, Flags, ProxyStates
  <2>2. /\ worker' = "prepare" => worker = "prepare"
        /\ worker' \in Looping \cup {"submit"} => worker \in Looping \cup {"submit"}
    BY DEF Looping
  <2> QED
    BY <1>1, <1>2, <2>1, <2>2, FinalFrame DEF Flags
<1>12. Told'
  BY DEF Told, Alive
<1> QED
  BY <1>3, <1>4, <1>5, <1>6, <1>7, <1>8, <1>9, <1>10, <1>11, <1>12

\* Run publishes its last status.
LEMMA PublishLastKeeps == IInv /\ PublishLast => IInv'
<1> SUFFICES ASSUME IInv, PublishLast PROVE IInv'
  OBVIOUS
<1> USE SourceAssumption DEF IInv, PublishLast, run, Go, WorkerOnly, LastStatus
<1>1. Steady
  BY Unspent, Spends, Faults
<1>2. AllSame
  BY Untouched
<1>3. Flags'
  BY <1>1 DEF Flags, Steady, ProxyStates, Looping
<1>4. Lists'
  BY DEF Lists, Flags, Hands
<1>5. Filled'
  BY <1>2, FilledFrame
<1>6. Alive'
  BY DEF Alive, Looping, Flags
<1>7. Numbered'
  BY DEF Numbered, Open, Flags, Alive
<1>8. Apart'
  BY <1>2, ApartFrame
<1>9. Settled'
  BY DEF Settled, Looping, Open, LastOf, Numbered, Alive, Flags
<1>10. Submitting'
  BY DEF Submitting, Awaits, LastOf, Alive
<1>11. Final'
  <2>1. ~plan.loop /\ Over => Over'
    BY DEF Over, Flags, ProxyStates
  <2>2. /\ worker' = "prepare" => worker = "prepare"
        /\ worker' \in Looping \cup {"submit"} => worker \in Looping \cup {"submit"}
    BY DEF Looping
  <2> QED
    BY <1>1, <1>2, <2>1, <2>2, FinalFrame DEF Flags
<1>12. Told'
  BY DEF Told, Alive
<1> QED
  BY <1>3, <1>4, <1>5, <1>6, <1>7, <1>8, <1>9, <1>10, <1>11, <1>12

\* A decoder handles an item.
LEMMA DecodeKeeps == ASSUME NEW t \in Present PROVE IInv /\ Decode(t) => IInv'
<1> SUFFICES ASSUME IInv, Decode(t) PROVE IInv'
  OBVIOUS
<1> USE DEF IInv
<1> DEFINE item == dec[t].in[1]
<1>1. /\ UNCHANGED <<stopping, failure, status, events, session, moved, eofRead, finalEof,
                     batch, progress, hand, todo, dispatched, ended, worker, proxy, saying,
                     conn, packets, news, cancelled, reader, stopper, plan>>
      /\ dec[t].pc = "run" /\ dec[t].in # <<>>
  BY DEF Decode, DecoderOnly, run
<1>2. dec \in [Present -> Decoders] /\ dec[t] \in Decoders
      /\ dec[t].in \in Seq(Items) /\ dec[t].out \in Seq(Items)
  BY DEF Filled, Decoders
<1>3. item \in Items /\ Head(dec[t].in) = item
  BY <1>1, <1>2
<1>4. PICK o \in Seq(Items), a \in Nat :
        /\ dec' = [dec EXCEPT ![t] = [dec[t] EXCEPT !.in = Tail(dec[t].in), !.out = o, !.at = a]]
        /\ \/ item.kind = "reset" /\ a = 0 /\ o = dec[t].out
           \/ /\ item.kind # "reset" /\ Len(dec[t].out) < Capacity
              /\ a = item.conn /\ o = Append(dec[t].out, item)
  <2>1. CASE item.kind = "reset"
    <3>1. dec' = [dec EXCEPT ![t].in = Tail(@), ![t].at = 0]
      BY <1>3, <2>1 DEF Decode
    <3>2. dec' = [dec EXCEPT ![t] = [dec[t] EXCEPT !.in = Tail(dec[t].in), !.out = dec[t].out,
                                                    !.at = 0]]
      BY <1>2, <3>1 DEF Decoders
    <3> QED
      BY <1>2, <2>1, <3>2
  <2>2. CASE item.kind # "reset"
    <3>1. /\ dec' = [dec EXCEPT ![t].in = Tail(@), ![t].out = Append(@, item), ![t].at = item.conn]
          /\ Len(dec[t].out) < Capacity
      BY <1>3, <2>2 DEF Decode
    <3>2. dec' = [dec EXCEPT ![t] = [dec[t] EXCEPT !.in = Tail(dec[t].in),
                                                    !.out = Append(dec[t].out, item),
                                                    !.at = item.conn]]
      BY <1>2, <3>1 DEF Decoders
    <3>3. Append(dec[t].out, item) \in Seq(Items) /\ item.conn \in Nat
      BY <1>2, <1>3 DEF Items
    <3> QED
      BY <2>2, <3>1, <3>2, <3>3
  <2> QED
    BY <2>1, <2>2
<1>5. /\ dec' \in [Present -> Decoders]
      /\ \A u \in Present \ {t} : dec'[u] = dec[u]
      /\ dec'[t].in = Tail(dec[t].in) /\ dec'[t].out = o /\ dec'[t].at = a
      /\ dec'[t].stopped = dec[t].stopped /\ dec'[t].eof = dec[t].eof /\ dec'[t].pc = "run"
  <2>1. Tail(dec[t].in) \in Seq(Items)
    BY <1>1, <1>2
  <2>2. dec'[t] = [dec[t] EXCEPT !.in = Tail(dec[t].in), !.out = o, !.at = a]
    BY <1>2, <1>4
  <2>3. dec'[t] \in Decoders
    BY <1>2, <2>1, <2>2 DEF Decoders
  <2> QED
    BY <1>1, <1>2, <1>4, <2>2, <2>3 DEF Decoders
<1>6. /\ Len(dec[t].in) \in Nat \ {0} /\ Len(dec'[t].in) = Len(dec[t].in) - 1
      /\ \A i \in 1 .. Len(dec'[t].in) : dec'[t].in[i] = dec[t].in[i + 1]
      /\ DOMAIN dec'[t].in = 1 .. Len(dec'[t].in) /\ DOMAIN dec[t].in = 1 .. Len(dec[t].in)
      /\ dec'[t].in = <<>> <=> Len(dec[t].in) = 1
  <2> DEFINE s == dec[t].in
             v == Tail(dec[t].in)
  <2>1. s \in Seq(Items) /\ s # <<>> /\ dec'[t].in = v
    BY <1>1, <1>2, <1>5
  <2>2. /\ Len(s) \in Nat \ {0} /\ DOMAIN s = 1 .. Len(s)
    BY <2>1, EmptySeq, LenProperties
  <2>3. /\ v \in Seq(Items) /\ Len(v) = Len(s) - 1
        /\ \A i \in 1 .. Len(v) : v[i] = s[i + 1]
    BY <2>1, HeadTailProperties
  <2>4. DOMAIN v = 1 .. Len(v)
    BY <2>3, LenProperties
  <2>5. v = <<>> <=> Len(v) = 0
    BY <2>3, EmptySeq
  <2> HIDE DEF v
  <2> QED
    BY <2>1, <2>2, <2>3, <2>4, <2>5
<1> HIDE DEF item
<1>7. Flags'
  BY <1>1 DEF Flags
<1>8. Lists'
  BY <1>1 DEF Lists
<1>9. Filled'
  <2>1. Len(o) <= Capacity
    BY <1>2, <1>4, SourceAssumption DEF Filled
  <2>2. Len(dec'[t].in) <= Capacity
    BY <1>6, SourceAssumption DEF Filled
  <2> QED
    BY <1>5, <2>1, <2>2 DEF Filled
<1>10. Alive'
  BY <1>1, <1>5 DEF Alive
<1>11. Numbered'
  BY <1>1 DEF Numbered, Open
<1>12. LastOf(dec[t])' = LastOf(dec[t])
  <2>1. CASE Len(dec[t].in) = 1
    BY <2>1, <1>1, <1>4, <1>5, <1>6 DEF LastOf, Tag, item
  <2>2. CASE Len(dec[t].in) # 1
    <3>1. dec'[t].in # <<>> /\ Len(dec'[t].in) \in 1 .. Len(dec'[t].in)
      BY <2>2, <1>6
    <3>2. dec'[t].in[Len(dec'[t].in)] = dec[t].in[Len(dec[t].in)]
      BY <1>6, <3>1
    <3> QED
      BY <1>1, <3>1, <3>2 DEF LastOf, Tag
  <2> QED
    BY <2>1, <2>2
<1>13. Apart'
  <2>1. ASSUME NEW i \in 1 .. Len(dec'[t].in), dec'[t].in[i].kind # "reset"
        PROVE  Before(dec[t], i)' \in {0, dec'[t].in[i].conn}
    <3>1. i + 1 \in 1 .. Len(dec[t].in) /\ dec'[t].in[i] = dec[t].in[i + 1]
      BY <1>6
    <3>2. Before(dec[t], i + 1) \in {0, dec[t].in[i + 1].conn}
      BY <2>1, <3>1, <1>6 DEF Apart, Separated
    <3>3. Before(dec[t], i)' = Before(dec[t], i + 1)
      <4>1. CASE i = 1
        BY <4>1, <1>4, <1>5 DEF Before, item
      <4>2. CASE i # 1
        <5>1. i - 1 \in 1 .. Len(dec'[t].in) /\ dec'[t].in[i - 1] = dec[t].in[i]
          <6>1. i - 1 \in 1 .. Len(dec'[t].in) /\ (i - 1) + 1 = i
            BY <4>2, <1>6
          <6> QED
            BY <1>6, <6>1
        <5> QED
          BY <4>2, <5>1 DEF Before
      <4> QED
        BY <4>1, <4>2
    <3> QED
      BY <3>1, <3>2, <3>3
  <2>2. Separated(dec[t])'
    BY <1>6, <2>1 DEF Separated
  <2>3. \A u \in Present \ {t} : Separated(dec[u])'
    BY <1>5 DEF Apart, Separated, Before
  <2> QED
    BY <2>2, <2>3 DEF Apart
<1>14. \A u \in Present : LastOf(dec[u])' = LastOf(dec[u]) /\ dec'[u].eof = dec[u].eof
                          /\ dec'[u].pc = dec[u].pc
  BY <1>1, <1>5, <1>12 DEF LastOf
<1>15. Settled'
  BY <1>1, <1>14 DEF Settled, Open
<1>16. Submitting'
  BY <1>1, <1>14 DEF Submitting, Awaits
<1>17. Final'
  <2> SUFFICES ASSUME ~plan.loop, NEW u \in Present
               PROVE  /\ (TookEof(u) \/ EofIn(u) \/ EofOut(u) =>
                            /\ Over /\ worker # "prepare"
                            /\ \A i \in DOMAIN todo : todo[i][1] # u)'
                      /\ (TookEof(u) => dec[u].in = <<>> /\ dec[u].out = <<>>)'
                      /\ (\A i \in DOMAIN dec[u].out : dec[u].out[i].kind = "eof" =>
                            i = Len(dec[u].out) /\ dec[u].in = <<>>)'
                      /\ (\A i \in DOMAIN dec[u].in :
                            dec[u].in[i].kind = "eof" => i = Len(dec[u].in))'
    BY <1>1 DEF Final, Over
  <2>1. CASE u # t
    BY <1>1, <1>5, <2>1 DEF Final, Over, TookEof, EofIn, EofOut
  <2>2. CASE u = t
    <3>1. ~TookEof(t) /\ ~TookEof(t)'
      BY <1>1 DEF Final, TookEof
    <3>2. \A i \in 1 .. Len(dec[t].in) : dec[t].in[i].kind = "eof" => i = Len(dec[t].in)
      BY <1>6 DEF Final
    <3>3. \A i \in DOMAIN dec[t].out : dec[t].out[i].kind # "eof"
      BY <1>1 DEF Final
    <3>4. \A i \in 1 .. Len(dec'[t].in) : dec'[t].in[i].kind = "eof" => i = Len(dec'[t].in)
      <4>1. ASSUME NEW i \in 1 .. Len(dec'[t].in), dec'[t].in[i].kind = "eof"
            PROVE  i = Len(dec'[t].in)
        <5>1. i + 1 \in 1 .. Len(dec[t].in) /\ dec[t].in[i + 1].kind = "eof"
          <6>1. dec'[t].in[i] = dec[t].in[i + 1]
            BY <1>6
          <6>2. i + 1 \in 1 .. Len(dec[t].in)
            BY <1>6
          <6> QED
            BY <4>1, <6>1, <6>2
        <5>2. i + 1 = Len(dec[t].in)
          BY <3>2, <5>1
        <5> QED
          BY <1>6, <5>2
      <4> QED
        BY <4>1
    <3>5. item.kind = "eof" => Len(dec[t].in) = 1
      BY <1>6, <3>2 DEF item
    <3>6. \A i \in DOMAIN o : o[i].kind = "eof" => i = Len(o) /\ item.kind = "eof"
      <4>1. CASE o = dec[t].out
        BY <3>3, <4>1
      <4>2. CASE o = Append(dec[t].out, item)
        <5>1. /\ Len(o) = Len(dec[t].out) + 1 /\ o[Len(dec[t].out) + 1] = item
              /\ \A i \in 1 .. Len(dec[t].out) : o[i] = dec[t].out[i]
          BY <1>2, <1>3, <4>2, AppendProperties
        <5>2. /\ DOMAIN o = 1 .. Len(dec[t].out) + 1 /\ Len(dec[t].out) \in Nat
              /\ DOMAIN dec[t].out = 1 .. Len(dec[t].out)
          BY <1>2, <5>1, LenProperties
        <5>3. ASSUME NEW i \in DOMAIN o, o[i].kind = "eof"
              PROVE  i = Len(dec[t].out) + 1
          <6>1. i \in 1 .. Len(dec[t].out) \/ i = Len(dec[t].out) + 1
            BY <5>2
          <6>2. i \in 1 .. Len(dec[t].out) => o[i] = dec[t].out[i] /\ dec[t].out[i].kind # "eof"
            BY <3>3, <5>1, <5>2
          <6> QED
            BY <5>3, <6>1, <6>2
        <5> QED
          BY <5>1, <5>3
      <4> QED
        BY <1>4, <4>1, <4>2
    <3>7. EofIn(t)' \/ EofOut(t)' => EofIn(t)
      <4>1. EofIn(t)' => EofIn(t)
        <5>1. ASSUME NEW i \in 1 .. Len(dec'[t].in), dec'[t].in[i].kind = "eof"
              PROVE  EofIn(t)
          <6>1. i + 1 \in 1 .. Len(dec[t].in) /\ dec[t].in[i + 1].kind = "eof"
            <7>1. dec'[t].in[i] = dec[t].in[i + 1]
              BY <1>6
            <7>2. i + 1 \in 1 .. Len(dec[t].in)
              BY <1>6
            <7> QED
              BY <5>1, <7>1, <7>2
          <6> QED
            BY <1>6, <6>1 DEF EofIn
        <5> QED
          BY <1>6, <5>1 DEF EofIn
      <4>2. EofOut(t)' => EofIn(t)
        BY <1>5, <1>6, <3>6 DEF EofIn, EofOut, item
      <4> QED
        BY <4>1, <4>2
    <3> QED
      BY <1>1, <1>5, <1>6, <2>2, <3>1, <3>4, <3>5, <3>6, <3>7 DEF Final, Over
  <2> QED
    BY <2>1, <2>2
<1>18. Told'
  BY <1>1 DEF Told
<1> QED
  BY <1>7, <1>8, <1>9, <1>10, <1>11, <1>13, <1>15, <1>16, <1>17, <1>18

\* A failed decoder reports, then stops the session.
LEMMA OnErrorKeeps == ASSUME NEW t \in Present PROVE IInv /\ OnError(t) => IInv'
<1> SUFFICES ASSUME IInv, OnError(t) PROVE IInv'
  OBVIOUS
<1> USE DEF IInv
<1>1. /\ UNCHANGED <<stopping, status, events, session, moved, eofRead, finalEof,
                     batch, progress, hand, todo, dispatched, ended, proxy, saying,
                     conn, packets, news, reader, stopper, plan>>
      /\ \/ worker' = worker
         \/ worker = "asleep" /\ worker' = "wait"
      /\ \/ dec[t].pc = "fail" /\ failure' = TRUE /\ UNCHANGED cancelled
         \/ dec[t].pc = "release" /\ cancelled' = TRUE /\ UNCHANGED failure
  BY DEF OnError, DecoderOnly, Awake, run
<1>2. failure'
  BY <1>1 DEF Alive
<1>3. PICK d \in [Present -> Decoders], p \in {"release", "exited"} :
        /\ dec' = [d EXCEPT ![t].pc = p]
        /\ d = dec \/ d = Stopped(dec)
        /\ dec[t].pc = (IF p = "release" THEN "fail" ELSE "release")
  <2>1. dec \in [Present -> Decoders] /\ Stopped(dec) \in [Present -> Decoders]
    BY StoppedShape DEF Filled
  <2> QED
    BY <2>1 DEF OnError
<1>4. \A u \in Present :
        /\ d[u].in = dec[u].in /\ d[u].out = dec[u].out
        /\ d[u].eof = dec[u].eof /\ d[u].at = dec[u].at /\ d[u].pc = dec[u].pc
  BY <1>3, StoppedShape DEF Filled
<1>5. /\ dec' \in [Present -> Decoders]
      /\ \A u \in Present \ {t} : dec'[u] = d[u]
      /\ dec'[t].in = d[t].in /\ dec'[t].out = d[t].out
      /\ dec'[t].eof = d[t].eof /\ dec'[t].at = d[t].at /\ dec'[t].pc = p
  <2>1. dec'[t] = [d[t] EXCEPT !.pc = p] /\ d[t] \in Decoders
    BY <1>3
  <2>2. dec'[t] \in Decoders
    BY <2>1 DEF Decoders
  <2> QED
    BY <1>3, <2>1, <2>2 DEF Decoders
<1>6. AllSame /\ \A u \in Present : dec'[u].pc = dec[u].pc \/ (u = t /\ dec'[u].pc = p)
  BY <1>4, <1>5 DEF AllSame, Same
<1>7. Steady
  BY <1>1, Unspent
<1>8. Flags'
  <2>1. {stopping, failure, session, moved, finalEof, progress, ended, news,
          cancelled}' \subseteq BOOLEAN
    BY <1>1 DEF Flags
  <2>2. worker' = worker \/ worker' \in Looping
    BY <1>1 DEF Looping
  <2> QED
    BY <1>1, <1>7, <2>1, <2>2 DEF Flags, Steady
<1>9. Lists'
  BY <1>1 DEF Lists
<1>10. Filled'
  BY <1>6, FilledFrame
<1>11. Alive'
  BY <1>1, <1>2, <1>3, <1>6 DEF Alive, Looping
<1>12. Numbered'
  BY <1>1 DEF Numbered, Open
<1>13. Apart'
  BY <1>6, ApartFrame
<1>14. Settled'
  BY <1>2 DEF Settled
<1>15. Submitting'
  BY <1>1, <1>6 DEF Submitting, Awaits, LastOf, AllSame, Same
<1>16. Final'
  <2>1. /\ worker' = "prepare" => worker = "prepare"
        /\ worker' \in Looping \cup {"submit"} => worker \in Looping \cup {"submit"}
        /\ Over => Over'
    BY <1>1 DEF Looping, Over
  <2> QED
    BY <1>1, <1>6, <1>7, <2>1, FinalFrame
<1>17. Told'
  BY <1>1, <1>3 DEF Told, Alive
<1> QED
  BY <1>8, <1>9, <1>10, <1>11, <1>12, <1>13, <1>14, <1>15, <1>16, <1>17

\* A stopped decoder exits.
LEMMA DecoderExitsKeeps == ASSUME NEW t \in Present PROVE IInv /\ DecoderExits(t) => IInv'
<1> SUFFICES ASSUME IInv, DecoderExits(t) PROVE IInv'
  OBVIOUS
<1> USE DEF IInv
<1>1. /\ UNCHANGED <<stopping, failure, status, events, session, moved, eofRead, finalEof,
                     batch, progress, hand, todo, dispatched, ended, worker, proxy, saying,
                     conn, packets, news, cancelled, reader, stopper, plan>>
      /\ dec[t].pc = "run" /\ dec[t].stopped
      /\ dec' = [dec EXCEPT ![t].pc = "exited"]
  BY DEF DecoderExits, DecoderOnly, run
<1>2. /\ dec' \in [Present -> Decoders]
      /\ \A u \in Present \ {t} : dec'[u] = dec[u]
      /\ dec'[t].in = dec[t].in /\ dec'[t].out = dec[t].out
      /\ dec'[t].eof = dec[t].eof /\ dec'[t].at = dec[t].at /\ dec'[t].pc = "exited"
  <2>1. dec'[t] = [dec[t] EXCEPT !.pc = "exited"] /\ dec[t] \in Decoders
    BY <1>1 DEF Filled
  <2>2. dec'[t] \in Decoders
    BY <2>1 DEF Decoders
  <2> QED
    BY <1>1, <2>1, <2>2 DEF Decoders, Filled
<1>3. AllSame
  BY <1>2 DEF AllSame, Same
<1>4. Steady
  BY <1>1, Unspent
<1>5. Flags'
  BY <1>1, <1>4 DEF Flags, Steady
<1>6. Lists'
  BY <1>1 DEF Lists
<1>7. Filled'
  BY <1>3, FilledFrame
<1>8. Alive'
  BY <1>1, <1>2 DEF Alive
<1>9. Numbered'
  BY <1>1 DEF Numbered, Open
<1>10. Apart'
  BY <1>3, ApartFrame
<1>11. Settled'
  BY <1>1, <1>3 DEF Settled, Open, LastOf, AllSame, Same
<1>12. Submitting'
  BY <1>1, <1>3 DEF Submitting, Awaits, LastOf, AllSame, Same
<1>13. Final'
  BY <1>1, <1>3, <1>4, FinalFrame DEF Over
<1>14. Told'
  BY <1>1 DEF Told
<1> QED
  BY <1>5, <1>6, <1>7, <1>8, <1>9, <1>10, <1>11, <1>12, <1>13, <1>14

\* A decoder fails.
LEMMA DecoderFailsKeeps == ASSUME NEW t \in Present PROVE IInv /\ DecoderFails(t) => IInv'
<1> SUFFICES ASSUME IInv, DecoderFails(t) PROVE IInv'
  OBVIOUS
<1> USE DEF IInv
<1>1. /\ UNCHANGED <<stopping, failure, status, events, session, moved, eofRead, finalEof,
                     batch, progress, hand, todo, dispatched, ended, worker, proxy, saying,
                     conn, packets, news, cancelled, reader, stopper>>
      /\ dec[t].pc = "run" /\ ~dec[t].stopped
      /\ dec' = [dec EXCEPT ![t].pc = "fail", ![t].in = <<>>]
  BY DEF DecoderFails, DecoderOnly, run
<1>2. /\ dec' \in [Present -> Decoders]
      /\ \A u \in Present \ {t} : dec'[u] = dec[u]
      /\ dec'[t].in = <<>> /\ dec'[t].out = dec[t].out /\ dec'[t].stopped = dec[t].stopped
      /\ dec'[t].eof = dec[t].eof /\ dec'[t].pc = "fail"
  <2>1. dec'[t] = [dec[t] EXCEPT !.pc = "fail", !.in = <<>>] /\ dec[t] \in Decoders
    BY <1>1 DEF Filled
  <2>2. dec'[t] \in Decoders
    <3>1. <<>> \in Seq(Items)
      BY EmptySeq
    <3> QED
      BY <2>1, <3>1 DEF Decoders
  <2> QED
    BY <1>1, <2>1, <2>2 DEF Decoders, Filled
<1>4. Steady
  BY Faults DEF DecoderFails
<1>5. Flags'
  BY <1>1, <1>4 DEF Flags, Steady
<1>6. Lists'
  BY <1>1 DEF Lists
<1>7. Filled'
  BY <1>2, SourceAssumption DEF Filled
<1>8. Alive'
  BY <1>1, <1>2 DEF Alive
<1>9. Numbered'
  BY <1>1 DEF Numbered, Open
<1>10. Apart'
  BY <1>2 DEF Apart, Separated, Before
<1>11. Settled'
  BY <1>1, <1>2 DEF Settled, Open, LastOf
<1>12. Submitting'
  BY <1>1, <1>2 DEF Submitting, Awaits, LastOf
<1>13. Final'
  <2>1. \A u \in Present :
          /\ EofIn(u)' => EofIn(u)
          /\ EofOut(u)' <=> EofOut(u)
          /\ TookEof(u)' <=> TookEof(u)
    BY <1>1, <1>2 DEF EofIn, EofOut, TookEof
  <2>2. ASSUME NEW u \in Present, ~plan.loop
        PROVE  /\ (TookEof(u) => dec[u].in = <<>> /\ dec[u].out = <<>>)'
               /\ (\A i \in DOMAIN dec[u].out : dec[u].out[i].kind = "eof" =>
                     i = Len(dec[u].out) /\ dec[u].in = <<>>)'
               /\ (\A i \in DOMAIN dec[u].in :
                     dec[u].in[i].kind = "eof" => i = Len(dec[u].in))'
    BY <1>2, <2>1, <2>2 DEF Final
  <2> QED
    BY <1>1, <1>4, <2>1, <2>2 DEF Final, Steady, Over
<1>14. Told'
  BY <1>1 DEF Told
<1> QED
  BY <1>5, <1>6, <1>7, <1>8, <1>9, <1>10, <1>11, <1>12, <1>13, <1>14

\* A consumer begins a read.
LEMMA ReadKeeps == ASSUME NEW t \in Present PROVE IInv /\ Read(t) => IInv'
<1> SUFFICES ASSUME IInv, Read(t) PROVE IInv'
  OBVIOUS
<1> USE SourceAssumption DEF IInv, Read, ReaderOnly, run, input
<1>1. Steady
  BY Unspent, Spends, Faults
<1>2. AllSame
  BY Untouched
<1>3. Flags'
  BY <1>1 DEF Flags, Steady, ProxyStates, Looping
<1>4. Lists'
  BY DEF Lists, Flags, Hands
<1>5. Filled'
  BY <1>2, FilledFrame
<1>6. Alive'
  BY DEF Alive, Looping, Flags
<1>7. Numbered'
  BY DEF Numbered, Open, Flags, Alive
<1>8. Apart'
  BY <1>2, ApartFrame
<1>9. Settled'
  BY DEF Settled, Looping, Open, LastOf, Numbered, Alive, Flags
<1>10. Submitting'
  BY DEF Submitting, Awaits, LastOf, Alive
<1>11. Final'
  <2>1. ~plan.loop /\ Over => Over'
    BY DEF Over, Flags, ProxyStates
  <2>2. /\ worker' = "prepare" => worker = "prepare"
        /\ worker' \in Looping \cup {"submit"} => worker \in Looping \cup {"submit"}
    BY DEF Looping
  <2> QED
    BY <1>1, <1>2, <2>1, <2>2, FinalFrame DEF Flags
<1>12. Told'
  BY DEF Told, Alive
<1> QED
  BY <1>3, <1>4, <1>5, <1>6, <1>7, <1>8, <1>9, <1>10, <1>11, <1>12

\* A consumer reads a decoder.
LEMMA ReadDecoderKeeps == ASSUME NEW t \in Present PROVE IInv /\ ReadDecoder(t) => IInv'
<1> SUFFICES ASSUME IInv, ReadDecoder(t) PROVE IInv'
  OBVIOUS
<1> USE DEF IInv
<1>1. /\ UNCHANGED <<stopping, failure, status, events, session, moved, eofRead, finalEof,
                     batch, progress, hand, todo, dispatched, ended, worker, proxy, saying,
                     conn, packets, news, cancelled, stopper, plan>>
      /\ reader[t] = "read"
  BY DEF ReadDecoder, ReaderOnly, run, input
<1>2. dec \in [Present -> Decoders] /\ dec[t] \in Decoders
      /\ dec[t].in \in Seq(Items) /\ dec[t].out \in Seq(Items)
  BY DEF Filled, Decoders
<1>3. PICK r \in {"idle", "eof"}, o \in Seq(Items) :
        /\ reader' = [reader EXCEPT ![t] = r]
        /\ dec' = [dec EXCEPT ![t] = [dec[t] EXCEPT !.out = o]]
        /\ \/ o = dec[t].out /\ r = "idle"
           \/ /\ dec[t].out # <<>> /\ o = Tail(dec[t].out)
              /\ r = "eof" <=> dec[t].out[1].kind = "eof"
  <2>1. CASE dec[t].out # <<>> /\ dec' = [dec EXCEPT ![t].out = Tail(@)]
             /\ reader' = [reader EXCEPT ![t] =
                             IF Head(dec[t].out).kind = "eof" THEN "eof" ELSE "idle"]
    <3>1. Tail(dec[t].out) \in Seq(Items) /\ Head(dec[t].out) = dec[t].out[1]
      BY <1>2, <2>1
    <3>2. dec' = [dec EXCEPT ![t] = [dec[t] EXCEPT !.out = Tail(dec[t].out)]]
      BY <1>2, <2>1
    <3> QED
      BY <2>1, <3>1, <3>2
  <2>2. CASE reader' = [reader EXCEPT ![t] = "idle"] /\ UNCHANGED dec
    <3>1. dec = [dec EXCEPT ![t] = [dec[t] EXCEPT !.out = dec[t].out]]
      BY <1>2 DEF Decoders
    <3> QED
      BY <1>2, <2>2, <3>1
  <2> QED
    BY <2>1, <2>2 DEF ReadDecoder
<1>4. /\ dec' \in [Present -> Decoders]
      /\ \A u \in Present \ {t} : dec'[u] = dec[u]
      /\ dec'[t].in = dec[t].in /\ dec'[t].out = o /\ dec'[t].at = dec[t].at
      /\ dec'[t].stopped = dec[t].stopped /\ dec'[t].eof = dec[t].eof
      /\ dec'[t].pc = dec[t].pc
  <2>1. dec'[t] = [dec[t] EXCEPT !.out = o]
    BY <1>2, <1>3
  <2>2. dec'[t] \in Decoders
    BY <1>2, <2>1 DEF Decoders
  <2> QED
    BY <1>2, <1>3, <2>1, <2>2 DEF Decoders
<1>5. /\ reader' \in [Present -> {"idle", "read", "eof"}] /\ reader'[t] = r
      /\ \A u \in Present \ {t} : reader'[u] = reader[u]
  BY <1>3 DEF Flags
<1>6. Flags'
  BY <1>1, <1>5 DEF Flags
<1>7. Lists'
  BY <1>1 DEF Lists
<1>8. \/ o = dec[t].out
      \/ /\ dec[t].out # <<>> /\ Len(o) = Len(dec[t].out) - 1
         /\ DOMAIN o = 1 .. Len(o) /\ DOMAIN dec[t].out = 1 .. Len(dec[t].out)
         /\ \A i \in 1 .. Len(o) : o[i] = dec[t].out[i + 1]
         /\ Len(dec[t].out) = 1 => o = <<>>
         /\ Len(dec[t].out) \in Nat \ {0}
  BY <1>2, <1>3
<1>9. Filled'
  BY <1>4, <1>8, SourceAssumption DEF Filled
<1>10. Alive'
  BY <1>1, <1>4 DEF Alive
<1>11. Numbered'
  BY <1>1 DEF Numbered, Open
<1>12. Apart'
  BY <1>4 DEF Apart, Separated, Before
<1>13. \A u \in Present : LastOf(dec[u])' = LastOf(dec[u]) /\ dec'[u].eof = dec[u].eof
                          /\ dec'[u].pc = dec[u].pc
  BY <1>4 DEF LastOf
<1>14. Settled'
  BY <1>1, <1>13 DEF Settled, Open
<1>15. Submitting'
  BY <1>1, <1>13 DEF Submitting, Awaits
<1>16. Final'
  <2> SUFFICES ASSUME ~plan.loop, NEW u \in Present
               PROVE  /\ (TookEof(u) \/ EofIn(u) \/ EofOut(u) =>
                            /\ Over /\ worker # "prepare"
                            /\ \A i \in DOMAIN todo : todo[i][1] # u)'
                      /\ (TookEof(u) => dec[u].in = <<>> /\ dec[u].out = <<>>)'
                      /\ (\A i \in DOMAIN dec[u].out : dec[u].out[i].kind = "eof" =>
                            i = Len(dec[u].out) /\ dec[u].in = <<>>)'
                      /\ (\A i \in DOMAIN dec[u].in :
                            dec[u].in[i].kind = "eof" => i = Len(dec[u].in))'
    BY <1>1 DEF Final, Over
  <2>1. CASE u # t
    BY <1>1, <1>4, <1>5, <2>1 DEF Final, Over, TookEof, EofIn, EofOut
  <2>2. CASE u = t
    <3>1. \A i \in DOMAIN dec[t].out : dec[t].out[i].kind = "eof" =>
            i = Len(dec[t].out) /\ dec[t].in = <<>>
      BY DEF Final
    <3>2. r = "eof" => EofOut(t) /\ dec[t].in = <<>> /\ o = <<>>
      BY <1>2, <1>3, <1>8, <3>1 DEF EofOut
    <3>3. EofOut(t)' => EofOut(t)
      <4>1. CASE o = dec[t].out
        BY <1>4, <4>1 DEF EofOut
      <4>2. CASE o # dec[t].out
        <5>1. ASSUME NEW i \in 1 .. Len(o), o[i].kind = "eof"
              PROVE  EofOut(t)
          <6>1. i + 1 \in DOMAIN dec[t].out /\ dec[t].out[i + 1].kind = "eof"
            BY <1>8, <4>2, <5>1
          <6> QED
            BY <6>1 DEF EofOut
        <5> QED
          BY <1>4, <1>8, <4>2, <5>1 DEF EofOut
      <4> QED
        BY <4>1, <4>2
    <3>4. EofIn(t)' <=> EofIn(t)
      BY <1>4 DEF EofIn
    <3>5. TookEof(t)' => TookEof(t) \/ r = "eof"
      BY <1>1, <1>5 DEF TookEof
    <3>6. TookEof(t)' => dec'[t].in = <<>> /\ dec'[t].out = <<>>
      BY <1>3, <1>4, <3>2, <3>5 DEF Final
    <3>7. \A i \in DOMAIN o : o[i].kind = "eof" => i = Len(o) /\ dec[t].in = <<>>
      BY <1>8, <3>1
    <3>8. TookEof(t)' \/ EofIn(t)' \/ EofOut(t)' =>
            Over /\ worker # "prepare" /\ \A i \in DOMAIN todo : todo[i][1] # t
      BY <3>2, <3>3, <3>4, <3>5 DEF Final
    <3> QED
      BY <1>1, <1>4, <2>2, <3>6, <3>7, <3>8 DEF Final, Over
  <2> QED
    BY <2>1, <2>2
<1>17. Told'
  BY <1>1 DEF Told
<1> QED
  BY <1>6, <1>7, <1>9, <1>10, <1>11, <1>12, <1>14, <1>15, <1>16, <1>17

\* A consumer has read the EOF of its track.
LEMMA AcknowledgeEofKeeps == ASSUME NEW t \in Present PROVE IInv /\ AcknowledgeEof(t) => IInv'
<1> SUFFICES ASSUME IInv, AcknowledgeEof(t) PROVE IInv'
  OBVIOUS
<1> USE SourceAssumption DEF IInv, AcknowledgeEof, Awake, ReaderOnly, run, input
<1>1. Steady
  BY Unspent, Spends, Faults
<1>2. AllSame
  BY Untouched
<1>3. Flags'
  BY <1>1 DEF Flags, Steady, ProxyStates, Looping
<1>4. Lists'
  BY DEF Lists, Flags, Hands
<1>5. Filled'
  BY <1>2, FilledFrame
<1>6. Alive'
  BY DEF Alive, Looping, Flags
<1>7. Numbered'
  BY DEF Numbered, Open, Flags, Alive
<1>8. Apart'
  BY <1>2, ApartFrame
<1>9. Settled'
  BY DEF Settled, Looping, Open, LastOf, Numbered, Alive, Flags
<1>10. Submitting'
  BY DEF Submitting, Awaits, LastOf, Alive
<1>11. Final'
  <2>1. /\ UNCHANGED <<todo, hand, dec, plan, proxy, saying, finalEof, ended>>
        /\ eofRead' = eofRead \cup {t} /\ reader[t] = "eof"
        /\ \A u \in Present : reader'[u] = "eof" => reader[u] = "eof"
    BY DEF Flags
  <2>2. /\ worker' = "prepare" => worker = "prepare"
        /\ worker' \in Looping \cup {"submit"} => worker \in Looping \cup {"submit"}
    BY DEF Looping
  <2>3. \A u \in Present : TookEof(u)' => TookEof(u)
    BY <2>1 DEF TookEof
  <2>4. eofRead = Present => eofRead' = Present
    BY <2>1
  <2> QED
    BY <2>1, <2>2, <2>3, <2>4 DEF Final, Over, EofIn, EofOut
<1>12. Told'
  BY DEF Told, Alive
<1> QED
  BY <1>3, <1>4, <1>5, <1>6, <1>7, <1>8, <1>9, <1>10, <1>11, <1>12

-----------------------------------------------------------------------------
\* A source that was never started holds nothing.
LEMMA InitKeeps == Init => IInv
<1> SUFFICES ASSUME Init PROVE IInv
  OBVIOUS
<1> USE SourceAssumption DEF Init
<1>1. plan \in PlanTypes
  BY DEF PlanTypes
<1>2. /\ dec \in [Present -> Decoders]
      /\ \A t \in Present : dec[t] = NoDecoder
  BY NoDecoderType
<1>3. \A t \in Present :
        /\ dec[t].in = <<>> /\ dec[t].out = <<>> /\ dec[t].pc = "none"
        /\ dec[t].stopped = FALSE /\ dec[t].eof = FALSE
  BY <1>2 DEF NoDecoder
<1>4. Flags
  <2>1. packets \in 0 .. plan.packets
    BY <1>1 DEF PlanTypes
  <2>2. {stopping, failure, session, moved, finalEof, progress, ended, news,
         cancelled} \subseteq BOOLEAN
    OBVIOUS
  <2>3. /\ reader \in [Present -> {"idle", "read", "eof"}] /\ eofRead \subseteq Present
        /\ saying \in ProxyStates /\ dispatched \in Nat /\ conn \in Nat
    BY DEF ProxyStates
  <2> QED
    BY <1>1, <2>1, <2>2, <2>3 DEF Flags
<1>5. Lists
  BY EmptySeq DEF Lists
<1>6. Filled
  BY <1>2, <1>3 DEF Filled
<1>7. Alive
  BY <1>3 DEF Alive, Looping
<1>8. Numbered
  BY DEF Numbered, Open
<1>9. Apart
  BY <1>3 DEF Apart, Separated
<1>10. Settled /\ Submitting /\ Told
  BY DEF Settled, Submitting, Told, Looping
<1>11. Final
  BY <1>3 DEF Final, TookEof, EofIn, EofOut
<1> QED
  BY <1>4, <1>5, <1>6, <1>7, <1>8, <1>9, <1>10, <1>11 DEF IInv

\* Every step of the source keeps the invariant.
LEMMA StepKeeps == IInv /\ [Next]_vars => IInv'
<1> SUFFICES ASSUME IInv, [Next]_vars PROVE IInv'
  OBVIOUS
<1>1. CASE Start \/ RequestStop \/ StopSession \/ Join
  BY <1>1, StartKeeps, RequestStopKeeps, StopSessionKeeps, JoinKeeps
<1>2. CASE Proxy \/ Connection \/ Delivery
  BY <1>2, ReportKeeps, ReleaseKeeps, NewsKeeps, CancelKeeps, ConnectKeeps, DisconnectKeeps,
     RetryKeeps, AcknowledgedKeeps, ReadPacketKeeps, ReadEofKeeps
     DEF Proxy, Connection, Delivery
<1>3. CASE Worker
  <2>1. CASE Begin \/ Top \/ HandleEvent \/ Initialize \/ Running \/ Check
    BY <2>1, BeginKeeps, TopKeeps, HandleEventKeeps, InitializeKeeps, RunningKeeps, CheckKeeps
  <2>2. CASE Wait \/ ReadNull \/ Prepare \/ Submit \/ Submitted \/ Draining
    BY <2>2, WaitKeeps, ReadNullKeeps, PrepareKeeps, SubmitKeeps, SubmittedKeeps, DrainingKeeps
  <2>3. CASE Catch \/ StopAll \/ PublishFailure \/ JoinDecoders \/ JoinProxy \/ PublishLast
    BY <2>3, CatchKeeps, StopAllKeeps, PublishFailureKeeps, JoinDecodersKeeps, JoinProxyKeeps,
       PublishLastKeeps
  <2> QED
    BY <1>3, <2>1, <2>2, <2>3 DEF Worker
<1>4. ASSUME NEW t \in Present, Decoder(t) \/ DecoderFails(t) \/ Read(t) \/ Reading(t)
      PROVE  IInv'
  BY <1>4, DecodeKeeps, OnErrorKeeps, DecoderExitsKeeps, DecoderFailsKeeps, ReadKeeps,
     ReadDecoderKeeps, AcknowledgeEofKeeps DEF Decoder, Reading
<1>5. CASE UNCHANGED vars
  <2>1. UNCHANGED <<shared, run, worker, input, dec, reader, stopper, plan>>
    BY <1>5 DEF vars
  <2>2. AllSame
    BY <2>1, Untouched DEF IInv
  <2>3. Flags' /\ Lists' /\ Filled'
    BY <2>1, <2>2, FilledFrame DEF IInv, Flags, Lists, shared, run, input
  <2>4. Alive' /\ Numbered' /\ Told'
    BY <2>1 DEF IInv, Alive, Numbered, Told, Open, shared, run, input
  <2>5. Apart'
    BY <2>2, ApartFrame DEF IInv
  <2>6. Settled' /\ Submitting'
    BY <2>1 DEF IInv, Settled, Submitting, Awaits, LastOf, Open, shared, run, input
  <2>7. Final'
    BY <2>1 DEF IInv, Final, TookEof, EofIn, EofOut, Over, shared, run, input
  <2> QED
    BY <2>3, <2>4, <2>5, <2>6, <2>7 DEF IInv
<1> QED
  BY <1>1, <1>2, <1>3, <1>4, <1>5 DEF Next

\* The invariant holds in every session.
LEMMA Invariance == Spec => []IInv
BY InitKeeps, StepKeeps, PTL DEF Spec

\* No decoder is given items of two connections without a Reset between them,
\* and nothing but a Reset after an EOF, however the dispatcher, the proxy, the
\* decoders and a stop interleave (Dispatch, SubmitControl); all types are kept.
THEOREM ConnectionsKeptApart == Spec => []EpochsSeparated
<1>1. IInv => EpochsSeparated
  <2> SUFFICES ASSUME IInv PROVE EpochsSeparated
    OBVIOUS
  <2>1. TypeOK
    BY TypeParts DEF IInv
  <2>2. ASSUME NEW t \in Present, NEW i \in DOMAIN dec[t].in, dec[t].in[i].kind # "reset"
        PROVE  Before(dec[t], i) \in {0, dec[t].in[i].conn}
    BY <2>2 DEF IInv, Apart, Separated
  <2>3. ASSUME worker = "submit", todo # <<>>, dec[todo[1][1]].eof
        PROVE  todo[1][2].kind = "reset"
    <3>1. todo \in Seq(Present \X Items) /\ DOMAIN todo = 1 .. Len(todo) /\ Len(todo) \in Nat \ {0}
      BY <2>3, EmptySeq, LenProperties DEF IInv, Lists
    <3>2. todo[1] \in Present \X Items
      BY <3>1
    <3>3. PICK t \in Present : todo[1][1] = t
      BY <3>2
    <3>4. Awaits(t)
      BY <2>3, <3>1, <3>3 DEF IInv, Submitting
    <3>5. PICK i \in DOMAIN todo : todo[i][1] = t /\ todo[i][2].kind = "reset"
      BY <3>4 DEF Awaits
    <3>6. i = 1 \/ 1 < i
      BY <3>1
    <3> QED
      BY <2>3, <3>1, <3>3, <3>5, <3>6 DEF IInv, Submitting
  <2> QED
    BY <2>1, <2>2, <2>3 DEF EpochsSeparated
<1> QED
  BY <1>1, Invariance, PTL

\* Ended is reported only when the consumers have taken every frame and the EOF
\* of every track; the last status is Failed exactly when a failure was stored
\* (Drained, PublishLast), for any number of connections and packets.
THEOREM EndIsTrue == Spec => []EndTruthful
<1>1. IInv => EndTruthful
  <2> SUFFICES ASSUME IInv PROVE EndTruthful
    OBVIOUS
  <2>1. ASSUME ended, NEW t \in Present
        PROVE  dec[t].in = <<>> /\ dec[t].out = <<>>
    <3>1. ~plan.loop /\ TookEof(t)
      BY <2>1 DEF IInv, Final, TookEof
    <3> QED
      BY <3>1 DEF IInv, Final
  <2> QED
    BY <2>1 DEF IInv, Told, EndTruthful
<1> QED
  BY <1>1, Invariance, PTL

-----------------------------------------------------------------------------
(* The reconnecting input that the dispatcher reads.                       *)

Publishing(then) == control \in {"publish", "news"} /\ after = then

\* Where Run is: an input that is not open yet, ...
Unopen ==
  \/ control \in {"prepare", "open", "opening", "io", "unopened"}
  \/ Publishing("prepare")
\* ... one whose description was taken and that is not on offer, ...
Promised == control \in {"connect", "offer"} \/ Publishing("offer")
\* ... both, ...
Unoffered == Unopen \/ control = "opened" \/ Promised
\* ... one that may be on offer, and one that is being closed.
Waiting == control \in {"wait", "waiting"}
Closing == control \in {"retire", "cancel", "join", "unset"}

Attached ==
  /\ currentInput \in {0, attempt}
  /\ Unoffered \/ Waiting \/ Closing => currentInput = attempt /\ attempt # 0
  /\ control = "create" => attempt < MaxAttempts
  /\ available => (Waiting \/ control = "retire") /\ info = attempt
  /\ Promised \/ Waiting => info = attempt
  /\ inputWorker # "none" =>
       control = "opened" \/ Promised \/ Waiting \/ (Closing /\ control # "unset")
  /\ buffer <= produced

\* Only the reader's acknowledgement makes an input that runs, or that came to
\* its own end, a terminal one.
Ends ==
  /\ Unopen => terminal = "none"
  /\ control = "unopened" => inputState \in {"failed", "cancelled"}
  /\ inputWorker = "run" => inputState = "opened"
  /\ inputWorker = "run" \/ inputState = "ended" => terminal \in {"none", "ended"}

ProxyReading ==
  /\ proxyReader \in {"input", "eof"} =>
       readInput # 0 /\ readInput <= attempt /\ readInfo = readInput
  /\ Unoffered => ~(proxyReader \in {"input", "eof"} /\ readInput = attempt)
  /\ proxyReader = "eof" /\ readInput = attempt /\ available => inputState = "ended"

ProxyAcknowledged ==
  /\ Unoffered => eofs[attempt] = 0
  /\ \A a \in Link!Attempts : a > attempt => eofs[a] = 0
  /\ terminal = "ended" => attempt # 0 /\ eofs[attempt] > 0
  /\ outcome = "ended" => attempt # 0 /\ eofs[attempt] > 0

\* What a loop adds: one EOF withdraws the offer of the input it came from.
Withdrawn ==
  Link!Loop =>
    /\ terminal = "ended" => ~available
    /\ available /\ ~proxyStopping => eofs[attempt] = 0
    /\ proxyReader \in {"input", "eof"} => eofs[readInput] = 0
    /\ \A a \in Link!Attempts : eofs[a] <= 1

\* Retries counted by Run and attempts made since the last success.
Counted ==
  /\ Unoffered \/ Waiting => outcome = "none"
  /\ control = "threw" => outcome = "threw"
  /\ \/ control \in {"look", "create", "prepare", "open", "retry", "retrying"}
     \/ Publishing("prepare") \/ Publishing("retry")
     => reopened = retries - 1
  /\ control \in {"opening", "io", "unopened", "opened"} => reopened = retries
  /\ Promised \/ Waiting => retries = 0 /\ reopened = 0
  /\ (Closing \/ control = "decide") /\ outcome \in {"ended", "failed"} =>
       reopened = retries /\ (outcome = "ended" => retries = 0)
  /\ Link!MaxRetries >= 0 => retries <= Link!MaxRetries

GivenUp ==
  /\ (control = "publish" /\ publishing = "failed") \/ proxyStatus = "failed" =>
       (outcome = "failed" => reopened = Link!MaxRetries)
  /\ control = "publish" /\ publishing = "failed" => after = "exit"
  /\ proxyStatus = "failed" =>
       control \in {"exit", "exited", "none"} \/ (control = "news" /\ after = "exit")

ProxyInv ==
  /\ Link!ProxyParameters
  /\ Link!TypeOK /\ Attached /\ Ends /\ ProxyReading /\ ProxyAcknowledged /\ Withdrawn
  /\ Counted /\ GivenUp

\* Waking moves only a sleeper.
LEMMA ProxyWakesReader ==
  Link!TypeOK /\ Link!WakeReader =>
    \/ proxyReader' = proxyReader
    \/ proxyReader = "unready" /\ proxyReader' = "ready"
    \/ proxyReader = "unchanged" /\ proxyReader' = "changed"
BY DEF Link!TypeOK, Link!WakeReader, Link!Awake

\* So does waking the control worker.
LEMMA ProxyWakesControl ==
  Link!TypeOK /\ Link!WakeControl =>
    \/ control' = control
    \/ control = "waiting" /\ control' = "wait"
    \/ control = "retrying" /\ control' = "retry"
BY DEF Link!TypeOK, Link!WakeControl, Link!Awake

\* Start: nothing of the last session is on offer.
LEMMA ProxyStartKeeps == ProxyInv /\ Link!Start /\ UNCHANGED config => ProxyInv'
<1> SUFFICES ASSUME ProxyInv, Link!Start, UNCHANGED config PROVE ProxyInv'
  OBVIOUS
<1> USE DEF Link!ProxyParameters, ProxyInv, Publishing, Unopen, Promised, Unoffered, Waiting,
    Closing, Link!Start, Link!inputVars, Link!readVars, Link!stopVars
<1>1. Link!TypeOK'
  <2>1. /\ proxyStopping' \in BOOLEAN /\ available' \in BOOLEAN /\ proxyNews' \in BOOLEAN
       /\ inputCancelled' \in BOOLEAN
    BY DEF Link!TypeOK, Attached, Link!Attempts, Link!States
  <2>2. /\ proxyStatus' \in Link!States /\ publishing' \in Link!States
       /\ terminal' \in {"none", "ended", "failed", "cancelled"}
       /\ outcome' \in {"none", "ended", "failed", "cancelled", "threw"}
       /\ inputState' \in {"closed", "opening", "opened", "ended", "failed", "cancelled"}
    BY DEF Link!TypeOK, Attached, Link!Attempts, Link!States
  <2>3. /\ info' \in {0} \cup Link!Attempts
        /\ currentInput' \in {0} \cup Link!Attempts
        /\ attempt' \in {0} \cup Link!Attempts
       /\ readInput' \in {0} \cup Link!Attempts /\ readInfo' \in {0} \cup Link!Attempts
       /\ retries' \in Nat /\ reopened' \in Nat \cup {-1} /\ sessions' \in Nat
       /\ config' \in Configs
       /\ buffer' \in 0..config'.packets /\ produced' \in 0..config'.packets
    BY DEF Link!TypeOK, Attached, Link!Attempts, Link!States
  <2>4. /\ proxyStopper' \in [Link!Stoppers -> {"idle", "cancel", "join"}]
       /\ stopInput' \in [Link!Stoppers -> {0} \cup Link!Attempts]
       /\ eofs' \in [Link!Attempts -> Nat]
    BY DEF Link!TypeOK, Attached, Link!Attempts, Link!States
  <2> QED
    BY <2>1, <2>2, <2>3, <2>4 DEF Link!TypeOK
<1>2. Attached'
  BY DEF Attached, Link!TypeOK, Link!Attempts
<1>3. Ends'
  BY DEF Ends, Attached, Link!TypeOK
<1>4. ProxyReading'
  BY DEF ProxyReading, Attached, Ends, Link!TypeOK, Link!Attempts
<1>5. ProxyAcknowledged'
  BY DEF ProxyAcknowledged, Link!TypeOK, Attached, Link!Attempts
<1>6. Withdrawn'
  BY DEF Withdrawn, ProxyAcknowledged, Attached, Link!Loop
<1>7. Counted'
  BY DEF Counted, Link!MaxRetries, Link!TypeOK, Ends
<1>8. GivenUp'
  BY DEF GivenUp, Counted, Link!MaxRetries, Link!TypeOK
<1> QED
  BY <1>1, <1>2, <1>3, <1>4, <1>5, <1>6, <1>7, <1>8 DEF ProxyInv

\* RequestStop, its critical section.
LEMMA ProxyRequestStopKeeps ==
  ASSUME NEW p \in Link!Stoppers
  PROVE ProxyInv /\ Link!RequestStop(p) /\ UNCHANGED config => ProxyInv'
<1> SUFFICES ASSUME ProxyInv, Link!RequestStop(p), UNCHANGED config PROVE ProxyInv'
  OBVIOUS
<1> USE DEF Link!ProxyParameters, ProxyInv, Publishing, Unopen, Promised, Unoffered, Waiting,
    Closing, Link!RequestStop, Link!runVars, Link!inputVars, Link!readVars
<1>r. \/ proxyReader' = proxyReader
      \/ (proxyReader = "unready" /\ proxyReader' = "ready")
      \/ (proxyReader = "unchanged" /\ proxyReader' = "changed")
  BY ProxyWakesReader DEF Link!TypeOK
<1>c. \/ control' = control
      \/ (control = "waiting" /\ control' = "wait")
      \/ (control = "retrying" /\ control' = "retry")
  BY ProxyWakesControl DEF Link!TypeOK
<1>1. Link!TypeOK'
  <2>1. /\ proxyStopper' \in [Link!Stoppers -> {"idle", "cancel", "join"}]
        /\ stopInput' \in [Link!Stoppers -> {0} \cup Link!Attempts]
    BY DEF Link!TypeOK, Link!Attempts
  <2>2. UNCHANGED <<available, proxyNews, proxyStatus, info, terminal, currentInput, retries,
                    publishing, after, outcome, reopened, attempt, inputState, inputCancelled,
                    inputWorker, buffer, produced, mode, readInput, readInfo, eofs, sessions,
                    config>>
        /\ proxyStopping' = TRUE
    OBVIOUS
  <2> QED
    BY <1>r, <1>c, <2>1, <2>2 DEF Link!TypeOK
<1>2. Attached'
  BY <1>r, <1>c DEF Attached, Link!TypeOK, Link!Attempts
<1>3. Ends'
  BY <1>r, <1>c DEF Ends, Attached, Link!TypeOK
<1>4. ProxyReading'
  BY <1>r, <1>c DEF ProxyReading, Attached, Ends, Link!TypeOK, Link!Attempts
<1>5. ProxyAcknowledged'
  BY <1>r, <1>c DEF ProxyAcknowledged, Link!TypeOK, Attached, Link!Attempts
<1>6. Withdrawn'
  BY <1>r, <1>c DEF Withdrawn, ProxyAcknowledged, Attached, Link!Loop
<1>7. Counted'
  BY <1>r, <1>c DEF Counted, Link!MaxRetries, Link!TypeOK, Ends
<1>8. GivenUp'
  BY <1>r, <1>c DEF GivenUp, Counted, Link!MaxRetries, Link!TypeOK
<1> QED
  BY <1>1, <1>2, <1>3, <1>4, <1>5, <1>6, <1>7, <1>8 DEF ProxyInv

\* RequestStop, the cancellation of the input.
LEMMA ProxyCancelInputKeeps ==
  ASSUME NEW p \in Link!Stoppers
  PROVE ProxyInv /\ Link!CancelInput(p) /\ UNCHANGED config => ProxyInv'
<1> SUFFICES ASSUME ProxyInv, Link!CancelInput(p), UNCHANGED config PROVE ProxyInv'
  OBVIOUS
<1> USE DEF Link!ProxyParameters, ProxyInv, Publishing, Unopen, Promised, Unoffered, Waiting,
    Closing, Link!CancelInput, Link!proxyVars, Link!runVars, Link!readVars
<1>1. Link!TypeOK'
  BY DEF Link!TypeOK, Attached, Link!States, Link!Attempts
<1>2. Attached'
  BY DEF Attached, Link!TypeOK, Link!Attempts
<1>3. Ends'
  BY DEF Ends, Attached, Link!TypeOK
<1>4. ProxyReading'
  BY DEF ProxyReading, Attached, Ends, Link!TypeOK, Link!Attempts
<1>5. ProxyAcknowledged'
  BY DEF ProxyAcknowledged, Link!TypeOK, Attached, Link!Attempts
<1>6. Withdrawn'
  BY DEF Withdrawn, ProxyAcknowledged, Attached, Link!Loop
<1>7. Counted'
  BY DEF Counted, Link!MaxRetries, Link!TypeOK, Ends
<1>8. GivenUp'
  BY DEF GivenUp, Counted, Link!MaxRetries, Link!TypeOK
<1> QED
  BY <1>1, <1>2, <1>3, <1>4, <1>5, <1>6, <1>7, <1>8 DEF ProxyInv

\* Stop joins the control worker.
LEMMA ProxyJoinKeeps == ProxyInv /\ Link!Join /\ UNCHANGED config => ProxyInv'
<1> SUFFICES ASSUME ProxyInv, Link!Join, UNCHANGED config PROVE ProxyInv'
  OBVIOUS
<1> USE DEF Link!ProxyParameters, ProxyInv, Publishing, Unopen, Promised, Unoffered, Waiting,
    Closing, Link!Join, Link!proxyVars, Link!runVars, Link!inputVars, Link!readVars
<1>1. Link!TypeOK'
  <2>1. /\ proxyStopping' \in BOOLEAN /\ available' \in BOOLEAN /\ proxyNews' \in BOOLEAN
       /\ inputCancelled' \in BOOLEAN
    BY DEF Link!TypeOK, Attached, Link!Attempts, Link!States
  <2>2. /\ proxyStatus' \in Link!States /\ publishing' \in Link!States
       /\ terminal' \in {"none", "ended", "failed", "cancelled"}
       /\ outcome' \in {"none", "ended", "failed", "cancelled", "threw"}
       /\ inputState' \in {"closed", "opening", "opened", "ended", "failed", "cancelled"}
    BY DEF Link!TypeOK, Attached, Link!Attempts, Link!States
  <2>3. /\ info' \in {0} \cup Link!Attempts
        /\ currentInput' \in {0} \cup Link!Attempts
        /\ attempt' \in {0} \cup Link!Attempts
       /\ readInput' \in {0} \cup Link!Attempts /\ readInfo' \in {0} \cup Link!Attempts
       /\ retries' \in Nat /\ reopened' \in Nat \cup {-1} /\ sessions' \in Nat
       /\ config' \in Configs
       /\ buffer' \in 0..config'.packets /\ produced' \in 0..config'.packets
    BY DEF Link!TypeOK, Attached, Link!Attempts, Link!States
  <2>4. /\ proxyStopper' \in [Link!Stoppers -> {"idle", "cancel", "join"}]
       /\ stopInput' \in [Link!Stoppers -> {0} \cup Link!Attempts]
       /\ eofs' \in [Link!Attempts -> Nat]
    BY DEF Link!TypeOK, Attached, Link!Attempts, Link!States
  <2> QED
    BY <2>1, <2>2, <2>3, <2>4 DEF Link!TypeOK
<1>2. Attached'
  BY DEF Attached, Link!TypeOK, Link!Attempts
<1>3. Ends'
  BY DEF Ends, Attached, Link!TypeOK
<1>4. ProxyReading'
  BY DEF ProxyReading, Attached, Ends, Link!TypeOK, Link!Attempts
<1>5. ProxyAcknowledged'
  BY DEF ProxyAcknowledged, Link!TypeOK, Attached, Link!Attempts
<1>6. Withdrawn'
  BY DEF Withdrawn, ProxyAcknowledged, Attached, Link!Loop
<1>7. Counted'
  BY DEF Counted, Link!MaxRetries, Link!TypeOK, Ends
<1>8. GivenUp'
  BY DEF GivenUp, Counted, Link!MaxRetries, Link!TypeOK
<1> QED
  BY <1>1, <1>2, <1>3, <1>4, <1>5, <1>6, <1>7, <1>8 DEF ProxyInv

\* Publish, the state.
LEMMA ProxyPublishKeeps == ProxyInv /\ Link!Publish /\ UNCHANGED config => ProxyInv'
<1> SUFFICES ASSUME ProxyInv, Link!Publish, UNCHANGED config PROVE ProxyInv'
  OBVIOUS
<1> USE DEF Link!ProxyParameters, ProxyInv, Publishing, Unopen, Promised, Unoffered, Waiting,
    Closing, Link!Publish, Link!Go, Link!runVars, Link!inputVars, Link!readVars, Link!stopVars
<1>r. \/ proxyReader' = proxyReader
      \/ (proxyReader = "unready" /\ proxyReader' = "ready")
      \/ (proxyReader = "unchanged" /\ proxyReader' = "changed")
  BY ProxyWakesReader DEF Link!TypeOK
<1>1. Link!TypeOK'
  BY <1>r DEF Link!TypeOK, Attached, Link!States, Link!Attempts
<1>2. Attached'
  BY <1>r DEF Attached, Link!TypeOK, Link!Attempts
<1>3. Ends'
  BY <1>r DEF Ends, Attached, Link!TypeOK
<1>4. ProxyReading'
  BY <1>r DEF ProxyReading, Attached, Ends, Link!TypeOK, Link!Attempts
<1>5. ProxyAcknowledged'
  BY <1>r DEF ProxyAcknowledged, Link!TypeOK, Attached, Link!Attempts
<1>6. Withdrawn'
  BY <1>r DEF Withdrawn, ProxyAcknowledged, Attached, Link!Loop
<1>7. Counted'
  BY <1>r DEF Counted, Link!MaxRetries, Link!TypeOK, Ends
<1>8. GivenUp'
  BY <1>r DEF GivenUp, Counted, Link!MaxRetries, Link!TypeOK
<1> QED
  BY <1>1, <1>2, <1>3, <1>4, <1>5, <1>6, <1>7, <1>8 DEF ProxyInv

\* Publish, the state change for a controller.
LEMMA ProxyPublishNewsKeeps == ProxyInv /\ Link!PublishNews /\ UNCHANGED config => ProxyInv'
<1> SUFFICES ASSUME ProxyInv, Link!PublishNews, UNCHANGED config PROVE ProxyInv'
  OBVIOUS
<1> USE DEF Link!ProxyParameters, ProxyInv, Publishing, Unopen, Promised, Unoffered, Waiting,
    Closing, Link!PublishNews, Link!Go, Link!runVars, Link!inputVars, Link!readVars,
    Link!stopVars
<1>r. \/ proxyReader' = proxyReader
      \/ (proxyReader = "unready" /\ proxyReader' = "ready")
      \/ (proxyReader = "unchanged" /\ proxyReader' = "changed")
  BY ProxyWakesReader DEF Link!TypeOK
<1>1. Link!TypeOK'
  BY <1>r DEF Link!TypeOK, Attached, Link!States, Link!Attempts
<1>2. Attached'
  BY <1>r DEF Attached, Link!TypeOK, Link!Attempts
<1>3. Ends'
  BY <1>r DEF Ends, Attached, Link!TypeOK
<1>4. ProxyReading'
  BY <1>r DEF ProxyReading, Attached, Ends, Link!TypeOK, Link!Attempts
<1>5. ProxyAcknowledged'
  BY <1>r DEF ProxyAcknowledged, Link!TypeOK, Attached, Link!Attempts
<1>6. Withdrawn'
  BY <1>r DEF Withdrawn, ProxyAcknowledged, Attached, Link!Loop
<1>7. Counted'
  BY <1>r DEF Counted, Link!MaxRetries, Link!TypeOK, Ends
<1>8. GivenUp'
  BY <1>r DEF GivenUp, Counted, Link!MaxRetries, Link!TypeOK
<1> QED
  BY <1>1, <1>2, <1>3, <1>4, <1>5, <1>6, <1>7, <1>8 DEF ProxyInv

\* The test of the loop.
LEMMA ProxyLookKeeps == ProxyInv /\ Link!Look /\ UNCHANGED config => ProxyInv'
<1> SUFFICES ASSUME ProxyInv, Link!Look, UNCHANGED config PROVE ProxyInv'
  OBVIOUS
<1> USE DEF Link!ProxyParameters, ProxyInv, Publishing, Unopen, Promised, Unoffered, Waiting,
    Closing, Link!Look, Link!Go, Link!WillPublish, Link!RunOnly, Link!proxyVars, Link!inputVars,
    Link!readVars, Link!stopVars
<1>1. Link!TypeOK'
  BY DEF Link!TypeOK, Attached, Link!States, Link!Attempts
<1>2. Attached'
  BY DEF Attached, Link!TypeOK, Link!Attempts
<1>3. Ends'
  BY DEF Ends, Attached, Link!TypeOK
<1>4. ProxyReading'
  BY DEF ProxyReading, Attached, Ends, Link!TypeOK, Link!Attempts
<1>5. ProxyAcknowledged'
  BY DEF ProxyAcknowledged, Link!TypeOK, Attached, Link!Attempts
<1>6. Withdrawn'
  BY DEF Withdrawn, ProxyAcknowledged, Attached, Link!Loop
<1>7. Counted'
  BY DEF Counted, Link!MaxRetries, Link!TypeOK, Ends
<1>8. GivenUp'
  BY DEF GivenUp, Counted, Link!MaxRetries, Link!TypeOK
<1> QED
  BY <1>1, <1>2, <1>3, <1>4, <1>5, <1>6, <1>7, <1>8 DEF ProxyInv

\* The input of an attempt is made.
LEMMA ProxyCreateKeeps == ProxyInv /\ Link!Create /\ UNCHANGED config => ProxyInv'
<1> SUFFICES ASSUME ProxyInv, Link!Create, UNCHANGED config PROVE ProxyInv'
  OBVIOUS
<1> USE DEF Link!ProxyParameters, ProxyInv, Publishing, Unopen, Promised, Unoffered, Waiting,
    Closing, Link!Create, Link!Go, Link!WillPublish, Link!readVars, Link!stopVars
<1>1. Link!TypeOK'
  <2>1. /\ proxyStopping' \in BOOLEAN /\ available' \in BOOLEAN /\ proxyNews' \in BOOLEAN
       /\ inputCancelled' \in BOOLEAN
    BY DEF Link!TypeOK, Attached, Link!Attempts, Link!States
  <2>2. /\ proxyStatus' \in Link!States /\ publishing' \in Link!States
       /\ terminal' \in {"none", "ended", "failed", "cancelled"}
       /\ outcome' \in {"none", "ended", "failed", "cancelled", "threw"}
       /\ inputState' \in {"closed", "opening", "opened", "ended", "failed", "cancelled"}
    BY DEF Link!TypeOK, Attached, Link!Attempts, Link!States
  <2>3. /\ info' \in {0} \cup Link!Attempts
        /\ currentInput' \in {0} \cup Link!Attempts
        /\ attempt' \in {0} \cup Link!Attempts
       /\ readInput' \in {0} \cup Link!Attempts /\ readInfo' \in {0} \cup Link!Attempts
       /\ retries' \in Nat /\ reopened' \in Nat \cup {-1} /\ sessions' \in Nat
       /\ config' \in Configs
       /\ buffer' \in 0..config'.packets /\ produced' \in 0..config'.packets
    BY DEF Link!TypeOK, Attached, Link!Attempts, Link!States
  <2>4. /\ proxyStopper' \in [Link!Stoppers -> {"idle", "cancel", "join"}]
       /\ stopInput' \in [Link!Stoppers -> {0} \cup Link!Attempts]
       /\ eofs' \in [Link!Attempts -> Nat]
    BY DEF Link!TypeOK, Attached, Link!Attempts, Link!States
  <2> QED
    BY <2>1, <2>2, <2>3, <2>4 DEF Link!TypeOK
<1>2. Attached'
  BY DEF Attached, Link!TypeOK, Link!Attempts
<1>3. Ends'
  BY DEF Ends, Attached, Link!TypeOK
<1>4. ProxyReading'
  BY DEF ProxyReading, Attached, Ends, Link!TypeOK, Link!Attempts
<1>5. ProxyAcknowledged'
  BY DEF ProxyAcknowledged, Link!TypeOK, Attached, Link!Attempts
<1>6. Withdrawn'
  BY DEF Withdrawn, ProxyAcknowledged, Attached, Link!Loop
<1>7. Counted'
  BY DEF Counted, Link!MaxRetries, Link!TypeOK, Ends
<1>8. GivenUp'
  BY DEF GivenUp, Counted, Link!MaxRetries, Link!TypeOK
<1> QED
  BY <1>1, <1>2, <1>3, <1>4, <1>5, <1>6, <1>7, <1>8 DEF ProxyInv

\* The test before the input is opened.
LEMMA ProxyPrepareKeeps == ProxyInv /\ Link!Prepare /\ UNCHANGED config => ProxyInv'
<1> SUFFICES ASSUME ProxyInv, Link!Prepare, UNCHANGED config PROVE ProxyInv'
  OBVIOUS
<1> USE DEF Link!ProxyParameters, ProxyInv, Publishing, Unopen, Promised, Unoffered, Waiting,
    Closing, Link!Prepare, Link!Go, Link!RunOnly, Link!proxyVars, Link!runVars, Link!inputVars,
    Link!readVars, Link!stopVars
<1>1. Link!TypeOK'
  BY DEF Link!TypeOK, Attached, Link!States, Link!Attempts
<1>2. Attached'
  BY DEF Attached, Link!TypeOK, Link!Attempts
<1>3. Ends'
  BY DEF Ends, Attached, Link!TypeOK
<1>4. ProxyReading'
  BY DEF ProxyReading, Attached, Ends, Link!TypeOK, Link!Attempts
<1>5. ProxyAcknowledged'
  BY DEF ProxyAcknowledged, Link!TypeOK, Attached, Link!Attempts
<1>6. Withdrawn'
  BY DEF Withdrawn, ProxyAcknowledged, Attached, Link!Loop
<1>7. Counted'
  BY DEF Counted, Link!MaxRetries, Link!TypeOK, Ends
<1>8. GivenUp'
  BY DEF GivenUp, Counted, Link!MaxRetries, Link!TypeOK
<1> QED
  BY <1>1, <1>2, <1>3, <1>4, <1>5, <1>6, <1>7, <1>8 DEF ProxyInv

\* Open resets the cancellation.
LEMMA ProxyOpenKeeps == ProxyInv /\ Link!Open /\ UNCHANGED config => ProxyInv'
<1> SUFFICES ASSUME ProxyInv, Link!Open, UNCHANGED config PROVE ProxyInv'
  OBVIOUS
<1> USE DEF Link!ProxyParameters, ProxyInv, Publishing, Unopen, Promised, Unoffered, Waiting,
    Closing, Link!Open, Link!Go, Link!proxyVars, Link!readVars, Link!stopVars
<1>1. Link!TypeOK'
  <2>1. /\ proxyStopping' \in BOOLEAN /\ available' \in BOOLEAN /\ proxyNews' \in BOOLEAN
       /\ inputCancelled' \in BOOLEAN
    BY DEF Link!TypeOK, Attached, Link!Attempts, Link!States
  <2>2. /\ proxyStatus' \in Link!States /\ publishing' \in Link!States
       /\ terminal' \in {"none", "ended", "failed", "cancelled"}
       /\ outcome' \in {"none", "ended", "failed", "cancelled", "threw"}
       /\ inputState' \in {"closed", "opening", "opened", "ended", "failed", "cancelled"}
    BY DEF Link!TypeOK, Attached, Link!Attempts, Link!States
  <2>3. /\ info' \in {0} \cup Link!Attempts
        /\ currentInput' \in {0} \cup Link!Attempts
        /\ attempt' \in {0} \cup Link!Attempts
       /\ readInput' \in {0} \cup Link!Attempts /\ readInfo' \in {0} \cup Link!Attempts
       /\ retries' \in Nat /\ reopened' \in Nat \cup {-1} /\ sessions' \in Nat
       /\ config' \in Configs
       /\ buffer' \in 0..config'.packets /\ produced' \in 0..config'.packets
    BY DEF Link!TypeOK, Attached, Link!Attempts, Link!States
  <2>4. /\ proxyStopper' \in [Link!Stoppers -> {"idle", "cancel", "join"}]
       /\ stopInput' \in [Link!Stoppers -> {0} \cup Link!Attempts]
       /\ eofs' \in [Link!Attempts -> Nat]
    BY DEF Link!TypeOK, Attached, Link!Attempts, Link!States
  <2> QED
    BY <2>1, <2>2, <2>3, <2>4 DEF Link!TypeOK
<1>2. Attached'
  BY DEF Attached, Link!TypeOK, Link!Attempts
<1>3. Ends'
  BY DEF Ends, Attached, Link!TypeOK
<1>4. ProxyReading'
  BY DEF ProxyReading, Attached, Ends, Link!TypeOK, Link!Attempts
<1>5. ProxyAcknowledged'
  BY DEF ProxyAcknowledged, Link!TypeOK, Attached, Link!Attempts
<1>6. Withdrawn'
  BY DEF Withdrawn, ProxyAcknowledged, Attached, Link!Loop
<1>7. Counted'
  BY DEF Counted, Link!MaxRetries, Link!TypeOK, Ends
<1>8. GivenUp'
  BY DEF GivenUp, Counted, Link!MaxRetries, Link!TypeOK
<1> QED
  BY <1>1, <1>2, <1>3, <1>4, <1>5, <1>6, <1>7, <1>8 DEF ProxyInv

\* InputChanged for Opening.
LEMMA ProxyOpeningKeeps == ProxyInv /\ Link!Opening /\ UNCHANGED config => ProxyInv'
<1> SUFFICES ASSUME ProxyInv, Link!Opening, UNCHANGED config PROVE ProxyInv'
  OBVIOUS
<1> USE DEF Link!ProxyParameters, ProxyInv, Publishing, Unopen, Promised, Unoffered, Waiting,
    Closing, Link!Opening, Link!Go, Link!OpeningCancelled, Link!proxyVars, Link!runVars,
    Link!readVars, Link!stopVars
<1>r. \/ proxyReader' = proxyReader
      \/ (proxyReader = "unready" /\ proxyReader' = "ready")
      \/ (proxyReader = "unchanged" /\ proxyReader' = "changed")
  BY ProxyWakesReader DEF Link!TypeOK
<1>1. Link!TypeOK'
  BY <1>r DEF Link!TypeOK, Attached, Link!States, Link!Attempts
<1>2. Attached'
  BY <1>r DEF Attached, Link!TypeOK, Link!Attempts
<1>3. Ends'
  BY <1>r DEF Ends, Attached, Link!TypeOK
<1>4. ProxyReading'
  BY <1>r DEF ProxyReading, Attached, Ends, Link!TypeOK, Link!Attempts
<1>5. ProxyAcknowledged'
  BY <1>r DEF ProxyAcknowledged, Link!TypeOK, Attached, Link!Attempts
<1>6. Withdrawn'
  BY <1>r DEF Withdrawn, ProxyAcknowledged, Attached, Link!Loop
<1>7. Counted'
  BY <1>r DEF Counted, Link!MaxRetries, Link!TypeOK, Ends
<1>8. GivenUp'
  BY <1>r DEF GivenUp, Counted, Link!MaxRetries, Link!TypeOK
<1> QED
  BY <1>1, <1>2, <1>3, <1>4, <1>5, <1>6, <1>7, <1>8 DEF ProxyInv

\* The input opens or fails.
LEMMA ProxyOpenIoKeeps == ProxyInv /\ Link!OpenIo /\ UNCHANGED config => ProxyInv'
<1> SUFFICES ASSUME ProxyInv, Link!OpenIo, UNCHANGED config PROVE ProxyInv'
  OBVIOUS
<1> USE DEF Link!ProxyParameters, ProxyInv, Publishing, Unopen, Promised, Unoffered, Waiting,
    Closing, Link!OpenIo, Link!Go, Link!proxyVars, Link!runVars, Link!readVars, Link!stopVars
<1>1. Link!TypeOK'
  BY DEF Link!TypeOK, Attached, Link!States, Link!Attempts
<1>2. Attached'
  BY DEF Attached, Link!TypeOK, Link!Attempts
<1>3. Ends'
  BY DEF Ends, Attached, Link!TypeOK
<1>4. ProxyReading'
  BY DEF ProxyReading, Attached, Ends, Link!TypeOK, Link!Attempts
<1>5. ProxyAcknowledged'
  BY DEF ProxyAcknowledged, Link!TypeOK, Attached, Link!Attempts
<1>6. Withdrawn'
  BY DEF Withdrawn, ProxyAcknowledged, Attached, Link!Loop
<1>7. Counted'
  BY DEF Counted, Link!MaxRetries, Link!TypeOK, Ends
<1>8. GivenUp'
  BY DEF GivenUp, Counted, Link!MaxRetries, Link!TypeOK
<1> QED
  BY <1>1, <1>2, <1>3, <1>4, <1>5, <1>6, <1>7, <1>8 DEF ProxyInv

\* InputChanged for an input that did not open.
LEMMA ProxyUnopenedKeeps == ProxyInv /\ Link!Unopened /\ UNCHANGED config => ProxyInv'
<1> SUFFICES ASSUME ProxyInv, Link!Unopened, UNCHANGED config PROVE ProxyInv'
  OBVIOUS
<1> USE DEF Link!ProxyParameters, ProxyInv, Publishing, Unopen, Promised, Unoffered, Waiting,
    Closing, Link!Unopened, Link!Go, Link!InputChanged, Link!EndsWith, Link!inputVars,
    Link!readVars, Link!stopVars
<1>r. \/ proxyReader' = proxyReader
      \/ (proxyReader = "unready" /\ proxyReader' = "ready")
      \/ (proxyReader = "unchanged" /\ proxyReader' = "changed")
  BY ProxyWakesReader DEF Link!TypeOK
<1>1. Link!TypeOK'
  BY <1>r DEF Link!TypeOK, Attached, Link!States, Link!Attempts
<1>2. Attached'
  BY <1>r DEF Attached, Link!TypeOK, Link!Attempts
<1>3. Ends'
  BY <1>r DEF Ends, Attached, Link!TypeOK
<1>4. ProxyReading'
  BY <1>r DEF ProxyReading, Attached, Ends, Link!TypeOK, Link!Attempts
<1>5. ProxyAcknowledged'
  BY <1>r DEF ProxyAcknowledged, Link!TypeOK, Attached, Link!Attempts
<1>6. Withdrawn'
  BY <1>r DEF Withdrawn, ProxyAcknowledged, Attached, Link!Loop
<1>7. Counted'
  BY <1>r DEF Counted, Link!MaxRetries, Link!TypeOK, Ends
<1>8. GivenUp'
  BY <1>r DEF GivenUp, Counted, Link!MaxRetries, Link!TypeOK
<1> QED
  BY <1>1, <1>2, <1>3, <1>4, <1>5, <1>6, <1>7, <1>8 DEF ProxyInv

\* The description is copied.
LEMMA ProxyOpenedKeeps == ProxyInv /\ Link!Opened /\ UNCHANGED config => ProxyInv'
<1> SUFFICES ASSUME ProxyInv, Link!Opened, UNCHANGED config PROVE ProxyInv'
  OBVIOUS
<1> USE DEF Link!ProxyParameters, ProxyInv, Publishing, Unopen, Promised, Unoffered, Waiting,
    Closing, Link!Opened, Link!Go, Link!inputVars, Link!readVars, Link!stopVars
<1>1. Link!TypeOK'
  BY DEF Link!TypeOK, Attached, Link!States, Link!Attempts
<1>2. Attached'
  BY DEF Attached, Link!TypeOK, Link!Attempts
<1>3. Ends'
  BY DEF Ends, Attached, Link!TypeOK
<1>4. ProxyReading'
  BY DEF ProxyReading, Attached, Ends, Link!TypeOK, Link!Attempts
<1>5. ProxyAcknowledged'
  BY DEF ProxyAcknowledged, Link!TypeOK, Attached, Link!Attempts
<1>6. Withdrawn'
  BY DEF Withdrawn, ProxyAcknowledged, Attached, Link!Loop
<1>7. Counted'
  BY DEF Counted, Link!MaxRetries, Link!TypeOK, Ends
<1>8. GivenUp'
  BY DEF GivenUp, Counted, Link!MaxRetries, Link!TypeOK
<1> QED
  BY <1>1, <1>2, <1>3, <1>4, <1>5, <1>6, <1>7, <1>8 DEF ProxyInv

\* Connected is published.
LEMMA ProxyConnectKeeps == ProxyInv /\ Link!Connect /\ UNCHANGED config => ProxyInv'
<1> SUFFICES ASSUME ProxyInv, Link!Connect, UNCHANGED config PROVE ProxyInv'
  OBVIOUS
<1> USE DEF Link!ProxyParameters, ProxyInv, Publishing, Unopen, Promised, Unoffered, Waiting,
    Closing, Link!Connect, Link!Go, Link!WillPublish, Link!RunOnly, Link!proxyVars,
    Link!inputVars, Link!readVars, Link!stopVars
<1>1. Link!TypeOK'
  BY DEF Link!TypeOK, Attached, Link!States, Link!Attempts
<1>2. Attached'
  BY DEF Attached, Link!TypeOK, Link!Attempts
<1>3. Ends'
  BY DEF Ends, Attached, Link!TypeOK
<1>4. ProxyReading'
  BY DEF ProxyReading, Attached, Ends, Link!TypeOK, Link!Attempts
<1>5. ProxyAcknowledged'
  BY DEF ProxyAcknowledged, Link!TypeOK, Attached, Link!Attempts
<1>6. Withdrawn'
  BY DEF Withdrawn, ProxyAcknowledged, Attached, Link!Loop
<1>7. Counted'
  BY DEF Counted, Link!MaxRetries, Link!TypeOK, Ends
<1>8. GivenUp'
  BY DEF GivenUp, Counted, Link!MaxRetries, Link!TypeOK
<1> QED
  BY <1>1, <1>2, <1>3, <1>4, <1>5, <1>6, <1>7, <1>8 DEF ProxyInv

\* The input is offered to the reader.
LEMMA ProxyOfferKeeps == ProxyInv /\ Link!Offer /\ UNCHANGED config => ProxyInv'
<1> SUFFICES ASSUME ProxyInv, Link!Offer, UNCHANGED config PROVE ProxyInv'
  OBVIOUS
<1> USE DEF Link!ProxyParameters, ProxyInv, Publishing, Unopen, Promised, Unoffered, Waiting,
    Closing, Link!Offer, Link!Go, Link!runVars, Link!inputVars, Link!readVars, Link!stopVars
<1>r. \/ proxyReader' = proxyReader
      \/ (proxyReader = "unready" /\ proxyReader' = "ready")
      \/ (proxyReader = "unchanged" /\ proxyReader' = "changed")
  BY ProxyWakesReader DEF Link!TypeOK
<1>1. Link!TypeOK'
  BY <1>r DEF Link!TypeOK, Attached, Link!States, Link!Attempts
<1>2. Attached'
  BY <1>r DEF Attached, Link!TypeOK, Link!Attempts
<1>3. Ends'
  BY <1>r DEF Ends, Attached, Link!TypeOK
<1>4. ProxyReading'
  BY <1>r DEF ProxyReading, Attached, Ends, Link!TypeOK, Link!Attempts
<1>5. ProxyAcknowledged'
  BY <1>r DEF ProxyAcknowledged, Link!TypeOK, Attached, Link!Attempts
<1>6. Withdrawn'
  BY <1>r DEF Withdrawn, ProxyAcknowledged, Attached, Link!Loop
<1>7. Counted'
  BY <1>r DEF Counted, Link!MaxRetries, Link!TypeOK, Ends
<1>8. GivenUp'
  BY <1>r DEF GivenUp, Counted, Link!MaxRetries, Link!TypeOK
<1> QED
  BY <1>1, <1>2, <1>3, <1>4, <1>5, <1>6, <1>7, <1>8 DEF ProxyInv

\* The worker waits for the end of the input.
LEMMA ProxyAwaitEndKeeps == ProxyInv /\ Link!AwaitEnd /\ UNCHANGED config => ProxyInv'
<1> SUFFICES ASSUME ProxyInv, Link!AwaitEnd, UNCHANGED config PROVE ProxyInv'
  OBVIOUS
<1> USE DEF Link!ProxyParameters, ProxyInv, Publishing, Unopen, Promised, Unoffered, Waiting,
    Closing, Link!AwaitEnd, Link!Go, Link!RunOnly, Link!proxyVars, Link!inputVars, Link!readVars,
    Link!stopVars
<1>1. Link!TypeOK'
  BY DEF Link!TypeOK, Attached, Link!States, Link!Attempts
<1>2. Attached'
  BY DEF Attached, Link!TypeOK, Link!Attempts
<1>3. Ends'
  BY DEF Ends, Attached, Link!TypeOK
<1>4. ProxyReading'
  BY DEF ProxyReading, Attached, Ends, Link!TypeOK, Link!Attempts
<1>5. ProxyAcknowledged'
  BY DEF ProxyAcknowledged, Link!TypeOK, Attached, Link!Attempts
<1>6. Withdrawn'
  BY DEF Withdrawn, ProxyAcknowledged, Attached, Link!Loop
<1>7. Counted'
  BY DEF Counted, Link!MaxRetries, Link!TypeOK, Ends
<1>8. GivenUp'
  BY DEF GivenUp, Counted, Link!MaxRetries, Link!TypeOK
<1> QED
  BY <1>1, <1>2, <1>3, <1>4, <1>5, <1>6, <1>7, <1>8 DEF ProxyInv

\* The input is withdrawn.
LEMMA ProxyRetireKeeps == ProxyInv /\ Link!Retire /\ UNCHANGED config => ProxyInv'
<1> SUFFICES ASSUME ProxyInv, Link!Retire, UNCHANGED config PROVE ProxyInv'
  OBVIOUS
<1> USE DEF Link!ProxyParameters, ProxyInv, Publishing, Unopen, Promised, Unoffered, Waiting,
    Closing, Link!Retire, Link!Go, Link!runVars, Link!inputVars, Link!readVars, Link!stopVars
<1>1. Link!TypeOK'
  <2>1. /\ proxyStopping' \in BOOLEAN /\ available' \in BOOLEAN /\ proxyNews' \in BOOLEAN
       /\ inputCancelled' \in BOOLEAN
    BY DEF Link!TypeOK, Attached, Link!Attempts, Link!States
  <2>2. /\ proxyStatus' \in Link!States /\ publishing' \in Link!States
       /\ terminal' \in {"none", "ended", "failed", "cancelled"}
       /\ outcome' \in {"none", "ended", "failed", "cancelled", "threw"}
       /\ inputState' \in {"closed", "opening", "opened", "ended", "failed", "cancelled"}
    BY DEF Link!TypeOK, Attached, Link!Attempts, Link!States
  <2>3. /\ info' \in {0} \cup Link!Attempts
        /\ currentInput' \in {0} \cup Link!Attempts
        /\ attempt' \in {0} \cup Link!Attempts
       /\ readInput' \in {0} \cup Link!Attempts /\ readInfo' \in {0} \cup Link!Attempts
       /\ retries' \in Nat /\ reopened' \in Nat \cup {-1} /\ sessions' \in Nat
       /\ config' \in Configs
       /\ buffer' \in 0..config'.packets /\ produced' \in 0..config'.packets
    BY DEF Link!TypeOK, Attached, Link!Attempts, Link!States
  <2>4. /\ proxyStopper' \in [Link!Stoppers -> {"idle", "cancel", "join"}]
       /\ stopInput' \in [Link!Stoppers -> {0} \cup Link!Attempts]
       /\ eofs' \in [Link!Attempts -> Nat]
    BY DEF Link!TypeOK, Attached, Link!Attempts, Link!States
  <2> QED
    BY <2>1, <2>2, <2>3, <2>4 DEF Link!TypeOK
<1>2. Attached'
  BY DEF Attached, Link!TypeOK, Link!Attempts
<1>3. Ends'
  BY DEF Ends, Attached, Link!TypeOK
<1>4. ProxyReading'
  BY DEF ProxyReading, Attached, Ends, Link!TypeOK, Link!Attempts
<1>5. ProxyAcknowledged'
  BY DEF ProxyAcknowledged, Link!TypeOK, Attached, Link!Attempts
<1>6. Withdrawn'
  BY DEF Withdrawn, ProxyAcknowledged, Attached, Link!Loop
<1>7. Counted'
  BY DEF Counted, Link!MaxRetries, Link!TypeOK, Ends
<1>8. GivenUp'
  BY DEF GivenUp, Counted, Link!MaxRetries, Link!TypeOK
<1> QED
  BY <1>1, <1>2, <1>3, <1>4, <1>5, <1>6, <1>7, <1>8 DEF ProxyInv

\* Close cancels the input.
LEMMA ProxyCloseCancelsKeeps == ProxyInv /\ Link!CloseCancels /\ UNCHANGED config => ProxyInv'
<1> SUFFICES ASSUME ProxyInv, Link!CloseCancels, UNCHANGED config PROVE ProxyInv'
  OBVIOUS
<1> USE DEF Link!ProxyParameters, ProxyInv, Publishing, Unopen, Promised, Unoffered, Waiting,
    Closing, Link!CloseCancels, Link!Go, Link!proxyVars, Link!runVars, Link!readVars,
    Link!stopVars
<1>1. Link!TypeOK'
  BY DEF Link!TypeOK, Attached, Link!States, Link!Attempts
<1>2. Attached'
  BY DEF Attached, Link!TypeOK, Link!Attempts
<1>3. Ends'
  BY DEF Ends, Attached, Link!TypeOK
<1>4. ProxyReading'
  BY DEF ProxyReading, Attached, Ends, Link!TypeOK, Link!Attempts
<1>5. ProxyAcknowledged'
  BY DEF ProxyAcknowledged, Link!TypeOK, Attached, Link!Attempts
<1>6. Withdrawn'
  BY DEF Withdrawn, ProxyAcknowledged, Attached, Link!Loop
<1>7. Counted'
  BY DEF Counted, Link!MaxRetries, Link!TypeOK, Ends
<1>8. GivenUp'
  BY DEF GivenUp, Counted, Link!MaxRetries, Link!TypeOK
<1> QED
  BY <1>1, <1>2, <1>3, <1>4, <1>5, <1>6, <1>7, <1>8 DEF ProxyInv

\* Close joins the thread of the input.
LEMMA ProxyCloseJoinsKeeps == ProxyInv /\ Link!CloseJoins /\ UNCHANGED config => ProxyInv'
<1> SUFFICES ASSUME ProxyInv, Link!CloseJoins, UNCHANGED config PROVE ProxyInv'
  OBVIOUS
<1> USE DEF Link!ProxyParameters, ProxyInv, Publishing, Unopen, Promised, Unoffered, Waiting,
    Closing, Link!CloseJoins, Link!Go, Link!proxyVars, Link!runVars, Link!readVars, Link!stopVars
<1>1. Link!TypeOK'
  BY DEF Link!TypeOK, Attached, Link!States, Link!Attempts
<1>2. Attached'
  BY DEF Attached, Link!TypeOK, Link!Attempts
<1>3. Ends'
  BY DEF Ends, Attached, Link!TypeOK
<1>4. ProxyReading'
  BY DEF ProxyReading, Attached, Ends, Link!TypeOK, Link!Attempts
<1>5. ProxyAcknowledged'
  BY DEF ProxyAcknowledged, Link!TypeOK, Attached, Link!Attempts
<1>6. Withdrawn'
  BY DEF Withdrawn, ProxyAcknowledged, Attached, Link!Loop
<1>7. Counted'
  BY DEF Counted, Link!MaxRetries, Link!TypeOK, Ends
<1>8. GivenUp'
  BY DEF GivenUp, Counted, Link!MaxRetries, Link!TypeOK
<1> QED
  BY <1>1, <1>2, <1>3, <1>4, <1>5, <1>6, <1>7, <1>8 DEF ProxyInv

\* The input is dropped.
LEMMA ProxyUnsetKeeps == ProxyInv /\ Link!Unset /\ UNCHANGED config => ProxyInv'
<1> SUFFICES ASSUME ProxyInv, Link!Unset, UNCHANGED config PROVE ProxyInv'
  OBVIOUS
<1> USE DEF Link!ProxyParameters, ProxyInv, Publishing, Unopen, Promised, Unoffered, Waiting,
    Closing, Link!Unset, Link!Go, Link!runVars, Link!inputVars, Link!readVars, Link!stopVars
<1>r. \/ proxyReader' = proxyReader
      \/ (proxyReader = "unready" /\ proxyReader' = "ready")
      \/ (proxyReader = "unchanged" /\ proxyReader' = "changed")
  BY ProxyWakesReader DEF Link!TypeOK
<1>1. Link!TypeOK'
  BY <1>r DEF Link!TypeOK, Attached, Link!States, Link!Attempts
<1>2. Attached'
  BY <1>r DEF Attached, Link!TypeOK, Link!Attempts
<1>3. Ends'
  BY <1>r DEF Ends, Attached, Link!TypeOK
<1>4. ProxyReading'
  BY <1>r DEF ProxyReading, Attached, Ends, Link!TypeOK, Link!Attempts
<1>5. ProxyAcknowledged'
  BY <1>r DEF ProxyAcknowledged, Link!TypeOK, Attached, Link!Attempts
<1>6. Withdrawn'
  BY <1>r DEF Withdrawn, ProxyAcknowledged, Attached, Link!Loop
<1>7. Counted'
  BY <1>r DEF Counted, Link!MaxRetries, Link!TypeOK, Ends
<1>8. GivenUp'
  BY <1>r DEF GivenUp, Counted, Link!MaxRetries, Link!TypeOK
<1> QED
  BY <1>1, <1>2, <1>3, <1>4, <1>5, <1>6, <1>7, <1>8 DEF ProxyInv

\* What the end of an attempt leads to.
LEMMA ProxyDecideKeeps == ProxyInv /\ Link!Decide /\ UNCHANGED config => ProxyInv'
<1> SUFFICES ASSUME ProxyInv, Link!Decide, UNCHANGED config PROVE ProxyInv'
  OBVIOUS
<1> USE DEF Link!ProxyParameters, ProxyInv, Publishing, Unopen, Promised, Unoffered, Waiting,
    Closing, Link!Decide, Link!Go, Link!WillPublish, Link!Exhausted, Link!RunOnly, Link!proxyVars,
    Link!inputVars, Link!readVars, Link!stopVars
<1>1. Link!TypeOK'
  BY DEF Link!TypeOK, Attached, Link!States, Link!Attempts
<1>2. Attached'
  BY DEF Attached, Link!TypeOK, Link!Attempts
<1>3. Ends'
  BY DEF Ends, Attached, Link!TypeOK
<1>4. ProxyReading'
  BY DEF ProxyReading, Attached, Ends, Link!TypeOK, Link!Attempts
<1>5. ProxyAcknowledged'
  BY DEF ProxyAcknowledged, Link!TypeOK, Attached, Link!Attempts
<1>6. Withdrawn'
  BY DEF Withdrawn, ProxyAcknowledged, Attached, Link!Loop
<1>7. Counted'
  BY DEF Counted, Link!MaxRetries, Link!TypeOK, Ends
<1>8. GivenUp'
  BY DEF GivenUp, Counted, Link!MaxRetries, Link!TypeOK
<1> QED
  BY <1>1, <1>2, <1>3, <1>4, <1>5, <1>6, <1>7, <1>8 DEF ProxyInv

\* The worker waits for the next retry.
LEMMA ProxyAwaitRetryKeeps == ProxyInv /\ Link!AwaitRetry /\ UNCHANGED config => ProxyInv'
<1> SUFFICES ASSUME ProxyInv, Link!AwaitRetry, UNCHANGED config PROVE ProxyInv'
  OBVIOUS
<1> USE DEF Link!ProxyParameters, ProxyInv, Publishing, Unopen, Promised, Unoffered, Waiting,
    Closing, Link!AwaitRetry, Link!Go, Link!WillPublish, Link!RunOnly, Link!proxyVars,
    Link!inputVars, Link!readVars, Link!stopVars
<1>1. Link!TypeOK'
  BY DEF Link!TypeOK, Attached, Link!States, Link!Attempts
<1>2. Attached'
  BY DEF Attached, Link!TypeOK, Link!Attempts
<1>3. Ends'
  BY DEF Ends, Attached, Link!TypeOK
<1>4. ProxyReading'
  BY DEF ProxyReading, Attached, Ends, Link!TypeOK, Link!Attempts
<1>5. ProxyAcknowledged'
  BY DEF ProxyAcknowledged, Link!TypeOK, Attached, Link!Attempts
<1>6. Withdrawn'
  BY DEF Withdrawn, ProxyAcknowledged, Attached, Link!Loop
<1>7. Counted'
  BY DEF Counted, Link!MaxRetries, Link!TypeOK, Ends
<1>8. GivenUp'
  BY DEF GivenUp, Counted, Link!MaxRetries, Link!TypeOK
<1> QED
  BY <1>1, <1>2, <1>3, <1>4, <1>5, <1>6, <1>7, <1>8 DEF ProxyInv

\* The delay has passed.
LEMMA ProxyRetryDueKeeps == ProxyInv /\ Link!RetryDue /\ UNCHANGED config => ProxyInv'
<1> SUFFICES ASSUME ProxyInv, Link!RetryDue, UNCHANGED config PROVE ProxyInv'
  OBVIOUS
<1> USE DEF Link!ProxyParameters, ProxyInv, Publishing, Unopen, Promised, Unoffered, Waiting,
    Closing, Link!RetryDue, Link!Go, Link!RunOnly, Link!proxyVars, Link!runVars, Link!inputVars,
    Link!readVars, Link!stopVars
<1>1. Link!TypeOK'
  BY DEF Link!TypeOK, Attached, Link!States, Link!Attempts
<1>2. Attached'
  BY DEF Attached, Link!TypeOK, Link!Attempts
<1>3. Ends'
  BY DEF Ends, Attached, Link!TypeOK
<1>4. ProxyReading'
  BY DEF ProxyReading, Attached, Ends, Link!TypeOK, Link!Attempts
<1>5. ProxyAcknowledged'
  BY DEF ProxyAcknowledged, Link!TypeOK, Attached, Link!Attempts
<1>6. Withdrawn'
  BY DEF Withdrawn, ProxyAcknowledged, Attached, Link!Loop
<1>7. Counted'
  BY DEF Counted, Link!MaxRetries, Link!TypeOK, Ends
<1>8. GivenUp'
  BY DEF GivenUp, Counted, Link!MaxRetries, Link!TypeOK
<1> QED
  BY <1>1, <1>2, <1>3, <1>4, <1>5, <1>6, <1>7, <1>8 DEF ProxyInv

\* The outer handler.
LEMMA ProxyThrewKeeps == ProxyInv /\ Link!Threw /\ UNCHANGED config => ProxyInv'
<1> SUFFICES ASSUME ProxyInv, Link!Threw, UNCHANGED config PROVE ProxyInv'
  OBVIOUS
<1> USE DEF Link!ProxyParameters, ProxyInv, Publishing, Unopen, Promised, Unoffered, Waiting,
    Closing, Link!Threw, Link!Go, Link!WillPublish, Link!RunOnly, Link!proxyVars, Link!inputVars,
    Link!readVars, Link!stopVars
<1>1. Link!TypeOK'
  BY DEF Link!TypeOK, Attached, Link!States, Link!Attempts
<1>2. Attached'
  BY DEF Attached, Link!TypeOK, Link!Attempts
<1>3. Ends'
  BY DEF Ends, Attached, Link!TypeOK
<1>4. ProxyReading'
  BY DEF ProxyReading, Attached, Ends, Link!TypeOK, Link!Attempts
<1>5. ProxyAcknowledged'
  BY DEF ProxyAcknowledged, Link!TypeOK, Attached, Link!Attempts
<1>6. Withdrawn'
  BY DEF Withdrawn, ProxyAcknowledged, Attached, Link!Loop
<1>7. Counted'
  BY DEF Counted, Link!MaxRetries, Link!TypeOK, Ends
<1>8. GivenUp'
  BY DEF GivenUp, Counted, Link!MaxRetries, Link!TypeOK
<1> QED
  BY <1>1, <1>2, <1>3, <1>4, <1>5, <1>6, <1>7, <1>8 DEF ProxyInv

\* The control worker returns.
LEMMA ProxyExitKeeps == ProxyInv /\ Link!Exit /\ UNCHANGED config => ProxyInv'
<1> SUFFICES ASSUME ProxyInv, Link!Exit, UNCHANGED config PROVE ProxyInv'
  OBVIOUS
<1> USE DEF Link!ProxyParameters, ProxyInv, Publishing, Unopen, Promised, Unoffered, Waiting,
    Closing, Link!Exit, Link!Go, Link!RunOnly, Link!proxyVars, Link!runVars, Link!inputVars,
    Link!readVars, Link!stopVars
<1>1. Link!TypeOK'
  BY DEF Link!TypeOK, Attached, Link!States, Link!Attempts
<1>2. Attached'
  BY DEF Attached, Link!TypeOK, Link!Attempts
<1>3. Ends'
  BY DEF Ends, Attached, Link!TypeOK
<1>4. ProxyReading'
  BY DEF ProxyReading, Attached, Ends, Link!TypeOK, Link!Attempts
<1>5. ProxyAcknowledged'
  BY DEF ProxyAcknowledged, Link!TypeOK, Attached, Link!Attempts
<1>6. Withdrawn'
  BY DEF Withdrawn, ProxyAcknowledged, Attached, Link!Loop
<1>7. Counted'
  BY DEF Counted, Link!MaxRetries, Link!TypeOK, Ends
<1>8. GivenUp'
  BY DEF GivenUp, Counted, Link!MaxRetries, Link!TypeOK
<1> QED
  BY <1>1, <1>2, <1>3, <1>4, <1>5, <1>6, <1>7, <1>8 DEF ProxyInv

\* The input demuxes a packet.
LEMMA ProxyDemuxKeeps == ProxyInv /\ Link!Demux /\ UNCHANGED config => ProxyInv'
<1> SUFFICES ASSUME ProxyInv, Link!Demux, UNCHANGED config PROVE ProxyInv'
  OBVIOUS
<1> USE DEF Link!ProxyParameters, ProxyInv, Publishing, Unopen, Promised, Unoffered, Waiting,
    Closing, Link!Demux, Link!InputOnly, Link!proxyVars, Link!runVars, Link!readVars,
    Link!stopVars
<1>1. Link!TypeOK'
  BY DEF Link!TypeOK, Attached, Link!States, Link!Attempts
<1>2. Attached'
  BY DEF Attached, Link!TypeOK, Link!Attempts
<1>3. Ends'
  BY DEF Ends, Attached, Link!TypeOK
<1>4. ProxyReading'
  BY DEF ProxyReading, Attached, Ends, Link!TypeOK, Link!Attempts
<1>5. ProxyAcknowledged'
  BY DEF ProxyAcknowledged, Link!TypeOK, Attached, Link!Attempts
<1>6. Withdrawn'
  BY DEF Withdrawn, ProxyAcknowledged, Attached, Link!Loop
<1>7. Counted'
  BY DEF Counted, Link!MaxRetries, Link!TypeOK, Ends
<1>8. GivenUp'
  BY DEF GivenUp, Counted, Link!MaxRetries, Link!TypeOK
<1> QED
  BY <1>1, <1>2, <1>3, <1>4, <1>5, <1>6, <1>7, <1>8 DEF ProxyInv

\* The input comes to an end.
LEMMA ProxyInputEndsKeeps == ProxyInv /\ Link!InputEnds /\ UNCHANGED config => ProxyInv'
<1> SUFFICES ASSUME ProxyInv, Link!InputEnds, UNCHANGED config PROVE ProxyInv'
  OBVIOUS
<1> USE DEF Link!ProxyParameters, ProxyInv, Publishing, Unopen, Promised, Unoffered, Waiting,
    Closing, Link!InputEnds, Link!InputOnly, Link!proxyVars, Link!runVars, Link!readVars,
    Link!stopVars
<1>1. Link!TypeOK'
  BY DEF Link!TypeOK, Attached, Link!States, Link!Attempts
<1>2. Attached'
  BY DEF Attached, Link!TypeOK, Link!Attempts
<1>3. Ends'
  BY DEF Ends, Attached, Link!TypeOK
<1>4. ProxyReading'
  BY DEF ProxyReading, Attached, Ends, Link!TypeOK, Link!Attempts
<1>5. ProxyAcknowledged'
  BY DEF ProxyAcknowledged, Link!TypeOK, Attached, Link!Attempts
<1>6. Withdrawn'
  BY DEF Withdrawn, ProxyAcknowledged, Attached, Link!Loop
<1>7. Counted'
  BY DEF Counted, Link!MaxRetries, Link!TypeOK, Ends
<1>8. GivenUp'
  BY DEF GivenUp, Counted, Link!MaxRetries, Link!TypeOK
<1> QED
  BY <1>1, <1>2, <1>3, <1>4, <1>5, <1>6, <1>7, <1>8 DEF ProxyInv

\* InputChanged for the end of an input.
LEMMA ProxyInputReportsKeeps == ProxyInv /\ Link!InputReports /\ UNCHANGED config => ProxyInv'
<1> SUFFICES ASSUME ProxyInv, Link!InputReports, UNCHANGED config PROVE ProxyInv'
  OBVIOUS
<1> USE DEF Link!ProxyParameters, ProxyInv, Publishing, Unopen, Promised, Unoffered, Waiting,
    Closing, Link!InputReports, Link!InputChanged, Link!EndsWith, Link!runVars, Link!readVars,
    Link!stopVars
<1>r. \/ proxyReader' = proxyReader
      \/ (proxyReader = "unready" /\ proxyReader' = "ready")
      \/ (proxyReader = "unchanged" /\ proxyReader' = "changed")
  BY ProxyWakesReader DEF Link!TypeOK
<1>c. \/ control' = control
      \/ (control = "waiting" /\ control' = "wait")
      \/ (control = "retrying" /\ control' = "retry")
  BY ProxyWakesControl DEF Link!TypeOK
<1>1. Link!TypeOK'
  BY <1>r, <1>c DEF Link!TypeOK, Attached, Link!States, Link!Attempts
<1>2. Attached'
  BY <1>r, <1>c DEF Attached, Link!TypeOK, Link!Attempts
<1>3. Ends'
  BY <1>r, <1>c DEF Ends, Attached, Link!TypeOK
<1>4. ProxyReading'
  BY <1>r, <1>c DEF ProxyReading, Attached, Ends, Link!TypeOK, Link!Attempts
<1>5. ProxyAcknowledged'
  BY <1>r, <1>c DEF ProxyAcknowledged, Link!TypeOK, Attached, Link!Attempts
<1>6. Withdrawn'
  BY <1>r, <1>c DEF Withdrawn, ProxyAcknowledged, Attached, Link!Loop
<1>7. Counted'
  BY <1>r, <1>c DEF Counted, Link!MaxRetries, Link!TypeOK, Ends
<1>8. GivenUp'
  BY <1>r, <1>c DEF GivenUp, Counted, Link!MaxRetries, Link!TypeOK
<1> QED
  BY <1>1, <1>2, <1>3, <1>4, <1>5, <1>6, <1>7, <1>8 DEF ProxyInv

\* A read begins.
LEMMA ProxyReadKeeps ==
  ASSUME NEW m \in {"wait", "try", "change"}
  PROVE ProxyInv /\ Link!Read(m) /\ UNCHANGED config => ProxyInv'
<1> SUFFICES ASSUME ProxyInv, Link!Read(m), UNCHANGED config PROVE ProxyInv'
  OBVIOUS
<1> USE DEF Link!ProxyParameters, ProxyInv, Publishing, Unopen, Promised, Unoffered, Waiting,
    Closing, Link!Read, Link!ReadOnly, Link!runVars, Link!stopVars, Link!inputVars
<1>1. Link!TypeOK'
  BY DEF Link!TypeOK, Attached, Link!States, Link!Attempts
<1>2. Attached'
  BY DEF Attached, Link!TypeOK, Link!Attempts
<1>3. Ends'
  BY DEF Ends, Attached, Link!TypeOK
<1>4. ProxyReading'
  BY DEF ProxyReading, Attached, Ends, Link!TypeOK, Link!Attempts
<1>5. ProxyAcknowledged'
  BY DEF ProxyAcknowledged, Link!TypeOK, Attached, Link!Attempts
<1>6. Withdrawn'
  BY DEF Withdrawn, ProxyAcknowledged, Attached, Link!Loop
<1>7. Counted'
  BY DEF Counted, Link!MaxRetries, Link!TypeOK, Ends
<1>8. GivenUp'
  BY DEF GivenUp, Counted, Link!MaxRetries, Link!TypeOK
<1> QED
  BY <1>1, <1>2, <1>3, <1>4, <1>5, <1>6, <1>7, <1>8 DEF ProxyInv

\* The reader waits for an input on offer.
LEMMA ProxyEnterKeeps == ProxyInv /\ Link!Enter /\ UNCHANGED config => ProxyInv'
<1> SUFFICES ASSUME ProxyInv, Link!Enter, UNCHANGED config PROVE ProxyInv'
  OBVIOUS
<1> USE DEF Link!ProxyParameters, ProxyInv, Publishing, Unopen, Promised, Unoffered, Waiting,
    Closing, Link!Enter, Link!ReadOnly, Link!runVars, Link!stopVars, Link!inputVars
<1>1. Link!TypeOK'
  <2>1. /\ proxyStopping' \in BOOLEAN /\ available' \in BOOLEAN /\ proxyNews' \in BOOLEAN
       /\ inputCancelled' \in BOOLEAN
    BY DEF Link!TypeOK, Attached, Link!Attempts, Link!States
  <2>2. /\ proxyStatus' \in Link!States /\ publishing' \in Link!States
       /\ terminal' \in {"none", "ended", "failed", "cancelled"}
       /\ outcome' \in {"none", "ended", "failed", "cancelled", "threw"}
       /\ inputState' \in {"closed", "opening", "opened", "ended", "failed", "cancelled"}
    BY DEF Link!TypeOK, Attached, Link!Attempts, Link!States
  <2>3. /\ info' \in {0} \cup Link!Attempts
        /\ currentInput' \in {0} \cup Link!Attempts
        /\ attempt' \in {0} \cup Link!Attempts
       /\ readInput' \in {0} \cup Link!Attempts /\ readInfo' \in {0} \cup Link!Attempts
       /\ retries' \in Nat /\ reopened' \in Nat \cup {-1} /\ sessions' \in Nat
       /\ config' \in Configs
       /\ buffer' \in 0..config'.packets /\ produced' \in 0..config'.packets
    BY DEF Link!TypeOK, Attached, Link!Attempts, Link!States
  <2>4. /\ proxyStopper' \in [Link!Stoppers -> {"idle", "cancel", "join"}]
       /\ stopInput' \in [Link!Stoppers -> {0} \cup Link!Attempts]
       /\ eofs' \in [Link!Attempts -> Nat]
    BY DEF Link!TypeOK, Attached, Link!Attempts, Link!States
  <2> QED
    BY <2>1, <2>2, <2>3, <2>4 DEF Link!TypeOK
<1>2. Attached'
  BY DEF Attached, Link!TypeOK, Link!Attempts
<1>3. Ends'
  BY DEF Ends, Attached, Link!TypeOK
<1>4. ProxyReading'
  BY DEF ProxyReading, Attached, Ends, Link!TypeOK, Link!Attempts
<1>5. ProxyAcknowledged'
  BY DEF ProxyAcknowledged, Link!TypeOK, Attached, Link!Attempts
<1>6. Withdrawn'
  BY DEF Withdrawn, ProxyAcknowledged, Attached, Link!Loop
<1>7. Counted'
  BY DEF Counted, Link!MaxRetries, Link!TypeOK, Ends
<1>8. GivenUp'
  BY DEF GivenUp, Counted, Link!MaxRetries, Link!TypeOK
<1> QED
  BY <1>1, <1>2, <1>3, <1>4, <1>5, <1>6, <1>7, <1>8 DEF ProxyInv

\* The reader reads the input.
LEMMA ProxyReadInputKeeps == ProxyInv /\ Link!ReadInput /\ UNCHANGED config => ProxyInv'
<1> SUFFICES ASSUME ProxyInv, Link!ReadInput, UNCHANGED config PROVE ProxyInv'
  OBVIOUS
<1> USE DEF Link!ProxyParameters, ProxyInv, Publishing, Unopen, Promised, Unoffered, Waiting,
    Closing, Link!ReadInput, Link!Live, Link!ReadOnly, Link!runVars, Link!stopVars, Link!readVars
<1>1. Link!TypeOK'
  BY DEF Link!TypeOK, Attached, Link!States, Link!Attempts
<1>2. Attached'
  BY DEF Attached, Link!TypeOK, Link!Attempts
<1>3. Ends'
  BY DEF Ends, Attached, Link!TypeOK
<1>4. ProxyReading'
  BY DEF ProxyReading, Attached, Ends, Link!TypeOK, Link!Attempts
<1>5. ProxyAcknowledged'
  BY DEF ProxyAcknowledged, Link!TypeOK, Attached, Link!Attempts
<1>6. Withdrawn'
  BY DEF Withdrawn, ProxyAcknowledged, Attached, Link!Loop
<1>7. Counted'
  BY DEF Counted, Link!MaxRetries, Link!TypeOK, Ends
<1>8. GivenUp'
  BY DEF GivenUp, Counted, Link!MaxRetries, Link!TypeOK
<1> QED
  BY <1>1, <1>2, <1>3, <1>4, <1>5, <1>6, <1>7, <1>8 DEF ProxyInv

\* The reader acknowledges an EOF.
LEMMA ProxyAcknowledgeEofKeeps == ProxyInv /\ Link!AcknowledgeEof /\ UNCHANGED config => ProxyInv'
<1> SUFFICES ASSUME ProxyInv, Link!AcknowledgeEof, UNCHANGED config PROVE ProxyInv'
  OBVIOUS
<1> USE DEF Link!ProxyParameters, ProxyInv, Publishing, Unopen, Promised, Unoffered, Waiting,
    Closing, Link!AcknowledgeEof, Link!OfferAfterEof, Link!ReadOnly, Link!runVars, Link!stopVars,
    Link!inputVars
<1>c. \/ control' = control
      \/ (control = "waiting" /\ control' = "wait")
      \/ (control = "retrying" /\ control' = "retry")
  BY ProxyWakesControl DEF Link!TypeOK
<1>1. Link!TypeOK'
  BY <1>c DEF Link!TypeOK, ProxyReading, Attached
<1>2. Attached'
  BY <1>c DEF Attached, Link!TypeOK, Link!Attempts
<1>3. Ends'
  BY <1>c DEF Ends, Attached, Link!TypeOK, ProxyReading
<1>4. ProxyReading'
  BY <1>c DEF ProxyReading, Attached, Ends, Link!TypeOK, Link!Attempts
<1>5. ProxyAcknowledged'
  BY <1>c DEF ProxyAcknowledged, Link!TypeOK, Attached, ProxyReading
<1>6. Withdrawn'
  BY <1>c DEF Withdrawn, ProxyAcknowledged, Attached, Link!Loop, ProxyReading, Ends, Link!TypeOK
<1>7. Counted'
  BY <1>c DEF Counted, Link!MaxRetries, Link!TypeOK, Ends
<1>8. GivenUp'
  BY <1>c DEF GivenUp, Counted, Link!MaxRetries, Link!TypeOK
<1> QED
  BY <1>1, <1>2, <1>3, <1>4, <1>5, <1>6, <1>7, <1>8 DEF ProxyInv

\* The reader waits for a change.
LEMMA ProxyAwaitChangeKeeps == ProxyInv /\ Link!AwaitChange /\ UNCHANGED config => ProxyInv'
<1> SUFFICES ASSUME ProxyInv, Link!AwaitChange, UNCHANGED config PROVE ProxyInv'
  OBVIOUS
<1> USE DEF Link!ProxyParameters, ProxyInv, Publishing, Unopen, Promised, Unoffered, Waiting,
    Closing, Link!AwaitChange, Link!ReadOnly, Link!runVars, Link!stopVars, Link!inputVars,
    Link!readVars
<1>1. Link!TypeOK'
  BY DEF Link!TypeOK, Attached, Link!States, Link!Attempts
<1>2. Attached'
  BY DEF Attached, Link!TypeOK, Link!Attempts
<1>3. Ends'
  BY DEF Ends, Attached, Link!TypeOK
<1>4. ProxyReading'
  BY DEF ProxyReading, Attached, Ends, Link!TypeOK, Link!Attempts
<1>5. ProxyAcknowledged'
  BY DEF ProxyAcknowledged, Link!TypeOK, Attached, Link!Attempts
<1>6. Withdrawn'
  BY DEF Withdrawn, ProxyAcknowledged, Attached, Link!Loop
<1>7. Counted'
  BY DEF Counted, Link!MaxRetries, Link!TypeOK, Ends
<1>8. GivenUp'
  BY DEF GivenUp, Counted, Link!MaxRetries, Link!TypeOK
<1> QED
  BY <1>1, <1>2, <1>3, <1>4, <1>5, <1>6, <1>7, <1>8 DEF ProxyInv

\* Every step of the proxy keeps the invariant.
LEMMA ProxyStepKeeps == ProxyInv /\ [Link!Next]_(Link!vars) => ProxyInv'
<1> SUFFICES ASSUME ProxyInv, [Link!Next]_(Link!vars) PROVE ProxyInv'
  OBVIOUS
<1>1. CASE Link!Next
  <2> UNCHANGED config /\ Link!Step
    BY <1>1 DEF Link!Next
  <2>1. CASE \/ Link!Start
             \/ Link!Join
             \/ \E p \in Link!Stoppers : Link!RequestStop(p) \/ Link!CancelInput(p)
    BY <2>1, ProxyStartKeeps, ProxyJoinKeeps, ProxyRequestStopKeeps, ProxyCancelInputKeeps
  <2>2. CASE Link!Publish \/ Link!PublishNews \/ Link!Look \/ Link!Create
             \/ Link!Prepare \/ Link!Open \/ Link!Opening
    BY <2>2, ProxyPublishKeeps, ProxyPublishNewsKeeps, ProxyLookKeeps, ProxyCreateKeeps,
       ProxyPrepareKeeps,
       ProxyOpenKeeps, ProxyOpeningKeeps
  <2>3. CASE Link!Unopened \/ Link!Opened \/ Link!Connect \/ Link!Offer
             \/ Link!AwaitEnd \/ Link!Retire \/ Link!CloseCancels
    BY <2>3, ProxyUnopenedKeeps, ProxyOpenedKeeps, ProxyConnectKeeps, ProxyOfferKeeps,
       ProxyAwaitEndKeeps,
       ProxyRetireKeeps, ProxyCloseCancelsKeeps
  <2>4. CASE Link!CloseJoins \/ Link!Unset \/ Link!Decide \/ Link!AwaitRetry
             \/ Link!RetryDue \/ Link!Threw \/ Link!Exit
    BY <2>4, ProxyCloseJoinsKeeps, ProxyUnsetKeeps, ProxyDecideKeeps, ProxyAwaitRetryKeeps,
       ProxyRetryDueKeeps,
       ProxyThrewKeeps, ProxyExitKeeps
  <2>5. CASE Link!OpenIo \/ Link!Demux \/ Link!InputEnds \/ Link!InputReports
    BY <2>5, ProxyOpenIoKeeps, ProxyDemuxKeeps, ProxyInputEndsKeeps, ProxyInputReportsKeeps
  <2>6. CASE (\E m \in config.reads : Link!Read(m)) \/ Link!ReaderStep
    <3>1. config.reads \subseteq {"wait", "try", "change"}
      BY DEF ProxyInv, Link!TypeOK, Link!ProxyParameters
    <3> QED
      BY <2>6, <3>1, ProxyReadKeeps, ProxyEnterKeeps, ProxyReadInputKeeps,
         ProxyAcknowledgeEofKeeps, ProxyAwaitChangeKeeps
      DEF Link!ReaderStep
  <2> QED
    BY <2>1, <2>2, <2>3, <2>4, <2>5, <2>6 DEF Link!Step, Link!Control
<1>2. CASE UNCHANGED Link!vars
  <2> USE <1>2 DEF Link!vars, Link!proxyVars, Link!runVars, Link!inputVars, Link!readVars,
      Link!stopVars, ProxyInv, Publishing, Unopen, Promised, Unoffered, Waiting, Closing
  <2>1. Link!TypeOK'
    BY DEF Link!TypeOK
  <2>2. Attached'
    BY DEF Attached
  <2>3. Ends'
    BY DEF Ends
  <2>4. ProxyReading'
    BY DEF ProxyReading
  <2>5. ProxyAcknowledged'
    BY DEF ProxyAcknowledged
  <2>6. Withdrawn'
    BY DEF Withdrawn, Link!Loop
  <2>7. Counted'
    BY DEF Counted, Link!MaxRetries
  <2>8. GivenUp'
    BY DEF GivenUp, Link!MaxRetries
  <2> QED
    BY <2>1, <2>2, <2>3, <2>4, <2>5, <2>6, <2>7, <2>8 DEF ProxyInv
<1> QED
  BY <1>1, <1>2

\* A proxy that was never started has nothing to match.
LEMMA ProxyInitKeeps == Link!ProxyParameters /\ Link!Init => ProxyInv
<1> SUFFICES ASSUME Link!ProxyParameters, Link!Init PROVE ProxyInv
  OBVIOUS
<1> USE DEF Link!ProxyParameters, Link!Init, Publishing, Unopen, Promised, Unoffered, Waiting,
    Closing
<1>1. Link!TypeOK
  <2>1. /\ proxyStopping \in BOOLEAN /\ available \in BOOLEAN /\ proxyNews \in BOOLEAN
       /\ inputCancelled \in BOOLEAN
    BY DEF Link!TypeOK, Link!Attempts, Link!Stoppers, Link!States
  <2>2. /\ proxyStatus \in Link!States /\ publishing \in Link!States
       /\ terminal \in {"none", "ended", "failed", "cancelled"}
       /\ outcome \in {"none", "ended", "failed", "cancelled", "threw"}
       /\ inputState \in {"closed", "opening", "opened", "ended", "failed", "cancelled"}
    BY DEF Link!TypeOK, Link!Attempts, Link!Stoppers, Link!States
  <2>3. /\ info \in {0} \cup Link!Attempts
        /\ currentInput \in {0} \cup Link!Attempts
        /\ attempt \in {0} \cup Link!Attempts
       /\ readInput \in {0} \cup Link!Attempts /\ readInfo \in {0} \cup Link!Attempts
       /\ retries \in Nat /\ reopened \in Nat \cup {-1} /\ sessions \in Nat
       /\ config \in Configs
       /\ buffer \in 0..config.packets /\ produced \in 0..config.packets
    BY DEF Link!TypeOK, Link!Attempts, Link!Stoppers, Link!States
  <2>4. /\ proxyStopper \in [Link!Stoppers -> {"idle", "cancel", "join"}]
       /\ stopInput \in [Link!Stoppers -> {0} \cup Link!Attempts]
       /\ eofs \in [Link!Attempts -> Nat]
    BY DEF Link!TypeOK, Link!Attempts, Link!Stoppers, Link!States
  <2> QED
    BY <2>1, <2>2, <2>3, <2>4 DEF Link!TypeOK
<1>2. Attached
  BY DEF Attached, Link!Attempts, Link!Stoppers, Link!Loop, Link!MaxRetries, Link!States
<1>3. Ends
  BY DEF Ends, Link!Attempts, Link!Stoppers, Link!Loop, Link!MaxRetries, Link!States
<1>4. ProxyReading
  BY DEF ProxyReading, Link!Attempts, Link!Stoppers, Link!Loop, Link!MaxRetries, Link!States
<1>5. ProxyAcknowledged
  BY DEF ProxyAcknowledged, Link!Attempts, Link!Stoppers, Link!Loop, Link!MaxRetries, Link!States
<1>6. Withdrawn
  BY DEF Withdrawn, Link!Attempts, Link!Stoppers, Link!Loop, Link!MaxRetries, Link!States
<1>7. Counted
  BY DEF Counted, Link!Attempts, Link!Stoppers, Link!Loop, Link!MaxRetries, Link!States
<1>8. GivenUp
  BY DEF GivenUp, Link!Attempts, Link!Stoppers, Link!Loop, Link!MaxRetries, Link!States
<1> QED
  BY <1>1, <1>2, <1>3, <1>4, <1>5, <1>6, <1>7, <1>8 DEF ProxyInv

\* The invariant holds in every session.
LEMMA ProxyInvariance == ProxySpec => []ProxyInv
BY ProxyAssumption, ProxyInitKeeps, ProxyStepKeeps, PTL DEF ProxySpec, Link!Spec

\* A packet and an EOF are returned with the description of the input they come
\* from: the reader copies both under mutex_, and the input is on offer only
\* while its own description is the published one (ReadPacket, Run, Retire).
THEOREM DescriptionsMatch == ProxySpec => []InfoMatchesInput
<1>1. ProxyInv => InfoMatchesInput
  BY DEF ProxyInv, ProxyReading, InfoMatchesInput, Link!InfoMatchesInput
<1> QED
  BY <1>1, ProxyInvariance, PTL

\* Each EOF is seen before its input is replaced, and a looping input reports it
\* once, for any stops, failures and replacements in between (ReadPacket,
\* InputChanged, Run).
THEOREM EofsSeenOnce == ProxySpec => []EofSeenOnce
<1>1. ProxyInv => EofSeenOnce
  BY DEF ProxyInv, ProxyAcknowledged, Withdrawn, EofSeenOnce, Link!EofSeenOnce
<1> QED
  BY <1>1, ProxyInvariance, PTL

\* A proxy that gives up has made exactly max_retries attempts after the first
\* or after the last success, whatever loops and failures came before (Run).
THEOREM RetriesExact == ProxySpec => []RetryBudget
<1>1. ProxyInv => RetryBudget
  BY DEF ProxyInv, GivenUp, RetryBudget, Link!RetryBudget
<1> QED
  BY <1>1, ProxyInvariance, PTL

\* An input that is not closed is the one that Run is opening, using or closing,
\* and one that it is opening is not.
Occupied ==
  /\ inputState # "closed" =>
       \/ control \in {"opening", "io", "unopened", "opened", "retire", "cancel", "join"}
       \/ Promised \/ Waiting
  /\ control \in {"opening", "io"} => inputState # "closed"

\* Every step of the proxy leaves such an input to itself; only the end of Close
\* closes it, and only Open makes one that is not closed.
LEMMA OccupiedKept ==
  ProxyInv /\ Occupied /\ [Link!Next]_(Link!vars) => Occupied'
<1> SUFFICES ASSUME ProxyInv, Occupied, [Link!Next]_(Link!vars) PROVE Occupied'
  OBVIOUS
<1> USE DEF Occupied, Publishing, Promised, Waiting, Link!Go, Link!WillPublish, Link!RunOnly,
    Link!InputOnly, Link!ReadOnly, Link!inputVars, Link!runVars
<1>1. CASE Link!Start \/ Link!Join \/ \E p \in Link!Stoppers : Link!CancelInput(p)
  BY <1>1 DEF Link!Start, Link!Join, Link!CancelInput
<1>2. CASE \E p \in Link!Stoppers : Link!RequestStop(p)
  <2>1. Link!WakeControl /\ UNCHANGED <<inputState, after>>
    BY <1>2 DEF Link!RequestStop
  <2> QED
    BY <2>1, ProxyWakesControl DEF ProxyInv
<1>3. CASE Link!Publish \/ Link!PublishNews \/ Link!Look \/ Link!Create \/ Link!Prepare
  BY <1>3 DEF Link!Publish, Link!PublishNews, Link!Look, Link!Create, Link!Prepare,
     ProxyInv, Link!TypeOK
<1>4. CASE Link!Open \/ Link!Opening \/ Link!OpenIo \/ Link!Unopened \/ Link!Opened
  BY <1>4 DEF Link!Open, Link!Opening, Link!OpenIo, Link!Unopened, Link!Opened
<1>5. CASE Link!Connect \/ Link!Offer \/ Link!AwaitEnd \/ Link!Retire \/ Link!CloseCancels
  BY <1>5 DEF Link!Connect, Link!Offer, Link!AwaitEnd, Link!Retire, Link!CloseCancels
<1>6. CASE Link!CloseJoins \/ Link!Unset \/ Link!Decide \/ Link!AwaitRetry
             \/ Link!RetryDue \/ Link!Threw \/ Link!Exit
  BY <1>6 DEF Link!CloseJoins, Link!Unset, Link!Decide, Link!AwaitRetry, Link!RetryDue,
     Link!Threw, Link!Exit
<1>7. CASE Link!Demux \/ Link!InputEnds
  BY <1>7 DEF Link!Demux, Link!InputEnds, ProxyInv, Ends
<1>8. CASE Link!InputReports \/ Link!AcknowledgeEof
  <2>1. Link!WakeControl /\ UNCHANGED <<inputState, after>>
    BY <1>8 DEF Link!InputReports, Link!AcknowledgeEof
  <2> QED
    BY <2>1, ProxyWakesControl DEF ProxyInv
<1>9. CASE \/ \E m \in config.reads : Link!Read(m)
           \/ Link!Enter \/ Link!ReadInput \/ Link!AwaitChange
  BY <1>9 DEF Link!Read, Link!Enter, Link!ReadInput, Link!AwaitChange
<1>10. CASE UNCHANGED Link!vars
  BY <1>10 DEF Link!vars
<1> QED
  BY <1>1, <1>2, <1>3, <1>4, <1>5, <1>6, <1>7, <1>8, <1>9, <1>10
  DEF Link!Next, Link!Step, Link!Control, Link!ReaderStep

\* What a stop must not lose: only Open clears the flag, and its Opening sets it
\* again; whoever requests a stop takes the input along.
LEMMA StopCancelsKept ==
  ProxyInv /\ Occupied /\ StopCancels /\ [Link!Next]_(Link!vars) => StopCancels'
<1> SUFFICES ASSUME ProxyInv, Occupied, StopCancels, [Link!Next]_(Link!vars)
             PROVE  StopCancels'
  OBVIOUS
<1> USE DEF StopCancels, Link!StopCancels, Link!Go, Link!WillPublish, Link!RunOnly,
    Link!InputOnly, Link!ReadOnly, Link!proxyVars, Link!inputVars, Link!stopVars
<1>a. inputState # "closed" => currentInput = attempt /\ attempt # 0
  BY DEF ProxyInv, Occupied, Attached, Unoffered, Unopen, Promised, Waiting, Closing
<1>1. CASE Link!Start
  BY <1>1 DEF Link!Start, Occupied, Promised, Publishing, Waiting
<1>2. ASSUME NEW p \in Link!Stoppers, Link!RequestStop(p) PROVE StopCancels'
  <2>1. /\ proxyStopper' = [proxyStopper EXCEPT ![p] = "cancel"]
        /\ stopInput' = [stopInput EXCEPT ![p] = currentInput]
        /\ UNCHANGED <<inputState, attempt>>
    BY <1>2 DEF Link!RequestStop
  <2>2. inputState # "closed" => proxyStopper'[p] = "cancel" /\ stopInput'[p] = attempt'
    BY <2>1, <1>a DEF ProxyInv, Link!TypeOK
  <2> QED
    BY <2>2, <2>1
<1>3. ASSUME NEW p \in Link!Stoppers, Link!CancelInput(p) PROVE StopCancels'
  <2>1. /\ inputCancelled' = (inputCancelled \/ stopInput[p] \in {attempt} \ {0})
        /\ proxyStopper' = [proxyStopper EXCEPT ![p] = IF p = "owner" THEN "join" ELSE "idle"]
        /\ UNCHANGED <<proxyStopping, inputState, attempt, stopInput, control>>
    BY <1>3 DEF Link!CancelInput
  <2>2. SUFFICES ASSUME proxyStopping, inputState # "closed", control # "opening",
                        ~inputCancelled'
                 PROVE  \E q \in Link!Stoppers : proxyStopper'[q] = "cancel" /\ stopInput'[q] = attempt'
    BY <2>1
  <2>3. PICK q \in Link!Stoppers : proxyStopper[q] = "cancel" /\ stopInput[q] = attempt
    BY <2>1, <2>2
  <2>4. q # p
    BY <2>1, <2>2, <2>3, <1>a
  <2> QED
    BY <2>1, <2>3, <2>4 DEF ProxyInv, Link!TypeOK
<1>4. CASE Link!Join
  <2>1. /\ proxyStopper' = [proxyStopper EXCEPT !["owner"] = "idle"]
        /\ proxyStopper["owner"] = "join" /\ control # "opening"
        /\ UNCHANGED <<proxyStopping, inputState, attempt, stopInput, inputCancelled>>
    BY <1>4 DEF Link!Join
  <2> QED
    BY <2>1 DEF ProxyInv, Link!TypeOK
<1>5. CASE Link!Publish \/ Link!PublishNews \/ Link!Look \/ Link!Create \/ Link!Prepare
  BY <1>5 DEF Link!Publish, Link!PublishNews, Link!Look, Link!Create, Link!Prepare
<1>6. CASE Link!Open \/ Link!OpenIo \/ Link!Unopened \/ Link!Opened
  BY <1>6 DEF Link!Open, Link!OpenIo, Link!Unopened, Link!Opened, Occupied
<1>7. CASE Link!Opening
  <2>1. /\ inputCancelled' = (inputCancelled \/ proxyStopping)
        /\ UNCHANGED proxyStopping
    BY <1>7 DEF Link!Opening, Link!OpeningCancelled
  <2> QED
    BY <2>1 DEF ProxyInv, Link!TypeOK
<1>8. CASE Link!Connect \/ Link!Offer \/ Link!AwaitEnd \/ Link!Retire \/ Link!CloseCancels
  BY <1>8 DEF Link!Connect, Link!Offer, Link!AwaitEnd, Link!Retire, Link!CloseCancels
<1>9. CASE Link!CloseJoins \/ Link!Unset \/ Link!Decide \/ Link!AwaitRetry
             \/ Link!RetryDue \/ Link!Threw \/ Link!Exit
  BY <1>9 DEF Link!CloseJoins, Link!Unset, Link!Decide, Link!AwaitRetry, Link!RetryDue,
     Link!Threw, Link!Exit
<1>10. CASE Link!Demux \/ Link!InputEnds
  BY <1>10 DEF Link!Demux, Link!InputEnds, ProxyInv, Ends
<1>11. CASE Link!InputReports \/ Link!AcknowledgeEof
  <2>1. /\ Link!WakeControl
        /\ UNCHANGED <<proxyStopping, inputState, attempt, inputCancelled, proxyStopper,
                       stopInput>>
    BY <1>11 DEF Link!InputReports, Link!AcknowledgeEof
  <2> QED
    BY <2>1, ProxyWakesControl DEF ProxyInv
<1>12. CASE \/ \E m \in config.reads : Link!Read(m)
            \/ Link!Enter \/ Link!ReadInput \/ Link!AwaitChange
  BY <1>12 DEF Link!Read, Link!Enter, Link!ReadInput, Link!AwaitChange
<1>13. CASE UNCHANGED Link!vars
  BY <1>13 DEF Link!vars
<1> QED
  BY <1>1, <1>2, <1>3, <1>4, <1>5, <1>6, <1>7, <1>8, <1>9, <1>10, <1>11, <1>12, <1>13
  DEF Link!Next, Link!Step, Link!Control, Link!ReaderStep

\* A stop is never forgotten by an input, although Open resets the cancellation
\* flag, for any number of attempts, sessions and requests (RequestStop, Run,
\* InputChanged).
THEOREM StopsCancel == ProxySpec => []StopCancels
<1>1. Link!Init => Occupied /\ StopCancels
  BY DEF Link!Init, Occupied, StopCancels, Link!StopCancels
<1> QED
  BY <1>1, ProxyInvariance, OccupiedKept, StopCancelsKept, PTL DEF ProxySpec, Link!Spec

=============================================================================
