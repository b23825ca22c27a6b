--------------------------- MODULE RemuxPipeline ---------------------------
(***************************************************************************)
(* The remuxing pipeline (remux_pipeline.cc): a packet worker reads the    *)
(* input proxy, opens a new output session (a new Remuxer) for every       *)
(* connection and every timestamp discontinuity, and hands old sessions to *)
(* a retirement thread that waits for their files.  Callbacks of the input *)
(* and of the remuxers, a lifecycle caller that also adds outputs, and a   *)
(* thread that calls RequestStop run beside it.  A step is one critical    *)
(* section under mutex_, or one call into a component outside it.          *)
(*                                                                         *)
(* External: AvInputProxy, whose reads follow a script of packets and EOFs *)
(* and block when it is exhausted, Remuxer, and time, which ends a pacing  *)
(* wait and may expire the audio probe.                                    *)
(***************************************************************************)
EXTENDS Integers, Sequences, FiniteSets

CONSTANTS
  None,         \* no error
  Plans,        \* bounds: scripts of the input with its flags, the calls of
                \* RequestStop by another thread and the failures; one is chosen
  MaxGap,       \* the largest step of a track that is continuous
  ProbePackets, \* kAudioPackets
  MaxSessions   \* bound: calls of Start

VARIABLES
  plan,     \* .items: what the input reads; .loop, .flagged (timestamp_
            \* discontinuities), .aac (audio to be probed); .adds; .requests
            \* in a session; .faults
  state, started, stopping, ended, error, hasMedia, workerDone,
  reports,  \* history: OnError calls of this session
  caller, requester,
  failing,  \* where a thread is in Fail, with what and which output it drains
  worker,   \* where Run is
  atEof,    \* Run's local eof
  hand,     \* the item being handled, as an index into the script
  pending,  \* items the probe has read ahead
  conn,     \* Run's local description: a connection, 0 for none
  last,     \* last_times_, per track
  probe,    \* packets of the probe, -1 outside; timer of AudioProbeTimeout
  timer,
  input,    \* "off", "on", "cancelled", "failed" or "ended"
  announce, \* a state of the input on its way to OnStateChanged
  read,     \* items the input has returned
  control,  \* who holds control_
  current,  \* current_, 0 for none
  live,     \* session_started_
  output,   \* state of the remuxers created so far
  served,   \* outputs registered with each of them
  registration,
  retired, retiring, history,
  reaper,   \* where Reap is
  delivered,\* history: [item, session] of every packet submitted
  requests, sessions, faults

pipeline == <<state, started, stopping, ended, error, hasMedia, workerDone>>
running == <<atEof, hand, pending, conn, last, probe, timer>>
source == <<input, announce, read>>
remuxers == <<control, current, live, output, served, registration>>
reaping == <<retired, retiring, history, reaper>>
counters == <<requests, sessions, faults>>
vars == <<plan, pipeline, reports, caller, requester, failing, worker, running,
          source, remuxers, reaping, delivered, counters>>

Threads == {"caller", "worker", "input", "remuxer"}
Calm == [at |-> "no", cause |-> None, output |-> 0]
Failure(cause) == [at |-> "fail", cause |-> cause, output |-> 0]
FailWith(thread, cause) == failing' = [failing EXCEPT ![thread] = Failure(cause)]
Fault == faults < plan.faults /\ faults' = faults + 1 /\ UNCHANGED <<requests, sessions>>
Item(n) == plan.items[n]
IsEof(n) == Item(n).track = 0
\* A packet of a track that is remuxed; the input has others.
Selected(n) == Item(n).track \in 1..2

\* mutex_ is held between the worker's look at the input's state and its sleep.
MutexFree == worker # "eofsleeping"

Init ==
  /\ plan \in Plans
  /\ state = "stopped" /\ started = FALSE /\ stopping = FALSE /\ ended = FALSE
  /\ error = None /\ hasMedia = FALSE /\ workerDone = FALSE /\ reports = 0
  /\ caller = "idle" /\ requester = Calm /\ failing = [t \in Threads |-> Calm]
  /\ worker = "off" /\ atEof = FALSE /\ hand = 0 /\ pending = <<>> /\ conn = 0
  /\ last = [t \in 1..2 |-> None] /\ probe = -1 /\ timer = "off"
  /\ input = "off" /\ announce = None /\ read = 0
  /\ control = None /\ current = 1 /\ live = FALSE
  /\ output = <<"new">> /\ served = <<{}>> /\ registration = {}
  /\ retired = <<>> /\ retiring = 0 /\ history = <<>> /\ reaper = "off"
  /\ delivered = <<>> /\ requests = 0 /\ sessions = 0 /\ faults = 0

-----------------------------------------------------------------------------
(* Outputs.                                                                *)

\* EnsureRemuxer: a new remuxer gets every registered output.
EnsureRemuxer(regs) ==
  IF current # 0
  THEN /\ served' = [served EXCEPT ![current] = regs]
       /\ UNCHANGED <<current, output>>
  ELSE /\ current' = Len(output) + 1
       /\ output' = Append(output, "new") /\ served' = Append(served, regs)

\* AddPushUrl and AddPublish, on the lifecycle caller.  The remuxer may refuse
\* the output, which leaves only the remuxer that was made for it.
Add(o) ==
  /\ caller = "idle" /\ o \in plan.adds \ registration /\ control = None /\ MutexFree
  /\ ~(started /\ (stopping \/ ended \/ state = "draining"))
  /\ current # 0 => output[current] \in {"new", "on"}
  /\ registration' \in {registration, registration \cup {o}}
  /\ EnsureRemuxer(registration')
  /\ UNCHANGED <<plan, pipeline, reports, caller, requester, failing, worker, running,
                 source, control, live, reaping, delivered, counters>>

\* Remuxer::Drain closes a session, in any state but that of a failed one.
Drained(n) == [i \in DOMAIN output |->
                 IF i = n /\ output[i] = "on" THEN "drained" ELSE output[i]]

RetireCurrent == IF live THEN retired' = Append(retired, current) ELSE UNCHANGED retired

\* CloseCurrent after StopProtocols, which waits for the poller.
CloseCurrent ==
  IF current = 0 THEN UNCHANGED <<output, current, retired, live>>
  ELSE /\ failing["remuxer"] = Calm
       /\ output' = [output EXCEPT ![current] = "closed"]
       /\ current' = 0 /\ live' = FALSE
       /\ RetireCurrent

-----------------------------------------------------------------------------
(* Fail and RequestStop.                                                   *)

Requested ==
  /\ MutexFree
  /\ stopping' = TRUE
  /\ state' = IF started /\ error = None /\ ~ended THEN "stopping" ELSE state
  /\ UNCHANGED <<started, ended, error, hasMedia, workerDone>>

\* input_.RequestStop, Drain of the captured output and the notification.
Cancel(out) ==
  /\ input' = IF input = "on" THEN "cancelled" ELSE input
  /\ output' = Drained(out)
  /\ worker' = IF worker = "eofsleep" THEN "eof" ELSE worker

FailLock(t) ==
  /\ failing[t].at = "fail" /\ MutexFree
  /\ IF ~started \/ error # None
     THEN /\ failing' = [failing EXCEPT ![t] = Calm]
          /\ UNCHANGED <<error, state>>
     ELSE /\ error' = failing[t].cause /\ state' = "failed"
          /\ failing' = [failing EXCEPT ![t].at = "request"]
  /\ UNCHANGED <<plan, started, stopping, ended, hasMedia, workerDone, reports, caller,
                 requester, worker, running, source, remuxers, reaping, delivered,
                 counters>>

FailRequest(t) ==
  /\ failing[t].at = "request" /\ Requested
  /\ failing' = [failing EXCEPT ![t].at = "cancel", ![t].output = current]
  /\ UNCHANGED <<plan, reports, caller, requester, worker, running, source, remuxers,
                 reaping, delivered, counters>>

FailCancel(t) ==
  /\ failing[t].at = "cancel" /\ Cancel(failing[t].output)
  /\ failing' = [failing EXCEPT ![t] = Calm] /\ reports' = reports + 1
  /\ UNCHANGED <<plan, pipeline, caller, requester, running, announce, read, control,
                 current, live, served, registration, reaping, delivered, counters>>

RequestStop ==
  /\ requester = Calm /\ requests < plan.requests /\ started
  /\ Requested /\ requests' = requests + 1
  /\ requester' = [Calm EXCEPT !.at = "cancel", !.output = current]
  /\ UNCHANGED <<plan, reports, caller, failing, worker, running, source, remuxers,
                 reaping, delivered, sessions, faults>>

RequestCancel ==
  /\ requester.at = "cancel" /\ Cancel(requester.output) /\ requester' = Calm
  /\ UNCHANGED <<plan, pipeline, reports, caller, failing, running, announce, read,
                 control, current, live, served, registration, reaping, delivered,
                 counters>>

-----------------------------------------------------------------------------
(* The lifecycle caller.                                                   *)

Start ==
  /\ caller = "idle" /\ ~started /\ sessions < MaxSessions
  /\ requester = Calm  \* bound: no RequestStop outlasts its session
  /\ started' = TRUE /\ stopping' = FALSE /\ ended' = FALSE /\ hasMedia' = FALSE
  /\ workerDone' = FALSE /\ state' = "starting" /\ error' = None /\ history' = <<>>
  /\ last' = [t \in 1..2 |-> None] /\ reports' = 0 /\ delivered' = <<>>
  /\ read' = 0 /\ sessions' = sessions + 1 /\ requests' = 0 /\ caller' = "ensure"
  /\ atEof' = FALSE /\ hand' = 0 /\ conn' = 0 /\ pending' = <<>>
  /\ UNCHANGED <<plan, requester, failing, worker, probe, timer, input, announce,
                 remuxers, retired, retiring, reaper, faults>>

StartThreads ==
  /\ caller = "ensure"
  /\ EnsureRemuxer(registration)
  /\ \/ reaper' = "wait" /\ worker' = "start" /\ caller' = "idle"
        /\ UNCHANGED <<failing, counters>>
     \/ \E r \in {"off", "wait"} :  \* one of the two threads cannot be created
          /\ Fault /\ reaper' = r /\ caller' = "catch"
          /\ FailWith("caller", "caller") /\ UNCHANGED worker
  /\ UNCHANGED <<plan, pipeline, reports, requester, running, source, control, live,
                 registration, retired, retiring, history, delivered>>

StartCaught ==
  /\ caller = "catch" /\ failing["caller"] = Calm
  /\ workerDone' = TRUE /\ caller' = "stop"
  /\ UNCHANGED <<plan, state, started, stopping, ended, error, hasMedia, reports,
                 requester, failing, worker, running, source, remuxers, reaping,
                 delivered, counters>>

Stop ==
  /\ caller = "idle" /\ started /\ caller' = "stop"
  /\ UNCHANGED <<plan, pipeline, reports, requester, failing, worker, running, source,
                 remuxers, reaping, delivered, counters>>

StopRequest ==
  /\ caller = "stop" /\ Requested /\ caller' = "cancel"
  /\ failing' = [failing EXCEPT !["caller"].output = current]
  /\ UNCHANGED <<plan, reports, requester, worker, running, source, remuxers, reaping,
                 delivered, counters>>

StopCancel ==
  /\ caller = "cancel" /\ Cancel(failing["caller"].output) /\ caller' = "join"
  /\ failing' = [failing EXCEPT !["caller"] = Calm]
  /\ UNCHANGED <<plan, pipeline, reports, requester, running, announce, read, control,
                 current, live, served, registration, reaping, delivered, counters>>

\* The worker is joined, the input stopped, the last output closed.
StopClose ==
  /\ caller = "join" /\ worker = "off" /\ control = None
  /\ failing["input"] = Calm /\ announce = None
  /\ input' = "off" /\ CloseCurrent /\ registration' = {}
  /\ workerDone' = TRUE /\ caller' = "reap"
  /\ UNCHANGED <<plan, state, started, stopping, ended, error, hasMedia, reports,
                 requester, failing, worker, running, announce, read, control, served,
                 retiring, history, reaper, delivered, counters>>

StopDone ==
  /\ caller = "reap" /\ reaper = "off" /\ caller' = "idle"
  /\ started' = FALSE
  /\ state' = IF error # None THEN "failed" ELSE IF ended THEN "ended" ELSE "stopped"
  /\ UNCHANGED <<plan, stopping, ended, error, hasMedia, workerDone, reports, requester,
                 failing, worker, running, source, remuxers, reaping, delivered, counters>>

-----------------------------------------------------------------------------
(* Components that act by themselves.                                      *)

InputFails ==
  /\ input = "on" /\ announce = None /\ Fault
  /\ input' = "failed" /\ announce' = "failed"
  /\ UNCHANGED <<plan, pipeline, reports, caller, requester, failing, worker, running,
                 read, remuxers, reaping, delivered>>

\* The proxy publishes its end after the EOF was read, unless it loops.
InputEnds ==
  /\ input = "on" /\ announce = None /\ ~plan.loop
  /\ read > 0 /\ IsEof(read)
  /\ input' = "ended" /\ announce' = "ended"
  /\ UNCHANGED <<plan, pipeline, reports, caller, requester, failing, worker, running,
                 read, remuxers, reaping, delivered, counters>>

InputRetries ==
  /\ input = "on" /\ announce = None /\ \E s \in {"retry", "connecting"} : announce' = s
  /\ ~(read > 0 /\ IsEof(read) /\ ~plan.loop)
  /\ state \in {"starting", "running"}
  /\ UNCHANGED <<plan, pipeline, reports, caller, requester, failing, worker, running,
                 input, read, remuxers, reaping, delivered, counters>>

\* The lambda given to SetOnStateChanged; it takes mutex_ before it notifies.
Announce ==
  /\ announce # None /\ announce' = None
  /\ IF announce = "failed"
     THEN FailWith("input", "input") /\ UNCHANGED <<state, worker>>
     ELSE /\ MutexFree /\ state' = IF started /\ ~stopping /\ state \notin {"draining", "ended"}
                         /\ (announce = "retry" \/ (announce = "connecting" /\ hasMedia))
                      THEN "waiting" ELSE state
          /\ worker' = IF worker = "eofsleep" THEN "eof" ELSE worker
          /\ UNCHANGED failing
  /\ UNCHANGED <<plan, started, stopping, ended, error, hasMedia, workerDone, reports,
                 caller, requester, running, input, read, remuxers, reaping, delivered,
                 counters>>

\* A remuxer fails: it refuses packets first and calls its OnError after.
RemuxerFails ==
  /\ current # 0 /\ output[current] \in {"on", "drained"} /\ Fault
  /\ failing["remuxer"] = Calm
  /\ output' = [output EXCEPT ![current] = "failed"]
  /\ FailWith("remuxer", "remuxer")
  /\ UNCHANGED <<plan, pipeline, reports, caller, requester, worker, running, source,
                 control, current, live, served, registration, reaping, delivered>>

\* The two seconds of AudioProbeTimeout pass.
ProbeExpires ==
  /\ timer = "armed" /\ Fault
  /\ timer' = "expired"
  /\ input' = IF input = "on" THEN "cancelled" ELSE input
  /\ UNCHANGED <<plan, pipeline, reports, caller, requester, failing, worker, atEof,
                 hand, pending, conn, last, probe, announce, read, remuxers, reaping,
                 delivered>>

\* Reap: take a session, wait for its files, keep their last status.  Remuxer::Stop
\* does not throw, so its catch is left to failing allocations, as everywhere.
Reap ==
  /\ MutexFree
  /\ \/ /\ reaper = "wait" /\ retired # <<>>
        /\ retiring' = Head(retired) /\ retired' = Tail(retired)
        /\ reaper' = "stop" /\ UNCHANGED history
     \/ /\ reaper = "stop"
        /\ history' = Append(history, retiring) /\ retiring' = 0
        /\ reaper' = "wait" /\ UNCHANGED retired
     \/ /\ reaper = "wait" /\ retired = <<>> /\ workerDone
        /\ reaper' = "off" /\ UNCHANGED <<retired, retiring, history>>
  /\ UNCHANGED <<plan, pipeline, reports, caller, requester, failing, worker, running,
                 source, remuxers, delivered, counters>>

-----------------------------------------------------------------------------
(* The packet worker.                                                      *)

Quiet == UNCHANGED <<plan, started, stopping, ended, error, hasMedia, workerDone, reports,
                     caller, requester, delivered, served, registration, announce>>
Goto(place) == worker' = place /\ UNCHANGED failing
Throw(cause) == worker' = "caught" /\ FailWith("worker", cause)
\* What a step of reading leaves alone, and of handling outputs.
NoOutput == UNCHANGED <<control, current, live, output, reaping>>
NoReading == UNCHANGED <<input, read, atEof, hand, pending, conn, probe, timer>>

InputWanted ==
  /\ worker = "start" /\ Goto(IF stopping THEN "leave" ELSE "open input")
  /\ NoOutput /\ Quiet /\ UNCHANGED <<state, running, input, read, counters>>

RunStart ==
  /\ worker = "open input"
  /\ \/ input' = "on" /\ Goto("again") /\ UNCHANGED counters
     \/ Fault /\ Throw("input") /\ UNCHANGED input
  /\ NoOutput /\ Quiet /\ UNCHANGED <<state, running, read>>

StopAgain ==
  /\ worker = "again" /\ Goto("read")
  /\ input' = IF stopping /\ input = "on" THEN "cancelled" ELSE input
  /\ NoOutput /\ Quiet /\ UNCHANGED <<state, running, read, counters>>

\* ReadPacket blocks until there is an item, or the input was cancelled or
\* failed.  An item read ahead comes first.
Next1 ==
  IF pending # <<>> THEN hand' = Head(pending) /\ pending' = Tail(pending) /\ UNCHANGED read
  ELSE /\ UNCHANGED pending
       /\ \/ input = "on" /\ read < Len(plan.items)
             /\ read' = read + 1 /\ hand' = read + 1
          \/ input \notin {"on", "off"} /\ hand' = 0 /\ UNCHANGED read

Read ==
  /\ worker = "read"
  /\ IF stopping THEN Goto("leave") /\ UNCHANGED <<hand, pending, read>>
     ELSE Next1 /\ Goto("look")
  /\ NoOutput /\ Quiet
  /\ UNCHANGED <<state, input, atEof, conn, last, probe, timer, counters>>

Discontinuous(n) ==
  LET p == last[Item(n).track] IN
  p # None /\ (Item(n).dts < p \/ Item(n).dts - p > MaxGap)

Boundary(n) == Item(n).conn # conn
NewSession(n) == Boundary(n) \/ (plan.flagged /\ Discontinuous(n))

Look ==
  /\ worker = "look"
  /\ IF stopping THEN Goto("leave") /\ UNCHANGED <<atEof, probe, timer>>
     ELSE IF hand = 0
     THEN /\ Throw(IF input = "failed" THEN "input" ELSE "stopped")
          /\ UNCHANGED <<atEof, probe, timer>>
     ELSE IF IsEof(hand) /\ ~plan.loop
     THEN atEof' = TRUE /\ Goto("drain") /\ UNCHANGED <<probe, timer>>
     ELSE IF ~Selected(hand)
     THEN Goto("read") /\ UNCHANGED <<atEof, probe, timer>>
     ELSE /\ UNCHANGED atEof
          /\ IF Boundary(hand) /\ plan.aac
             THEN probe' = 1 /\ timer' = "armed" /\ Goto("probe")
             ELSE UNCHANGED <<probe, timer>> /\ Goto(IF NewSession(hand) THEN "init" ELSE "pace")
  /\ NoOutput /\ Quiet
  /\ UNCHANGED <<state, input, read, hand, pending, conn, last, counters>>

\* The critical section after the EOF: a stop may have come since the look.
EofDrain ==
  /\ worker = "drain" /\ Goto("leave")
  /\ state' = IF stopping THEN state ELSE "draining"
  /\ NoReading /\ NoOutput /\ Quiet /\ UNCHANGED <<last, counters>>

Keep(n) == pending' = Append(pending, n)

\* PrepareStreams: read ahead until the audio is configured, enough packets
\* are there, or the connection ends; then ask the timer whether it expired.
Probe ==
  /\ worker = "probe" /\ probe > 0
  /\ \/ /\ input = "on" /\ read < Len(plan.items) /\ probe < ProbePackets /\ ~stopping
        /\ read' = read + 1 /\ Keep(read + 1)
        /\ probe' = IF IsEof(read + 1) \/ Item(read + 1).conn # Item(hand).conn
                    THEN 0 ELSE probe + 1
        /\ Goto("probe") /\ UNCHANGED timer
     \/ \* configured, enough or stopping
        /\ probe' = 0 /\ Goto("probe") /\ UNCHANGED <<read, pending, timer>>
     \/ \* ReadPacket returns nothing
        /\ input \notin {"on", "off"} /\ probe < ProbePackets
        /\ timer' = "off" /\ probe' = -1
        /\ IF stopping THEN Goto("init")
           ELSE Throw(IF timer = "expired" THEN "timeout"
                      ELSE IF input = "failed" THEN "input" ELSE "stopped")
        /\ UNCHANGED <<read, pending>>
  /\ NoOutput /\ Quiet /\ UNCHANGED <<state, input, atEof, hand, conn, last, counters>>

ProbeDone ==
  /\ worker = "probe" /\ probe = 0
  /\ timer' = "off" /\ probe' = -1
  /\ IF timer = "expired" /\ ~stopping THEN Throw("timeout") ELSE Goto("init")
  /\ NoOutput /\ Quiet
  /\ UNCHANGED <<state, input, read, atEof, hand, pending, conn, last, counters>>

\* Initialize, under control_.  Streams that do not match the first ones throw.
InitBegin ==
  /\ worker = "init" /\ control = None
  /\ \/ /\ stopping /\ Goto("leave") /\ UNCHANGED <<control, counters>>
     \/ /\ ~stopping /\ control' = "worker"
        /\ Goto(IF live THEN "close" ELSE "ensure") /\ UNCHANGED counters
     \/ /\ ~stopping /\ Fault /\ Throw("tracks") /\ UNCHANGED control
  /\ NoReading /\ Quiet /\ UNCHANGED <<state, last, current, live, output, reaping>>

InitClose ==
  /\ worker = "close" /\ CloseCurrent /\ Goto("ensure")
  /\ NoReading /\ Quiet
  /\ UNCHANGED <<state, last, control, retiring, history, reaper, counters>>

\* Keeping the clock of the session before.
SessionKeepsTimes == UNCHANGED last
SessionForgetsTimes == last' = [t \in 1..2 |-> None]

InitOutput ==
  /\ worker = "ensure"
  /\ IF stopping
     THEN /\ control' = None /\ Goto("pace") /\ conn' = Item(hand).conn
          /\ UNCHANGED <<current, output, served, counters>>
     ELSE /\ EnsureRemuxer(registration) /\ UNCHANGED <<control, conn>>
          /\ Goto("open") /\ UNCHANGED counters
  /\ UNCHANGED <<plan, pipeline, reports, caller, requester, delivered, registration,
                 announce, input, read, atEof, hand, pending, probe, timer, last, live,
                 reaping>>

InitCommit ==
  /\ worker = "open" /\ control' = None
  /\ \/ /\ output' = [output EXCEPT ![current] = "on"] /\ live' = TRUE
        /\ SessionForgetsTimes /\ conn' = Item(hand).conn
        /\ hasMedia' = TRUE /\ state' = IF stopping THEN state ELSE "running"
        /\ Goto("pace") /\ UNCHANGED counters
     \/ /\ Fault /\ Throw("output")
        /\ UNCHANGED <<output, live, last, conn, hasMedia, state>>
  /\ UNCHANGED <<plan, started, stopping, ended, error, workerDone, reports, caller,
                 requester, delivered, served, registration, announce, input, read, atEof,
                 hand, pending, probe, timer, current, reaping>>

\* Pace, then OnPacket: a stop ends the wait.
Pace ==
  /\ worker = "pace"
  /\ Goto(IF stopping THEN "leave" ELSE "submit")
  /\ NoReading /\ NoOutput /\ Quiet /\ UNCHANGED <<state, last, counters>>

\* A refusal is a failure unless the session is being stopped.
Submit ==
  /\ worker = "submit"
  /\ IF output[current] = "on"
     THEN /\ delivered' = Append(delivered, [item |-> hand, session |-> current])
          /\ last' = [last EXCEPT ![Item(hand).track] = Item(hand).dts]
          /\ Goto("submitted")
     ELSE /\ IF stopping THEN Goto("leave") ELSE Throw("rejected")
          /\ UNCHANGED <<delivered, last>>
  /\ NoReading /\ NoOutput
  /\ UNCHANGED <<plan, pipeline, reports, caller, requester, served, registration,
                 announce, counters>>

Submitted ==
  /\ worker = "submitted" /\ Goto("read")
  /\ state' = IF stopping THEN state ELSE "running"
  /\ NoReading /\ NoOutput /\ Quiet /\ UNCHANGED <<last, counters>>

RunCaught ==
  /\ worker = "caught" /\ failing["worker"] = Calm /\ Goto("leave")
  /\ NoReading /\ NoOutput /\ Quiet /\ UNCHANGED <<state, last, counters>>

\* At EOF, wait until the proxy has published its end.  The predicate is read
\* and the wait entered under mutex_; the proxy's state is not under it.
Leave ==
  /\ worker \in {"leave", "eof"}
  /\ Goto(IF ~atEof \/ stopping \/ input = "ended" THEN "stopinput" ELSE "eofsleeping")
  /\ NoReading /\ NoOutput /\ Quiet /\ UNCHANGED <<state, last, counters>>

EofSleep ==
  /\ worker = "eofsleeping" /\ Goto("eofsleep")
  /\ NoReading /\ NoOutput /\ Quiet /\ UNCHANGED <<state, last, counters>>

\* input_.Stop joins the input's threads; then CloseCurrent under control_.
RunClose ==
  /\ worker = "stopinput" /\ control = None
  /\ announce = None /\ failing["input"] = Calm
  /\ input' = "off" /\ CloseCurrent
  /\ Goto("done")
  /\ Quiet
  /\ UNCHANGED <<state, running, read, control, retiring, history, reaper, counters>>

RunDone ==
  /\ worker = "done" /\ workerDone' = TRUE
  /\ Goto(IF atEof THEN "retire" ELSE "off")
  /\ NoReading /\ NoOutput
  /\ UNCHANGED <<plan, state, started, stopping, ended, error, hasMedia, reports, caller,
                 requester, delivered, served, registration, announce, last, counters>>

RunEnd ==
  /\ worker = "retire" /\ (stopping \/ (retired = <<>> /\ retiring = 0))
  /\ Goto("off")
  /\ IF stopping \/ error # None THEN UNCHANGED <<ended, state>>
     ELSE ended' = TRUE /\ state' = "ended"
  /\ NoReading /\ NoOutput
  /\ UNCHANGED <<plan, started, stopping, error, hasMedia, workerDone, reports, caller,
                 requester, delivered, served, registration, announce, last, counters>>

-----------------------------------------------------------------------------
WorkerStep ==
  \/ InputWanted \/ RunStart \/ StopAgain \/ Read \/ Look \/ EofDrain \/ Probe \/ ProbeDone
  \/ InitBegin \/ InitClose \/ InitOutput \/ InitCommit \/ Pace \/ Submit \/ Submitted \/ RunCaught
  \/ Leave \/ EofSleep \/ RunClose \/ RunDone \/ RunEnd
CallerStep == StartThreads \/ StartCaught \/ StopRequest \/ StopCancel \/ StopClose
              \/ StopDone
FailStep == \E t \in Threads : FailLock(t) \/ FailRequest(t) \/ FailCancel(t)

Next == Start \/ Stop \/ (\E o \in plan.adds : Add(o)) \/ CallerStep \/ RequestStop
        \/ RequestCancel \/ FailStep \/ InputFails \/ InputEnds \/ InputRetries
        \/ Announce \/ RemuxerFails \/ ProbeExpires \/ Reap \/ WorkerStep

Spec == Init /\ [][Next]_vars
        /\ WF_vars(WorkerStep) /\ WF_vars(CallerStep) /\ WF_vars(FailStep)
        /\ WF_vars(RequestCancel) /\ WF_vars(InputEnds) /\ WF_vars(Announce)
        /\ WF_vars(Reap)

-----------------------------------------------------------------------------
TypeOK ==
  /\ plan \in Plans
  /\ {started, stopping, ended, hasMedia, workerDone, atEof, live} \subseteq BOOLEAN
  /\ state \in {"stopped", "starting", "running", "waiting", "draining", "ended",
                "stopping", "failed"}
  /\ current \in 0..Len(output) /\ Len(served) = Len(output)
  /\ control \in {None, "worker"} /\ retiring \in 0..Len(output)

\* Every output session holds one connection and one run of timestamps: the
\* session changes exactly where the connection does or a flagged source jumps.
SessionsSeparated ==
  \A i \in 2..Len(delivered) :
    LET a == delivered[i - 1]  b == delivered[i]
        before == {j \in 1..(i - 1) : Item(delivered[j].item).track = Item(b.item).track
                                       /\ delivered[j].session = a.session}
        gap == before # {} /\
               LET d == Item(b.item).dts -
                        Item(delivered[CHOOSE j \in before : \A k \in before : k <= j].item).dts
               IN  d < 0 \/ d > MaxGap IN
    (b.session # a.session)
      <=> (Item(b.item).conn # Item(a.item).conn \/ (plan.flagged /\ gap))

\* The packets of the selected tracks are delivered in the order of the input,
\* each once, those the probe has read ahead included; a run that ends delivered them all, and every
\* session it opened has finished its files, in order.
EndedComplete ==
  LET packets == {n \in DOMAIN plan.items : Selected(n)}
      items == {delivered[i].item : i \in DOMAIN delivered}
      used == {delivered[i].session : i \in DOMAIN delivered}
      filed == {history[i] : i \in DOMAIN history} IN
  /\ items \subseteq packets
  /\ \A i, j \in DOMAIN delivered : i < j => delivered[i].item < delivered[j].item
  /\ \A i \in items : {n \in packets : n < i} \subseteq items
  /\ state = "ended" => items = packets /\ error = None /\ filed = used
  /\ \A i, j \in DOMAIN history : i < j => history[i] < history[j]
  /\ ~started /\ sessions > 0 => used \subseteq filed

\* The outputs that were added serve every session, the reconnected ones too.
TemplatesKept ==
  (current # 0 /\ output[current] \in {"new", "on"}) => served[current] = registration

\* A stop or a failure at any moment, also while the worker starts the input,
\* reaches the input: nothing blocks in ReadPacket or in the probe.
StopReachesInput ==
  (stopping /\ worker \in {"read", "look", "drain", "probe", "pace", "leave", "eof"}
     /\ requester = Calm /\ caller \in {"idle", "join"}
     /\ \A t \in Threads : failing[t].at = "no") =>
    input # "on"

\* A run ends once its input does, it fails or it is stopped.
RunEnds == worker \in {"drain", "leave", "eof"} \/ stopping ~> worker = "off"

\* Stop returns.
StopReturns == caller = "stop" ~> caller = "idle"

\* "Ended/Failed and final file snapshots persist until the next Start"
\* (remux_pipeline.h:117).  The code breaks it: between Fail's critical section
\* and RequestStop's, the worker or the input's callback publishes another state.
FailedPersists == [][state = "failed" /\ state' # "failed" => Start]_vars
=============================================================================
