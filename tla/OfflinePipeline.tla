-------------------------- MODULE OfflinePipeline --------------------------
(***************************************************************************)
(* The offline pipeline (offline_pipeline.cc): one consumer thread starts  *)
(* the business filter and the source, hands every frame to the filter,    *)
(* resets the filter after the last EOF and waits for the source to end;   *)
(* the source's thread announces its states, the lifecycle caller starts   *)
(* and stops, another thread may call RequestStop.  A step is one critical *)
(* section, one revision of the signal, or one call outside the lock.      *)
(*                                                                         *)
(* External: the source, which after Start opens, delivers each track and  *)
(* its EOF in order, drains, and ends when every EOF was read, or fails,   *)
(* or is cancelled; and the business filter, which may throw.              *)
(***************************************************************************)
EXTENDS Naturals, Sequences, FiniteSets

CONSTANTS
  None,         \* no error
  Tracks,       \* the tracks of the file
  Frames,       \* bound: frames of a track
  MaxSessions,  \* bound: calls of Start
  MaxRequests,  \* bound: calls of RequestStop by another thread, per session
  MaxFaults     \* bound: failures

VARIABLES
  state, started, stopping, ended, error,  \* as in the code
  reports,   \* history: OnError calls of this session
  caller,    \* where the lifecycle caller is
  requester, \* a thread inside RequestStop, after the lock
  failing,   \* where a thread is in Fail, and with what
  worker,    \* where Run is
  todo,      \* tracks the round of Consume has not looked at
  progress,  \* the round read something
  completed, \* Run's local
  changed,   \* signal_ was notified since the worker took its revision
  source,    \* state of source_
  announce,  \* the state its thread is about to pass to OnStateChanged
  items,     \* what TryRead of a track would return next, in order
  left,      \* frames a track has still to deliver, then its EOF
  eof,       \* tracks whose EOF the worker has read
  filter,    \* history: calls of the filter in this session
  requests, sessions, faults

pipeline == <<state, started, stopping, ended, error>>
consume == <<worker, todo, progress, completed>>
input == <<source, announce, items, left>>
counters == <<requests, sessions, faults>>
vars == <<pipeline, reports, caller, requester, failing, consume, changed, input,
          eof, filter, counters>>

Threads == {"caller", "worker", "source"}
Calm == [at |-> "no", cause |-> None]
Failure(cause) == [at |-> "fail", cause |-> cause]
Fault == faults < MaxFaults /\ faults' = faults + 1 /\ UNCHANGED <<requests, sessions>>

Init ==
  /\ state = "stopped" /\ started = FALSE /\ stopping = FALSE /\ ended = FALSE
  /\ error = None /\ reports = 0
  /\ caller = "idle" /\ requester = "idle"
  /\ failing = [t \in Threads |-> Calm]
  /\ worker = "off" /\ todo = {} /\ progress = FALSE /\ completed = FALSE
  /\ changed = FALSE
  /\ source = "off" /\ announce = None
  /\ items = [t \in Tracks |-> <<>>] /\ left = [t \in Tracks |-> 0]
  /\ eof = {} /\ filter = <<>>
  /\ requests = 0 /\ sessions = 0 /\ faults = 0

-----------------------------------------------------------------------------
(* The lifecycle caller.                                                   *)

\* Start: an invalid path or a worker that cannot be created fails the session.
Start ==
  /\ caller = "idle" /\ ~started /\ sessions < MaxSessions
  /\ requester = "idle"  \* bound: no RequestStop outlasts its session
  /\ started' = TRUE /\ stopping' = FALSE /\ ended' = FALSE /\ error' = None
  /\ state' = "starting" /\ reports' = 0 /\ filter' = <<>> /\ eof' = {}
  /\ completed' = FALSE /\ sessions' = sessions + 1 /\ requests' = 0
  /\ caller' = "start"
  /\ UNCHANGED <<requester, failing, worker, todo, progress, changed, input, faults>>

StartWorker ==
  /\ caller = "start"
  /\ \/ worker' = "filter" /\ caller' = "idle" /\ UNCHANGED <<failing, counters>>
     \/ /\ Fault /\ caller' = "catch" /\ UNCHANGED worker
        /\ failing' = [failing EXCEPT !["caller"] = Failure("caller")]
  /\ UNCHANGED <<pipeline, reports, requester, todo, progress, completed, changed,
                 input, eof, filter>>

Stop ==
  /\ \/ caller = "idle" /\ started
     \/ caller = "catch" /\ failing["caller"] = Calm
  /\ caller' = "stop"
  /\ UNCHANGED <<pipeline, reports, requester, failing, consume, changed, input, eof,
                 filter, counters>>

\* The critical section of RequestStop.
Requested ==
  /\ stopping' = TRUE
  /\ state' = IF started /\ error = None /\ ~ended THEN "stopping" ELSE state
  /\ UNCHANGED <<started, ended, error>>

SourceCancelled ==
  source' = IF source \in {"opening", "running", "draining"} THEN "cancelled" ELSE source

\* source_.RequestStop without signal_->Notify.
CancelUnheard == SourceCancelled /\ UNCHANGED <<announce, items, left, changed>>
Cancel == SourceCancelled /\ changed' = TRUE /\ UNCHANGED <<announce, items, left>>

StopRequest ==
  /\ caller = "stop" /\ Requested /\ caller' = "cancel"
  /\ UNCHANGED <<reports, requester, failing, consume, changed, input, eof, filter,
                 counters>>

StopCancel ==
  /\ caller = "cancel" /\ Cancel /\ caller' = "join"
  /\ UNCHANGED <<pipeline, reports, requester, failing, consume, eof, filter, counters>>

\* The worker is joined, the source stopped, the final state published.
StopDone ==
  /\ caller = "join" /\ worker = "off" /\ failing["source"] = Calm
  /\ caller' = "idle" /\ started' = FALSE
  /\ announce' = None  \* Stop of the source keeps the state it ended in
  /\ state' = IF error # None THEN "failed" ELSE IF ended THEN "ended" ELSE "stopped"
  /\ UNCHANGED <<stopping, ended, error, reports, requester, failing, consume,
                 changed, source, items, left, eof, filter, counters>>

RequestStop ==
  /\ requester = "idle" /\ requests < MaxRequests /\ started
  /\ requester' = "cancel" /\ requests' = requests + 1
  /\ Requested
  /\ UNCHANGED <<reports, caller, failing, consume, changed, input, eof, filter,
                 sessions, faults>>

RequestCancel ==
  /\ requester = "cancel" /\ requester' = "idle" /\ Cancel
  /\ UNCHANGED <<pipeline, reports, caller, failing, consume, eof, filter, counters>>

-----------------------------------------------------------------------------
(* Fail, on any of the threads.                                            *)

FailLock(t) ==
  /\ failing[t].at = "fail"
  /\ IF ~started \/ error # None
     THEN /\ failing' = [failing EXCEPT ![t] = Calm]
          /\ UNCHANGED <<error, state>>
     ELSE /\ error' = failing[t].cause /\ state' = "failed"
          /\ failing' = [failing EXCEPT ![t].at = "request"]
  /\ UNCHANGED <<started, stopping, ended, reports, caller, requester, consume,
                 changed, input, eof, filter, counters>>

FailRequest(t) ==
  /\ failing[t].at = "request" /\ Requested
  /\ failing' = [failing EXCEPT ![t].at = "cancel"]
  /\ UNCHANGED <<reports, caller, requester, consume, changed, input, eof, filter,
                 counters>>

FailCancel(t) ==
  /\ failing[t].at = "cancel" /\ Cancel
  /\ reports' = reports + 1
  /\ failing' = [failing EXCEPT ![t] = Calm]
  /\ UNCHANGED <<pipeline, caller, requester, consume, eof, filter, counters>>

-----------------------------------------------------------------------------
(* The source.                                                             *)

SourceStep(next) ==
  /\ source' = next /\ announce' = next
  /\ UNCHANGED <<pipeline, reports, caller, requester, failing, consume, changed, eof,
                 filter>>

Opened == source = "opening" /\ announce = None /\ SourceStep("running")
          /\ UNCHANGED <<items, left, counters>>

Deliver(t) ==
  /\ source = "running" /\ announce = None /\ items[t] = <<>> /\ left[t] > 0
  /\ items' = [items EXCEPT ![t] = IF left[t] > 1 THEN <<"frame">> ELSE <<"eof">>]
  /\ left' = [left EXCEPT ![t] = @ - 1]
  /\ changed' = TRUE
  /\ UNCHANGED <<pipeline, reports, caller, requester, failing, consume, source,
                 announce, eof, filter, counters>>

Drained == source = "running" /\ announce = None /\ (\A t \in Tracks : left[t] = 0)
           /\ SourceStep("draining") /\ UNCHANGED <<items, left, counters>>

Ended == source = "draining" /\ announce = None /\ (\A t \in Tracks : items[t] = <<>>)
         /\ SourceStep("ended") /\ UNCHANGED <<items, left, counters>>

Failed == source \in {"opening", "running", "draining"} /\ announce = None /\ Fault
          /\ SourceStep("failed") /\ UNCHANGED <<items, left>>

\* A state of the source after a stop was requested.
AnnouncedRegardless ==
  IF announce \in {"running", "draining"} THEN state' = announce ELSE UNCHANGED state

\* The lambda given to SetOnStateChanged, for a state other than kFailed.
AnnouncedState ==
  IF started /\ ~stopping /\ error = None /\ announce \in {"running", "draining"}
  THEN state' = announce ELSE UNCHANGED state

Announce ==
  /\ announce # None /\ announce' = None
  /\ IF announce = "failed"
     THEN /\ failing' = [failing EXCEPT !["source"] = Failure("source")]
          /\ UNCHANGED <<state, changed>>
     ELSE AnnouncedState /\ changed' = TRUE /\ UNCHANGED failing
  /\ UNCHANGED <<started, stopping, ended, error, reports, caller, requester, consume,
                 source, items, left, eof, filter, counters>>

-----------------------------------------------------------------------------
(* The consumer thread.                                                    *)

Quiet == UNCHANGED <<pipeline, reports, caller, requester>>
Throws == Fault /\ worker' = "clean"
          /\ failing' = [failing EXCEPT !["worker"] = Failure("worker")]
Called(what) == filter' = Append(filter, what)

FilterStart ==
  /\ worker = "filter"
  /\ \/ Called("start") /\ worker' = "source" /\ UNCHANGED <<failing, counters>>
     \/ Throws /\ UNCHANGED filter
  /\ UNCHANGED <<todo, progress, completed, changed, input, eof>> /\ Quiet

\* Not looking again after Start has reset the source's cancellation.
SourceStartOnce == worker' = "observe"
SourceStarted == worker' = "again"

SourceWanted ==
  /\ worker = "source"
  /\ worker' = IF stopping THEN "observe" ELSE "open"
  /\ UNCHANGED <<failing, todo, progress, completed, changed, input, eof, filter,
                 counters>> /\ Quiet

SourceStart ==
  /\ worker = "open"
  /\ \/ /\ source' = "opening" /\ announce' = None
        /\ items' = [t \in Tracks |-> <<>>]
        /\ left' = [t \in Tracks |-> Frames + 1]
        /\ SourceStarted /\ UNCHANGED <<failing, counters>>
     \/ Throws /\ UNCHANGED input
  /\ UNCHANGED <<todo, progress, completed, changed, eof, filter>> /\ Quiet

StopAgain ==
  /\ worker = "again" /\ worker' = "observe"
  /\ IF stopping THEN Cancel ELSE UNCHANGED <<changed, input>>
  /\ UNCHANGED <<failing, todo, progress, completed, eof, filter, counters>> /\ Quiet

\* A round of Consume: the revision first, then the tracks.
Observe ==
  /\ worker = "observe"
  /\ changed' = FALSE /\ progress' = FALSE
  /\ IF stopping THEN worker' = "clean" /\ todo' = {}
     ELSE worker' = "round" /\ todo' = IF source \in {"off", "opening"} THEN {}
                                       ELSE Tracks \ eof
  /\ UNCHANGED <<failing, completed, input, eof, filter, counters>> /\ Quiet

Read(t) ==
  /\ worker = "round" /\ t \in todo /\ todo' = todo \ {t}
  /\ IF stopping \/ items[t] = <<>>
     THEN UNCHANGED <<worker, progress, items, eof, filter, failing, counters>>
     ELSE /\ progress' = TRUE /\ items' = [items EXCEPT ![t] = <<>>]
          /\ IF items[t] = <<"eof">>
             THEN eof' = eof \cup {t} /\ UNCHANGED <<worker, filter, failing, counters>>
             ELSE \/ Called(t) /\ UNCHANGED <<worker, eof, failing, counters>>
                  \/ Throws /\ UNCHANGED <<eof, filter>>
  /\ UNCHANGED <<completed, changed, source, announce, left>> /\ Quiet

RoundDone ==
  /\ worker = "round" /\ todo = {}
  /\ worker' = IF eof = Tracks THEN (IF stopping THEN "clean" ELSE "reset")
               ELSE IF progress THEN "observe" ELSE IF stopping THEN "clean" ELSE "wait"
  /\ UNCHANGED <<failing, todo, progress, completed, changed, input, eof, filter,
                 counters>> /\ Quiet

Wait ==
  /\ worker \in {"wait", "endwait"} /\ changed
  /\ IF worker = "wait" THEN worker' = "observe" /\ UNCHANGED changed
     ELSE worker' = "end" /\ changed' = FALSE  \* the next revision
  /\ UNCHANGED <<failing, todo, progress, completed, input, eof, filter, counters>>
  /\ Quiet

FilterReset ==
  /\ worker = "reset"
  /\ \/ Called("reset") /\ worker' = "end" /\ UNCHANGED <<failing, counters>>
     \/ Throws /\ UNCHANGED filter
  /\ changed' = FALSE  \* the revision taken on entering the loop
  /\ UNCHANGED <<todo, progress, completed, input, eof>> /\ Quiet

\* Not waiting for the source to publish its end.
EndAtOnce ==
  /\ worker = "end" /\ completed' = TRUE /\ worker' = "clean"
  /\ UNCHANGED <<failing, todo, progress, changed, input, eof, filter, counters>> /\ Quiet

AwaitEnd ==
  /\ worker = "end"
  /\ completed' = (~stopping /\ source = "ended")
  /\ worker' = IF stopping \/ source = "ended" THEN "clean" ELSE "endwait"
  /\ UNCHANGED <<failing, todo, progress, changed, input, eof, filter, counters>> /\ Quiet

\* source_.Stop joins the source's thread, then filter_.Stop.
Clean ==
  /\ worker = "clean" /\ failing["worker"] = Calm
  /\ announce = None /\ failing["source"] = Calm
  /\ source' = IF source \in {"ended", "failed"} THEN source ELSE "off"
  /\ \/ /\ filter' = IF filter = <<>> THEN filter ELSE Append(filter, "stop")
        /\ UNCHANGED <<failing, counters>>
     \/ /\ filter # <<>> /\ Fault /\ Called("stop")
        /\ failing' = [failing EXCEPT !["worker"] = Failure("worker")]
  /\ worker' = "final"
  /\ UNCHANGED <<todo, progress, completed, changed, announce, items, left, eof>>
  /\ Quiet

Finish ==
  /\ worker = "final" /\ failing["worker"] = Calm /\ worker' = "off"
  /\ ended' = (completed /\ ~stopping /\ error = None)
  /\ state' = IF error # None THEN "failed" ELSE IF ended' THEN "ended" ELSE "stopped"
  /\ UNCHANGED <<started, stopping, error, reports, caller, requester, failing, todo,
                 progress, completed, changed, input, eof, filter, counters>>

-----------------------------------------------------------------------------
WorkerStep ==
  \/ FilterStart \/ SourceWanted \/ SourceStart \/ StopAgain \/ Observe \/ (\E t \in Tracks : Read(t))
  \/ RoundDone \/ Wait \/ FilterReset \/ AwaitEnd \/ Clean \/ Finish
SourceProgress == Opened \/ (\E t \in Tracks : Deliver(t)) \/ Drained \/ Ended \/ Announce
CallerStep == StartWorker \/ StopRequest \/ StopCancel \/ StopDone
              \/ (caller = "catch" /\ Stop)
FailStep == \E t \in Threads : FailLock(t) \/ FailRequest(t) \/ FailCancel(t)

Next == Start \/ Stop \/ CallerStep \/ RequestStop \/ RequestCancel \/ FailStep
        \/ SourceProgress \/ Failed \/ WorkerStep

Spec == Init /\ [][Next]_vars
        /\ WF_vars(WorkerStep) /\ WF_vars(SourceProgress) /\ WF_vars(CallerStep)
        /\ WF_vars(FailStep) /\ WF_vars(RequestCancel)

-----------------------------------------------------------------------------
TypeOK ==
  /\ state \in {"stopped", "starting", "running", "draining", "ended", "stopping", "failed"}
  /\ {started, stopping, ended, progress, completed, changed} \subseteq BOOLEAN
  /\ error \in Threads \cup {None}
  /\ todo \subseteq Tracks /\ eof \subseteq Tracks /\ left \in [Tracks -> 0..(Frames + 1)]

TimesCalled(what) == Cardinality({i \in DOMAIN filter : filter[i] = what})

\* An ended run is a complete one: every frame of every track went through the
\* filter, the filter was reset once, after the last of them, and stopped, the
\* source has published its end, and nobody had stopped the session or failed
\* before.  A reset never comes before the last EOF, and OnStop follows every
\* successful OnStart.
EndedComplete ==
  /\ (state = "ended" \/ TimesCalled("reset") > 0) =>
       /\ \A t \in Tracks : TimesCalled(t) = Frames
       /\ TimesCalled("reset") = 1
  /\ state = "ended" =>
       error = None /\ filter[Len(filter)] = "stop" /\ source = "ended"
  /\ (worker = "off" /\ filter # <<>>) => TimesCalled("stop") = 1
  /\ reports <= 1

\* A stop or a failure at any moment, also while the worker starts the source,
\* reaches the source, and a worker that waits for the signal is woken.
StopReachesSource ==
  (stopping /\ worker \in {"observe", "round", "wait", "end", "endwait"}
     /\ requester = "idle" /\ caller \in {"idle", "join"}
     /\ \A t \in Threads : failing[t] = Calm) =>
    /\ source \notin {"opening", "running", "draining"}
    /\ worker \in {"wait", "endwait"} => changed

\* The run ends by itself, when its tracks are drained, it fails or it is
\* stopped.
RunEnds == worker # "off" ~> worker = "off"

\* Stop returns.
StopReturns == caller = "stop" ~> caller = "idle"

LC == INSTANCE PipelineLifecycle WITH phase <- state, open <- started, failure <- error

\* The published state keeps the promises of PipelineLifecycle.
Implements == LC!Spec
=============================================================================
