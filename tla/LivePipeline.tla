---------------------------- MODULE LivePipeline ----------------------------
(***************************************************************************)
(* The live pipeline (live_pipeline.cc): a lifecycle caller starts and     *)
(* stops four components in fixed orders while their threads may fail, an  *)
(* encoder worker may find the remuxer closed, and another thread may call *)
(* RequestStop.  A step is one critical section under mutex_, or one call  *)
(* into the components outside it.                                         *)
(*                                                                         *)
(* External: the components, seen here through what they promise in their  *)
(* own modules: Start forgets an earlier cancellation, Stop joins the      *)
(* threads that may call Fail, the first failure of a component is kept.   *)
(***************************************************************************)
EXTENDS Naturals, Sequences

CONSTANTS
  None,         \* no error
  MaxSessions,  \* bound: calls of Start
  MaxRequests,  \* bound: calls of RequestStop by another thread, per session
  MaxFaults     \* bound: component failures

ASSUME NoneAssumption == None \notin {"encoder", "remuxer", "source", "scheduler", "rejected"}

VARIABLES
  state,    \* state_
  started,  \* started_
  error,    \* error_: the component that failed first, "rejected" or None
  reports,  \* history: OnError calls of this session
  caller,   \* where the lifecycle caller is
  nth,      \* the component it starts or joins next, 0 otherwise
  requester,\* a thread between the lock and the cancellations of RequestStop
  parts,    \* state of the components
  failing,  \* where the thread of a component is in Fail, and with what
  fed,      \* the scheduler has given the encoder frames in this session
  requests, sessions, faults

pipeline == <<state, started, error>>
calling == <<caller, nth>>
counters == <<requests, sessions, faults>>
vars == <<pipeline, reports, calling, requester, parts, failing, fed, counters>>

StartOrder == <<"encoder", "remuxer", "source", "scheduler">>
\* Closing the output while the encoder still holds packets.
StopOutputFirst == <<"scheduler", "source", "remuxer", "encoder">>
StopOrder == <<"scheduler", "source", "encoder", "remuxer">>
Components == {"encoder", "remuxer", "source", "scheduler"}
Causes == Components \cup {"rejected"}
Calm == [at |-> "no", cause |-> None]
Failure(cause) == [at |-> "fail", cause |-> cause]
Goto(place, n) == caller' = place /\ nth' = n
Threads == Components \cup {"caller"}  \* those that call Fail

Init ==
  /\ state = "stopped" /\ started = FALSE /\ error = None /\ reports = 0
  /\ caller = "idle" /\ nth = 0 /\ requester = "idle"
  /\ parts = [c \in Components |-> "off"]
  /\ failing = [c \in Threads |-> Calm]
  /\ fed = FALSE /\ requests = 0 /\ sessions = 0 /\ faults = 0

Fault == faults < MaxFaults /\ faults' = faults + 1 /\ UNCHANGED <<requests, sessions>>

\* RequestStop on the scheduler and the source: a component that is off
\* ignores it, because its Start resets the flag.
Cancelled ==
  [c \in Components |-> IF c \in {"source", "scheduler"} /\ parts[c] = "on"
                        THEN "cancelled" ELSE parts[c]]

-----------------------------------------------------------------------------
(* Start.                                                                  *)

Start ==
  /\ caller = "idle" /\ ~started /\ sessions < MaxSessions
  /\ started' = TRUE /\ state' = "starting" /\ error' = None
  /\ reports' = 0 /\ fed' = FALSE /\ Goto("start", 1)
  /\ sessions' = sessions + 1 /\ requests' = 0
  /\ UNCHANGED <<requester, parts, failing, faults>>

Throw(cause) ==
  Goto("catch", 0) /\ failing' = [failing EXCEPT !["caller"] = Failure(cause)]

\* CheckFailure after the component before, then the next component.
StartPart ==
  LET c == StartOrder[nth] IN
  /\ caller = "start" /\ nth <= 4
  /\ \/ /\ error = None
        /\ parts' = [parts EXCEPT ![c] = "on"]
        /\ fed' = (c = "scheduler")
        /\ Goto("start", nth + 1) /\ UNCHANGED <<failing, counters>>
     \/ /\ error = None /\ Fault
        /\ Throw(c) /\ UNCHANGED <<parts, fed>>
     \/ /\ error # None
        /\ Throw(error) /\ UNCHANGED <<parts, fed, counters>>
  /\ UNCHANGED <<pipeline, reports, requester>>

\* The final critical section of Start.
Commit ==
  /\ caller = "start" /\ nth = 5
  /\ \/ error # None /\ Throw(error) /\ UNCHANGED state
     \/ /\ error = None /\ state = "stopping"
        /\ Goto("stop", 0) /\ UNCHANGED <<state, failing>>
     \/ /\ error = None /\ state # "stopping"
        /\ state' = "running" /\ Goto("idle", 0) /\ UNCHANGED failing
  /\ UNCHANGED <<started, error, reports, requester, parts, fed, counters>>

-----------------------------------------------------------------------------
(* Fail, by the caller's catch or on the thread of a component.            *)

\* A later error replacing the first.
KeepLast(cause) == error' = cause /\ state' = "failed"
KeepFirst(cause) ==
  IF error # None THEN UNCHANGED <<error, state>>
  ELSE error' = cause /\ state' = "failed"

\* The catch of Start: Fail has returned.
CatchDone ==
  /\ caller = "catch" /\ failing["caller"] = Calm
  /\ Goto("stop", 0)
  /\ UNCHANGED <<pipeline, reports, requester, parts, failing, fed, counters>>

Alive(c) == parts[c] \in {"on", "cancelled"}

\* The thread of a component reports a fault of its own.
Break(c) ==
  /\ Alive(c) /\ Fault
  /\ parts' = [parts EXCEPT ![c] = "broken"]
  /\ failing' = [failing EXCEPT ![c] = Failure(c)]
  /\ UNCHANGED <<pipeline, reports, calling, requester, fed>>

\* OnPacket of the encoder: the remuxer refuses, because it failed or because
\* it is not running; what is thrown fails the encoder.
OutputRefused ==
  LET cause == IF parts["remuxer"] = "broken" THEN "remuxer"
               ELSE IF error # None THEN error ELSE "rejected" IN
  /\ Alive("encoder") /\ fed
  /\ ~Alive("remuxer")
  /\ parts' = [parts EXCEPT !["encoder"] = "broken"]
  /\ failing' = [failing EXCEPT !["encoder"] = Failure(cause)]
  /\ UNCHANGED <<pipeline, reports, calling, requester, fed, counters>>

FailLock(c) ==
  /\ failing[c].at = "fail"
  /\ KeepFirst(failing[c].cause)
  /\ failing' = [failing EXCEPT ![c] =
       IF error = None THEN [@ EXCEPT !.at = "cancel"] ELSE Calm]
  /\ UNCHANGED <<started, reports, calling, requester, parts, fed, counters>>

FailCancel(c) ==
  /\ failing[c].at = "cancel"
  /\ parts' = Cancelled /\ reports' = reports + 1
  /\ failing' = [failing EXCEPT ![c] = Calm]
  /\ UNCHANGED <<pipeline, calling, requester, fed, counters>>

-----------------------------------------------------------------------------
(* RequestStop and Stop.                                                   *)

RequestedState == IF started /\ state # "failed" THEN "stopping" ELSE state

RequestStop ==
  /\ requester = "idle" /\ requests < MaxRequests /\ sessions > 0
  /\ requester' = "cancel" /\ requests' = requests + 1
  /\ state' = RequestedState
  /\ UNCHANGED <<started, error, reports, calling, parts, failing, fed, sessions, faults>>

RequestCancel ==
  /\ requester = "cancel"
  /\ parts' = Cancelled /\ requester' = "idle"
  /\ UNCHANGED <<pipeline, reports, calling, failing, fed, counters>>

Stop ==
  /\ caller = "idle" /\ started
  /\ Goto("stop", 0)
  /\ UNCHANGED <<pipeline, reports, requester, parts, failing, fed, counters>>

StopRequest ==
  /\ caller = "stop"
  /\ state' = RequestedState /\ Goto("cancel", 0)
  /\ UNCHANGED <<started, error, reports, requester, parts, failing, fed, counters>>

StopCancel ==
  /\ caller = "cancel"
  /\ parts' = Cancelled /\ Goto("join", 1)
  /\ UNCHANGED <<pipeline, reports, requester, failing, fed, counters>>

\* Stop of a component joins its threads: none of them is in Fail any more.
StopPart ==
  LET c == StopOrder[nth] IN
  /\ caller = "join" /\ nth <= 4 /\ failing[c] = Calm
  /\ parts' = [parts EXCEPT ![c] = "off"]
  /\ Goto("join", nth + 1)
  /\ UNCHANGED <<pipeline, reports, requester, failing, fed, counters>>

StopDone ==
  /\ caller = "join" /\ nth = 5 /\ Goto("idle", 0)
  /\ started' = FALSE
  /\ state' = IF error # None THEN "failed" ELSE "stopped"
  /\ UNCHANGED <<error, reports, requester, parts, failing, fed, counters>>

-----------------------------------------------------------------------------
CallerStep == StartPart \/ Commit \/ CatchDone \/ StopRequest \/ StopCancel
              \/ StopPart \/ StopDone
FailStep == \E c \in Threads : FailLock(c) \/ FailCancel(c)

Next == Start \/ Stop \/ CallerStep \/ FailStep \/ OutputRefused
        \/ RequestStop \/ RequestCancel \/ \E c \in Components : Break(c)

Spec == Init /\ [][Next]_vars
        /\ WF_vars(CallerStep) /\ WF_vars(FailStep) /\ WF_vars(RequestCancel)

-----------------------------------------------------------------------------
TypeOK ==
  /\ state \in {"stopped", "starting", "running", "stopping", "failed"}
  /\ started \in BOOLEAN /\ error \in Causes \cup {None}
  /\ caller \in {"idle", "start", "catch", "stop", "cancel", "join"}
  /\ nth \in 0..5
  /\ reports \in Nat /\ requester \in {"idle", "cancel"}
  /\ parts \in [Components -> {"off", "on", "cancelled", "broken"}]
  /\ failing \in [Threads -> [at : {"no", "fail", "cancel"}, cause : Causes \cup {None}]]
  /\ fed \in BOOLEAN

\* The error of a session is its root cause (the pipeline's OnPacket lambda and
\* the order in Stop): a refusal by the remuxer is never reported as such,
\* only as what made it refuse, and each session reports one error at most.
RootCause ==
  /\ error # "rejected" /\ \A c \in Threads : failing[c].cause # "rejected"
  /\ reports <= 1

\* A stop that is asked for, or a failure, at any point of Start is not lost
\* although each component's Start forgets an earlier cancellation: when no
\* call is under way, a session that does not run has cancelled its source and
\* its scheduler.
StopReachesParts ==
  (started /\ caller = "idle" /\ requester = "idle"
     /\ \A c \in Threads : failing[c] = Calm) =>
    \/ state = "running" /\ error = None
    \/ /\ state \in {"stopping", "failed"}
       /\ \A c \in {"source", "scheduler"} : parts[c] # "on"

\* Stop returns, whatever fails while it waits.
StopReturns == caller = "stop" ~> caller = "idle"

LC == INSTANCE PipelineLifecycle WITH phase <- state, open <- started, failure <- error

\* The published state keeps the promises of PipelineLifecycle.
Implements == LC!Spec
=============================================================================
