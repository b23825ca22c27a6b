----------------------------- MODULE MCPipelines -----------------------------
(* The three pipelines, one in each behaviour.  The offline and the remuxing *)
(* pipeline share the variables for what they both have.  The offline        *)
(* pipeline has a failure and a stop request in its first session, and at    *)
(* most one of them once it was started again.  The scripts of the           *)
(* remuxing pipeline: a source that loops into a new connection, which       *)
(* begins with a packet of a track that is not remuxed, and is asked to      *)
(* stop, one of probed audio whose timestamps jump, with a failure, and one  *)
(* of a single packet with both.                                             *)
EXTENDS LivePipeline, Integers

CONSTANTS push,  \* an output of the remuxing pipeline
          Tracks, Frames, MaxGap, ProbePackets,
          Plans, OfflineFaults, RemuxSessions

ASSUME PipelinesAssumption == None \notin {"caller", "worker", "source", "failed"}

\* No track has the name of a call of the filter.
ASSUME TracksAssumption == Frames \in Nat /\ {"start", "reset", "stop"} \cap Tracks = {}

\* Connections and times are numbers, and the EOF of an input that does not loop
\* is the last it returns.
ASSUME PlansAssumption ==
  /\ None \notin Int /\ MaxGap \in Int
  /\ \A p \in Plans :
       /\ p.items \in Seq([conn : Nat \ {0}, track : 0..3, dts : Int])
       /\ ~p.loop => \A n \in DOMAIN p.items : p.items[n].track = 0 => n = Len(p.items)

VARIABLES which,
          \* both, as reports, caller, requester, failing, requests, sessions, faults
          told, control, asker, thrower, asked, runs, broken,
          stopping, ended, announce,
          \* the offline pipeline, after state, started, error and worker
          state1, started1, error1, worker1, todo, progress, completed, changed,
          source, items, left, eof, filter,
          \* the remuxing pipeline, after state, started, error and worker
          state2, started2, error2, worker2, plan, hasMedia, workerDone, atEof, hand,
          pending, conn, last, probe, timer, input, read, mutex, current, live, output, served, registration,
          retired, retiring, history, reaper, delivered

P(c, t, d) == [conn |-> c, track |-> t, dts |-> d]
Eof(c) == [conn |-> c, track |-> 0, dts |-> 0]
Plan(is, loop, flagged, aac, adds, stops, breaks) ==
  [items |-> is, loop |-> loop, flagged |-> flagged, aac |-> aac, adds |-> adds,
   requests |-> stops, faults |-> breaks]
MCPlans == {
  Plan(<<P(1, 1, 0), P(1, 2, 5), Eof(1), P(2, 3, 0), P(2, 1, 0)>>, TRUE, FALSE, FALSE, {push}, 1, 0),
  Plan(<<P(1, 1, 0), P(1, 2, 0), P(1, 1, 5), P(1, 2, 5), Eof(1)>>, FALSE, TRUE, TRUE, {}, 0, 1),
  Plan(<<P(1, 1, 0), Eof(1)>>, FALSE, FALSE, FALSE, {}, 1, 1) }

Offline == INSTANCE OfflinePipeline WITH
  state <- state1, started <- started1, error <- error1, worker <- worker1, reports <- told,
  caller <- control, requester <- asker, failing <- thrower, requests <- asked,
  sessions <- runs, faults <- broken, MaxFaults <- OfflineFaults
Remux == INSTANCE RemuxPipeline WITH
  state <- state2, started <- started2, error <- error2, worker <- worker2, reports <- told,
  caller <- control, requester <- asker, failing <- thrower, requests <- asked,
  sessions <- runs, faults <- broken, control <- mutex,
  MaxSessions <- RemuxSessions

shared == <<told, control, asker, thrower, asked, runs, broken, stopping, ended,
            announce>>
offlineOnly == <<state1, started1, error1, worker1, todo, progress, completed,
                 changed, source, items, left, eof, filter>>
remuxOnly == <<state2, started2, error2, worker2, plan, hasMedia, workerDone, atEof,
               hand, pending, conn, last, probe, timer, input, read, mutex, current, live, output, served, registration,
               retired, retiring, history, reaper, delivered>>

OfflineUnused ==
  /\ state1 = "stopped" /\ started1 = FALSE /\ error1 = None /\ worker1 = "off"
  /\ todo = None /\ progress = None /\ completed = None /\ changed = None
  /\ source = None /\ items = None /\ left = None /\ eof = None /\ filter = None
RemuxUnused ==
  /\ state2 = "stopped" /\ started2 = FALSE /\ error2 = None /\ worker2 = "off"
  /\ plan = None /\ hasMedia = None /\ workerDone = None /\ atEof = None /\ hand = None
  /\ pending = None /\ conn = None /\ last = None /\ probe = None /\ timer = None
  /\ input = None /\ read = None /\ mutex = None /\ current = None /\ live = None
  /\ output = None /\ served = None /\ registration = None /\ retired = None
  /\ retiring = None /\ history = None /\ reaper = None /\ delivered = None

MCInit ==
  /\ Init
  /\ \/ which \in {"live", "offline"} /\ Offline!Init /\ RemuxUnused
     \/ which = "remux" /\ Remux!Init /\ OfflineUnused

MCNext ==
  /\ UNCHANGED which
  /\ \/ which = "live" /\ Next /\ UNCHANGED <<shared, offlineOnly, remuxOnly>>
     \/ which = "offline" /\ Offline!Next /\ UNCHANGED <<vars, remuxOnly>>
        /\ (runs' > 1 => broken' + asked' < 2)
     \/ which = "remux" /\ Remux!Next /\ UNCHANGED <<vars, offlineOnly>>

\* The fairness of the three specifications, for the one that runs.
MCFairness ==
  /\ WF_vars(which = "live" /\ CallerStep)
  /\ WF_vars(which = "live" /\ FailStep)
  /\ WF_vars(which = "live" /\ RequestCancel)
  /\ LET offlineVars == <<shared, offlineOnly>> IN
       /\ WF_offlineVars(which = "offline" /\ Offline!WorkerStep)
       /\ WF_offlineVars(which = "offline" /\ Offline!SourceProgress)
       /\ WF_offlineVars(which = "offline" /\ Offline!CallerStep)
       /\ WF_offlineVars(which = "offline" /\ Offline!FailStep)
       /\ WF_offlineVars(which = "offline" /\ Offline!RequestCancel)
  /\ LET remuxVars == <<shared, remuxOnly>> IN
       /\ WF_remuxVars(which = "remux" /\ Remux!WorkerStep)
       /\ WF_remuxVars(which = "remux" /\ Remux!CallerStep)
       /\ WF_remuxVars(which = "remux" /\ Remux!FailStep)
       /\ WF_remuxVars(which = "remux" /\ Remux!RequestCancel)
       /\ WF_remuxVars(which = "remux" /\ Remux!InputEnds)
       /\ WF_remuxVars(which = "remux" /\ Remux!Announce)
       /\ WF_remuxVars(which = "remux" /\ Remux!Reap)

MCSpec == MCInit /\ [][MCNext]_<<which, vars, shared, offlineOnly, remuxOnly>> /\ MCFairness

\* A run that ended is complete: every frame of a file went through the filter
\* (OfflinePipeline.tla, EndedComplete; Consume, Run), every packet of an input
\* into a session whose files are finished (RemuxPipeline.tla, EndedComplete;
\* Run, PrepareStreams, Reap).
EndedComplete ==
  /\ which = "offline" => Offline!EndedComplete
  /\ which = "remux" => Remux!EndedComplete

\* A stop or a failure at any moment, also in the middle of Start, reaches the
\* components (LivePipeline.tla, StopReachesParts; RequestStop, Start;
\* OfflinePipeline.tla, StopReachesSource, and RemuxPipeline.tla,
\* StopReachesInput; Run, Fail).
StopReaches ==
  /\ StopReachesParts
  /\ which = "offline" => Offline!StopReachesSource
  /\ which = "remux" => Remux!StopReachesInput

\* Output sessions follow the connections and jumps of the input, and every
\* added output serves each of them (RemuxPipeline.tla, SessionsSeparated and
\* TemplatesKept; Run, Initialize, EnsureRemuxer).
SessionsServed ==
  which = "remux" => Remux!SessionsSeparated /\ Remux!TemplatesKept

\* The offline pipeline publishes the states PipelineLifecycle promises
\* (OfflinePipeline.tla; the callbacks, Fail, RequestStop, Run, Stop).
OfflineImplements == Offline!Implements

\* Stop of every pipeline returns, and a run ends when its input does, it fails
\* or it is stopped (Stop, Run, Reap); the caller is that of both workers.
CallsReturn == StopReturns /\ Offline!StopReturns /\ Offline!RunEnds /\ Remux!RunEnds
=============================================================================
