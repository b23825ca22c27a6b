------------------------------ MODULE Scheduler ------------------------------
(***************************************************************************)
(* The realtime scheduler of a live pipeline (scheduler.cc): one driver    *)
(* thread, one worker per track, and the lifecycle calls.  The driver      *)
(* reads source frames, hands a job to a track's idle worker, collects the *)
(* worker's result and offers it, through the passive Syncer, to the       *)
(* downstream queue.  It sleeps on one WaitSignal for every event.         *)
(*                                                                         *)
(* A step is one critical section under mutex_, one notification, or one   *)
(* piece of work on state that a single thread owns.  A revision counter   *)
(* is kept as what the code asks of it: whether it moved since it was last *)
(* recorded (changed, lane.space).  A deadline is kept as whether it has   *)
(* passed: "now" or "later".                                               *)
(***************************************************************************)
EXTENDS Integers, Sequences, FiniteSets

CONSTANTS
  Plans,         \* the tracks with a target format, those whose business
                 \* callback may return nullopt, the number of inputs of each
                 \* track, and the bounded events already spent
  Eofs,          \* the inputs of a track that are EOF, not frames
  MaxInput,      \* bound: inputs of any track
  ConvCapacity,  \* input_capacity of ForceFps and AudioResampler
  MaxCopies,     \* bound: extra outputs a converter makes of its inputs
  OutCapacity,   \* capacity of a downstream queue
  MaxFills,      \* bound: filler attempts and suspensions of the syncer
  MaxDefers,     \* bound: due frames deferred by a late peer track
  DiscardBatch,  \* kDiscardBatch
  MaxFaults,     \* bound: exceptions of filter, converters and lifecycle
  MaxStarts,     \* bound: calls of Start
  MaxStops       \* bound: calls of RequestStop, by itself or from Stop

Tracks == {"video", "audio"}
Runners == Tracks \cup {"driver"}
Threads == Runners \cup {"owner", "caller"}
Inputs == 1 .. MaxInput

\* kNull: no frame and no EOF
Null == 0

ASSUME SchedulerAssumption ==
  /\ Plans \subseteq [enabled : SUBSET Tracks, droppers : SUBSET Tracks,
                     supply : [Tracks -> 0 .. MaxInput],
                     spent : [{"copy", "fill", "defer", "fault", "stop"} -> Nat]]
  /\ MaxInput \in Nat /\ Eofs \subseteq Inputs
  /\ ConvCapacity \in Nat \ {0} /\ OutCapacity \in Nat \ {0}
  /\ DiscardBatch \in Nat \ {0}
  /\ {MaxCopies, MaxFills, MaxDefers, MaxFaults, MaxStarts,
      MaxStops} \subseteq Nat

VARIABLES
  pc,         \* where each thread is
  stopping,   \* stopping_
  error,      \* error_ is set
  changed,    \* signal_ moved since the driver recorded its revision
  job,        \* Track fields that mutex_ protects
  lane,       \* Track fields that the driver owns
  work,       \* locals of Process: input, pending and output
  conv,       \* inputs the track's converter has not used up
  driver,     \* locals of RunDriver: the track at hand and armed deadlines
  supplied,   \* inputs the source has queued for a track
  read,       \* inputs the driver took from the source
  feed,       \* whether a source queue owes signal_ a Notify
  srcFailed,  \* the source is in kFailed
  used,       \* frames in the downstream queue
  drain,      \* where the downstream reader is in Pop
  gone,       \* inputs a track is finished with
  made,       \* results of a track's worker
  consumed,   \* results the syncer consumed
  reports,    \* OnError calls of this session
  starts,     \* calls of Start
  budget,     \* bounded events so far
  plan        \* the member of Plans at hand; never changes

vars == <<pc, stopping, error, changed, job, lane, work, conv, driver,
          supplied, feed, read, srcFailed, used, drain, gone, made,
          consumed, reports, starts, budget>>

Enabled == plan.enabled
Droppers == plan.droppers
Supply == plan.supply

shared == <<stopping, error, job>>
ghosts == <<gone, made, consumed>>
source == <<supplied, feed, srcFailed>>
downstream == <<used, drain>>
session == <<reports, starts>>

Deadlines == {"now", "later"}
Timers == {"again", "due", "wake", "retry"} \X Tracks

Locations ==
  {"idle",                             \* owner, caller: between calls
   "running",                          \* owner: Start succeeded
   "stop", "join",                     \* owner: in Stop
   "top", "observe", "scan",           \* driver: RunDriver
   "deliver", "prepare", "kick", "sleep",
   "take", "waiting", "process",       \* worker: Process
   "publish", "notify",
   "fail", "failWake", "report",       \* in Fail
   "wake",                             \* in RequestStop
   "done"}                             \* not started, or returned

IdleJob == [busy |-> FALSE, requested |-> FALSE, completed |-> FALSE,
            task |-> Null, result |-> Null, needsInput |-> TRUE]
IdleLane == [sourceHead |-> Null, head |-> Null, due |-> "now",
             wake |-> "now", blocked |-> FALSE, space |-> FALSE,
             retry |-> "now"]
IdleWork == [input |-> Null, pending |-> Null, output |-> Null]

Items == Inputs \cup {Null}

\* The events whose number is bounded.
Events == {"copy", "fill", "defer", "fault", "stop"}

TypeOK ==
  /\ pc \in [Threads -> Locations]
  /\ stopping \in BOOLEAN /\ error \in BOOLEAN /\ changed \in BOOLEAN
  /\ job \in [Tracks -> [busy : BOOLEAN, requested : BOOLEAN,
                         completed : BOOLEAN, task : Items, result : Items,
                         needsInput : BOOLEAN]]
  /\ lane \in [Tracks -> [sourceHead : Items, head : Items, due : Deadlines,
                          wake : Deadlines, blocked : BOOLEAN,
                          space : BOOLEAN, retry : Deadlines]]
  /\ work \in [Tracks -> [input : Items, pending : Items, output : Items]]
  /\ conv \in [Tracks -> Seq(Inputs)]
  /\ driver \in [track : Tracks, armed : SUBSET Timers]
  /\ supplied \in [Tracks -> 0 .. MaxInput]
  /\ read \in [Tracks -> 0 .. MaxInput]
  /\ feed \in [Tracks -> BOOLEAN] /\ srcFailed \in BOOLEAN
  /\ used \in [Tracks -> 0 .. OutCapacity]
  /\ drain \in [Tracks -> {"idle", "popped", "raised"}]
  /\ gone \in [Tracks -> SUBSET Inputs]
  /\ made \in [Tracks -> Nat] /\ consumed \in [Tracks -> Nat]
  /\ reports \in Nat /\ starts \in 0 .. MaxStarts
  /\ budget \in [Events -> Nat] /\ plan \in Plans

Init ==
  /\ pc = [t \in Threads |-> IF t \in Runners THEN "done" ELSE "idle"]
  /\ stopping = FALSE /\ error = FALSE /\ changed = FALSE
  /\ job = [k \in Tracks |-> IdleJob]
  /\ lane = [k \in Tracks |-> IdleLane]
  /\ work = [k \in Tracks |-> IdleWork]
  /\ conv = [k \in Tracks |-> <<>>]
  /\ driver = [track |-> "video", armed |-> {}]
  /\ supplied = [k \in Tracks |-> 0]
  /\ read = [k \in Tracks |-> 0]
  /\ feed = [k \in Tracks |-> FALSE] /\ srcFailed = FALSE
  /\ used = [k \in Tracks |-> 0]
  /\ drain = [k \in Tracks |-> "idle"]
  /\ gone = [k \in Tracks |-> {}]
  /\ made = [k \in Tracks |-> 0]
  /\ consumed = [k \in Tracks |-> 0]
  /\ reports = 0 /\ starts = 0
  /\ plan \in Plans /\ budget = plan.spent

\* Spend one of a bounded number of events.
Spend(event, bound) ==
  /\ budget[event] < bound
  /\ budget' = [budget EXCEPT ![event] = @ + 1]

Goto(t, next) == pc' = [pc EXCEPT ![t] = next]

-----------------------------------------------------------------------------
(* Lifecycle: Start, RequestStop, Stop and Fail.                           *)

\* The threads that run when Start fails: they are created in this order.
Started(failed) ==
  CASE failed = "none"   -> Runners
    [] failed = "driver" -> Tracks
    [] failed = "audio"  -> {"video"}
    [] OTHER             -> {}

\* The Reset or Start of a component, or the creation of a thread, may throw.
\* The worker of a disabled track only waits for stopping_.
Start ==
  /\ pc["owner"] = "idle" /\ starts < MaxStarts
  /\ starts' = starts + 1
  /\ \E failed \in {"none", "setup", "audio", "driver"} :
       /\ IF failed = "none" THEN UNCHANGED budget ELSE Spend("fault", MaxFaults)
       /\ pc' = [t \in Threads |->
                   CASE t = "owner" -> IF failed = "none" THEN "running" ELSE "fail"
                     [] t \in Started(failed) -> IF t = "driver" THEN "top"
                                                 ELSE IF t \in Enabled THEN "take"
                                                 ELSE "waiting"
                     [] OTHER -> pc[t]]
  /\ stopping' = FALSE /\ error' = FALSE /\ reports' = 0
  /\ job' = [k \in Tracks |-> IdleJob]
  /\ lane' = [k \in Tracks |-> IdleLane]
  /\ work' = [k \in Tracks |-> IdleWork]
  /\ conv' = [k \in Tracks |-> <<>>]
  /\ driver' = [track |-> "video", armed |-> {}]
  /\ UNCHANGED <<changed, source, read, downstream, ghosts>>

\* Stop, on the owner, begins with RequestStop, which any other thread may
\* call too.
RequestStop(t) ==
  /\ \/ t = "owner" /\ pc[t] = "stop" /\ UNCHANGED budget
     \/ t = "owner" /\ pc[t] = "running" /\ Spend("stop", MaxStops)
     \/ /\ t = "caller" /\ pc[t] = "idle" /\ pc["owner"] = "running"
        /\ Spend("stop", MaxStops)
  /\ stopping' = TRUE
  /\ Goto(t, "wake")
  /\ UNCHANGED <<error, changed, job, lane, work, conv, driver, source, read,
                 downstream, ghosts, session>>

\* Mutant: every failure is kept and reported.
FailAgain(t) ==
  /\ pc[t] = "fail"
  /\ Goto(t, "failWake")
  /\ error' = TRUE
  /\ stopping' = TRUE
  /\ UNCHANGED <<changed, job, lane, work, conv, driver, source, read,
                 downstream, ghosts, session, budget>>

\* Only the first failure is kept and reported.
Fail(t) ==
  /\ pc[t] = "fail"
  /\ Goto(t, IF error THEN "done" ELSE "failWake")
  /\ error' = TRUE
  /\ stopping' = TRUE
  /\ UNCHANGED <<changed, job, lane, work, conv, driver, source, read,
                 downstream, ghosts, session, budget>>

Woken(t, others) ==
  pc' = [u \in Threads |->
           CASE u = t -> IF pc[t] = "failWake" THEN "report"
                         ELSE IF t = "owner" THEN "join" ELSE "idle"
             [] u \in others /\ pc[u] = "waiting" -> "take"
             [] OTHER -> pc[u]]

\* Mutant: the driver's signal is forgotten.
WakeWorkersOnly(t) ==
  /\ pc[t] \in {"wake", "failWake"}
  /\ Woken(t, Tracks)
  /\ UNCHANGED <<changed, shared, lane, work, conv, driver, source, read,
                 downstream, ghosts, session, budget>>

WakeAll(t) ==
  /\ pc[t] \in {"wake", "failWake"}
  /\ changed' = TRUE
  /\ Woken(t, Tracks)
  /\ UNCHANGED <<shared, lane, work, conv, driver, source, read, downstream,
                 ghosts, session, budget>>

\* A failed Start continues with Stop.
Report(t) ==
  /\ pc[t] = "report"
  /\ reports' = reports + 1
  /\ Goto(t, IF t = "owner" THEN "stop" ELSE "done")
  /\ UNCHANGED <<shared, changed, lane, work, conv, driver, source, read,
                 downstream, ghosts, starts, budget>>

\* Stop joins the three threads, stops the components and drops what is in
\* flight.  The business OnStop may throw: Fail then runs on the owner.
Join ==
  /\ pc["owner"] = "join"
  /\ \A r \in Runners : pc[r] = "done"
  /\ Goto("owner", "idle")
  /\ \/ UNCHANGED <<error, reports, budget>>
     \/ /\ Spend("fault", MaxFaults)
        /\ error' = TRUE
        /\ reports' = IF error THEN reports ELSE reports + 1
  /\ job' = [k \in Tracks |-> IdleJob]
  /\ lane' = [k \in Tracks |-> IdleLane]
  /\ work' = [k \in Tracks |-> IdleWork]
  /\ conv' = [k \in Tracks |-> <<>>]
  /\ gone' = [k \in Tracks |-> 1 .. read[k]]
  /\ consumed' = made
  /\ UNCHANGED <<stopping, changed, driver, source, read, downstream, made,
                 starts>>

-----------------------------------------------------------------------------
(* The driver.  One round: record the revision, complete and deliver every *)
(* track, prepare every track, sleep.                                      *)

\* The next track of a phase, or the first track of the next phase.  The
\* driver looks at stopping_ after each delivery and before it sleeps.
Advance(phase, next, timers) ==
  /\ Goto("driver", IF stopping /\ (phase = "scan" \/ driver.track = "audio")
                    THEN "done"
                    ELSE IF driver.track = "video" THEN phase ELSE next)
  /\ driver' = [track |-> IF driver.track = "video" THEN "audio" ELSE "video",
                armed |-> driver.armed \cup timers]

DriverTop ==
  /\ pc["driver"] = "top"
  /\ Goto("driver", IF stopping THEN "done" ELSE "observe")
  /\ UNCHANGED <<shared, changed, lane, work, conv, driver, source, read,
                 downstream, ghosts, session, budget>>

\* CheckSource rethrows the failure of the source.
Observe ==
  /\ pc["driver"] = "observe"
  /\ changed' = FALSE
  /\ Goto("driver", IF srcFailed THEN "fail" ELSE "scan")
  /\ UNCHANGED <<shared, lane, work, conv, driver, source, read, downstream,
                 ghosts, session, budget>>

\* A fresh head ends the source wait.
Completed(k) ==
  IF job[k].completed
  THEN [lane[k] EXCEPT !.head = job[k].result,
                       !.wake = IF job[k].result = Null THEN @ ELSE "now"]
  ELSE lane[k]

\* The early returns of Deliver: no new space, or the deadline is ahead.
Holds(l) ==
  IF l.blocked THEN ~l.space /\ l.retry = "later" ELSE l.wake = "later"

\* Complete, then the first lines of Deliver: record the revision of the
\* output signal before offering anything downstream.
Complete ==
  LET k == driver.track
      l == Completed(k)
  IN
  /\ pc["driver"] = "scan" /\ k \in Enabled
  /\ job' = [job EXCEPT ![k].completed = FALSE,
                        ![k].result = IF job[k].completed THEN Null ELSE @]
  /\ IF Holds(l)
     THEN /\ lane' = [lane EXCEPT ![k] = l]
          /\ Advance("scan", "prepare", {})
     ELSE /\ lane' = [lane EXCEPT ![k] = [l EXCEPT !.blocked = FALSE,
                                                   !.space = FALSE,
                                                   !.retry = "now"]]
          /\ Goto("driver", "deliver")
          /\ UNCHANGED driver
  /\ UNCHANGED <<stopping, error, changed, work, conv, source, read,
                 downstream, ghosts, session, budget>>

\* Mutant: the answer of the output callback is ignored.
OfferUnbounded(k, accepted, refused) ==
  /\ used' = [used EXCEPT ![k] = @ + 1]
  /\ lane' = [lane EXCEPT ![k] = accepted]

\* syncer_.Step passes a frame to the output callback, which refuses it
\* when the downstream queue is full.
Offer(k, accepted, refused) ==
  IF used[k] < OutCapacity
  THEN /\ used' = [used EXCEPT ![k] = @ + 1]
       /\ lane' = [lane EXCEPT ![k] = accepted]
  ELSE /\ lane' = [lane EXCEPT ![k] = [refused EXCEPT !.blocked = TRUE,
                                                      !.retry = "later"]]
       /\ UNCHANGED used

\* The rest of Deliver.  The syncer consumes an EOF, outputs the head, fills
\* in front of it or in its absence, or asks for a later call.
Deliver ==
  LET k == driver.track
      l == lane[k]
  IN
  /\ pc["driver"] = "deliver"
  /\ \/ /\ l.head \in Eofs
        /\ lane' = [lane EXCEPT ![k].head = Null, ![k].wake = "now"]
        /\ consumed' = [consumed EXCEPT ![k] = @ + 1]
        /\ UNCHANGED <<used, budget>>
     \/ /\ l.head \in Inputs \ Eofs
        /\ Offer(k, [l EXCEPT !.head = Null, !.wake = "now"],
                    [l EXCEPT !.wake = "now"])
        /\ consumed' = [consumed EXCEPT ![k] = IF used[k] < OutCapacity THEN @ + 1 ELSE @]
        /\ UNCHANGED budget
     \/ /\ Spend("fill", MaxFills)
        /\ \E w \in Deadlines : Offer(k, [l EXCEPT !.wake = w], [l EXCEPT !.wake = w])
        /\ UNCHANGED consumed
     \/ /\ l.head = Null \/ budget["fill"] < MaxFills
        /\ lane' = [lane EXCEPT ![k].wake = "later"]
        /\ IF l.head = Null THEN UNCHANGED budget ELSE Spend("fill", MaxFills)
        /\ UNCHANGED <<used, consumed>>
  /\ Advance("scan", "prepare", {})
  /\ UNCHANGED <<shared, changed, work, conv, source, read, drain, gone, made,
                 session>>

\* The syncer or the output callback throws: the head stays.
DeliverThrow ==
  /\ pc["driver"] = "deliver"
  /\ Spend("fault", MaxFaults)
  /\ Goto("driver", "fail")
  /\ UNCHANGED <<shared, changed, lane, work, conv, driver, source, read,
                 downstream, ghosts, session>>

\* A full batch asks for another round.
DrainDisabled ==
  LET k == driver.track
      n == IF supplied[k] - read[k] < DiscardBatch
           THEN supplied[k] - read[k] ELSE DiscardBatch
  IN
  /\ pc["driver"] = "scan" /\ k \notin Enabled
  /\ read' = [read EXCEPT ![k] = @ + n]
  /\ gone' = [gone EXCEPT ![k] = @ \cup (read[k] + 1) .. (read[k] + n)]
  /\ Advance("scan", "prepare", IF n = DiscardBatch THEN {<<"again", k>>} ELSE {})
  /\ UNCHANGED <<shared, changed, lane, work, conv, source, downstream, made,
                 consumed, session, budget>>

\* The deadline of Deliver with which a track ends the round.
DeliverTimer(k) ==
  <<IF ~lane[k].blocked THEN "wake" ELSE IF lane[k].space THEN "again" ELSE "retry", k>>

Preparing(k) == pc["driver"] = "prepare" /\ driver.track = k /\ k \in Enabled

\* The lookahead: the item read before, or the next one of the source.
Lookahead(k) ==
  IF lane[k].sourceHead # Null THEN lane[k].sourceHead
  ELSE IF read[k] < supplied[k] THEN read[k] + 1 ELSE Null

\* Mutant: a result that waits for the syncer does not count.
OccupiedByJob(k) == job[k].busy \/ job[k].completed

\* The worker owes a result, or one is not delivered yet.
Occupied(k) == job[k].busy \/ job[k].completed \/ lane[k].head # Null

\* Nothing to hand over: the track is disabled, occupied or has no input.
PrepareNothing ==
  LET k == driver.track IN
  /\ pc["driver"] = "prepare"
  /\ k \in Enabled => Occupied(k) \/ (job[k].needsInput /\ Lookahead(k) = Null)
  /\ Advance("prepare", "sleep", IF k \in Enabled THEN {DeliverTimer(k)} ELSE {})
  /\ UNCHANGED <<shared, changed, lane, work, conv, source, read, downstream,
                 ghosts, session, budget>>

\* Dispatch: the caller has given up the input when stopping_ refuses the job.
Dispatch(k, input) ==
  /\ lane' = IF input = Null THEN lane
             ELSE [lane EXCEPT ![k].sourceHead = Null, ![k].due = "now"]
  /\ IF stopping
     THEN /\ gone' = [gone EXCEPT ![k] = @ \cup ({input} \ {Null})]
          /\ Advance("prepare", "sleep", {DeliverTimer(k)})
          /\ UNCHANGED job
     ELSE /\ job' = [job EXCEPT ![k].task = input, ![k].busy = TRUE,
                                ![k].requested = TRUE]
          /\ driver' = [driver EXCEPT !.armed = @ \cup {DeliverTimer(k)}]
          /\ Goto("driver", "kick")
          /\ UNCHANGED gone

\* The converter is not drained yet: a job without input.
PrepareDrain(k) ==
  /\ Preparing(k) /\ ~Occupied(k) /\ ~job[k].needsInput
  /\ Dispatch(k, Null)
  /\ UNCHANGED <<stopping, error, changed, work, conv, source, read,
                 downstream, made, consumed, session, budget>>

\* Take the lookahead and ask RealtimeTiming, unless it is an EOF.
Awaits(k) ==
  /\ Preparing(k) /\ ~Occupied(k) /\ job[k].needsInput
  /\ Lookahead(k) # Null
  /\ read' = [read EXCEPT ![k] = IF lane[k].sourceHead = Null THEN @ + 1 ELSE @]
  /\ UNCHANGED <<stopping, error, changed, work, conv, source, downstream,
                 made, consumed, session>>

PrepareReady(k) ==
  /\ Awaits(k)
  /\ Dispatch(k, Lookahead(k))
  /\ UNCHANGED budget

PrepareDiscard(k) ==
  /\ Awaits(k) /\ Lookahead(k) \notin Eofs
  /\ lane' = [lane EXCEPT ![k].sourceHead = Null, ![k].due = "now"]
  /\ gone' = [gone EXCEPT ![k] = @ \cup {Lookahead(k)}]
  /\ Advance("prepare", "sleep", {DeliverTimer(k), <<"again", k>>})
  /\ UNCHANGED <<job, budget>>

\* Not due yet.  A frame that was due is deferred again when the other track,
\* being late, lowered the shared offset meanwhile.
PrepareWait(k) ==
  /\ Awaits(k) /\ Lookahead(k) \notin Eofs
  /\ IF lane[k].sourceHead # Null /\ lane[k].due = "now"
     THEN Spend("defer", MaxDefers) ELSE UNCHANGED budget
  /\ lane' = [lane EXCEPT ![k].sourceHead = Lookahead(k), ![k].due = "later"]
  /\ Advance("prepare", "sleep", {DeliverTimer(k), <<"due", k>>})
  /\ UNCHANGED <<job, gone>>

\* The frame has no valid time: InputPts throws, the lookahead stays.
PrepareThrow(k) ==
  /\ Awaits(k) /\ Lookahead(k) \notin Eofs
  /\ Spend("fault", MaxFaults)
  /\ lane' = [lane EXCEPT ![k].sourceHead = Lookahead(k)]
  /\ Goto("driver", "fail")
  /\ UNCHANGED <<job, gone, driver>>

\* work_ready_.notify_one, after Dispatch released mutex_.
Kick ==
  /\ pc["driver"] = "kick"
  /\ LET k == driver.track IN
     /\ pc' = [pc EXCEPT ![k] = IF @ = "waiting" THEN "take" ELSE @,
                         !["driver"] = IF k = "video" THEN "prepare"
                                       ELSE IF stopping THEN "done" ELSE "sleep"]
     /\ driver' = [driver EXCEPT !.track = IF k = "video" THEN "audio" ELSE "video"]
  /\ UNCHANGED <<shared, changed, lane, work, conv, source, read, downstream,
                 ghosts, session, budget>>

Deadline(timer) ==
  CASE timer[1] = "again" -> "now"
    [] timer[1] = "due"   -> lane[timer[2]].due
    [] timer[1] = "wake"  -> lane[timer[2]].wake
    [] timer[1] = "retry" -> lane[timer[2]].retry

\* signal_->WaitUntil returns: the revision moved or a deadline has passed.
Awake ==
  /\ pc["driver"] = "sleep"
  /\ changed \/ \E timer \in driver.armed : Deadline(timer) = "now"
  /\ Goto("driver", "top")
  /\ driver' = [driver EXCEPT !.armed = {}]
  /\ UNCHANGED <<shared, changed, lane, work, conv, source, read, downstream,
                 ghosts, session, budget>>

\* Time passes one of a track's deadlines.
Elapse(k, which) ==
  /\ pc["driver"] # "done"
  /\ lane[k][which] = "later"
  /\ lane' = [lane EXCEPT ![k][which] = "now"]
  /\ UNCHANGED <<pc, shared, changed, work, conv, driver, source, read,
                 downstream, ghosts, session, budget>>

-----------------------------------------------------------------------------
(* A worker: Process.                                                      *)

Take(k) ==
  /\ pc[k] = "take"
  /\ IF stopping \/ k \notin Enabled \/ ~job[k].requested
     THEN /\ Goto(k, IF stopping THEN "done" ELSE "waiting")
          /\ UNCHANGED <<job, work>>
     ELSE /\ Goto(k, "process")
          /\ work' = [work EXCEPT ![k].input = job[k].task]
          /\ job' = [job EXCEPT ![k].task = Null, ![k].requested = FALSE]
  /\ UNCHANGED <<stopping, error, changed, lane, conv, driver, source, read,
                 downstream, ghosts, session, budget>>

\* The business callback of the track: the frame or, from a dropper, nothing.
Filtered(k, item) ==
  {item} \cup (IF k \in Droppers /\ item \notin Eofs THEN {Null} ELSE {})

\* TryReadFrame: skip inputs that give no output, up to one that does, which
\* may have more to give.  An EOF always comes out, once, after what is
\* before it.  Null only when every queued input is used up.
TryReadFrame(q) ==
  LET reachable == {i \in 1 .. Len(q) : \A j \in 1 .. (i - 1) : q[j] \notin Eofs}
      last == {[output |-> q[i], rest |-> SubSeq(q, i + 1, Len(q))] : i \in reachable}
      more == {[output |-> q[i], rest |-> SubSeq(q, i, Len(q))] :
                 i \in {j \in reachable : q[j] \notin Eofs}}
  IN  [last |-> last \cup (IF \E i \in 1 .. Len(q) : q[i] \in Eofs THEN {}
                           ELSE {[output |-> Null, rest |-> <<>>]}),
       more |-> more]

Elements(q) == {q[i] : i \in 1 .. Len(q)}

\* Mutant: an input that the converter refuses is forgotten.
RefusedDropped(p, pushed) == Null

\* What TryPush did not take stays pending.
Refused(p, pushed) == IF pushed THEN Null ELSE p

\* Filter and push the input, read one output.  Video is filtered before
\* conversion, audio after it.
Process(k) ==
  /\ pc[k] = "process"
  /\ \E p \in IF work[k].input = Null THEN {work[k].pending}
              ELSE IF k = "video" THEN Filtered(k, work[k].input) ELSE {work[k].input} :
     LET pushed == p # Null /\ Len(conv[k]) < ConvCapacity
         q == IF pushed THEN Append(conv[k], p) ELSE conv[k]
     IN
     \E r \in TryReadFrame(q).last \cup TryReadFrame(q).more :
     \E o \in IF k = "audio" /\ r.output # Null THEN Filtered(k, r.output) ELSE {r.output} :
       /\ IF r \in TryReadFrame(q).last THEN UNCHANGED budget
          ELSE Spend("copy", MaxCopies)
       /\ conv' = [conv EXCEPT ![k] = r.rest]
       /\ work' = [work EXCEPT ![k] = [input |-> Null, pending |-> Refused(p, pushed),
                                         output |-> o]]
       /\ made' = [made EXCEPT ![k] = IF o = Null THEN @ ELSE @ + 1]
       /\ gone' = [gone EXCEPT ![k] = @ \cup ((Elements(q) \cup ({work[k].input} \ {Null, p}))
                                               \ Elements(r.rest))]
  /\ Goto(k, "publish")
  /\ UNCHANGED <<shared, changed, lane, driver, source, read, downstream,
                 consumed, session>>

\* The filter or the converter throws.
ProcessThrow(k) ==
  /\ pc[k] = "process"
  /\ Spend("fault", MaxFaults)
  /\ Goto(k, "fail")
  /\ UNCHANGED <<shared, changed, lane, work, conv, driver, source, read,
                 downstream, ghosts, session>>

Published(k, needsInput, next) ==
  /\ pc[k] = "publish"
  /\ job' = [job EXCEPT ![k].needsInput = needsInput,
                        ![k].result = work[k].output,
                        ![k].busy = FALSE,
                        ![k].completed = TRUE]
  /\ work' = [work EXCEPT ![k].output = Null]
  /\ Goto(k, next)
  /\ UNCHANGED <<stopping, error, changed, lane, conv, driver, source, read,
                 downstream, ghosts, session, budget>>

\* Mutant: the driver is not notified.
PublishSilently(k) ==
  Published(k, work[k].pending = Null /\ work[k].output = Null, "take")

Publish(k) ==
  Published(k, work[k].pending = Null /\ work[k].output = Null, "notify")

Notify(k) ==
  /\ pc[k] = "notify"
  /\ changed' = TRUE
  /\ Goto(k, "take")
  /\ UNCHANGED <<shared, lane, work, conv, driver, source, read, downstream,
                 ghosts, session, budget>>

-----------------------------------------------------------------------------
(* The queues on both sides (external to the scheduler).  Each notifies    *)
(* after it has released its own mutex, as BlockingQueue shows.            *)

SourcePush(k) ==
  /\ supplied[k] < Supply[k] /\ ~feed[k] /\ ~srcFailed
  /\ supplied' = [supplied EXCEPT ![k] = @ + 1]
  /\ feed' = [feed EXCEPT ![k] = TRUE]
  /\ UNCHANGED <<pc, shared, changed, lane, work, conv, driver, read,
                 srcFailed, downstream, ghosts, session, budget>>

\* The source fails and closes its queues.
SourceFail ==
  /\ ~srcFailed
  /\ Spend("fault", MaxFaults)
  /\ srcFailed' = TRUE
  /\ feed' = [k \in Tracks |-> TRUE]
  /\ UNCHANGED <<pc, shared, changed, lane, work, conv, driver, supplied, read,
                 downstream, ghosts, session>>

SourceNotify(k) ==
  /\ feed[k]
  /\ feed' = [feed EXCEPT ![k] = FALSE]
  /\ changed' = TRUE
  /\ UNCHANGED <<pc, shared, lane, work, conv, driver, supplied, read,
                 srcFailed, downstream, ghosts, session, budget>>

\* The downstream reader pops a frame and owes a WriteSignal::Notify.
Pop(k) ==
  /\ drain[k] = "idle" /\ used[k] > 0
  /\ used' = [used EXCEPT ![k] = @ - 1]
  /\ drain' = [drain EXCEPT ![k] = "popped"]
  /\ UNCHANGED <<pc, shared, changed, lane, work, conv, driver, source, read,
                 ghosts, session, budget>>

\* WriteSignal::Notify: the track's revision, then the shared signal.
WriteNotify(k) ==
  /\ \/ /\ drain[k] = "popped"
        /\ drain' = [drain EXCEPT ![k] = "raised"]
        /\ lane' = [lane EXCEPT ![k].space = TRUE]
        /\ UNCHANGED changed
     \/ /\ drain[k] = "raised"
        /\ drain' = [drain EXCEPT ![k] = "idle"]
        /\ changed' = TRUE
        /\ UNCHANGED lane
  /\ UNCHANGED <<pc, shared, work, conv, driver, source, read, used, ghosts,
                 session, budget>>

-----------------------------------------------------------------------------

Driver ==
  \/ DriverTop \/ Observe \/ Complete \/ Deliver \/ DeliverThrow
  \/ DrainDisabled \/ PrepareNothing \/ Kick \/ Awake
  \/ \E k \in Tracks : \/ PrepareDrain(k) \/ PrepareReady(k)
                       \/ PrepareDiscard(k) \/ PrepareWait(k) \/ PrepareThrow(k)

Worker(k) == Take(k) \/ Process(k) \/ ProcessThrow(k) \/ Publish(k) \/ Notify(k)

Failing(t) == Fail(t) \/ WakeAll(t) \/ Report(t)

Downstream(k) == Pop(k) \/ WriteNotify(k)

Step ==
  \/ Start \/ Join \/ SourceFail
  \/ Driver
  \/ \E t \in Threads : RequestStop(t) \/ Failing(t)
  \/ \E k \in Tracks :
       \/ Worker(k) \/ SourcePush(k) \/ SourceNotify(k) \/ Downstream(k)
       \/ \E which \in {"due", "wake", "retry"} : Elapse(k, which)

Next == Step /\ UNCHANGED plan

Spec == Init /\ [][Next]_<<vars, plan>>

\* Threads run, notifications that were begun are finished, the downstream
\* reader keeps reading, and a deadline that a frame waits for passes.  The
\* polling deadline of an idle syncer and the 20 ms retry are not assumed to
\* pass: the signals must be enough without them.
Fairness ==
  /\ WF_vars(Driver) /\ WF_vars(Join)
  /\ WF_vars(RequestStop("owner") /\ pc["owner"] = "stop")
  /\ \A t \in Threads : WF_vars(Failing(t))
  /\ \A k \in Tracks :
       /\ WF_vars(Worker(k)) /\ WF_vars(SourceNotify(k)) /\ WF_vars(Downstream(k))
       /\ WF_vars(Elapse(k, "due"))
       /\ WF_vars(lane[k].head # Null /\ Elapse(k, "wake"))

FairSpec == Spec /\ Fairness

-----------------------------------------------------------------------------
(* Properties.                                                             *)

NonNull(item) == IF item = Null THEN <<>> ELSE <<item>>

\* The inputs of a track that are on their way, oldest first.
OnTheWay(k) ==
  conv[k] \o NonNull(work[k].pending) \o NonNull(work[k].input)
          \o NonNull(job[k].task) \o NonNull(lane[k].sourceHead)

\* No input is lost, duplicated or overtaken between the source and the
\* converter: what Prepare read is either still on its way, in order, or was
\* deliberately finished with (Dispatch never overwrites a task, and Process
\* never overwrites a pending frame the converter refused).
InputsConserved ==
  /\ TypeOK
  /\ \A k \in Tracks :
       LET q == OnTheWay(k) IN
       /\ \A i, j \in 1 .. Len(q) : i < j => q[i] < q[j]
       /\ Elements(q) \cup gone[k] = 1 .. read[k]
       /\ gone[k] \cap Elements(q) = {}

\* A worker's result is never overwritten before the syncer consumed it:
\* at most one is between Process and Deliver, and none is lost there.
ResultsConserved ==
  \A k \in Tracks :
    made[k] = consumed[k]
              + Len(NonNull(work[k].output) \o NonNull(job[k].result)
                    \o NonNull(lane[k].head))

\* "Unrecoverable failures notify OnError once": a failed session reports
\* exactly one error by the time Stop returns.
ErrorReportedOnce ==
  /\ reports <= 1
  /\ pc["owner"] = "idle" => reports = IF error THEN 1 ELSE 0

\* "Conversion is drained before requesting more input" (scheduler.h): when a
\* track asks for input its converter holds nothing.
ConversionDrained ==
  \A k \in Enabled : ~job[k].busy /\ job[k].needsInput => conv[k] = <<>>

\* However the source, the workers and the downstream reader interleave,
\* every input of a track is read and handed to its converter, and every
\* result reaches the syncer, unless the scheduler is stopped.  Only where
\* the audio callback drops frames may the converter keep inputs.
EverythingDelivered ==
  \A k \in Tracks :
    (pc["owner"] = "running" /\ supplied[k] = Supply[k])
      ~> \/ stopping
         \/ /\ gone[k] \cup Elements(conv[k]) = 1 .. Supply[k]
            /\ k \notin Droppers => conv[k] = <<>>
            /\ made[k] = consumed[k]

\* Stop returns: every thread sees the request wherever it is.
StopReturns ==
  pc["owner"] \in {"fail", "stop", "wake", "join"} ~> pc["owner"] = "idle"

=============================================================================
