--------------------------- MODULE SchedulerProofs ---------------------------
(***************************************************************************)
(* The scheduler for any plans, capacities, numbers of inputs, failures,   *)
(* sessions and stop requests.  FInv says who may run while the owner is   *)
(* between two sessions and who reports a failure.  IInv says how the      *)
(* driver and a worker hand a job and its result to each other             *)
(* (Handshake), and where the inputs and the results of a track are        *)
(* (Ordered, Conserved, Counted); it needs FInv where Start begins with    *)
(* nothing in flight.                                                      *)
(*                                                                         *)
(* An action is about one track: a lemma named ...Effect says what it does *)
(* to that track, SameTrack what it leaves alone on the other.             *)
(***************************************************************************)
EXTENDS Scheduler, TLAPS

-----------------------------------------------------------------------------
(* Failures.  Who may run between two sessions, and who reports.           *)

\* While the owner is between two sessions no runner runs.
Between ==
  /\ pc["caller"] \in {"idle", "wake"}
  /\ pc["owner"] = "idle" => \A r \in Runners : pc[r] = "done"

\* The thread whose failure was kept and is not reported yet.
Reporting(t) == pc[t] \in {"failWake", "report"}

\* A kept failure has one thread that will report it, or was reported once.
Reported ==
  /\ reports \in {0, 1}
  /\ ~error => reports = 0
  /\ error => reports = 1 \/ \E t \in Threads : Reporting(t)
  /\ \A t \in Threads : Reporting(t) => error /\ reports = 0
  /\ \A t, u \in Threads : Reporting(t) /\ Reporting(u) => t = u

FInv ==
  /\ pc \in [Threads -> Locations] /\ error \in BOOLEAN
  /\ Between /\ Reported

\* Thread t goes from one location to another and reports nothing.
Moves(t, from, to) ==
  /\ pc[t] \in from
  /\ \E x \in to : pc' = [pc EXCEPT ![t] = x]
  /\ UNCHANGED <<error, reports>>

\* Where a runner is while it works, and where that may lead.
Working == {"top", "observe", "scan", "deliver", "prepare", "kick", "sleep",
            "take", "waiting", "process", "publish", "notify"}

\* The locations of a runner that works.
LEMMA WorkingIs ==
  /\ Working \subseteq Locations /\ {"done", "fail"} \subseteq Locations
  /\ \A x \in Working \cup {"done", "fail"} : x \notin {"failWake", "report", "idle"}
BY DEF Working, Locations

\* A runner that works moves on.
LEMMA RunnerMoves ==
  ASSUME FInv, NEW t \in Runners, Moves(t, Working, Working \cup {"done", "fail"})
  PROVE  FInv'
<1> USE DEF Runners, Threads, Tracks
<1>1. PICK x \in Working \cup {"done", "fail"} : pc' = [pc EXCEPT ![t] = x]
  BY DEF Moves
<1>2. /\ pc[t] \notin {"done", "idle", "failWake", "report"} /\ UNCHANGED <<error, reports>>
  BY DEF Moves, Working
<1>3. x \in Locations /\ x \notin {"failWake", "report", "idle"}
  BY WorkingIs
<1>4. pc' \in [Threads -> Locations] /\ error' \in BOOLEAN
  BY <1>1, <1>2, <1>3 DEF FInv
<1>5. /\ pc'["owner"] = pc["owner"] /\ pc'["caller"] = pc["caller"]
      /\ \A u \in Threads : Reporting(u)' <=> Reporting(u)
  BY <1>1, <1>2, <1>3 DEF FInv, Reporting
<1>6. Between'
  BY <1>2, <1>5 DEF FInv, Between
<1>7. Reported'
  BY <1>2, <1>5 DEF FInv, Reported
<1> QED
  BY <1>4, <1>6, <1>7 DEF FInv

\* What every action of the driver does to control.
LEMMA DriverMoves ==
  ASSUME pc \in [Threads -> Locations], Driver
  PROVE  \/ Moves("driver", Working, Working \cup {"done", "fail"})
         \/ Kick /\ UNCHANGED <<error, reports>>
<1>1. CASE DriverTop \/ Observe \/ DeliverThrow \/ Awake
  BY <1>1 DEF DriverTop, Observe, DeliverThrow, Awake, Moves, Working, Goto, shared, session
<1>2. CASE Complete
  BY <1>2 DEF Complete, Advance, Moves, Working, Goto, shared, session
<1>3. CASE Deliver
  BY <1>3 DEF Deliver, Advance, Moves, Working, Goto, shared, session
<1>4. CASE DrainDisabled \/ PrepareNothing
  BY <1>4 DEF DrainDisabled, PrepareNothing, Advance, Moves, Working, Goto, shared, session
<1>5. ASSUME NEW k \in Tracks, PrepareDrain(k) \/ PrepareReady(k)
      PROVE  Moves("driver", Working, Working \cup {"done", "fail"})
  <2>1. /\ pc["driver"] = "prepare" /\ UNCHANGED <<error, reports>>
        /\ \E input \in {Null, Lookahead(k)} : Dispatch(k, input)
    BY <1>5 DEF PrepareDrain, PrepareReady, Awaits, Preparing, session
  <2> QED
    BY <2>1 DEF Dispatch, Advance, Moves, Working, Goto
<1>6. ASSUME NEW k \in Tracks, PrepareDiscard(k) \/ PrepareWait(k)
      PROVE  Moves("driver", Working, Working \cup {"done", "fail"})
  <2>1. /\ pc["driver"] = "prepare" /\ UNCHANGED <<error, reports>>
        /\ \E timers : Advance("prepare", "sleep", timers)
    BY <1>6 DEF PrepareDiscard, PrepareWait, Awaits, Preparing, session
  <2> QED
    BY <2>1 DEF Advance, Moves, Working, Goto
<1>7. ASSUME NEW k \in Tracks, PrepareThrow(k)
      PROVE  Moves("driver", Working, Working \cup {"done", "fail"})
  BY <1>7 DEF PrepareThrow, Awaits, Preparing, Moves, Working, Goto, session
<1>8. CASE Kick
  BY <1>8 DEF Kick, shared, session
<1> QED
  BY <1>1, <1>2, <1>3, <1>4, <1>5, <1>6, <1>7, <1>8 DEF Driver

\* What every action of a worker does to control.
LEMMA WorkerMoves ==
  ASSUME NEW k \in Tracks, Worker(k)
  PROVE  Moves(k, Working, Working \cup {"done", "fail"})
<1>1. CASE Take(k)
  BY <1>1 DEF Take, Moves, Working, Goto, session
<1>2. CASE Process(k)
  <2>1. pc[k] = "process" /\ Goto(k, "publish") /\ UNCHANGED <<shared, session>>
    BY <1>2 DEF Process
  <2> QED
    BY <2>1 DEF Moves, Working, Goto, shared, session
<1>3. CASE ProcessThrow(k) \/ Notify(k)
  BY <1>3 DEF ProcessThrow, Notify, Moves, Working, Goto, shared, session
<1>4. CASE Publish(k)
  BY <1>4 DEF Publish, Published, Moves, Working, Goto, session
<1> QED
  BY <1>1, <1>2, <1>3, <1>4 DEF Worker

\* The driver wakes the worker it gave a job to.
LEMMA KickFails == ASSUME FInv, Kick, UNCHANGED <<error, reports>> PROVE FInv'
<1> USE DEF Runners, Threads, Tracks
<1>1. /\ pc["driver"] = "kick"
      /\ \E x \in {"prepare", "done", "sleep"} :
           pc' = [pc EXCEPT ![driver.track] = IF @ = "waiting" THEN "take" ELSE @,
                            !["driver"] = x]
  BY DEF Kick
<1>2. /\ pc' \in [Threads -> Locations]
      /\ pc'["driver"] \in {"prepare", "done", "sleep"}
      /\ \A u \in Threads \ {"driver"} :
           pc'[u] = pc[u] \/ (pc[u] = "waiting" /\ pc'[u] = "take")
  BY <1>1 DEF FInv, Locations
<1>3. Between'
  BY <1>1, <1>2 DEF FInv, Between
<1>4. \A u \in Threads : Reporting(u)' <=> Reporting(u)
  BY <1>1, <1>2 DEF Reporting
<1>5. Reported'
  BY <1>4 DEF FInv, Reported
<1> QED
  BY <1>2, <1>3, <1>5 DEF FInv

\* A session begins with no failure; one that fails to begin has one at once.
LEMMA StartFails == FInv /\ Start => FInv'
<1> SUFFICES ASSUME FInv, Start PROVE FInv'
  OBVIOUS
<1> USE DEF Runners, Threads, Tracks
<1>1. /\ pc["owner"] = "idle" /\ ~error' /\ reports' = 0
      /\ pc' \in [Threads -> Locations]
      /\ pc'["owner"] \in {"running", "fail"} /\ pc'["caller"] = pc["caller"]
      /\ \A u \in Runners : pc'[u] \in {pc[u], "top", "take", "waiting"}
  BY DEF FInv, Start, Started, Locations
<1>2. \A u \in Threads : ~Reporting(u)'
  BY <1>1 DEF FInv, Between, Reporting
<1>3. Between'
  BY <1>1 DEF FInv, Between
<1>4. Reported'
  BY <1>1, <1>2 DEF Reported
<1> QED
  BY <1>1, <1>3, <1>4 DEF FInv, Start

\* Joined threads report nothing any more: only OnStop may still fail.
LEMMA JoinFails == FInv /\ Join => FInv'
<1> SUFFICES ASSUME FInv, Join PROVE FInv'
  OBVIOUS
<1> USE DEF Runners, Threads, Tracks
<1>1. /\ pc' = [pc EXCEPT !["owner"] = "idle"] /\ pc["owner"] = "join"
      /\ \A r \in Runners : pc[r] = "done"
  BY DEF Join, Goto
<1>2. \/ UNCHANGED <<error, reports>>
      \/ error' = TRUE /\ reports' = IF error THEN reports ELSE reports + 1
  BY DEF Join
<1>3. pc' \in [Threads -> Locations] /\ Between'
  BY <1>1 DEF FInv, Between, Locations
<1>4. \A u \in Threads : ~Reporting(u) /\ ~Reporting(u)'
  BY <1>1, <1>3 DEF FInv, Between, Reporting
<1>5. error => reports = 1
  BY <1>4 DEF FInv, Reported
<1>6. ~error => reports = 0
  BY DEF FInv, Reported
<1>7. error' \in BOOLEAN /\ reports' \in {0, 1} /\ (error' => reports' = 1)
      /\ (~error' => reports' = 0)
  <2>1. CASE UNCHANGED <<error, reports>>
    BY <2>1, <1>5, <1>6 DEF FInv, Reported
  <2>2. CASE error' = TRUE /\ reports' = IF error THEN reports ELSE reports + 1
    <3>1. reports' = 1
      BY <2>2, <1>5, <1>6
    <3> QED
      BY <2>2, <3>1
  <2> QED
    BY <1>2, <2>1, <2>2
<1>8. Reported'
  BY <1>4, <1>7 DEF Reported
<1> QED
  BY <1>3, <1>7, <1>8 DEF FInv

\* Asking to stop fails nothing.
LEMMA RequestStopFails ==
  ASSUME FInv, NEW t \in Threads, RequestStop(t) PROVE FInv'
<1> USE DEF Runners, Threads, Tracks
<1>1. /\ pc' = [pc EXCEPT ![t] = "wake"] /\ UNCHANGED <<error, reports>>
      /\ \/ t = "owner" /\ pc[t] \in {"stop", "running"}
         \/ t = "caller" /\ pc[t] = "idle"
  BY DEF RequestStop, Goto, session
<1>2. pc' \in [Threads -> Locations] /\ Between'
  BY <1>1 DEF FInv, Between, Locations
<1>3. \A u \in Threads : Reporting(u)' <=> Reporting(u)
  BY <1>1 DEF FInv, Reporting
<1>4. Reported'
  BY <1>1, <1>3 DEF FInv, Reported
<1> QED
  BY <1>1, <1>2, <1>4 DEF FInv

\* Only the thread that finds no failure goes on to report its own.
LEMMA FailFails == ASSUME FInv, NEW t \in Threads, Fail(t) PROVE FInv'
<1> USE DEF Runners, Threads, Tracks
<1>1. /\ pc[t] = "fail" /\ error' = TRUE /\ UNCHANGED reports
      /\ pc' = [pc EXCEPT ![t] = IF error THEN "done" ELSE "failWake"]
  BY DEF Fail, Goto, session
<1>2. pc' \in [Threads -> Locations] /\ Between'
  BY <1>1 DEF FInv, Between, Locations
<1>3. CASE error
  <2>1. \A u \in Threads : Reporting(u)' <=> Reporting(u)
    BY <1>1, <1>3 DEF FInv, Reporting
  <2> QED
    BY <1>1, <1>2, <1>3, <2>1 DEF FInv, Reported
<1>4. CASE ~error
  <2>1. \A u \in Threads : Reporting(u)' <=> u = t
    BY <1>1, <1>4 DEF FInv, Reported, Reporting
  <2> QED
    BY <1>1, <1>2, <1>4, <2>1 DEF FInv, Reported
<1> QED
  BY <1>3, <1>4

\* Waking the others neither begins nor ends a report.
LEMMA WakeAllFails == ASSUME FInv, NEW t \in Threads, WakeAll(t) PROVE FInv'
<1> USE DEF Runners, Threads, Tracks
<1>1. /\ pc[t] \in {"wake", "failWake"} /\ UNCHANGED <<error, reports>>
      /\ Woken(t, Tracks)
  BY DEF WakeAll, shared, session
<1>2. /\ pc' \in [Threads -> Locations]
      /\ \A u \in Threads : Reporting(u)' <=> Reporting(u)
      /\ \A u \in Threads \ {t} : pc'[u] = pc[u] \/ (pc[u] = "waiting" /\ pc'[u] = "take")
      /\ pc'[t] = IF pc[t] = "failWake" THEN "report"
                  ELSE IF t = "owner" THEN "join" ELSE "idle"
  BY <1>1 DEF FInv, Woken, Reporting, Locations
<1>3. Between'
  BY <1>1, <1>2 DEF FInv, Between
<1>4. Reported'
  BY <1>1, <1>2 DEF FInv, Reported
<1> QED
  BY <1>1, <1>2, <1>3, <1>4 DEF FInv

\* The report is made once: no other thread has one to make.
LEMMA ReportFails == ASSUME FInv, NEW t \in Threads, Report(t) PROVE FInv'
<1> USE DEF Runners, Threads, Tracks
<1>1. /\ pc[t] = "report" /\ reports' = reports + 1 /\ UNCHANGED error
      /\ pc' = [pc EXCEPT ![t] = IF t = "owner" THEN "stop" ELSE "done"]
  BY DEF Report, Goto, shared
<1>2. pc' \in [Threads -> Locations] /\ Between'
  BY <1>1 DEF FInv, Between, Locations
<1>3. error /\ reports = 0 /\ \A u \in Threads : ~Reporting(u)'
  BY <1>1 DEF FInv, Reported, Reporting
<1> QED
  BY <1>1, <1>2, <1>3 DEF FInv, Reported

\* Every step keeps who runs and who reports.
LEMMA StepFails == ASSUME FInv, Step PROVE FInv'
<1>1. CASE Start \/ Join
  BY <1>1, StartFails, JoinFails
<1>2. CASE Driver
  BY <1>2, DriverMoves, RunnerMoves, KickFails DEF FInv, Runners
<1>3. ASSUME NEW t \in Threads, RequestStop(t) \/ Failing(t) PROVE FInv'
  BY <1>3, RequestStopFails, FailFails, WakeAllFails, ReportFails DEF Failing
<1>4. ASSUME NEW k \in Tracks, Worker(k) PROVE FInv'
  BY <1>4, WorkerMoves, RunnerMoves DEF Runners
<1>5. CASE UNCHANGED <<pc, error, reports>>
  BY <1>5 DEF FInv, Between, Reported, Reporting
<1>6. SourceFail => UNCHANGED <<pc, error, reports>>
  BY DEF SourceFail, shared, session
<1>7. ASSUME NEW k \in Tracks,
             \/ SourcePush(k) \/ SourceNotify(k) \/ Downstream(k)
             \/ \E which \in {"due", "wake", "retry"} : Elapse(k, which)
      PROVE  UNCHANGED <<pc, error, reports>>
  BY <1>7 DEF SourcePush, SourceNotify, Downstream, Pop, WriteNotify, Elapse, shared, session
<1> QED
  BY <1>1, <1>2, <1>3, <1>4, <1>5, <1>6, <1>7 DEF Step

\* Who runs and who reports, at any time.
LEMMA FailuresInvariant == Spec => []FInv
<1>1. Init => FInv
  <2> SUFFICES ASSUME Init PROVE FInv
    OBVIOUS
  <2>1. /\ pc = [t \in Threads |-> IF t \in Runners THEN "done" ELSE "idle"]
        /\ ~error /\ error \in BOOLEAN /\ reports = 0
    BY DEF Init
  <2>2. pc \in [Threads -> Locations] /\ Between
    BY <2>1 DEF Between, Runners, Threads, Tracks, Locations
  <2>3. \A t \in Threads : ~Reporting(t)
    BY <2>1 DEF Reporting
  <2> QED
    BY <2>1, <2>2, <2>3 DEF FInv, Reported
<1>2. FInv /\ [Next]_<<vars, plan>> => FInv'
  <2>1. FInv /\ UNCHANGED <<vars, plan>> => FInv'
    BY DEF vars, FInv, Between, Reported, Reporting
  <2> QED
    BY <2>1, StepFails DEF Next
<1> QED
  BY <1>1, <1>2, PTL DEF Spec

\* "Unrecoverable failures notify OnError once" (scheduler.h): whichever
\* threads fail together, and whether Start or OnStop fails, a failed session
\* reports exactly one error by the time Stop returns.
THEOREM ErrorsReportedOnce == Spec => []ErrorReportedOnce
<1>1. FInv => ErrorReportedOnce
  <2> SUFFICES ASSUME FInv PROVE ErrorReportedOnce
    OBVIOUS
  <2>1. pc["owner"] = "idle" => \A t \in Threads : ~Reporting(t)
    BY DEF FInv, Between, Reporting, Threads
  <2> QED
    BY <2>1 DEF FInv, Reported, ErrorReportedOnce
<1> QED
  BY <1>1, FailuresInvariant, PTL

-----------------------------------------------------------------------------
(* Tracks.  How the driver and a worker hand a job and its result to each  *)
(* other, and where the inputs and the results of a track are.             *)

JobType == [busy : BOOLEAN, requested : BOOLEAN, completed : BOOLEAN,
            task : Items, result : Items, needsInput : BOOLEAN]
LaneType == [sourceHead : Items, head : Items, due : Deadlines, wake : Deadlines,
             blocked : BOOLEAN, space : BOOLEAN, retry : Deadlines]
WorkType == [input : Items, pending : Items, output : Items]
DriverType == [track : Tracks, armed : SUBSET Timers]

\* TypeOK, but for what FInv types.
Typed ==
  /\ stopping \in BOOLEAN /\ changed \in BOOLEAN
  /\ job \in [Tracks -> JobType] /\ lane \in [Tracks -> LaneType]
  /\ work \in [Tracks -> WorkType] /\ conv \in [Tracks -> Seq(Inputs)]
  /\ driver \in DriverType
  /\ supplied \in [Tracks -> 0 .. MaxInput] /\ read \in [Tracks -> 0 .. MaxInput]
  /\ feed \in [Tracks -> BOOLEAN] /\ srcFailed \in BOOLEAN
  /\ used \in [Tracks -> 0 .. OutCapacity]
  /\ drain \in [Tracks -> {"idle", "popped", "raised"}]
  /\ gone \in [Tracks -> SUBSET Inputs]
  /\ made \in [Tracks -> Nat] /\ consumed \in [Tracks -> Nat]
  /\ starts \in 0 .. MaxStarts
  /\ budget \in [Events -> Nat] /\ plan \in Plans

\* Nothing of a track is in flight while the owner is between two sessions.
Empty(k) ==
  /\ conv[k] = <<>> /\ work[k] = IdleWork /\ job[k] = IdleJob
  /\ lane[k].head = Null /\ lane[k].sourceHead = Null

Emptied == pc["owner"] = "idle" => \A k \in Tracks : Empty(k)

\* A job, its input and its result exist once: with the driver, in the Track
\* fields, or with the worker.
Handshake(k) ==
  /\ job[k].requested => job[k].busy
  /\ pc[k] \in {"process", "publish"} => job[k].busy /\ ~job[k].requested
  /\ pc[k] = "publish" => work[k].input = Null
  /\ job[k].busy => ~job[k].completed /\ job[k].result = Null /\ lane[k].head = Null
  /\ job[k].completed => lane[k].head = Null
  /\ job[k].result # Null => job[k].completed
  /\ work[k].output # Null => pc[k] = "publish"
  /\ job[k].task # Null => job[k].requested
  /\ work[k].input # Null => job[k].busy /\ ~job[k].requested
  /\ job[k].task # Null \/ work[k].input # Null => work[k].pending = Null
  /\ ~job[k].busy /\ job[k].needsInput => work[k].pending = Null

\* The inputs that left the source and not the converter.
InFlight(k) ==
  Elements(conv[k])
    \cup ({work[k].pending, work[k].input, job[k].task, lane[k].sourceHead} \ {Null})

\* They are in the order of the source.
Ordered(k) ==
  /\ \A i, j \in 1 .. Len(conv[k]) : i < j => conv[k][i] < conv[k][j]
  /\ \A i \in 1 .. Len(conv[k]) :
       \A x \in {work[k].pending, work[k].input, job[k].task, lane[k].sourceHead} :
         x # Null => conv[k][i] < x
  /\ \A x \in {work[k].pending, work[k].input, job[k].task} :
       x # Null /\ lane[k].sourceHead # Null => x < lane[k].sourceHead

\* What was read is in flight or finished with.
Conserved(k) ==
  /\ InFlight(k) \cup gone[k] = 1 .. read[k]
  /\ InFlight(k) \cap gone[k] = {}
  /\ read[k] <= supplied[k] /\ supplied[k] <= Supply[k]

One(item) == IF item = Null THEN 0 ELSE 1

\* What was made is consumed, or is one of the three results in flight.
Counted(k) ==
  made[k] = consumed[k] + One(work[k].output) + One(job[k].result) + One(lane[k].head)

Track(k) == Handshake(k) /\ Ordered(k) /\ Conserved(k) /\ Counted(k)

IInv == Typed /\ Emptied /\ \A k \in Tracks : Track(k)

\* The types of what a track has.
TrackTyped(k) ==
  /\ job[k] \in JobType /\ lane[k] \in LaneType /\ work[k] \in WorkType
  /\ conv[k] \in Seq(Inputs)
  /\ supplied[k] \in 0 .. MaxInput /\ read[k] \in 0 .. MaxInput
  /\ made[k] \in Nat /\ consumed[k] \in Nat /\ gone[k] \in SUBSET Inputs

\* A track's fields have the types of Typed.
LEMMA TrackTypes == ASSUME Typed, NEW k \in Tracks PROVE TrackTyped(k)
BY DEF Typed, TrackTyped

\* The two type invariants say what TypeOK says.
LEMMA TypesAreTypeOK == ASSUME FInv, Typed PROVE TypeOK
BY DEF FInv, Reported, Typed, TypeOK, JobType, LaneType, WorkType, DriverType

\* The sets of inputs and items as intervals.
LEMMA Bounds ==
  /\ MaxInput \in Nat /\ Inputs = 1 .. MaxInput /\ Null = 0
  /\ Items = 0 .. MaxInput /\ Null \in Items /\ Inputs \subseteq Items
BY SchedulerAssumption DEF Inputs, Items, Null

\* A step that leaves what is in flight on a track alone.
SameTrack(k) ==
  /\ UNCHANGED <<conv[k], work[k], job[k], supplied[k], read[k], gone[k], made[k],
                 consumed[k], lane[k].head, lane[k].sourceHead, plan>>
  /\ pc'[k] = pc[k] \/ (pc'[k] \notin {"process", "publish"} /\ pc[k] # "publish")

\* A track that a step leaves alone stays as it is.
LEMMA TrackFrame ==
  ASSUME NEW k \in Tracks, Track(k), SameTrack(k) PROVE Track(k)'
<1> USE DEF Track, SameTrack
<1>1. Handshake(k)'
  BY DEF Handshake
<1>2. Ordered(k)'
  BY DEF Ordered
<1>3. Conserved(k)'
  BY DEF Conserved, InFlight, Elements, Supply
<1>4. Counted(k)'
  BY DEF Counted, One
<1> QED
  BY <1>1, <1>2, <1>3, <1>4

-----------------------------------------------------------------------------
(* What the steps do to the track they are about.                          *)

\* A worker takes a job.
LEMMA TakeEffect ==
  ASSUME NEW k \in Tracks, TrackTyped(k), Track(k),
         pc[k] = "take", pc'[k] = "process", job[k].requested,
         job'[k] = [job[k] EXCEPT !.task = Null, !.requested = FALSE],
         work'[k] = [work[k] EXCEPT !.input = job[k].task],
         UNCHANGED <<lane[k], conv[k], supplied[k], read[k], gone[k], made[k],
                     consumed[k], plan>>
  PROVE  Track(k)'
<1>1. /\ ~job'[k].requested /\ job'[k].task = Null
      /\ UNCHANGED <<job[k].busy, job[k].completed, job[k].result, job[k].needsInput>>
  BY DEF TrackTyped, JobType
<1>2. /\ work'[k].input = job[k].task
      /\ UNCHANGED <<work[k].pending, work[k].output>>
  BY DEF TrackTyped, WorkType
<1>3. job[k].busy /\ work[k].input = Null
  BY DEF Track, Handshake
<1>4. Handshake(k)'
  BY <1>1, <1>2, <1>3 DEF Track, Handshake
<1>5. Ordered(k)'
  BY <1>1, <1>2, <1>3 DEF Track, Ordered
<1>6. InFlight(k)' = InFlight(k)
  BY <1>1, <1>2, <1>3 DEF InFlight, Elements
<1>7. Conserved(k)'
  BY <1>6 DEF Track, Conserved, Supply
<1>8. Counted(k)'
  BY <1>1, <1>2 DEF Track, Counted, One
<1> QED
  BY <1>4, <1>5, <1>7, <1>8 DEF Track

\* A worker hands its result over.
LEMMA PublishEffect ==
  ASSUME NEW k \in Tracks, TrackTyped(k), Track(k),
         pc[k] = "publish", pc'[k] = "notify",
         job'[k] = [job[k] EXCEPT !.needsInput = work[k].pending = Null
                                                 /\ work[k].output = Null,
                                  !.result = work[k].output,
                                  !.busy = FALSE, !.completed = TRUE],
         work'[k] = [work[k] EXCEPT !.output = Null],
         UNCHANGED <<lane[k], conv[k], supplied[k], read[k], gone[k], made[k],
                     consumed[k], plan>>
  PROVE  Track(k)'
<1>1. /\ ~job'[k].busy /\ job'[k].completed /\ job'[k].result = work[k].output
      /\ job'[k].needsInput => work[k].pending = Null
      /\ UNCHANGED <<job[k].requested, job[k].task>>
  BY DEF TrackTyped, JobType
<1>2. work'[k].output = Null /\ UNCHANGED <<work[k].pending, work[k].input>>
  BY DEF TrackTyped, WorkType
<1>3. /\ job[k].busy /\ ~job[k].requested /\ work[k].input = Null
      /\ job[k].result = Null /\ lane[k].head = Null /\ job[k].task = Null
  BY DEF Track, Handshake
<1>4. Handshake(k)'
  BY <1>1, <1>2, <1>3 DEF Handshake
<1>5. Ordered(k)'
  BY <1>1, <1>2 DEF Track, Ordered
<1>6. InFlight(k)' = InFlight(k)
  BY <1>1, <1>2 DEF InFlight, Elements
<1>7. Conserved(k)'
  BY <1>6 DEF Track, Conserved, Supply
<1>8. /\ One(job[k].result)' = One(work[k].output) /\ One(work[k].output)' = 0
      /\ One(job[k].result) = 0 /\ One(lane[k].head)' = One(lane[k].head)
  BY <1>1, <1>2, <1>3 DEF One
<1>9. One(work[k].output) \in Nat /\ One(lane[k].head) \in Nat
  BY DEF One
<1>10. Counted(k)'
  BY <1>8, <1>9 DEF Track, Counted, TrackTyped
<1> QED
  BY <1>4, <1>5, <1>7, <1>10 DEF Track

\* The driver collects the result of a worker.
LEMMA CompleteEffect ==
  ASSUME NEW k \in Tracks, TrackTyped(k), Track(k),
         job'[k] = [job[k] EXCEPT !.completed = FALSE,
                                  !.result = IF job[k].completed THEN Null ELSE @],
         lane'[k].head = IF job[k].completed THEN job[k].result ELSE lane[k].head,
         UNCHANGED <<pc[k], lane[k].sourceHead, work[k], conv[k], supplied[k], read[k],
                     gone[k], made[k], consumed[k], plan>>
  PROVE  Track(k)'
<1>1. /\ ~job'[k].completed /\ job'[k].result = Null
      /\ UNCHANGED <<job[k].busy, job[k].requested, job[k].task, job[k].needsInput>>
  BY DEF TrackTyped, JobType, Track, Handshake
<1>2. Handshake(k)'
  BY <1>1 DEF Track, Handshake
<1>3. Ordered(k)'
  BY <1>1 DEF Track, Ordered
<1>4. InFlight(k)' = InFlight(k)
  BY <1>1 DEF InFlight, Elements
<1>5. Conserved(k)'
  BY <1>4 DEF Track, Conserved, Supply
<1>6. /\ One(lane[k].head)' = One(job[k].result) + One(lane[k].head)
      /\ One(job[k].result)' = 0 /\ One(work[k].output)' = One(work[k].output)
      /\ {One(job[k].result), One(lane[k].head), One(work[k].output)} \subseteq Nat
  BY <1>1 DEF Track, Handshake, One
<1>7. Counted(k)'
  BY <1>6 DEF Track, Counted, TrackTyped
<1> QED
  BY <1>2, <1>3, <1>5, <1>7 DEF Track

\* The syncer consumes the head of a track, or leaves it.
LEMMA DeliverEffect ==
  ASSUME NEW k \in Tracks, TrackTyped(k), Track(k),
         \/ UNCHANGED <<lane[k].head, consumed[k]>>
         \/ lane[k].head # Null /\ lane'[k].head = Null /\ consumed'[k] = consumed[k] + 1,
         UNCHANGED <<pc[k], lane[k].sourceHead, job[k], work[k], conv[k], supplied[k],
                     read[k], gone[k], made[k], plan>>
  PROVE  Track(k)'
<1>1. Handshake(k)'
  BY DEF Track, Handshake
<1>2. Ordered(k)'
  BY DEF Track, Ordered
<1>3. InFlight(k)' = InFlight(k)
  BY DEF InFlight, Elements
<1>4. Conserved(k)'
  BY <1>3 DEF Track, Conserved, Supply
<1>5. Counted(k)'
  BY DEF Track, TrackTyped, Counted, One
<1> QED
  BY <1>1, <1>2, <1>4, <1>5 DEF Track

\* What a track holds when the driver has an input to hand over: the lookahead
\* follows everything in the converter, and nothing else is in flight.
LEMMA Looked ==
  ASSUME NEW k \in Tracks, TrackTyped(k), Track(k), ~Occupied(k), job[k].needsInput,
         NEW x, x = Lookahead(k), x # Null,
         NEW n, n = IF lane[k].sourceHead = Null THEN read[k] + 1 ELSE read[k]
  PROVE  /\ x \in Inputs /\ n \in 0 .. MaxInput /\ n <= supplied[k]
         /\ job[k].task = Null /\ work[k].input = Null /\ work[k].pending = Null
         /\ Elements(conv[k]) \cup {x} \cup gone[k] = 1 .. n
         /\ x \notin gone[k] /\ Elements(conv[k]) \cap gone[k] = {}
         /\ \A i \in 1 .. Len(conv[k]) : conv[k][i] < x
<1>1. ~job[k].busy /\ ~job[k].completed /\ lane[k].head = Null
  BY DEF Occupied
<1>2. job[k].task = Null /\ work[k].input = Null /\ work[k].pending = Null
  BY <1>1 DEF Track, Handshake
<1>3. InFlight(k) = Elements(conv[k]) \cup ({lane[k].sourceHead} \ {Null})
  BY <1>2 DEF InFlight
<1>4. /\ read[k] \in Nat /\ supplied[k] \in Nat /\ read[k] <= supplied[k]
      /\ supplied[k] <= MaxInput /\ lane[k].sourceHead \in 0 .. MaxInput
  BY Bounds DEF Track, Conserved, TrackTyped, LaneType
<1>5. CASE lane[k].sourceHead # Null
  <2>1. x = lane[k].sourceHead /\ n = read[k]
    BY <1>5 DEF Lookahead
  <2>2. \A i \in 1 .. Len(conv[k]) : conv[k][i] < x
    BY <2>1, <1>5 DEF Track, Ordered
  <2> QED
    BY <1>2, <1>3, <1>4, <1>5, <2>1, <2>2, Bounds DEF Track, Conserved
<1>6. CASE lane[k].sourceHead = Null
  <2>1. x = read[k] + 1 /\ n = read[k] + 1 /\ read[k] < supplied[k]
    BY <1>6 DEF Lookahead
  <2>2. InFlight(k) = Elements(conv[k]) /\ Elements(conv[k]) \cup gone[k] = 1 .. read[k]
        /\ Elements(conv[k]) \cap gone[k] = {}
    BY <1>3, <1>6 DEF Track, Conserved
  <2>3. \A i \in 1 .. Len(conv[k]) : conv[k][i] \in 1 .. read[k]
    BY <2>2 DEF Elements
  <2>4. \A i \in 1 .. Len(conv[k]) : conv[k][i] < x
    BY <2>1, <2>3, <1>4
  <2>5. 1 .. n = (1 .. read[k]) \cup {x} /\ x \notin 1 .. read[k]
    BY <2>1, <1>4
  <2> QED
    BY <1>2, <1>4, <2>1, <2>2, <2>4, <2>5, Bounds
<1> QED
  BY <1>5, <1>6

\* The driver hands the lookahead to the worker.
LEMMA DispatchEffect ==
  ASSUME NEW k \in Tracks, TrackTyped(k), Track(k), ~Occupied(k), job[k].needsInput,
         Lookahead(k) # Null,
         read'[k] = IF lane[k].sourceHead = Null THEN read[k] + 1 ELSE read[k],
         job'[k] = [job[k] EXCEPT !.task = Lookahead(k), !.busy = TRUE, !.requested = TRUE],
         lane'[k].sourceHead = Null,
         UNCHANGED <<pc[k], lane[k].head, work[k], conv[k], supplied[k], gone[k], made[k],
                     consumed[k], plan>>
  PROVE  Track(k)'
<1> DEFINE x == Lookahead(k)
<1>1. /\ x \in Inputs /\ read'[k] <= supplied[k]
      /\ job[k].task = Null /\ work[k].input = Null /\ work[k].pending = Null
      /\ Elements(conv[k]) \cup {x} \cup gone[k] = 1 .. read'[k]
      /\ x \notin gone[k] /\ Elements(conv[k]) \cap gone[k] = {}
      /\ \A i \in 1 .. Len(conv[k]) : conv[k][i] < x
  BY Looked
<1>2. /\ job'[k].task = x /\ job'[k].busy /\ job'[k].requested
      /\ UNCHANGED <<job[k].completed, job[k].result, job[k].needsInput>>
  BY DEF TrackTyped, JobType
<1>3. ~job[k].busy /\ ~job[k].completed /\ lane[k].head = Null
  BY DEF Occupied
<1> HIDE DEF x
<1>4. Handshake(k)'
  BY <1>1, <1>2, <1>3 DEF Track, Handshake
<1>5. Ordered(k)'
  BY <1>1, <1>2 DEF Track, Ordered
<1>6. InFlight(k)' = Elements(conv[k]) \cup {x}
  BY <1>1, <1>2, Bounds DEF InFlight, Elements
<1>7. Conserved(k)'
  BY <1>1, <1>6 DEF Track, Conserved, Supply
<1>8. Counted(k)'
  BY <1>2 DEF Track, Counted, One
<1> QED
  BY <1>4, <1>5, <1>7, <1>8 DEF Track

\* The driver is finished with the lookahead: it is too late, or the session
\* stops.
LEMMA DiscardEffect ==
  ASSUME NEW k \in Tracks, TrackTyped(k), Track(k), ~Occupied(k), job[k].needsInput,
         Lookahead(k) # Null,
         read'[k] = IF lane[k].sourceHead = Null THEN read[k] + 1 ELSE read[k],
         lane'[k].sourceHead = Null, gone'[k] = gone[k] \cup {Lookahead(k)},
         UNCHANGED <<pc[k], lane[k].head, job[k], work[k], conv[k], supplied[k], made[k],
                     consumed[k], plan>>
  PROVE  Track(k)'
<1> DEFINE x == Lookahead(k)
<1>1. /\ x \in Inputs /\ read'[k] <= supplied[k]
      /\ job[k].task = Null /\ work[k].input = Null /\ work[k].pending = Null
      /\ Elements(conv[k]) \cup {x} \cup gone[k] = 1 .. read'[k]
      /\ x \notin gone[k] /\ Elements(conv[k]) \cap gone[k] = {}
      /\ \A i \in 1 .. Len(conv[k]) : conv[k][i] < x
  BY Looked
<1>2. gone'[k] = gone[k] \cup {x}
  OBVIOUS
<1> HIDE DEF x
<1>3. Handshake(k)'
  BY DEF Track, Handshake
<1>4. Ordered(k)'
  BY <1>1 DEF Track, Ordered
<1>5. InFlight(k)' = Elements(conv[k])
  BY <1>1 DEF InFlight, Elements
<1>6. x \notin Elements(conv[k])
  <2>1. \A i \in 1 .. Len(conv[k]) : conv[k][i] # x
    BY <1>1, Bounds DEF TrackTyped
  <2> QED
    BY <2>1 DEF Elements
<1>7. Conserved(k)'
  BY <1>1, <1>2, <1>5, <1>6 DEF Track, Conserved, Supply
<1>8. Counted(k)'
  BY DEF Track, Counted, One
<1> QED
  BY <1>3, <1>4, <1>7, <1>8 DEF Track

\* The driver keeps the lookahead for later.
LEMMA WaitEffect ==
  ASSUME NEW k \in Tracks, TrackTyped(k), Track(k), ~Occupied(k), job[k].needsInput,
         Lookahead(k) # Null,
         read'[k] = IF lane[k].sourceHead = Null THEN read[k] + 1 ELSE read[k],
         lane'[k].sourceHead = Lookahead(k),
         UNCHANGED <<pc[k], lane[k].head, job[k], work[k], conv[k], supplied[k], gone[k],
                     made[k], consumed[k], plan>>
  PROVE  Track(k)'
<1> DEFINE x == Lookahead(k)
<1>1. /\ x \in Inputs /\ read'[k] <= supplied[k]
      /\ job[k].task = Null /\ work[k].input = Null /\ work[k].pending = Null
      /\ Elements(conv[k]) \cup {x} \cup gone[k] = 1 .. read'[k]
      /\ x \notin gone[k] /\ Elements(conv[k]) \cap gone[k] = {}
      /\ \A i \in 1 .. Len(conv[k]) : conv[k][i] < x
  BY Looked
<1>2. lane'[k].sourceHead = x
  OBVIOUS
<1> HIDE DEF x
<1>3. Handshake(k)'
  BY DEF Track, Handshake
<1>4. Ordered(k)'
  BY <1>1, <1>2 DEF Track, Ordered
<1>5. InFlight(k)' = Elements(conv[k]) \cup {x}
  BY <1>1, <1>2, Bounds DEF InFlight, Elements
<1>6. Conserved(k)'
  BY <1>1, <1>5 DEF Track, Conserved, Supply
<1>7. Counted(k)'
  BY DEF Track, Counted, One
<1> QED
  BY <1>3, <1>4, <1>6, <1>7 DEF Track

\* The driver asks for what the converter still has.
LEMMA DrainEffect ==
  ASSUME NEW k \in Tracks, TrackTyped(k), Track(k), ~Occupied(k), ~job[k].needsInput,
         job'[k] = [job[k] EXCEPT !.task = Null, !.busy = TRUE, !.requested = TRUE],
         UNCHANGED <<pc[k], lane[k], work[k], conv[k], supplied[k], read[k], gone[k],
                     made[k], consumed[k], plan>>
  PROVE  Track(k)'
<1>1. /\ job'[k].task = Null /\ job'[k].busy /\ job'[k].requested
      /\ UNCHANGED <<job[k].completed, job[k].result, job[k].needsInput>>
  BY DEF TrackTyped, JobType
<1>2. ~job[k].busy /\ ~job[k].completed /\ lane[k].head = Null
  BY DEF Occupied
<1>3. job[k].task = Null /\ work[k].input = Null
  BY <1>2 DEF Track, Handshake
<1>4. Handshake(k)'
  BY <1>1, <1>2, <1>3 DEF Track, Handshake
<1>5. Ordered(k)'
  BY <1>1 DEF Track, Ordered
<1>6. InFlight(k)' = InFlight(k)
  BY <1>1, <1>3 DEF InFlight, Elements
<1>7. Conserved(k)'
  BY <1>6 DEF Track, Conserved, Supply
<1>8. Counted(k)'
  BY <1>1 DEF Track, Counted, One
<1> QED
  BY <1>4, <1>5, <1>7, <1>8 DEF Track

\* The driver drops a batch of a disabled track; the source supplies more.
LEMMA ReadEffect ==
  ASSUME NEW k \in Tracks, TrackTyped(k), Track(k), NEW n \in Nat,
         read'[k] = read[k] + n, read[k] + n <= supplied'[k],
         supplied'[k] >= supplied[k], supplied'[k] <= Supply[k],
         gone'[k] = gone[k] \cup (read[k] + 1) .. (read[k] + n),
         UNCHANGED <<pc[k], lane[k].head, lane[k].sourceHead, job[k], work[k], conv[k],
                     made[k], consumed[k], plan>>
  PROVE  Track(k)'
<1>1. Handshake(k)'
  BY DEF Track, Handshake
<1>2. Ordered(k)'
  BY DEF Track, Ordered
<1>3. InFlight(k)' = InFlight(k)
  BY DEF InFlight, Elements
<1>4. /\ read[k] \in Nat
      /\ 1 .. (read[k] + n) = (1 .. read[k]) \cup ((read[k] + 1) .. (read[k] + n))
      /\ (1 .. read[k]) \cap ((read[k] + 1) .. (read[k] + n)) = {}
  BY DEF TrackTyped
<1>5. Conserved(k)'
  BY <1>3, <1>4 DEF Track, Conserved, Supply
<1>6. Counted(k)'
  BY DEF Track, Counted, One
<1> QED
  BY <1>1, <1>2, <1>5, <1>6 DEF Track

\* What a converter keeps is the tail of what it had.
LEMMA ReadTail ==
  ASSUME NEW q \in Seq(Inputs), NEW r \in TryReadFrame(q).last \cup TryReadFrame(q).more
  PROVE  /\ r.output \in Items /\ r.rest \in Seq(Inputs)
         /\ \E a \in 0 .. Len(q) :
              /\ Len(r.rest) = Len(q) - a
              /\ \A i \in 1 .. Len(r.rest) : r.rest[i] = q[i + a]
<1>1. \/ r.output = Null /\ r.rest = <<>>
      \/ \E i \in 1 .. Len(q) :
           /\ r.output = q[i]
           /\ r.rest = SubSeq(q, i + 1, Len(q)) \/ r.rest = SubSeq(q, i, Len(q))
  BY DEF TryReadFrame
<1>2. CASE r.output = Null /\ r.rest = <<>>
  BY <1>2, Bounds
<1>3. CASE \E i \in 1 .. Len(q) :
             /\ r.output = q[i]
             /\ r.rest = SubSeq(q, i + 1, Len(q)) \/ r.rest = SubSeq(q, i, Len(q))
  <2>1. PICK i \in 1 .. Len(q) :
          /\ r.output = q[i]
          /\ r.rest = SubSeq(q, i + 1, Len(q)) \/ r.rest = SubSeq(q, i, Len(q))
    BY <1>3
  <2>2. PICK b \in {i, i + 1} : r.rest = SubSeq(q, b, Len(q))
    BY <2>1
  <2>3. b \in 1 .. Len(q) + 1
    BY <2>2
  <2>4. /\ r.rest \in Seq(Inputs) /\ Len(r.rest) = Len(q) - (b - 1)
        /\ \A j \in 1 .. Len(r.rest) : r.rest[j] = q[j + (b - 1)]
    BY <2>2, <2>3
  <2>5. b - 1 \in 0 .. Len(q) /\ r.output \in Items
    BY <2>1, <2>3, Bounds
  <2> QED
    BY <2>4, <2>5
<1> QED
  BY <1>1, <1>2, <1>3

\* What a worker pushes: a filtered frame, an EOF, or what waits since the
\* converter refused it.
MayPush(k, p) ==
  /\ pc[k] = "process" /\ p \in {work[k].input, work[k].pending, Null}
  /\ work[k].input # Null \/ p = work[k].pending

\* The converter after the push, and what then waits.
Queue(k, p) ==
  IF p # Null /\ Len(conv[k]) < ConvCapacity THEN Append(conv[k], p) ELSE conv[k]
Left(k, p) == Refused(p, p # Null /\ Len(conv[k]) < ConvCapacity)

\* It follows what the converter has.
LEMMA Pushes ==
  ASSUME NEW k \in Tracks, TrackTyped(k), Track(k), NEW p, MayPush(k, p)
  PROVE  /\ Queue(k, p) \in Seq(Inputs) /\ p \in Items
         /\ \A i, j \in 1 .. Len(Queue(k, p)) : i < j => Queue(k, p)[i] < Queue(k, p)[j]
         /\ Elements(Queue(k, p)) \cup ({Left(k, p)} \ {Null})
              = Elements(conv[k]) \cup ({p} \ {Null})
         /\ \A i \in 1 .. Len(Queue(k, p)) :
              /\ Left(k, p) # Null => Queue(k, p)[i] < p
              /\ lane[k].sourceHead # Null => Queue(k, p)[i] < lane[k].sourceHead
<1> DEFINE q == Queue(k, p)
<1> USE DEF MayPush
<1>1. /\ conv[k] \in Seq(Inputs) /\ work[k].input \in Items /\ work[k].pending \in Items
      /\ p \in Items
  BY Bounds DEF TrackTyped, WorkType
<1>2. /\ \A i, j \in 1 .. Len(conv[k]) : i < j => conv[k][i] < conv[k][j]
      /\ p # Null => \A i \in 1 .. Len(conv[k]) : conv[k][i] < p
      /\ lane[k].sourceHead # Null =>
           /\ \A i \in 1 .. Len(conv[k]) : conv[k][i] < lane[k].sourceHead
           /\ p # Null => p < lane[k].sourceHead
  BY DEF Track, Ordered
<1>3. CASE p # Null /\ Len(conv[k]) < ConvCapacity
  <2>1. q = Append(conv[k], p) /\ p \in Inputs
    BY <1>1, <1>3, Bounds DEF Queue
  <2>2. /\ q \in Seq(Inputs) /\ Len(q) = Len(conv[k]) + 1 /\ q[Len(q)] = p
        /\ \A i \in 1 .. Len(conv[k]) : q[i] = conv[k][i]
    BY <1>1, <2>1
  <2>3. \A i, j \in 1 .. Len(q) : i < j => q[i] < q[j]
    BY <1>1, <1>2, <1>3, <2>2
  <2>4. Elements(q) = Elements(conv[k]) \cup {p}
    BY <1>1, <2>2 DEF Elements
  <2>5. \A i \in 1 .. Len(q) : lane[k].sourceHead # Null => q[i] < lane[k].sourceHead
    BY <1>1, <1>2, <1>3, <2>2
  <2> QED
    BY <1>1, <1>3, <2>1, <2>2, <2>3, <2>4, <2>5 DEF Refused, Left
<1>4. CASE ~(p # Null /\ Len(conv[k]) < ConvCapacity)
  BY <1>1, <1>2, <1>4 DEF Refused, Left, Queue
<1> QED
  BY <1>3, <1>4

\* A worker filters, pushes and reads.
LEMMA ProcessEffect ==
  ASSUME NEW k \in Tracks, TrackTyped(k), Track(k), pc[k] = "process", pc'[k] = "publish",
         NEW p, MayPush(k, p),
         NEW q, q = Queue(k, p),
         NEW r \in TryReadFrame(q).last \cup TryReadFrame(q).more,
         NEW o \in Items,
         conv'[k] = r.rest,
         work'[k] = [input |-> Null, pending |-> Left(k, p), output |-> o],
         made'[k] = IF o = Null THEN made[k] ELSE made[k] + 1,
         gone'[k] = gone[k] \cup ((Elements(q) \cup ({work[k].input} \ {Null, p}))
                                   \ Elements(r.rest)),
         UNCHANGED <<lane[k], job[k], supplied[k], read[k], consumed[k], plan>>
  PROVE  Track(k)'
<1> DEFINE s == Left(k, p)
           h == lane[k].sourceHead
<1>1. /\ q \in Seq(Inputs) /\ p \in Items
      /\ \A i, j \in 1 .. Len(q) : i < j => q[i] < q[j]
      /\ Elements(q) \cup ({s} \ {Null}) = Elements(conv[k]) \cup ({p} \ {Null})
      /\ \A i \in 1 .. Len(q) : (s # Null => q[i] < p) /\ (h # Null => q[i] < h)
  BY Pushes
<1>2. s \in {Null, p} /\ p \in {work[k].input, work[k].pending, Null}
      /\ (work[k].input # Null \/ p = work[k].pending)
  BY DEF Left, Refused, MayPush
<1>3. /\ job[k].busy /\ ~job[k].requested /\ job[k].task = Null
      /\ work[k].output = Null /\ (work[k].input # Null => work[k].pending = Null)
  BY DEF Track, Handshake
<1>4. work'[k].input = Null /\ work'[k].pending = s /\ work'[k].output = o
  OBVIOUS
<1> HIDE DEF s
<1>5. Handshake(k)'
  BY <1>3, <1>4 DEF Track, Handshake
<1>6. /\ r.rest \in Seq(Inputs)
      /\ \E a \in 0 .. Len(q) :
           /\ Len(r.rest) = Len(q) - a
           /\ \A i \in 1 .. Len(r.rest) : r.rest[i] = q[i + a]
  BY <1>1, ReadTail
<1>7. /\ \A i, j \in 1 .. Len(r.rest) : i < j => r.rest[i] < r.rest[j]
      /\ \A i \in 1 .. Len(r.rest) : \E j \in 1 .. Len(q) : r.rest[i] = q[j]
  <2>1. PICK a \in 0 .. Len(q) :
          /\ Len(r.rest) = Len(q) - a
          /\ \A i \in 1 .. Len(r.rest) : r.rest[i] = q[i + a]
    BY <1>6
  <2>2. \A i \in 1 .. Len(r.rest) : i + a \in 1 .. Len(q)
    BY <1>1, <1>6, <2>1
  <2>3. \A i, j \in 1 .. Len(r.rest) : i < j => i + a < j + a
    BY <1>6, <2>1
  <2>4. ASSUME NEW i \in 1 .. Len(r.rest), NEW j \in 1 .. Len(r.rest), i < j
        PROVE  r.rest[i] < r.rest[j]
    <3>1. q[i + a] < q[j + a]
      BY <1>1, <2>2, <2>3, <2>4
    <3> QED
      BY <2>1, <3>1
  <2> QED
    BY <2>1, <2>2, <2>4
<1>8. Elements(r.rest) \subseteq Elements(q)
  BY <1>7 DEF Elements
<1>9. Ordered(k)'
  <2>1. \A i \in 1 .. Len(r.rest) : (s # Null => r.rest[i] < s) /\ (h # Null => r.rest[i] < h)
    BY <1>1, <1>2, <1>7
  <2>2. s # Null /\ h # Null => s < h
    BY <1>2 DEF Track, Ordered
  <2> QED
    BY <1>3, <1>4, <1>7, <2>1, <2>2 DEF Ordered
<1>10. InFlight(k)' = Elements(r.rest) \cup ({s, h} \ {Null})
  BY <1>3, <1>4 DEF InFlight, Elements
<1>11. InFlight(k) = Elements(conv[k]) \cup ({work[k].pending, work[k].input, h} \ {Null})
  BY <1>3 DEF InFlight
<1>12. InFlight(k)' \cup gone'[k] = InFlight(k) \cup gone[k]
  <2>1. {work[k].pending, work[k].input} \ {Null}
          = ({p} \ {Null}) \cup ({work[k].input} \ {Null, p})
    BY <1>2, <1>3
  <2> QED
    BY <1>1, <1>8, <1>10, <1>11, <2>1
<1>13. s # Null => s \notin Elements(q)
  BY <1>1, <1>2, Bounds DEF Elements
<1>14. h # Null => h \notin Elements(q) /\ h \notin {work[k].input} \ {Null}
  <2>1. h \in Nat /\ \A i \in 1 .. Len(q) : q[i] \in Nat
    BY <1>1, Bounds DEF TrackTyped, LaneType
  <2>2. h # Null => h \notin Elements(q)
    BY <1>1, <2>1 DEF Elements
  <2>3. work[k].input # Null /\ h # Null => work[k].input < h
    BY DEF Track, Ordered
  <2> QED
    BY <2>1, <2>2, <2>3
<1>15. InFlight(k)' \cap gone'[k] = {}
  <2>1. (Elements(r.rest) \cup ({s, h} \ {Null})) \cap gone[k] = {}
    BY <1>1, <1>8, <1>11, <1>3, <1>2 DEF Track, Conserved
  <2> QED
    BY <1>2, <1>10, <1>13, <1>14, <2>1
<1>16. Conserved(k)'
  BY <1>12, <1>15 DEF Track, Conserved, Supply
<1>17. Counted(k)'
  BY <1>3, <1>4 DEF Track, Counted, One, TrackTyped
<1> QED
  BY <1>5, <1>9, <1>16, <1>17 DEF Track

-----------------------------------------------------------------------------
(* The driver.                                                             *)

\* A counted event keeps the type of the budget.
LEMMA Spends ==
  ASSUME budget \in [Events -> Nat], NEW e \in Events, NEW bound,
         Spend(e, bound) \/ UNCHANGED budget
  PROVE  budget' \in [Events -> Nat]
BY DEF Spend

\* The driver goes on to a track with timers.
LEMMA Advances ==
  ASSUME driver \in DriverType, NEW phase, NEW next, NEW timers \in SUBSET Timers,
         Advance(phase, next, timers)
  PROVE  driver' \in DriverType
BY DEF Advance, DriverType, Tracks

\* The timers that the driver arms.
LEMMA TimerIs == \A k \in Tracks : DeliverTimer(k) \in Timers /\ <<"again", k>> \in Timers
                                   /\ <<"due", k>> \in Timers
BY DEF DeliverTimer, Timers

\* The lane that Complete leaves.
LEMMA CompletedLane ==
  ASSUME NEW k \in Tracks, TrackTyped(k)
  PROVE  /\ Completed(k) \in LaneType
         /\ Completed(k).sourceHead = lane[k].sourceHead
         /\ Completed(k).head = IF job[k].completed THEN job[k].result ELSE lane[k].head
BY DEF Completed, TrackTyped, JobType, LaneType, Deadlines

\* What a step of the driver that leaves the workers alone starts from.
Drives ==
  /\ Typed /\ (\A u \in Tracks : Track(u)) /\ UNCHANGED plan
  /\ \A u \in Tracks : pc'[u] = pc[u]

\* A step about one track leaves the other as it is.
LEMMA OtherTracks ==
  ASSUME NEW k \in Tracks, Track(k)', \A u \in Tracks : Track(u),
         \A u \in Tracks \ {k} : SameTrack(u)
  PROVE  \A u \in Tracks : Track(u)'
<1> TAKE u \in Tracks
<1>1. CASE u = k
  BY <1>1
<1>2. CASE u # k
  BY <1>2, TrackFrame
<1> QED
  BY <1>1, <1>2

\* Complete.
LEMMA CompleteKeeps == ASSUME Drives, Complete PROVE Typed' /\ \A u \in Tracks : Track(u)'
<1>0. PICK k \in Tracks : k = driver.track
  BY DEF Drives, Typed, DriverType
<1>1. k \in Tracks /\ driver \in DriverType
  BY DEF Drives, Typed
<1>2. TrackTyped(k) /\ Track(k)
  BY <1>1, TrackTypes DEF Drives
<1>3. UNCHANGED <<stopping, changed, work, conv, supplied, read, feed, srcFailed, used,
                  drain, gone, made, consumed, starts, budget, plan>>
  BY <1>0 DEF Complete, Drives, source, downstream, ghosts, session
<1>4. job' = [job EXCEPT ![k].completed = FALSE,
                         ![k].result = IF job[k].completed THEN Null ELSE @]
  BY <1>0 DEF Complete
<1>5. \/ lane' = [lane EXCEPT ![k] = Completed(k)]
      \/ lane' = [lane EXCEPT ![k] = [Completed(k) EXCEPT !.blocked = FALSE,
                                        !.space = FALSE, !.retry = "now"]]
  BY <1>0 DEF Complete
<1>6. (\E timers \in SUBSET Timers : Advance("scan", "prepare", timers)) \/ UNCHANGED driver
  BY <1>0 DEF Complete
<1>7. driver' \in DriverType
  BY <1>1, <1>6, Advances
<1>8. job \in [Tracks -> JobType] /\ lane \in [Tracks -> LaneType]
  BY DEF Drives, Typed
<1>9. /\ job' \in [Tracks -> JobType]
      /\ job'[k] = [job[k] EXCEPT !.completed = FALSE,
                                  !.result = IF job[k].completed THEN Null ELSE @]
      /\ \A u \in Tracks \ {k} : job'[u] = job[u]
  <2>1. /\ job'[k] = [job[k] EXCEPT !.completed = FALSE,
                                    !.result = IF job[k].completed THEN Null ELSE @]
        /\ \A u \in Tracks \ {k} : job'[u] = job[u]
        /\ job' = [u \in Tracks |-> job'[u]]
    BY <1>1, <1>4, <1>8 DEF JobType
  <2>2. job'[k] \in JobType
    BY <1>1, <1>8, <2>1, Bounds DEF JobType
  <2> QED
    BY <1>8, <2>1, <2>2
<1>10. PICK l : /\ lane' = [lane EXCEPT ![k] = l] /\ l \in LaneType
                /\ l.sourceHead = lane[k].sourceHead
                /\ l.head = IF job[k].completed THEN job[k].result ELSE lane[k].head
  <2>1. CASE lane' = [lane EXCEPT ![k] = Completed(k)]
    BY <2>1, <1>1, <1>2, CompletedLane
  <2>2. CASE lane' = [lane EXCEPT ![k] = [Completed(k) EXCEPT !.blocked = FALSE,
                                            !.space = FALSE, !.retry = "now"]]
    <3> DEFINE c == Completed(k)
               l == [c EXCEPT !.blocked = FALSE, !.space = FALSE, !.retry = "now"]
    <3>1. /\ c \in LaneType /\ c.sourceHead = lane[k].sourceHead
          /\ c.head = IF job[k].completed THEN job[k].result ELSE lane[k].head
      BY <1>1, <1>2, CompletedLane
    <3>2. lane' = [lane EXCEPT ![k] = l]
      BY <2>2
    <3> HIDE DEF c
    <3>3. l \in LaneType /\ l.sourceHead = c.sourceHead /\ l.head = c.head
      BY <3>1 DEF LaneType, Deadlines
    <3> QED
      BY <3>1, <3>2, <3>3
  <2> QED
    BY <1>5, <2>1, <2>2
<1>11. /\ lane' \in [Tracks -> LaneType] /\ lane'[k] = l
       /\ \A u \in Tracks \ {k} : lane'[u] = lane[u]
  BY <1>1, <1>8, <1>10
<1>12. Typed'
  BY <1>3, <1>7, <1>9, <1>11 DEF Drives, Typed
<1>13. Track(k)'
  <2>1. UNCHANGED <<pc[k], lane[k].sourceHead, work[k], conv[k], supplied[k], read[k],
                    gone[k], made[k], consumed[k], plan>>
    BY <1>1, <1>3, <1>10, <1>11 DEF Drives
  <2>2. lane'[k].head = IF job[k].completed THEN job[k].result ELSE lane[k].head
    BY <1>10, <1>11
  <2> QED
    BY <1>1, <1>2, <1>9, <2>1, <2>2, CompleteEffect
<1>14. \A u \in Tracks \ {k} : SameTrack(u)
  BY <1>3, <1>9, <1>11 DEF Drives, SameTrack
<1> QED
  BY <1>1, <1>12, <1>13, <1>14, OtherTracks DEF Drives

\* Deliver.
LEMMA DeliverKeeps == ASSUME Drives, Deliver PROVE Typed' /\ \A u \in Tracks : Track(u)'
<1>0. PICK k \in Tracks : k = driver.track
  BY DEF Drives, Typed, DriverType
<1>1. k \in Tracks /\ driver \in DriverType
  BY DEF Drives, Typed
<1>2. TrackTyped(k) /\ Track(k)
  BY <1>1, TrackTypes DEF Drives
<1>3. UNCHANGED <<stopping, changed, job, work, conv, supplied, read, feed, srcFailed,
                  drain, gone, made, starts, plan>>
  BY <1>0 DEF Deliver, Drives, shared, source, session
<1>4. driver' \in DriverType
  BY <1>0, <1>1, Advances DEF Deliver
<1>5. budget' \in [Events -> Nat]
  <2>1. budget \in [Events -> Nat] /\ "fill" \in Events
    BY DEF Drives, Typed, Events
  <2>2. UNCHANGED budget \/ Spend("fill", MaxFills)
    BY <1>0 DEF Deliver
  <2> QED
    BY <2>1, <2>2, Spends
<1>6. used' \in [Tracks -> 0 .. OutCapacity]
  <2>1. used \in [Tracks -> 0 .. OutCapacity] /\ OutCapacity \in Nat
    BY SchedulerAssumption DEF Drives, Typed
  <2>2. UNCHANGED used \/ (used[k] < OutCapacity /\ used' = [used EXCEPT ![k] = @ + 1])
    <3>1. UNCHANGED used \/ \E a, b : Offer(k, a, b)
      BY <1>0 DEF Deliver
    <3>2. ASSUME NEW a, NEW b, Offer(k, a, b)
          PROVE  UNCHANGED used \/ (used[k] < OutCapacity /\ used' = [used EXCEPT ![k] = @ + 1])
      BY <3>2 DEF Offer
    <3> QED
      BY <3>1, <3>2
  <2> QED
    BY <1>1, <2>1, <2>2
<1>7. lane \in [Tracks -> LaneType] /\ consumed \in [Tracks -> Nat]
  BY DEF Drives, Typed
<1> DEFINE l == lane[k]
           Outcome(n) ==
             /\ lane' = [lane EXCEPT ![k] = n] /\ n \in LaneType
             /\ n.sourceHead = l.sourceHead
             /\ \/ n.head = l.head /\ UNCHANGED consumed
                \/ /\ l.head # Null /\ n.head = Null
                   /\ consumed' = [consumed EXCEPT ![k] = @ + 1]
<1> DEFINE Later(w) == [l EXCEPT !.wake = w]
           Blocked(w) == [Later(w) EXCEPT !.blocked = TRUE, !.retry = "later"]
           Consumed(w) == [l EXCEPT !.head = Null, !.wake = w]
<1>8. \A w \in Deadlines :
        /\ {Later(w), Blocked(w), Consumed(w)} \subseteq LaneType
        /\ Later(w).sourceHead = l.sourceHead /\ Blocked(w).sourceHead = l.sourceHead
        /\ Consumed(w).sourceHead = l.sourceHead
        /\ Later(w).head = l.head /\ Blocked(w).head = l.head /\ Consumed(w).head = Null
  <2> TAKE w \in Deadlines
  <2>1. l \in LaneType
    BY <1>1, <1>7
  <2>2. /\ Later(w) \in LaneType /\ Later(w).sourceHead = l.sourceHead
        /\ Later(w).head = l.head
    BY <2>1 DEF LaneType
  <2>3. /\ Blocked(w) \in LaneType /\ Blocked(w).sourceHead = Later(w).sourceHead
        /\ Blocked(w).head = Later(w).head
    <3> HIDE DEF Later
    <3> QED
      BY <2>2 DEF LaneType, Deadlines
  <2>4. /\ Consumed(w) \in LaneType /\ Consumed(w).sourceHead = l.sourceHead
        /\ Consumed(w).head = Null
    BY <2>1, Bounds DEF LaneType
  <2> HIDE DEF Later, Blocked, Consumed
  <2> QED
    BY <2>2, <2>3, <2>4
<1>9. "now" \in Deadlines /\ "later" \in Deadlines
  BY DEF Deadlines
<1>10. \E n : Outcome(n)
  <2>1. CASE /\ l.head \in Eofs
             /\ lane' = [lane EXCEPT ![k].head = Null, ![k].wake = "now"]
             /\ consumed' = [consumed EXCEPT ![k] = @ + 1]
    <3>1. lane' = [lane EXCEPT ![k] = Consumed("now")]
      BY <1>1, <1>7, <2>1 DEF LaneType
    <3>2. l.head # Null
      BY <2>1, SchedulerAssumption, Bounds
    <3> HIDE DEF Consumed
    <3>3. Outcome(Consumed("now"))
      BY <1>8, <1>9, <2>1, <3>1, <3>2
    <3> QED
      BY <3>3
  <2>2. CASE /\ l.head \in Inputs \ Eofs
             /\ Offer(k, Consumed("now"), Later("now"))
             /\ consumed' = [consumed EXCEPT ![k] = IF used[k] < OutCapacity THEN @ + 1
                                                    ELSE @]
    <3>1. l.head # Null
      BY <2>2, Bounds
    <3>2. CASE used[k] < OutCapacity
      <4>1. lane' = [lane EXCEPT ![k] = Consumed("now")]
            /\ consumed' = [consumed EXCEPT ![k] = @ + 1]
        BY <2>2, <3>2 DEF Offer
      <4> HIDE DEF Consumed
      <4>2. Outcome(Consumed("now"))
        BY <1>8, <1>9, <3>1, <4>1
      <4> QED
        BY <4>2
    <3>3. CASE ~(used[k] < OutCapacity)
      <4>1. lane' = [lane EXCEPT ![k] = Blocked("now")]
        BY <2>2, <3>3 DEF Offer
      <4>2. consumed' = consumed
        BY <1>7, <2>2, <3>3
      <4> HIDE DEF Blocked
      <4>3. Outcome(Blocked("now"))
        BY <1>8, <1>9, <4>1, <4>2
      <4> QED
        BY <4>3
    <3> QED
      BY <3>2, <3>3
  <2>3. CASE /\ \E w \in Deadlines : Offer(k, Later(w), Later(w))
             /\ UNCHANGED consumed
    <3>1. PICK w \in Deadlines : Offer(k, Later(w), Later(w))
      BY <2>3
    <3>2. lane' = [lane EXCEPT ![k] = Later(w)] \/ lane' = [lane EXCEPT ![k] = Blocked(w)]
      BY <3>1 DEF Offer
    <3> HIDE DEF Later, Blocked
    <3>3. Outcome(Later(w)) \/ Outcome(Blocked(w))
      BY <1>8, <2>3, <3>2
    <3> QED
      BY <3>3
  <2>4. CASE lane' = [lane EXCEPT ![k].wake = "later"] /\ UNCHANGED consumed
    <3>1. lane' = [lane EXCEPT ![k] = Later("later")]
      BY <2>4
    <3> HIDE DEF Later
    <3>2. Outcome(Later("later"))
      BY <1>8, <1>9, <2>4, <3>1
    <3> QED
      BY <3>2
  <2> QED
    BY <1>0, <2>1, <2>2, <2>3, <2>4 DEF Deliver
<1>11. PICK n : Outcome(n)
  BY <1>10
<1>12. /\ lane' \in [Tracks -> LaneType] /\ lane'[k] = n
       /\ \A u \in Tracks \ {k} : lane'[u] = lane[u]
  BY <1>1, <1>7, <1>11
<1>13. /\ consumed' \in [Tracks -> Nat]
       /\ \A u \in Tracks \ {k} : consumed'[u] = consumed[u]
       /\ \/ UNCHANGED <<lane[k].head, consumed[k]>>
          \/ lane[k].head # Null /\ lane'[k].head = Null /\ consumed'[k] = consumed[k] + 1
  BY <1>1, <1>7, <1>11, <1>12
<1>14. Typed'
  BY <1>3, <1>4, <1>5, <1>6, <1>12, <1>13 DEF Drives, Typed
<1>15. Track(k)'
  <2>1. UNCHANGED <<pc[k], lane[k].sourceHead, job[k], work[k], conv[k], supplied[k],
                    read[k], gone[k], made[k], plan>>
    BY <1>1, <1>3, <1>11, <1>12 DEF Drives
  <2> QED
    BY <1>1, <1>2, <1>13, <2>1, DeliverEffect
<1>16. \A u \in Tracks \ {k} : SameTrack(u)
  BY <1>3, <1>12, <1>13 DEF Drives, SameTrack
<1> QED
  BY <1>1, <1>14, <1>15, <1>16, OtherTracks DEF Drives

\* DrainDisabled.
LEMMA DrainDisabledKeeps ==
  ASSUME Drives, DrainDisabled PROVE Typed' /\ \A u \in Tracks : Track(u)'
<1>1. PICK k \in Tracks : k = driver.track
  BY DEF Drives, Typed, DriverType
<1>2. TrackTyped(k) /\ Track(k) /\ driver \in DriverType
  BY TrackTypes DEF Drives, Typed
<1>3. UNCHANGED <<stopping, changed, job, lane, work, conv, supplied, feed, srcFailed, used,
                  drain, made, consumed, starts, budget, plan>>
  BY DEF DrainDisabled, Drives, shared, source, downstream, session
<1>4. PICK n : /\ n = IF supplied[k] - read[k] < DiscardBatch
                      THEN supplied[k] - read[k] ELSE DiscardBatch
               /\ read' = [read EXCEPT ![k] = @ + n]
               /\ gone' = [gone EXCEPT ![k] = @ \cup (read[k] + 1) .. (read[k] + n)]
               /\ Advance("scan", "prepare",
                          IF n = DiscardBatch THEN {<<"again", k>>} ELSE {})
  BY <1>1 DEF DrainDisabled
<1>5. driver' \in DriverType
  BY <1>2, <1>4, TimerIs, Advances
<1>6. /\ read \in [Tracks -> 0 .. MaxInput] /\ gone \in [Tracks -> SUBSET Inputs]
      /\ read[k] \in Nat /\ supplied[k] \in 0 .. MaxInput /\ read[k] <= supplied[k]
  BY <1>2, Bounds DEF Drives, Typed, Track, Conserved, TrackTyped
<1>7. n \in Nat /\ read[k] + n <= supplied[k] /\ supplied[k] <= MaxInput
  BY <1>4, <1>6, Bounds, SchedulerAssumption
<1>8. (read[k] + 1) .. (read[k] + n) \subseteq Inputs
  BY <1>6, <1>7, Bounds
<1>9. /\ read' \in [Tracks -> 0 .. MaxInput] /\ read'[k] = read[k] + n
      /\ \A u \in Tracks \ {k} : read'[u] = read[u]
  BY <1>4, <1>6, <1>7, Bounds
<1>10. /\ gone' \in [Tracks -> SUBSET Inputs]
       /\ gone'[k] = gone[k] \cup (read[k] + 1) .. (read[k] + n)
       /\ \A u \in Tracks \ {k} : gone'[u] = gone[u]
  BY <1>4, <1>6, <1>8
<1>11. Typed'
  BY <1>3, <1>5, <1>9, <1>10 DEF Drives, Typed
<1>12. Track(k)'
  <2>1. /\ read[k] + n <= supplied'[k] /\ supplied'[k] >= supplied[k]
        /\ supplied'[k] <= Supply[k]
    BY <1>2, <1>3, <1>6, <1>7 DEF Track, Conserved
  <2>2. UNCHANGED <<pc[k], lane[k].head, lane[k].sourceHead, job[k], work[k], conv[k],
                    made[k], consumed[k], plan>>
    BY <1>3 DEF Drives
  <2> QED
    BY <1>2, <1>7, <1>9, <1>10, <2>1, <2>2, ReadEffect
<1>13. \A u \in Tracks \ {k} : SameTrack(u)
  BY <1>3, <1>9, <1>10 DEF Drives, SameTrack
<1> QED
  BY <1>11, <1>12, <1>13, OtherTracks DEF Drives

\* A step of any thread that changes nothing in flight.
Leaves ==
  /\ Typed /\ \A u \in Tracks : Track(u)
  /\ UNCHANGED <<job, lane, work, conv, supplied, read, gone, made, consumed, used, plan>>
  /\ \A u \in Tracks :
       pc'[u] = pc[u] \/ (pc'[u] \notin {"process", "publish"} /\ pc[u] # "publish")

\* Such a step keeps what holds of the tracks.
LEMMA LeavesTracks == ASSUME Leaves PROVE \A u \in Tracks : Track(u)'
<1> TAKE u \in Tracks
<1>1. SameTrack(u) /\ Track(u)
  BY DEF Leaves, SameTrack
<1> QED
  BY <1>1, TrackFrame

\* The steps of the driver that change nothing in flight.
LEMMA DriverLeaves ==
  ASSUME Leaves, DriverTop \/ Observe \/ DeliverThrow \/ PrepareNothing \/ Kick \/ Awake
  PROVE  Typed'
<1>1. driver \in DriverType
  BY DEF Leaves, Typed
<1>2. driver' \in DriverType
  <2>1. CASE DriverTop \/ Observe \/ DeliverThrow
    BY <1>1, <2>1 DEF DriverTop, Observe, DeliverThrow
  <2>2. CASE PrepareNothing
    <3>1. driver.track \in Tracks
      BY <1>1 DEF DriverType
    <3>2. (IF driver.track \in Enabled THEN {DeliverTimer(driver.track)} ELSE {})
            \in SUBSET Timers
      BY <3>1, TimerIs
    <3> QED
      BY <1>1, <2>2, <3>2, Advances DEF PrepareNothing
  <2>3. CASE Kick
    <3>1. \E x \in Tracks : driver' = [driver EXCEPT !.track = x]
      BY <2>3 DEF Kick, Tracks
    <3> QED
      BY <1>1, <3>1 DEF DriverType
  <2>4. CASE Awake
    BY <1>1, <2>4 DEF Awake, DriverType
  <2> QED
    BY <2>1, <2>2, <2>3, <2>4
<1>3. changed' \in BOOLEAN
  BY DEF DriverTop, Observe, DeliverThrow, PrepareNothing, Kick, Awake, Leaves, Typed
<1>4. UNCHANGED <<stopping, feed, srcFailed, drain, starts>>
  BY DEF DriverTop, Observe, DeliverThrow, PrepareNothing, Kick, Awake, shared, source,
         downstream, session
<1>5. budget' \in [Events -> Nat]
  <2>1. UNCHANGED budget \/ Spend("fault", MaxFaults)
    BY DEF DriverTop, Observe, DeliverThrow, PrepareNothing, Kick, Awake
  <2> QED
    BY <2>1, Spends DEF Leaves, Typed, Events
<1> QED
  BY <1>2, <1>3, <1>4, <1>5 DEF Leaves, Typed

\* Handing over, giving up or keeping a lookahead.
LEMMA PrepareKeeps ==
  ASSUME Drives, NEW k \in Tracks,
         \/ PrepareDrain(k) \/ PrepareReady(k) \/ PrepareDiscard(k)
         \/ PrepareWait(k) \/ PrepareThrow(k)
  PROVE  Typed' /\ \A u \in Tracks : Track(u)'
<1>1. /\ TrackTyped(k) /\ Track(k) /\ driver \in DriverType /\ driver.track = k
      /\ job \in [Tracks -> JobType] /\ lane \in [Tracks -> LaneType]
      /\ read \in [Tracks -> 0 .. MaxInput] /\ gone \in [Tracks -> SUBSET Inputs]
      /\ budget \in [Events -> Nat]
  BY TrackTypes DEF Drives, Typed, PrepareDrain, PrepareReady, PrepareDiscard, PrepareWait, PrepareThrow,
                    Awaits, Preparing
<1>2. UNCHANGED <<stopping, changed, work, conv, supplied, feed, srcFailed, used, drain,
                  made, consumed, starts, plan>>
  BY DEF PrepareDrain, PrepareReady, PrepareDiscard, PrepareWait, PrepareThrow, Awaits, Drives, source,
         downstream, session
<1>3. ~Occupied(k)
  BY DEF PrepareDrain, PrepareReady, PrepareDiscard, PrepareWait, PrepareThrow, Awaits
<1> DEFINE x == Lookahead(k)
           Rest == /\ job' \in [Tracks -> JobType] /\ lane' \in [Tracks -> LaneType]
                   /\ read' \in [Tracks -> 0 .. MaxInput] /\ gone' \in [Tracks -> SUBSET Inputs]
                   /\ driver' \in DriverType /\ budget' \in [Events -> Nat]
                   /\ \A u \in Tracks \ {k} :
                        UNCHANGED <<job[u], lane[u].head, lane[u].sourceHead, read[u], gone[u]>>
<1>4. SUFFICES Rest /\ Track(k)'
  <2>1. ASSUME Rest PROVE Typed'
    BY <1>2, <2>1 DEF Drives, Typed
  <2>2. ASSUME Rest PROVE \A u \in Tracks \ {k} : SameTrack(u)
    BY <1>2, <2>2 DEF Drives, SameTrack
  <2> QED
    BY <2>1, <2>2, OtherTracks DEF Drives
<1>5. CASE PrepareDrain(k)
  <2>1. /\ ~job[k].needsInput /\ UNCHANGED <<read, budget>> /\ lane' = lane
        /\ driver' \in DriverType
    <3>1. ~job[k].needsInput /\ UNCHANGED <<read, budget>> /\ Dispatch(k, Null)
      BY <1>5 DEF PrepareDrain
    <3>2. {DeliverTimer(k)} \in SUBSET Timers
      BY TimerIs
    <3>3. CASE Advance("prepare", "sleep", {DeliverTimer(k)})
      BY <1>1, <3>1, <3>2, <3>3, Advances DEF Dispatch
    <3>4. CASE driver' = [driver EXCEPT !.armed = @ \cup {DeliverTimer(k)}]
      BY <1>1, <3>1, <3>2, <3>4 DEF Dispatch, DriverType
    <3> QED
      BY <3>1, <3>3, <3>4 DEF Dispatch
  <2>2. CASE stopping
    <3>1. UNCHANGED job /\ gone' = [gone EXCEPT ![k] = @ \cup ({Null} \ {Null})]
      BY <1>5, <2>2 DEF PrepareDrain, Dispatch
    <3>2. gone' = gone
      BY <1>1, <3>1
    <3>3. SameTrack(k)
      BY <1>2, <2>1, <3>1, <3>2 DEF Drives, SameTrack
    <3>4. Track(k)'
      BY <1>1, <3>3, TrackFrame
    <3> QED
      BY <1>1, <2>1, <3>1, <3>2, <3>4
  <2>3. CASE ~stopping
    <3>1. UNCHANGED gone /\ job' = [job EXCEPT ![k].task = Null, ![k].busy = TRUE,
                                               ![k].requested = TRUE]
      BY <1>5, <2>3 DEF PrepareDrain, Dispatch
    <3>2. /\ job'[k] = [job[k] EXCEPT !.task = Null, !.busy = TRUE, !.requested = TRUE]
          /\ \A u \in Tracks \ {k} : job'[u] = job[u]
          /\ job' \in [Tracks -> JobType]
      <4>1. /\ job'[k] = [job[k] EXCEPT !.task = Null, !.busy = TRUE, !.requested = TRUE]
            /\ \A u \in Tracks \ {k} : job'[u] = job[u]
            /\ job' = [u \in Tracks |-> job'[u]]
        BY <1>1, <3>1 DEF JobType
      <4>2. job'[k] \in JobType
        BY <1>1, <4>1, Bounds DEF JobType
      <4> QED
        BY <1>1, <4>1, <4>2
    <3>3. UNCHANGED <<pc[k], lane[k], work[k], conv[k], supplied[k], read[k], gone[k],
                      made[k], consumed[k], plan>>
      BY <1>2, <2>1, <3>1 DEF Drives
    <3>4. Track(k)'
      BY <1>1, <1>3, <2>1, <3>2, <3>3, DrainEffect
    <3> QED
      BY <1>1, <2>1, <3>1, <3>2, <3>4
  <2> QED
    BY <2>2, <2>3
<1>6. ASSUME Awaits(k)
      PROVE  /\ job[k].needsInput /\ x # Null /\ x \in Inputs
             /\ read' \in [Tracks -> 0 .. MaxInput]
             /\ read'[k] = IF lane[k].sourceHead = Null THEN read[k] + 1 ELSE read[k]
             /\ \A u \in Tracks \ {k} : read'[u] = read[u]
  <2>1. /\ job[k].needsInput /\ x # Null
        /\ read' = [read EXCEPT ![k] = IF lane[k].sourceHead = Null THEN @ + 1 ELSE @]
    BY <1>6 DEF Awaits
  <2> DEFINE n == IF lane[k].sourceHead = Null THEN read[k] + 1 ELSE read[k]
  <2>2. x \in Inputs /\ n \in 0 .. MaxInput
    BY <1>1, <1>3, <2>1, Looked
  <2> QED
    BY <1>1, <2>1, <2>2
<1>7. ASSUME Awaits(k), NEW h \in {Null, x}, NEW d \in Deadlines,
             lane' = [lane EXCEPT ![k].sourceHead = h, ![k].due = d]
      PROVE  /\ lane' \in [Tracks -> LaneType] /\ lane'[k].sourceHead = h
             /\ lane'[k].head = lane[k].head /\ \A u \in Tracks \ {k} : lane'[u] = lane[u]
  <2>1. h \in Items
    BY <1>6, <1>7, Bounds
  <2>2. /\ lane'[k] = [lane[k] EXCEPT !.sourceHead = h, !.due = d]
        /\ \A u \in Tracks \ {k} : lane'[u] = lane[u]
        /\ lane' = [u \in Tracks |-> lane'[u]]
    BY <1>1, <1>7 DEF LaneType
  <2>3. /\ lane'[k] \in LaneType /\ lane'[k].sourceHead = h /\ lane'[k].head = lane[k].head
    BY <1>1, <1>7, <2>1, <2>2 DEF LaneType
  <2> QED
    BY <1>1, <2>2, <2>3
<1>8. "now" \in Deadlines /\ "later" \in Deadlines
  BY DEF Deadlines
<1>9. CASE PrepareReady(k)
  <2>1. Awaits(k) /\ Dispatch(k, x) /\ UNCHANGED budget /\ x # Null
    BY <1>9, <1>6 DEF PrepareReady
  <2>2. lane' = [lane EXCEPT ![k].sourceHead = Null, ![k].due = "now"]
    BY <2>1 DEF Dispatch
  <2>3. {DeliverTimer(k)} \in SUBSET Timers
    BY TimerIs
  <2>4. CASE stopping
    <3>1. /\ UNCHANGED job /\ gone' = [gone EXCEPT ![k] = @ \cup ({x} \ {Null})]
          /\ Advance("prepare", "sleep", {DeliverTimer(k)})
      BY <2>1, <2>4 DEF Dispatch
    <3>2. /\ gone' \in [Tracks -> SUBSET Inputs] /\ gone'[k] = gone[k] \cup {x}
          /\ \A u \in Tracks \ {k} : gone'[u] = gone[u]
      BY <1>1, <1>6, <2>1, <3>1
    <3>3. driver' \in DriverType
      BY <1>1, <2>3, <3>1, Advances
    <3>4. UNCHANGED <<pc[k], lane[k].head, job[k], work[k], conv[k], supplied[k], made[k],
                      consumed[k], plan>>
      BY <1>2, <1>7, <1>8, <2>1, <2>2, <3>1 DEF Drives
    <3>5. Track(k)'
      BY <1>1, <1>3, <1>6, <1>7, <1>8, <2>1, <2>2, <3>2, <3>4, DiscardEffect
    <3>6. /\ lane' \in [Tracks -> LaneType] /\ read' \in [Tracks -> 0 .. MaxInput]
          /\ \A u \in Tracks \ {k} : lane'[u] = lane[u] /\ read'[u] = read[u]
      BY <1>6, <1>7, <1>8, <2>1, <2>2
    <3>7. job' \in [Tracks -> JobType] /\ budget' \in [Events -> Nat]
      BY <1>1, <2>1, <3>1
    <3> QED
      BY <3>1, <3>2, <3>3, <3>5, <3>6, <3>7
  <2>5. CASE ~stopping
    <3>1. /\ UNCHANGED gone
          /\ job' = [job EXCEPT ![k].task = x, ![k].busy = TRUE, ![k].requested = TRUE]
          /\ driver' = [driver EXCEPT !.armed = @ \cup {DeliverTimer(k)}]
      BY <2>1, <2>5 DEF Dispatch
    <3>2. x \in Items
      BY <1>6, <2>1, Bounds
    <3>3. /\ job'[k] = [job[k] EXCEPT !.task = x, !.busy = TRUE, !.requested = TRUE]
          /\ \A u \in Tracks \ {k} : job'[u] = job[u]
          /\ job' \in [Tracks -> JobType]
      <4>1. /\ job'[k] = [job[k] EXCEPT !.task = x, !.busy = TRUE, !.requested = TRUE]
            /\ \A u \in Tracks \ {k} : job'[u] = job[u]
            /\ job' = [u \in Tracks |-> job'[u]]
        BY <1>1, <3>1 DEF JobType
      <4>2. job'[k] \in JobType
        BY <1>1, <4>1, <3>2 DEF JobType
      <4> QED
        BY <1>1, <4>1, <4>2
    <3>4. driver' \in DriverType
      BY <1>1, <2>3, <3>1 DEF DriverType
    <3>5. UNCHANGED <<pc[k], lane[k].head, work[k], conv[k], supplied[k], gone[k],
                      made[k], consumed[k], plan>>
      BY <1>2, <1>7, <1>8, <2>1, <2>2, <3>1 DEF Drives
    <3>6. Track(k)'
      BY <1>1, <1>3, <1>6, <1>7, <1>8, <2>1, <2>2, <3>3, <3>5, DispatchEffect
    <3>7. /\ lane' \in [Tracks -> LaneType] /\ read' \in [Tracks -> 0 .. MaxInput]
          /\ \A u \in Tracks \ {k} : lane'[u] = lane[u] /\ read'[u] = read[u]
      BY <1>6, <1>7, <1>8, <2>1, <2>2
    <3>8. gone' \in [Tracks -> SUBSET Inputs] /\ budget' \in [Events -> Nat]
      BY <1>1, <2>1, <3>1
    <3> QED
      BY <3>1, <3>3, <3>4, <3>6, <3>7, <3>8
  <2> QED
    BY <2>4, <2>5
<1>10. CASE PrepareDiscard(k)
  <2>1. /\ Awaits(k) /\ UNCHANGED <<job, budget>>
        /\ lane' = [lane EXCEPT ![k].sourceHead = Null, ![k].due = "now"]
        /\ gone' = [gone EXCEPT ![k] = @ \cup {x}]
        /\ Advance("prepare", "sleep", {DeliverTimer(k), <<"again", k>>})
    BY <1>10 DEF PrepareDiscard
  <2>2. /\ gone' \in [Tracks -> SUBSET Inputs] /\ gone'[k] = gone[k] \cup {x}
        /\ \A u \in Tracks \ {k} : gone'[u] = gone[u]
    BY <1>1, <1>6, <2>1
  <2>3. driver' \in DriverType
    <3>1. {DeliverTimer(k), <<"again", k>>} \in SUBSET Timers
      BY TimerIs
    <3> QED
      BY <1>1, <2>1, <3>1, Advances
  <2>4. UNCHANGED <<pc[k], lane[k].head, job[k], work[k], conv[k], supplied[k], made[k],
                    consumed[k], plan>>
    BY <1>2, <1>7, <1>8, <2>1 DEF Drives
  <2>5. Track(k)'
    BY <1>1, <1>3, <1>6, <1>7, <1>8, <2>1, <2>2, <2>4, DiscardEffect
  <2> QED
    BY <1>1, <1>6, <1>7, <1>8, <2>1, <2>2, <2>3, <2>5
<1>11. CASE PrepareWait(k)
  <2>1. /\ Awaits(k) /\ UNCHANGED <<job, gone>>
        /\ lane' = [lane EXCEPT ![k].sourceHead = x, ![k].due = "later"]
        /\ Advance("prepare", "sleep", {DeliverTimer(k), <<"due", k>>})
        /\ UNCHANGED budget \/ Spend("defer", MaxDefers)
    BY <1>11 DEF PrepareWait
  <2>2. driver' \in DriverType
    <3>1. {DeliverTimer(k), <<"due", k>>} \in SUBSET Timers
      BY TimerIs
    <3> QED
      BY <1>1, <2>1, <3>1, Advances
  <2>3. budget' \in [Events -> Nat]
    BY <1>1, <2>1, Spends DEF Events
  <2>4. UNCHANGED <<pc[k], lane[k].head, job[k], work[k], conv[k], supplied[k], gone[k],
                    made[k], consumed[k], plan>>
    BY <1>2, <1>7, <1>8, <2>1 DEF Drives
  <2>5. Track(k)'
    BY <1>1, <1>3, <1>6, <1>7, <1>8, <2>1, <2>4, WaitEffect
  <2> QED
    BY <1>1, <1>6, <1>7, <1>8, <2>1, <2>2, <2>3, <2>5
<1>12. CASE PrepareThrow(k)
  <2>1. /\ Awaits(k) /\ UNCHANGED <<job, gone, driver>> /\ Spend("fault", MaxFaults)
        /\ lane' = [lane EXCEPT ![k].sourceHead = x]
    BY <1>12 DEF PrepareThrow
  <2>2. /\ lane' \in [Tracks -> LaneType] /\ lane'[k].sourceHead = x
        /\ lane'[k].head = lane[k].head /\ \A u \in Tracks \ {k} : lane'[u] = lane[u]
    <3>1. x \in Items
      BY <1>6, <2>1, Bounds
    <3>2. /\ lane'[k] = [lane[k] EXCEPT !.sourceHead = x]
          /\ \A u \in Tracks \ {k} : lane'[u] = lane[u]
          /\ lane' = [u \in Tracks |-> lane'[u]]
      BY <1>1, <2>1 DEF LaneType
    <3>3. lane'[k] \in LaneType /\ lane'[k].sourceHead = x /\ lane'[k].head = lane[k].head
      BY <1>1, <3>1, <3>2 DEF LaneType
    <3> QED
      BY <1>1, <3>2, <3>3
  <2>3. budget' \in [Events -> Nat]
    BY <1>1, <2>1, Spends DEF Events
  <2>4. UNCHANGED <<pc[k], lane[k].head, job[k], work[k], conv[k], supplied[k], gone[k],
                    made[k], consumed[k], plan>>
    BY <1>2, <2>1, <2>2 DEF Drives
  <2>5. Track(k)'
    BY <1>1, <1>3, <1>6, <2>1, <2>2, <2>4, WaitEffect
  <2> QED
    BY <1>1, <1>6, <2>1, <2>2, <2>3, <2>5
<1> QED
  BY <1>5, <1>9, <1>10, <1>11, <1>12

-----------------------------------------------------------------------------
(* The workers.                                                            *)

\* What a step of a worker starts from.
Works ==
  /\ Typed /\ pc \in [Threads -> Locations] /\ UNCHANGED plan
  /\ \A u \in Tracks : Track(u)

\* Take.
LEMMA TakeKeeps ==
  ASSUME Works, NEW k \in Tracks, Take(k) PROVE Typed' /\ \A u \in Tracks : Track(u)'
<1>1. /\ TrackTyped(k) /\ Track(k) /\ k \in Threads /\ pc \in [Threads -> Locations]
      /\ job \in [Tracks -> JobType] /\ work \in [Tracks -> WorkType]
  BY TrackTypes DEF Works, Typed, Threads, Runners
<1>2. /\ pc[k] = "take"
      /\ UNCHANGED <<stopping, changed, lane, conv, driver, supplied, read, feed, srcFailed,
                     used, drain, gone, made, consumed, starts, budget, plan>>
  BY DEF Take, Works, source, downstream, ghosts, session
<1>3. CASE stopping \/ k \notin Enabled \/ ~job[k].requested
  <2>1. UNCHANGED <<job, work>> /\ \E x \in {"done", "waiting"} : pc' = [pc EXCEPT ![k] = x]
    BY <1>3 DEF Take, Goto
  <2>2. Typed'
    BY <1>2, <2>1 DEF Works, Typed
  <2>3. ASSUME NEW u \in Tracks PROVE SameTrack(u)
    <3>1. pc'[u] = pc[u] \/ (pc'[u] \notin {"process", "publish"} /\ pc[u] # "publish")
      BY <1>1, <1>2, <2>1 DEF Threads, Runners
    <3> QED
      BY <1>2, <2>1, <3>1 DEF SameTrack
  <2> QED
    BY <2>2, <2>3, TrackFrame DEF Works
<1>4. CASE ~(stopping \/ k \notin Enabled \/ ~job[k].requested)
  <2>1. /\ pc' = [pc EXCEPT ![k] = "process"] /\ job[k].requested
        /\ work' = [work EXCEPT ![k].input = job[k].task]
        /\ job' = [job EXCEPT ![k].task = Null, ![k].requested = FALSE]
    BY <1>4 DEF Take, Goto
  <2>2. /\ job'[k] = [job[k] EXCEPT !.task = Null, !.requested = FALSE]
        /\ \A u \in Tracks \ {k} : job'[u] = job[u]
        /\ job' = [u \in Tracks |-> job'[u]]
    BY <1>1, <2>1 DEF JobType
  <2>3. /\ work'[k] = [work[k] EXCEPT !.input = job[k].task]
        /\ \A u \in Tracks \ {k} : work'[u] = work[u]
        /\ work' = [u \in Tracks |-> work'[u]]
    BY <1>1, <2>1 DEF WorkType
  <2>4. job'[k] \in JobType
    <3>1. job[k] \in JobType
      BY <1>1
    <3> QED
      BY <2>2, <3>1, Bounds DEF JobType
  <2>5. work'[k] \in WorkType
    <3>1. job[k].task \in Items
      BY <1>1 DEF JobType
    <3> QED
      BY <1>1, <2>3, <3>1 DEF WorkType
  <2>6. job' \in [Tracks -> JobType] /\ work' \in [Tracks -> WorkType]
    BY <1>1, <2>2, <2>3, <2>4, <2>5
  <2>7. Typed'
    BY <1>2, <2>6 DEF Works, Typed
  <2>8. pc'[k] = "process" /\ \A u \in Tracks \ {k} : pc'[u] = pc[u]
    BY <1>1, <2>1 DEF Threads, Runners
  <2>9. Track(k)'
    <3>1. UNCHANGED <<lane[k], conv[k], supplied[k], read[k], gone[k], made[k], consumed[k],
                      plan>>
      BY <1>2
    <3> QED
      BY <1>1, <1>2, <2>1, <2>2, <2>3, <2>8, <3>1, TakeEffect
  <2>10. \A u \in Tracks \ {k} : SameTrack(u)
    BY <1>2, <2>2, <2>3, <2>8 DEF SameTrack
  <2> QED
    BY <2>7, <2>9, <2>10, OtherTracks DEF Works
<1> QED
  BY <1>3, <1>4

\* Publish.
LEMMA PublishKeeps ==
  ASSUME Works, NEW k \in Tracks, Publish(k) PROVE Typed' /\ \A u \in Tracks : Track(u)'
<1>1. /\ TrackTyped(k) /\ Track(k) /\ k \in Threads /\ pc \in [Threads -> Locations]
      /\ job \in [Tracks -> JobType] /\ work \in [Tracks -> WorkType]
  BY TrackTypes DEF Works, Typed, Threads, Runners
<1>2. /\ pc[k] = "publish" /\ pc' = [pc EXCEPT ![k] = "notify"]
      /\ UNCHANGED <<stopping, changed, lane, conv, driver, supplied, read, feed, srcFailed,
                     used, drain, gone, made, consumed, starts, budget, plan>>
  BY DEF Publish, Published, Goto, Works, source, downstream, ghosts, session
<1> DEFINE drained == work[k].pending = Null /\ work[k].output = Null
<1>3. job' = [job EXCEPT ![k].needsInput = drained, ![k].result = work[k].output,
                         ![k].busy = FALSE, ![k].completed = TRUE]
      /\ work' = [work EXCEPT ![k].output = Null]
  BY DEF Publish, Published
<1>4. drained \in BOOLEAN
  OBVIOUS
<1>5. /\ job'[k] = [job[k] EXCEPT !.needsInput = drained, !.result = work[k].output,
                                  !.busy = FALSE, !.completed = TRUE]
      /\ \A u \in Tracks \ {k} : job'[u] = job[u]
      /\ job' = [u \in Tracks |-> job'[u]]
  <2> HIDE DEF drained
  <2> QED
    BY <1>1, <1>3 DEF JobType
<1>6. /\ work'[k] = [work[k] EXCEPT !.output = Null]
      /\ \A u \in Tracks \ {k} : work'[u] = work[u]
      /\ work' = [u \in Tracks |-> work'[u]]
  BY <1>1, <1>3 DEF WorkType
<1>7. job'[k] \in JobType
  <2>1. work[k].output \in Items
    BY <1>1 DEF WorkType
  <2> HIDE DEF drained
  <2> QED
    BY <1>1, <1>4, <1>5, <2>1 DEF JobType
<1>8. work'[k] \in WorkType
  BY <1>1, <1>6, Bounds DEF WorkType
<1>9. job' \in [Tracks -> JobType] /\ work' \in [Tracks -> WorkType]
  BY <1>1, <1>5, <1>6, <1>7, <1>8
<1>10. Typed'
  BY <1>2, <1>9 DEF Works, Typed
<1>11. pc'[k] = "notify" /\ \A u \in Tracks \ {k} : pc'[u] = pc[u]
  BY <1>1, <1>2 DEF Threads, Runners
<1>12. Track(k)'
  <2>1. UNCHANGED <<lane[k], conv[k], supplied[k], read[k], gone[k], made[k], consumed[k],
                    plan>>
    BY <1>2
  <2> QED
    BY <1>1, <1>2, <1>5, <1>6, <1>11, <2>1, PublishEffect
<1>13. \A u \in Tracks \ {k} : SameTrack(u)
  BY <1>2, <1>5, <1>6, <1>11 DEF SameTrack
<1> QED
  BY <1>10, <1>12, <1>13, OtherTracks DEF Works

\* What Process does with p, when the converter answers r and o comes out.
Processed(k, p, r, o) ==
  /\ IF r \in TryReadFrame(Queue(k, p)).last THEN UNCHANGED budget
     ELSE Spend("copy", MaxCopies)
  /\ conv' = [conv EXCEPT ![k] = r.rest]
  /\ work' = [work EXCEPT ![k] = [input |-> Null, pending |-> Left(k, p), output |-> o]]
  /\ made' = [made EXCEPT ![k] = IF o = Null THEN @ ELSE @ + 1]
  /\ gone' = [gone EXCEPT ![k] = @ \cup ((Elements(Queue(k, p)) \cup ({work[k].input} \ {Null, p}))
                                          \ Elements(r.rest))]

\* Process.
LEMMA ProcessKeeps ==
  ASSUME Works, NEW k \in Tracks, Process(k) PROVE Typed' /\ \A u \in Tracks : Track(u)'
<1>1. /\ TrackTyped(k) /\ Track(k) /\ k \in Threads /\ pc \in [Threads -> Locations]
      /\ work \in [Tracks -> WorkType] /\ conv \in [Tracks -> Seq(Inputs)]
      /\ made \in [Tracks -> Nat] /\ gone \in [Tracks -> SUBSET Inputs]
      /\ budget \in [Events -> Nat]
  BY TrackTypes DEF Works, Typed, Threads, Runners
<1>2. /\ pc[k] = "process" /\ pc' = [pc EXCEPT ![k] = "publish"]
      /\ UNCHANGED <<stopping, changed, job, lane, driver, supplied, read, feed, srcFailed,
                     used, drain, consumed, starts, plan>>
  BY DEF Process, Goto, Works, shared, source, downstream, session
<1>3. PICK p \in IF work[k].input = Null THEN {work[k].pending}
                 ELSE IF k = "video" THEN Filtered(k, work[k].input) ELSE {work[k].input} :
        \E r \in TryReadFrame(Queue(k, p)).last \cup TryReadFrame(Queue(k, p)).more :
        \E o \in IF k = "audio" /\ r.output # Null THEN Filtered(k, r.output) ELSE {r.output} :
          Processed(k, p, r, o)
  BY Zenon DEF Process, Queue, Left, Processed
<1> DEFINE q == Queue(k, p)
<1>4. PICK r \in TryReadFrame(q).last \cup TryReadFrame(q).more :
        \E o \in IF k = "audio" /\ r.output # Null THEN Filtered(k, r.output) ELSE {r.output} :
          Processed(k, p, r, o)
  BY <1>3
<1>5. PICK o \in IF k = "audio" /\ r.output # Null THEN Filtered(k, r.output) ELSE {r.output} :
        Processed(k, p, r, o)
  BY <1>4
<1>6. MayPush(k, p) /\ p \in Items
  BY <1>1, <1>2, <1>3, Bounds DEF Filtered, MayPush, TrackTyped, WorkType
<1>7. q \in Seq(Inputs) /\ Left(k, p) \in Items
  BY <1>1, <1>3, <1>6, Pushes, Bounds DEF Left, Refused
<1>8. r.rest \in Seq(Inputs) /\ r.output \in Items
  BY <1>4, <1>7, ReadTail
<1>9. o \in Items
  BY <1>5, <1>8, Bounds DEF Filtered
<1> DEFINE w == [input |-> Null, pending |-> Left(k, p), output |-> o]
           g == gone[k] \cup ((Elements(q) \cup ({work[k].input} \ {Null, p}))
                               \ Elements(r.rest))
<1>10. w \in WorkType /\ work' = [work EXCEPT ![k] = w]
  BY <1>5, <1>7, <1>9, Bounds DEF WorkType, Processed
<1>11. g \in SUBSET Inputs /\ gone' = [gone EXCEPT ![k] = g]
  <2>1. Elements(q) \subseteq Inputs
    BY <1>7 DEF Elements
  <2>2. {work[k].input} \ {Null, p} \subseteq Inputs
    BY <1>1, Bounds DEF WorkType
  <2> QED
    BY <1>1, <1>5, <2>1, <2>2 DEF Processed
<1>12. /\ work' \in [Tracks -> WorkType] /\ work'[k] = w
       /\ \A u \in Tracks \ {k} : work'[u] = work[u]
  <2> HIDE DEF w
  <2> QED
    BY <1>1, <1>10
<1>13. /\ gone' \in [Tracks -> SUBSET Inputs] /\ gone'[k] = g
       /\ \A u \in Tracks \ {k} : gone'[u] = gone[u]
  <2> HIDE DEF g
  <2> QED
    BY <1>1, <1>11
<1>14. /\ conv' \in [Tracks -> Seq(Inputs)] /\ conv'[k] = r.rest
       /\ made' \in [Tracks -> Nat] /\ made'[k] = IF o = Null THEN made[k] ELSE made[k] + 1
       /\ \A u \in Tracks \ {k} : conv'[u] = conv[u] /\ made'[u] = made[u]
  BY <1>1, <1>5, <1>8 DEF Processed
<1>15. budget' \in [Events -> Nat]
  BY <1>1, <1>5, Spends DEF Events, Processed
<1>16. Typed'
  BY <1>2, <1>12, <1>13, <1>14, <1>15 DEF Works, Typed
<1>17. pc'[k] = "publish" /\ \A u \in Tracks \ {k} : pc'[u] = pc[u]
  BY <1>1, <1>2 DEF Threads, Runners
<1>18. Track(k)'
  <2>1. UNCHANGED <<lane[k], job[k], supplied[k], read[k], consumed[k], plan>>
    BY <1>2
  <2> QED
    BY <1>1, <1>2, <1>4, <1>6, <1>9, <1>12, <1>13, <1>14, <1>17, <2>1, ProcessEffect
<1>19. \A u \in Tracks \ {k} : SameTrack(u)
  BY <1>2, <1>12, <1>13, <1>14, <1>17 DEF SameTrack
<1> QED
  BY <1>16, <1>18, <1>19, OtherTracks DEF Works

\* The steps of a worker that change nothing in flight.
LEMMA WorkerLeaves ==
  ASSUME Leaves, NEW k \in Tracks, ProcessThrow(k) \/ Notify(k) PROVE Typed'
<1>1. budget' \in [Events -> Nat]
  <2>1. budget \in [Events -> Nat] /\ "fault" \in Events
    BY DEF Leaves, Typed, Events
  <2>2. UNCHANGED budget \/ Spend("fault", MaxFaults)
    BY DEF ProcessThrow, Notify
  <2> QED
    BY <2>1, <2>2, Spends
<1>2. changed' \in BOOLEAN
  BY DEF ProcessThrow, Notify, Leaves, Typed
<1>3. UNCHANGED <<stopping, driver, feed, srcFailed, drain, starts>>
  BY DEF ProcessThrow, Notify, shared, source, downstream, session
<1> QED
  BY <1>1, <1>2, <1>3 DEF Leaves, Typed

-----------------------------------------------------------------------------
(* The lifecycle and the queues.                                           *)

\* Between two sessions nothing is in flight, so Start forgets nothing.
LEMMA StartKeeps == ASSUME IInv, FInv, Start, UNCHANGED plan PROVE IInv'
<1>1. /\ pc["owner"] = "idle" /\ starts' = starts + 1 /\ starts < MaxStarts
      /\ stopping' = FALSE
      /\ job' = [k \in Tracks |-> IdleJob] /\ lane' = [k \in Tracks |-> IdleLane]
      /\ work' = [k \in Tracks |-> IdleWork] /\ conv' = [k \in Tracks |-> <<>>]
      /\ driver' = [track |-> "video", armed |-> {}]
      /\ UNCHANGED <<changed, supplied, read, feed, srcFailed, used, drain, gone, made,
                     consumed>>
  BY DEF Start, source, downstream, ghosts
<1>2. Typed
  BY DEF IInv
<1>3. budget' \in [Events -> Nat]
  <2>1. UNCHANGED budget \/ Spend("fault", MaxFaults)
    BY DEF Start
  <2> QED
    BY <1>2, <2>1, Spends DEF Typed, Events
<1>4. IdleJob \in JobType /\ IdleLane \in LaneType /\ IdleWork \in WorkType
  BY Bounds DEF IdleJob, IdleLane, IdleWork, JobType, LaneType, WorkType, Deadlines
<1>5. starts' \in 0 .. MaxStarts
  BY <1>1, <1>2, SchedulerAssumption DEF Typed
<1>6. driver' \in DriverType
  BY <1>1 DEF DriverType, Tracks
<1>7. /\ job' \in [Tracks -> JobType] /\ lane' \in [Tracks -> LaneType]
      /\ work' \in [Tracks -> WorkType] /\ conv' \in [Tracks -> Seq(Inputs)]
  BY <1>1, <1>4
<1>8. Typed'
  BY <1>1, <1>2, <1>3, <1>5, <1>6, <1>7 DEF Typed
<1>9. Emptied'
  <2>1. pc'["owner"] # "idle"
    BY DEF Start, Threads, Runners, Tracks
  <2> QED
    BY <2>1 DEF Emptied
<1>10. ASSUME NEW k \in Tracks PROVE Track(k)'
  <2>1. Empty(k) /\ Track(k) /\ pc[k] = "done"
    BY <1>1 DEF IInv, Emptied, FInv, Between, Runners
  <2>2. pc'[k] \in {"done", "take", "waiting"}
    BY <2>1 DEF Start, Started, Threads, Runners, Tracks
  <2>3. /\ job'[k] = IdleJob /\ work'[k] = IdleWork /\ conv'[k] = <<>>
        /\ lane'[k].head = Null /\ lane'[k].sourceHead = Null
    BY <1>1 DEF IdleLane
  <2>4. SameTrack(k)
    BY <1>1, <2>1, <2>2, <2>3 DEF SameTrack, Empty
  <2> QED
    BY <2>1, <2>4, TrackFrame
<1> QED
  BY <1>8, <1>9, <1>10 DEF IInv

\* Stop drops what is in flight.
LEMMA JoinKeeps == ASSUME IInv, FInv, Join, UNCHANGED plan PROVE IInv'
<1>1. /\ job' = [k \in Tracks |-> IdleJob] /\ lane' = [k \in Tracks |-> IdleLane]
      /\ work' = [k \in Tracks |-> IdleWork] /\ conv' = [k \in Tracks |-> <<>>]
      /\ gone' = [k \in Tracks |-> 1 .. read[k]] /\ consumed' = made
      /\ UNCHANGED <<stopping, changed, driver, supplied, read, feed, srcFailed, used, drain,
                     made, starts>>
  BY DEF Join, source, downstream
<1>2. Typed
  BY DEF IInv
<1>3. budget' \in [Events -> Nat]
  <2>1. UNCHANGED budget \/ Spend("fault", MaxFaults)
    BY DEF Join
  <2> QED
    BY <1>2, <2>1, Spends DEF Typed, Events
<1>4. IdleJob \in JobType /\ IdleLane \in LaneType /\ IdleWork \in WorkType
  BY Bounds DEF IdleJob, IdleLane, IdleWork, JobType, LaneType, WorkType, Deadlines
<1>5. /\ job' \in [Tracks -> JobType] /\ lane' \in [Tracks -> LaneType]
      /\ work' \in [Tracks -> WorkType] /\ conv' \in [Tracks -> Seq(Inputs)]
      /\ consumed' \in [Tracks -> Nat]
  BY <1>1, <1>2, <1>4 DEF Typed
<1>6. gone' \in [Tracks -> SUBSET Inputs]
  <2>1. ASSUME NEW k \in Tracks PROVE 1 .. read[k] \subseteq Inputs
    BY <1>2, Bounds DEF Typed
  <2> QED
    BY <1>1, <2>1
<1>7. Typed'
  BY <1>1, <1>2, <1>3, <1>5, <1>6 DEF Typed
<1>8. ASSUME NEW k \in Tracks PROVE Empty(k)' /\ Track(k)'
  <2>1. Track(k) /\ TrackTyped(k)
    BY TrackTypes DEF IInv
  <2>2. pc'[k] = "done"
    BY DEF Join, Goto, Runners, FInv, Threads, Tracks
  <2>3. /\ job'[k] = IdleJob /\ work'[k] = IdleWork /\ conv'[k] = <<>>
        /\ lane'[k].head = Null /\ lane'[k].sourceHead = Null
        /\ gone'[k] = 1 .. read[k] /\ consumed'[k] = made[k]
        /\ UNCHANGED <<read[k], supplied[k], made[k], plan>>
    BY <1>1 DEF IdleLane
  <2>4. Empty(k)'
    BY <2>3 DEF Empty
  <2>5. Handshake(k)'
    BY <2>2, <2>3 DEF Handshake, IdleJob, IdleWork
  <2>6. Ordered(k)'
    BY <2>3 DEF Ordered, IdleJob, IdleWork
  <2>7. InFlight(k)' = {}
    BY <2>3 DEF InFlight, Elements, IdleJob, IdleWork
  <2>8. Conserved(k)'
    BY <2>1, <2>3, <2>7 DEF Track, Conserved, Supply
  <2>9. Counted(k)'
    BY <2>1, <2>3 DEF Counted, One, TrackTyped, IdleJob, IdleWork
  <2> QED
    BY <2>4, <2>5, <2>6, <2>8, <2>9 DEF Track
<1> QED
  BY <1>7, <1>8 DEF IInv, Emptied

\* RequestStop and Fail.
LEMMA LifecycleKeeps ==
  ASSUME IInv, FInv, NEW t \in Threads, RequestStop(t) \/ Failing(t), UNCHANGED plan
  PROVE  IInv'
<1>1. /\ stopping' \in BOOLEAN /\ changed' \in BOOLEAN
      /\ UNCHANGED <<job, lane, work, conv, driver, supplied, read, feed, srcFailed, used,
                     drain, gone, made, consumed, starts, plan>>
  BY DEF RequestStop, Failing, Fail, WakeAll, Report, shared, source, downstream, ghosts,
         session, IInv, Typed
<1>2. budget' \in [Events -> Nat]
  <2>1. UNCHANGED budget \/ Spend("stop", MaxStops)
    BY DEF RequestStop, Failing, Fail, WakeAll, Report
  <2> QED
    BY <2>1, Spends DEF IInv, Typed, Events
<1>3. Typed'
  BY <1>1, <1>2 DEF IInv, Typed
<1>4. /\ pc'["owner"] = "idle" => pc["owner"] = "idle"
      /\ \A u \in Tracks :
           pc'[u] = pc[u] \/ (pc'[u] \notin {"process", "publish"} /\ pc[u] # "publish")
  <2> USE DEF FInv, Threads, Runners, Tracks
  <2>1. CASE RequestStop(t)
    BY <2>1 DEF RequestStop, Goto
  <2>2. CASE Fail(t)
    BY <2>2 DEF Fail, Goto
  <2>3. CASE WakeAll(t)
    BY <2>3 DEF WakeAll, Woken
  <2>4. CASE Report(t)
    BY <2>4 DEF Report, Goto
  <2> QED
    BY <2>1, <2>2, <2>3, <2>4 DEF Failing
<1>5. \A u \in Tracks : Track(u)'
  BY <1>1, <1>4, LeavesTracks DEF Leaves, IInv
<1>6. Emptied'
  BY <1>1, <1>4 DEF Emptied, IInv, Empty
<1> QED
  BY <1>3, <1>5, <1>6 DEF IInv

\* A step outside the scheduler's threads.
Outside ==
  \/ SourceFail
  \/ \E k \in Tracks : \/ SourcePush(k) \/ SourceNotify(k) \/ Downstream(k)
                       \/ \E which \in {"due", "wake", "retry"} : Elapse(k, which)

\* The queues on both sides and the clock keep the types.
LEMMA OutsideTyped == ASSUME IInv, Outside, UNCHANGED plan PROVE Typed'
<1>0. Typed
  BY DEF IInv
<1>1. CASE SourceFail
  <2>1. budget' \in [Events -> Nat]
    BY <1>0, <1>1, Spends DEF SourceFail, Typed, Events
  <2>2. /\ srcFailed' = TRUE /\ feed' = [k \in Tracks |-> TRUE]
        /\ UNCHANGED <<stopping, changed, job, lane, work, conv, driver, supplied, read, used,
                       drain, gone, made, consumed, starts>>
    BY <1>1 DEF SourceFail, shared, downstream, ghosts, session
  <2> QED
    BY <1>0, <2>1, <2>2 DEF Typed
<1>2. ASSUME NEW k \in Tracks, SourcePush(k) PROVE Typed'
  <2>1. Supply[k] \in 0 .. MaxInput
    BY <1>0, SchedulerAssumption DEF Typed, Supply
  <2>2. /\ supplied' = [supplied EXCEPT ![k] = @ + 1] /\ supplied[k] < Supply[k]
        /\ feed' = [feed EXCEPT ![k] = TRUE]
        /\ UNCHANGED <<stopping, changed, job, lane, work, conv, driver, srcFailed, read, used,
                       drain, gone, made, consumed, starts, budget>>
    BY <1>2 DEF SourcePush, shared, downstream, ghosts, session
  <2>3. supplied' \in [Tracks -> 0 .. MaxInput] /\ feed' \in [Tracks -> BOOLEAN]
    BY <1>0, <2>1, <2>2, Bounds DEF Typed
  <2> QED
    BY <1>0, <2>2, <2>3 DEF Typed
<1>3. ASSUME NEW k \in Tracks, SourceNotify(k) PROVE Typed'
  <2>1. /\ feed' = [feed EXCEPT ![k] = FALSE] /\ changed' = TRUE
        /\ UNCHANGED <<stopping, job, lane, work, conv, driver, supplied, srcFailed, read,
                       used, drain, gone, made, consumed, starts, budget>>
    BY <1>3 DEF SourceNotify, shared, downstream, ghosts, session
  <2>2. feed' \in [Tracks -> BOOLEAN]
    BY <1>0, <2>1 DEF Typed
  <2> QED
    BY <1>0, <2>1, <2>2 DEF Typed
<1>4. ASSUME NEW k \in Tracks, Pop(k) PROVE Typed'
  <2>1. /\ used' = [used EXCEPT ![k] = @ - 1] /\ used[k] > 0
        /\ drain' = [drain EXCEPT ![k] = "popped"]
        /\ UNCHANGED <<stopping, changed, job, lane, work, conv, driver, supplied, feed,
                       srcFailed, read, gone, made, consumed, starts, budget>>
    BY <1>4 DEF Pop, shared, source, ghosts, session
  <2>2. /\ used' \in [Tracks -> 0 .. OutCapacity]
        /\ drain' \in [Tracks -> {"idle", "popped", "raised"}]
    <3>1. /\ used \in [Tracks -> 0 .. OutCapacity] /\ OutCapacity \in Nat
          /\ drain \in [Tracks -> {"idle", "popped", "raised"}]
      BY <1>0, SchedulerAssumption DEF Typed
    <3>2. used[k] - 1 \in 0 .. OutCapacity
      BY <2>1, <3>1
    <3> QED
      BY <2>1, <3>1, <3>2
  <2> QED
    BY <1>0, <2>1, <2>2 DEF Typed
<1>5. ASSUME NEW k \in Tracks, WriteNotify(k) PROVE Typed'
  <2>1. /\ \E d \in {"raised", "idle"} : drain' = [drain EXCEPT ![k] = d]
        /\ lane' = lane \/ lane' = [lane EXCEPT ![k].space = TRUE]
        /\ changed' \in {TRUE, changed}
        /\ UNCHANGED <<stopping, job, work, conv, driver, supplied, feed, srcFailed, read,
                       used, gone, made, consumed, starts, budget>>
    BY <1>5 DEF WriteNotify, shared, source, ghosts, session
  <2>2. drain' \in [Tracks -> {"idle", "popped", "raised"}]
    BY <1>0, <2>1 DEF Typed
  <2>3. lane' \in [Tracks -> LaneType]
    <3>1. lane \in [Tracks -> LaneType]
      BY <1>0 DEF Typed
    <3>2. [lane[k] EXCEPT !.space = TRUE] \in LaneType
      BY <3>1 DEF LaneType
    <3>3. lane' = lane \/ lane' = [lane EXCEPT ![k] = [lane[k] EXCEPT !.space = TRUE]]
      BY <2>1
    <3> QED
      BY <3>1, <3>2, <3>3
  <2> QED
    BY <1>0, <2>1, <2>2, <2>3 DEF Typed
<1>6. ASSUME NEW k \in Tracks, NEW which \in {"due", "wake", "retry"}, Elapse(k, which)
      PROVE  Typed'
  <2>1. /\ lane' = [lane EXCEPT ![k][which] = "now"]
        /\ UNCHANGED <<stopping, changed, job, work, conv, driver, supplied, feed, srcFailed,
                       read, used, drain, gone, made, consumed, starts, budget>>
    BY <1>6 DEF Elapse, shared, source, downstream, ghosts, session
  <2>2. lane' \in [Tracks -> LaneType]
    <3>1. lane \in [Tracks -> LaneType]
      BY <1>0 DEF Typed
    <3>2. PICK l \in {[lane[k] EXCEPT !.due = "now"], [lane[k] EXCEPT !.wake = "now"],
                      [lane[k] EXCEPT !.retry = "now"]} : lane' = [lane EXCEPT ![k] = l]
      BY <1>6, <2>1
    <3>3. l \in LaneType
      BY <3>1, <3>2 DEF LaneType, Deadlines
    <3> QED
      BY <3>1, <3>2, <3>3
  <2> QED
    BY <1>0, <2>1, <2>2 DEF Typed
<1> QED
  BY <1>1, <1>2, <1>3, <1>4, <1>5, <1>6 DEF Outside, Downstream

\* But for new supply, they change nothing in flight.
LEMMA OutsideSame ==
  ASSUME IInv, Outside, UNCHANGED plan, NEW u \in Tracks, \A k \in Tracks : ~SourcePush(k)
  PROVE  SameTrack(u)
<1>0. lane \in [Tracks -> LaneType]
  BY DEF IInv, Typed
<1>1. UNCHANGED <<pc, job, work, conv, supplied, read, gone, made, consumed>>
  BY DEF Outside, SourceFail, SourceNotify, Downstream, Pop, WriteNotify, Elapse, shared,
         source, ghosts
<1>2. UNCHANGED <<lane[u].head, lane[u].sourceHead>>
  <2>1. \/ UNCHANGED lane
        \/ \E k \in Tracks, f \in {"due", "wake", "retry", "space"} : \E v :
             lane' = [lane EXCEPT ![k][f] = v]
    <3>1. CASE SourceFail \/ \E k \in Tracks : SourceNotify(k) \/ Pop(k)
      BY <3>1 DEF SourceFail, SourceNotify, Pop
    <3>2. ASSUME NEW k \in Tracks, WriteNotify(k)
          PROVE  UNCHANGED lane \/ lane' = [lane EXCEPT ![k]["space"] = TRUE]
      BY <3>2 DEF WriteNotify
    <3>3. ASSUME NEW k \in Tracks, NEW which \in {"due", "wake", "retry"}, Elapse(k, which)
          PROVE  lane' = [lane EXCEPT ![k][which] = "now"]
      BY <3>3 DEF Elapse
    <3> QED
      BY <3>1, <3>2, <3>3 DEF Outside, Downstream
  <2> QED
    BY <1>0, <2>1 DEF LaneType
<1> QED
  BY <1>1, <1>2 DEF SameTrack

\* The queues on both sides and the clock.
LEMMA OutsideKeeps == ASSUME IInv, Outside, UNCHANGED plan PROVE IInv'
<1>1. UNCHANGED <<pc, job, work, conv, gone, read, made, consumed>>
  BY DEF Outside, SourceFail, SourcePush, SourceNotify, Downstream, Pop, WriteNotify, Elapse,
         shared, source, ghosts
<1>2. CASE \A k \in Tracks : ~SourcePush(k)
  <2>1. \A u \in Tracks : SameTrack(u)
    BY <1>2, OutsideSame
  <2>2. \A u \in Tracks : Track(u)'
    BY <2>1, TrackFrame DEF IInv
  <2>3. Emptied'
    BY <1>1, <2>1 DEF Emptied, IInv, Empty, SameTrack
  <2> QED
    BY <2>2, <2>3, OutsideTyped DEF IInv
<1>3. ASSUME NEW k \in Tracks, SourcePush(k) PROVE IInv'
  <2>1. /\ supplied' = [supplied EXCEPT ![k] = @ + 1] /\ supplied[k] < Supply[k]
        /\ UNCHANGED lane
    BY <1>3 DEF SourcePush
  <2>2. /\ supplied \in [Tracks -> 0 .. MaxInput] /\ Supply[k] \in 0 .. MaxInput
        /\ read[k] \in Nat /\ gone[k] \in SUBSET Inputs
    <3>1. Typed
      BY DEF IInv
    <3>2. Supply[k] \in 0 .. MaxInput
      BY <3>1, SchedulerAssumption DEF Typed, Supply
    <3> QED
      BY <3>1, <3>2, Bounds DEF Typed
  <2>3. TrackTyped(k) /\ Track(k)
    BY TrackTypes DEF IInv
  <2>4. Track(k)'
    <3>1. /\ read'[k] = read[k] + 0 /\ read[k] + 0 <= supplied'[k]
          /\ supplied'[k] >= supplied[k] /\ supplied'[k] <= Supply[k]
      BY <1>1, <2>1, <2>2, <2>3, Bounds DEF Track, Conserved
    <3>2. gone'[k] = gone[k] \cup (read[k] + 1) .. (read[k] + 0)
      BY <1>1, <2>2
    <3>3. UNCHANGED <<pc[k], lane[k].head, lane[k].sourceHead, job[k], work[k], conv[k],
                      made[k], consumed[k], plan>>
      BY <1>1, <2>1
    <3> QED
      BY <2>3, <3>1, <3>2, <3>3, ReadEffect
  <2>5. \A u \in Tracks \ {k} : SameTrack(u)
    BY <1>1, <2>1, <2>2 DEF SameTrack
  <2>6. \A u \in Tracks : Track(u)'
    BY <2>4, <2>5, OtherTracks DEF IInv
  <2>7. Emptied'
    BY <1>1, <2>1 DEF Emptied, IInv, Empty
  <2>8. Outside
    BY <1>3 DEF Outside
  <2> QED
    BY <2>6, <2>7, <2>8, OutsideTyped DEF IInv
<1> QED
  BY <1>2, <1>3

\* The driver works only while a session runs.
LEMMA DriverKeeps == ASSUME IInv, FInv, Driver, UNCHANGED plan PROVE IInv'
<1>0. /\ Typed /\ (\A u \in Tracks : Track(u)) /\ pc \in [Threads -> Locations]
  BY DEF IInv, FInv
<1>1. pc["driver"] # "done" /\ pc'["owner"] = pc["owner"]
  <2>1. CASE Moves("driver", Working, Working \cup {"done", "fail"})
    BY <1>0, <2>1 DEF Moves, Working, Threads, Runners, Tracks
  <2>2. CASE Kick
    BY <1>0, <2>2 DEF Kick, Threads, Runners, Tracks, Typed, DriverType
  <2> QED
    BY <1>0, <2>1, <2>2, DriverMoves
<1>2. Emptied'
  BY <1>1 DEF Emptied, FInv, Between, Runners
<1>3. ASSUME Typed', \A u \in Tracks : Track(u)' PROVE IInv'
  BY <1>2, <1>3 DEF IInv
<1>4. CASE DriverTop \/ Observe \/ DeliverThrow \/ PrepareNothing \/ Kick \/ Awake
  <2>1. \A u \in Tracks :
          pc'[u] = pc[u] \/ (pc'[u] \notin {"process", "publish"} /\ pc[u] # "publish")
    BY <1>0, <1>4 DEF DriverTop, Observe, DeliverThrow, PrepareNothing, Advance, Goto, Kick,
                      Awake, Threads, Runners, Tracks
  <2>2. UNCHANGED <<job, lane, work, conv, supplied, read, gone, made, consumed, used>>
    BY <1>4 DEF DriverTop, Observe, DeliverThrow, PrepareNothing, Kick, Awake, shared, source,
                downstream, ghosts
  <2>3. Leaves
    BY <1>0, <2>1, <2>2 DEF Leaves
  <2> QED
    BY <1>3, <1>4, <2>3, DriverLeaves, LeavesTracks
<1>5. CASE \/ Complete \/ Deliver \/ DrainDisabled
           \/ \E k \in Tracks : \/ PrepareDrain(k) \/ PrepareReady(k)
                                \/ PrepareDiscard(k) \/ PrepareWait(k) \/ PrepareThrow(k)
  <2>1. Moves("driver", Working, Working \cup {"done", "fail"})
    <3>1. ~Kick
      BY <1>5 DEF Kick, Complete, Deliver, DrainDisabled, PrepareDrain, PrepareReady,
                  PrepareDiscard, PrepareWait, PrepareThrow, Awaits, Preparing
    <3> QED
      BY <1>0, <3>1, DriverMoves
  <2>2. \A u \in Tracks : pc'[u] = pc[u]
    BY <1>0, <2>1 DEF Moves, Threads, Runners, Tracks
  <2>3. Drives
    BY <1>0, <2>2 DEF Drives
  <2> QED
    BY <1>3, <1>5, <2>3, CompleteKeeps, DeliverKeeps, DrainDisabledKeeps, PrepareKeeps
<1> QED
  BY <1>4, <1>5 DEF Driver

\* So does a worker.
LEMMA WorkerKeeps ==
  ASSUME IInv, FInv, NEW k \in Tracks, Worker(k), UNCHANGED plan PROVE IInv'
<1>0. Typed /\ (\A u \in Tracks : Track(u)) /\ pc \in [Threads -> Locations]
  BY DEF IInv, FInv
<1>1. pc[k] # "done" /\ pc'["owner"] = pc["owner"]
  BY <1>0, WorkerMoves DEF Moves, Working, Threads, Runners, Tracks
<1>2. Emptied'
  BY <1>1 DEF Emptied, FInv, Between, Runners
<1>3. ASSUME Typed', \A u \in Tracks : Track(u)' PROVE IInv'
  BY <1>2, <1>3 DEF IInv
<1>4. CASE ProcessThrow(k) \/ Notify(k)
  <2>1. \A u \in Tracks :
          pc'[u] = pc[u] \/ (pc'[u] \notin {"process", "publish"} /\ pc[u] # "publish")
    BY <1>0, <1>4 DEF ProcessThrow, Notify, Goto, Threads, Runners
  <2>2. UNCHANGED <<job, lane, work, conv, supplied, read, gone, made, consumed, used>>
    BY <1>4 DEF ProcessThrow, Notify, shared, source, downstream, ghosts
  <2>3. Leaves
    BY <1>0, <2>1, <2>2 DEF Leaves
  <2> QED
    BY <1>3, <1>4, <2>3, WorkerLeaves, LeavesTracks
<1>5. CASE Take(k) \/ Process(k) \/ Publish(k)
  <2>1. Works
    BY <1>0 DEF Works
  <2> QED
    BY <1>3, <1>5, <2>1, TakeKeeps, ProcessKeeps, PublishKeeps
<1> QED
  BY <1>4, <1>5 DEF Worker

\* Every step keeps the invariant of the tracks.
LEMMA StepKeeps == ASSUME IInv, FInv, Step, UNCHANGED plan PROVE IInv'
<1>1. CASE Start \/ Join
  BY <1>1, StartKeeps, JoinKeeps
<1>2. CASE Driver
  BY <1>2, DriverKeeps
<1>3. ASSUME NEW t \in Threads, RequestStop(t) \/ Failing(t) PROVE IInv'
  BY <1>3, LifecycleKeeps
<1>4. ASSUME NEW k \in Tracks, Worker(k) PROVE IInv'
  BY <1>4, WorkerKeeps
<1>5. CASE Outside
  BY <1>5, OutsideKeeps
<1> QED
  BY <1>1, <1>2, <1>3, <1>4, <1>5 DEF Step, Outside

-----------------------------------------------------------------------------
(* The theorems.                                                           *)

\* At first nothing is in flight.
LEMMA InitKeeps == Init => IInv
<1> SUFFICES ASSUME Init PROVE IInv
  OBVIOUS
<1>1. IdleJob \in JobType /\ IdleLane \in LaneType /\ IdleWork \in WorkType
  BY Bounds DEF IdleJob, IdleLane, IdleWork, JobType, LaneType, WorkType, Deadlines
<1>2. budget \in [Events -> Nat] /\ \A k \in Tracks : Supply[k] \in 0 .. MaxInput
  BY SchedulerAssumption DEF Init, Events, Supply
<1>3. driver \in DriverType
  BY DEF Init, DriverType, Tracks
<1>4. /\ job \in [Tracks -> JobType] /\ lane \in [Tracks -> LaneType]
      /\ work \in [Tracks -> WorkType] /\ conv \in [Tracks -> Seq(Inputs)]
  BY <1>1 DEF Init
<1>5. Typed
  <2>1. 0 \in 0 .. MaxInput /\ 0 \in 0 .. OutCapacity /\ 0 \in 0 .. MaxStarts
    BY SchedulerAssumption
  <2>2. /\ supplied \in [Tracks -> 0 .. MaxInput] /\ read \in [Tracks -> 0 .. MaxInput]
        /\ used \in [Tracks -> 0 .. OutCapacity] /\ starts \in 0 .. MaxStarts
        /\ made \in [Tracks -> Nat] /\ consumed \in [Tracks -> Nat]
        /\ gone \in [Tracks -> SUBSET Inputs] /\ feed \in [Tracks -> BOOLEAN]
        /\ drain \in [Tracks -> {"idle", "popped", "raised"}]
    BY <2>1 DEF Init
  <2>3. stopping \in BOOLEAN /\ changed \in BOOLEAN /\ srcFailed \in BOOLEAN /\ plan \in Plans
    BY DEF Init
  <2> QED
    BY <1>2, <1>3, <1>4, <2>2, <2>3 DEF Typed
<1>6. ASSUME NEW k \in Tracks PROVE Empty(k) /\ Track(k)
  <2>1. /\ job[k] = IdleJob /\ work[k] = IdleWork /\ conv[k] = <<>>
        /\ lane[k].head = Null /\ lane[k].sourceHead = Null
        /\ pc[k] = "done" /\ gone[k] = {} /\ read[k] = 0 /\ supplied[k] = 0
        /\ made[k] = 0 /\ consumed[k] = 0
    BY DEF Init, IdleLane, Threads, Runners
  <2>2. Empty(k)
    BY <2>1 DEF Empty
  <2>3. Handshake(k) /\ Ordered(k)
    BY <2>1 DEF Handshake, Ordered, IdleJob, IdleWork
  <2>4. InFlight(k) = {}
    BY <2>1 DEF InFlight, Elements, IdleJob, IdleWork
  <2>5. Conserved(k)
    BY <1>2, <2>1, <2>4 DEF Conserved
  <2>6. Counted(k)
    BY <2>1 DEF Counted, One, IdleJob, IdleWork
  <2> QED
    BY <2>2, <2>3, <2>5, <2>6 DEF Track
<1> QED
  BY <1>5, <1>6 DEF IInv, Emptied

\* The invariants hold at any time.
LEMMA Invariance == Spec => [](IInv /\ FInv)
<1>1. IInv /\ FInv /\ [Next]_<<vars, plan>> => IInv'
  <2>1. IInv /\ UNCHANGED <<vars, plan>> => IInv'
    BY DEF vars, IInv, Typed, Emptied, Empty, Track, Handshake, InFlight, Ordered, Conserved,
           Elements, Counted, One, Supply
  <2> QED
    BY <2>1, StepKeeps DEF Next
<1> QED
  BY <1>1, InitKeeps, FailuresInvariant, PTL DEF Spec

\* Every variable keeps its type in every session.
THEOREM TypesKept == Spec => []TypeOK
<1>1. IInv /\ FInv => TypeOK
  BY TypesAreTypeOK DEF IInv
<1> QED
  BY <1>1, Invariance, PTL

\* Appending what may be Null to a queue that it follows.
LEMMA Follows ==
  ASSUME NEW s \in Seq(Inputs), NEW x \in Items,
         \A i, j \in 1 .. Len(s) : i < j => s[i] < s[j],
         x # Null => \A i \in 1 .. Len(s) : s[i] < x
  PROVE  /\ s \o NonNull(x) \in Seq(Inputs)
         /\ \A i, j \in 1 .. Len(s \o NonNull(x)) :
              i < j => (s \o NonNull(x))[i] < (s \o NonNull(x))[j]
         /\ Elements(s \o NonNull(x)) = Elements(s) \cup ({x} \ {Null})
<1>1. CASE x = Null
  <2>1. s \o NonNull(x) = s
    BY <1>1 DEF NonNull
  <2> QED
    BY <1>1, <2>1
<1>2. CASE x # Null
  <2> DEFINE q == s \o NonNull(x)
  <2>1. x \in Inputs /\ NonNull(x) = <<x>>
    BY <1>2, Bounds DEF NonNull
  <2>2. /\ q \in Seq(Inputs) /\ Len(q) = Len(s) + 1 /\ q[Len(s) + 1] = x
        /\ \A i \in 1 .. Len(s) : q[i] = s[i]
    BY <2>1
  <2> HIDE DEF q
  <2>3. \A i, j \in 1 .. Len(q) : i < j => q[i] < q[j]
    BY <1>2, <2>2
  <2>4. Elements(q) = Elements(s) \cup {x}
    BY <2>2 DEF Elements
  <2> QED
    BY <1>2, <2>2, <2>3, <2>4 DEF q
<1> QED
  BY <1>1, <1>2

\* An order on the elements of a sequence is one on its positions.
LEMMA Precedes ==
  ASSUME NEW s \in Seq(Inputs), NEW y, \A e \in Elements(s) : e < y
  PROVE  \A i \in 1 .. Len(s) : s[i] < y
BY DEF Elements

\* However the source, the driver, the workers and the downstream reader
\* interleave, no input is lost, duplicated or overtaken on its way from the
\* source queue to the converter.
THEOREM InputsInOrder == Spec => []InputsConserved
<1>1. ASSUME IInv, FInv, NEW k \in Tracks
      PROVE  LET q == OnTheWay(k) IN
             /\ \A i, j \in 1 .. Len(q) : i < j => q[i] < q[j]
             /\ Elements(q) \cup gone[k] = 1 .. read[k]
             /\ gone[k] \cap Elements(q) = {}
  <2> DEFINE a == work[k].pending
             b == work[k].input
             c == job[k].task
             d == lane[k].sourceHead
             s0 == conv[k]
             s1 == s0 \o NonNull(a)
             s2 == s1 \o NonNull(b)
             s3 == s2 \o NonNull(c)
             s4 == s3 \o NonNull(d)
  <2>1. Track(k) /\ TrackTyped(k)
    BY <1>1, TrackTypes DEF IInv
  <2>2. a \in Items /\ b \in Items /\ c \in Items /\ d \in Items /\ s0 \in Seq(Inputs)
    BY <2>1 DEF TrackTyped, JobType, LaneType, WorkType
  <2>3. /\ (b # Null => a = Null) /\ (c # Null => a = Null)
        /\ (c # Null => b = Null)
    BY <2>1 DEF Track, Handshake
  <2>4. /\ \A i, j \in 1 .. Len(s0) : i < j => s0[i] < s0[j]
        /\ \A x \in {a, b, c, d} : x # Null => \A e \in Elements(s0) : e < x
        /\ \A x \in {a, b, c} : x # Null /\ d # Null => x < d
    BY <2>1 DEF Track, Ordered, Elements
  <2>5. InFlight(k) = Elements(s0) \cup ({a, b, c, d} \ {Null})
    BY DEF InFlight
  <2>6. OnTheWay(k) = s4
    BY DEF OnTheWay
  <2> HIDE DEF a, b, c, d, s0
  <2>7. /\ s1 \in Seq(Inputs) /\ Elements(s1) = Elements(s0) \cup ({a} \ {Null})
        /\ \A i, j \in 1 .. Len(s1) : i < j => s1[i] < s1[j]
    BY <2>2, <2>4, Precedes, Follows
  <2> HIDE DEF s1
  <2>8. /\ s2 \in Seq(Inputs) /\ Elements(s2) = Elements(s1) \cup ({b} \ {Null})
        /\ \A i, j \in 1 .. Len(s2) : i < j => s2[i] < s2[j]
    <3>1. b # Null => \A e \in Elements(s1) : e < b
      BY <2>3, <2>4, <2>7
    <3> QED
      BY <2>2, <2>7, <3>1, Precedes, Follows
  <2> HIDE DEF s2
  <2>9. /\ s3 \in Seq(Inputs) /\ Elements(s3) = Elements(s2) \cup ({c} \ {Null})
        /\ \A i, j \in 1 .. Len(s3) : i < j => s3[i] < s3[j]
    <3>1. c # Null => \A e \in Elements(s2) : e < c
      BY <2>3, <2>4, <2>7, <2>8
    <3> QED
      BY <2>2, <2>8, <3>1, Precedes, Follows
  <2> HIDE DEF s3
  <2>10. /\ Elements(s4) = Elements(s3) \cup ({d} \ {Null})
         /\ \A i, j \in 1 .. Len(s4) : i < j => s4[i] < s4[j]
    <3>1. d # Null => \A e \in Elements(s3) : e < d
      BY <2>3, <2>4, <2>7, <2>8, <2>9
    <3> QED
      BY <2>2, <2>9, <3>1, Precedes, Follows
  <2>11. Elements(s4) = InFlight(k)
    BY <2>5, <2>7, <2>8, <2>9, <2>10
  <2>12. InFlight(k) \cup gone[k] = 1 .. read[k] /\ InFlight(k) \cap gone[k] = {}
    BY <2>1 DEF Track, Conserved
  <2> QED
    BY <2>6, <2>10, <2>11, <2>12
<1>2. IInv /\ FInv => InputsConserved
  BY <1>1, TypesAreTypeOK DEF IInv, InputsConserved
<1> QED
  BY <1>2, Invariance, PTL

\* A worker's result is handed to the syncer exactly once: it is never
\* overwritten in the Track fields or in the head, and never consumed twice.
THEOREM ResultsHandedOnce == Spec => []ResultsConserved
<1>1. ASSUME IInv, NEW k \in Tracks
      PROVE  made[k] = consumed[k]
                       + Len(NonNull(work[k].output) \o NonNull(job[k].result)
                             \o NonNull(lane[k].head))
  <2> DEFINE o == work[k].output
             r == job[k].result
             h == lane[k].head
  <2>1. Len(NonNull(o) \o NonNull(r) \o NonNull(h)) = One(o) + One(r) + One(h)
    BY DEF NonNull, One
  <2>2. One(o) \in Nat /\ One(r) \in Nat /\ One(h) \in Nat
    BY DEF One
  <2>3. consumed[k] \in Nat /\ made[k] = consumed[k] + One(o) + One(r) + One(h)
    BY <1>1, TrackTypes DEF IInv, Track, TrackTyped, Counted
  <2> HIDE DEF o, r, h
  <2>4. made[k] = consumed[k] + Len(NonNull(o) \o NonNull(r) \o NonNull(h))
    BY <2>1, <2>2, <2>3
  <2> QED
    BY <2>4 DEF o, r, h
<1>2. IInv => ResultsConserved
  BY <1>1 DEF ResultsConserved
<1> QED
  BY <1>2, Invariance, PTL
=============================================================================
