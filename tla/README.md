# Formal models of mw-streamer

TLA+ modules, TLC runs and TLAPS proofs for the concurrent core of mw-streamer,
a C++17 library that demuxes, decodes, filters, synchronises, encodes, remuxes
and records audio and video. Paths below are those of the repository
(`src/streamer/...`, `include/mw/streamer/...`).

## 1. Inventory

| Part | State | Operations | Talks to |
| --- | --- | --- | --- |
| `platform/` BlockingQueue, WaitSignal, WriteSignal | bounded deque, closed flag, two registered signals with a revision each | Push, Pop, TryPop, SetReadSignal, SetWriteSignal, Close; GetRevision, Wait, Notify | every pair of threads below |
| `input/` AvInput | connection state, cancellation flag, I/O deadline, packet queue, demux worker | Open, ReadPacket, TryReadPacket, RequestCancel, Close | FFmpeg demuxer; state callback |
| `input/` AvInputProxy | proxy state, current input, availability, acknowledged end, retry count, control worker | Start, ReadPacket, TryReadPacket, ReadPacketOrStateChange, RequestStop, Stop | owns one AvInput per attempt; state callback |
| `input/` AvMediaSource | queued connection events, decoders of the session, read signal | Start, ReadFrame, RequestStop, Stop | proxy, decoders, scheduler |
| `decoder/` AvDecoder | input and frame queues, codec, worker | Push, ReadFrame, Stop | source |
| `scheduler/` Scheduler | driver, one worker per track, per-track pending input, job, result; error | Start, RequestStop, Stop, driver round, Process | source, filters, syncer, output callbacks |
| `scheduler/` RealtimeTiming | one offset between timestamps and clock, shared by all tracks | Schedule, Reset | scheduler |
| `filter/` AvMediaFilter, AudioResampler, ForceFps | filter graphs, sample FIFO, frame grid | Configure, TryPush, TryRead, Process, Reset, Stop | scheduler |
| `syncer/` Syncer, SyncerTiming | output clocks, backup fill | Step, Real, Fill | scheduler |
| `encoder/` AvEncoder | frame queue, codec, worker, write signal | TryPush, Start, Stop | pipelines |
| `remuxer/` Remuxer, PacketInterleaver, MediaTimestampConverter, RemuxOutput, PacketConverter | per-track buffers, outputs, ZLMediaKit sources | SubmitPacket, Drain, Stop, registration callbacks | ZLMediaKit, recorder |
| `recorder/` Recorder | byte-bounded queue, statistics, writer thread, file | Start, TrySubmitPacket, Drain, Stop | FFmpeg muxer |
| `pipeline/` Live, Offline, Remux | ownership and failure state of the parts above | Start, RequestStop, Stop, Fail | all |
| `ffmpeg/`, `init/`, `log/`, `performance/`, `frame_convter/` | wrappers, setup, diagnostics, pixel code | | |

What makes the system hard: every stage has its own thread; notifications are
sent after locks are released; state is read, a lock is dropped for a blocking
call, and the state is read again afterwards; stop requests race with opening,
reconnecting and failing; failures are reported from several threads; sources
hang, end, fail and come back; queues are full, drained and closed while others
wait on them. `PROJECT.json` lists these hazards at the lines where they bite,
each with the properties that cover it.

What makes each part correct:

* queue: FIFO, nothing lost or duplicated, no waiter and no event loop sleeps
  through readiness or Close;
* input: packets in order, EOF only after the last packet, nothing after a
  cancellation, every call returns although the source hangs;
* proxy: packets carry the description of their own connection, each EOF is seen,
  a stop is never lost, the retry budget is exact;
* decoder: a frame for every packet before its EOF, output kept after a failure,
  nothing delivered after a stop;
* media source: items of two connections kept apart in every decoder, the end
  reported only when the consumers have taken all, failures always reported;
* scheduler: inputs and results conserved and in order, everything delivered by
  signals alone, one error report, Stop returns;
* realtime mapping: a late track never accelerates its peer, deadlines are kept;
* syncer: the output of a track has no overlap and no gap, tracks keep one shift;
* frame rate filter: a grid without gaps that shows the newest picture;
* encoder: a drain encodes all that was accepted, one failure is reported, no
  producer waits for a queue nobody empties;
* remuxer: packets leave in DTS order with one shift for all tracks, a drain
  releases all of them, every output that was added is served from a session's
  start, a failure has a cause;
* recorder: everything accepted is written unless a failure is reported, exact
  byte accounting across sessions, common time origin;
* pipelines: the first failure is the reported one and its root cause, a stop
  in the middle of Start is not forgotten, an ended run is complete, an output
  session holds one connection, every call returns.

## 2. Modules

All modules share one style: a step is one critical section, one notification
after it, or one call into an external library. Condition variables are explicit:
a waiter is a program counter, a notification moves it. A component that uses
another one sees it as the other's module describes it ("External" in the header
comment of each module); a pipeline is such a composition of four parts.

* `BlockingQueue` — producers (blocking, timed, polling), consumers (blocking,
  selecting) and an owner. `queue`, `closed`, `registered`, `revision` are the
  fields of the class; `pc` says where in an operation a thread is, including the
  gap between `unlock` and `notify_one` and the retry notification of an
  operation that threw.
* `Scheduler` — the driver round (`DriverTop`, `Complete`, `Deliver`, `Prepare*`,
  `Awake`), the two workers (`Take`, `Process`, `Publish`, `Notify`) and the
  lifecycle (`Start`, `RequestStop`, `Fail`, `Report`, `Join`). Converters, the
  syncer and the realtime decision return any result their contracts allow. The
  workers throw while they convert (`ProcessThrow`), the driver while it delivers
  (`DeliverThrow`), over a frame without a valid time (`PrepareThrow`) and over a
  source that failed (`Observe`).
* `RealtimeTiming` — `Schedule` split into its outcomes (anchor, late, discard,
  wait, ready, overflow), with 64-bit subtraction that throws, for any number of
  tracks and a clock of any pace.
* `SyncerTiming` — `Step` of a track with its branches: the anchor, jumps of the
  input against the shared shift, fills in bounded batches, suspension of a track
  without input, a refused output, a change of time base. Times are ticks, and
  `Rescale` rounds as `av_rescale_q` does.
* `ForceFps` — `TryPushFrame` and every branch of the loop of `TryReadFrame`.
* `AvInput` — owner (Open, Close), demux worker, one reader, one canceller. The
  FFmpeg calls may hang until `Interrupt` sees a cancellation or a deadline.
* `AvInputProxy` — control worker, reader in its three modes, two stopping
  threads.
* `AvDecoder` — a producer (packets, EOF, Reset), the worker with every outcome
  of the codec, a reader, two stopping threads. The codec keeps up to `Delay`
  packets back and refuses what FFmpeg refuses.
* `AvMediaSource` — the dispatcher `Run` (`Top` to `PublishLast`), the observer of
  the proxy (`Report`, `Release`), decoders with one queue on each side, a
  consumer per track, and Stop. `Plans` pairs the loop option with bounds, so
  that reconnection, looping, failure and restart are explored side by side and
  not in every combination. The selected tracks are distinct: an
  input has at most one video and one audio track (`Initialize`).
* `AvEncoder` — producers that never wait, one worker per track with filter,
  codec, drain and failure, an owner that starts (codecs and threads may fail)
  and stops.
* `Remuxer` — encoder threads that submit through a one-slot queue and schedule
  poller tasks, the tasks `Process` and `Finish`, the lifecycle under `control_`,
  Drain from any thread. `PacketInterleaver` (release when every live track has
  a packet or the span exceeds `Delta`) and `MediaTimestampConverter` (one shift
  chosen from the first packets, in rounded milliseconds) are operators of the
  module, because they are called under the remuxer's lock only. Of `RemuxOutput`, the reservation of
  paths, attachment, failure (`PusherError`: a pusher that cannot start or is given
  up) and closing are modelled.
* `Recorder` — submitters, a draining thread, an owner and the writer with its
  file, bitstream filter and common time origin.
* `PipelineLifecycle` — the abstract specification: what every pipeline promises
  of `state_`, `started_` and `error_`. `LivePipeline` and `OfflinePipeline`
  implement it (`Implements` in each, `LC` is the mapping). `RemuxPipeline` does
  not, see the second finding.
* `LivePipeline` — Start and Stop of encoder, remuxer, source and scheduler in
  their orders (`StartOrder`, `StopOrder`), `Fail` on any of their threads in two
  steps (`FailLock`, `FailCancel`), RequestStop by another thread in two steps,
  the refusal of a packet by the remuxer (`OutputRefused`).
* `OfflinePipeline` — the consumer thread (`FilterStart` to `Finish`) with the
  revision of its signal (`changed`), the source that announces its states, Fail
  in three steps.
* `RemuxPipeline` — the packet worker (`RunStart` to `RunEnd`) with the audio
  probe, pacing, a new output session at each connection and jump, packets of
  tracks that are not selected (`Selected`), the critical section that publishes
  Draining after the EOF (`EofDrain`), the end that waits for the proxy's state, the
  retirement thread (`Reap`), outputs added at any time, which the remuxer may
  refuse (`Add`), Fail in three steps. `mutex_` is explicit in one place, the look
  before a sleep (`MutexFree`).

`BlockingQueueProofs`, `SchedulerProofs`, `TimingProofs`, `AvMediaSourceProofs`,
`AvDecoderProofs`, `RemuxerProofs`, `FilesProofs` and `PipelinesProofs` hold the
proofs; `AvMediaSourceProofs` is also about the input below the source
(`AvInputProxy`, as `MCAvInputProxy` instantiates it, with the variables renamed
that the source has too), and `TimingProofs`, `FilesProofs` and `PipelinesProofs`
are about the compositions `MCTiming`, `MCFiles` and `MCPipelines`. The `MC*`
modules give constants for TLC, and four of them (`MCFiles`, `MCTiming`,
`MCOutput`, `MCPipelines`) put components that need the same kind of environment side by side: `which` chooses
one for a behaviour, the others do not move.

## 3. Runs

| Run | Instance | Properties |
| --- | --- | --- |
| `queue` | a polling timed producer on one slot, two items, one exception, Close at any time; either both signals are set at any time beside one consumer and a selector, or never beside two consumers | `FifoNoLoss`, `NoLostWakeup`, `NoLostSignal`, `CallsServed` |
| `scheduler_flow` | an audio track with a frame and an EOF: with a dropping callback, an extra copy and a deferral; or with a filler; or beside a disabled video track whose input is discarded | `InputsConserved`, `ResultsConserved`, `EverythingDelivered` |
| `scheduler_stop` | one video frame, two sessions, two failures, a stop | `ErrorReportedOnce`, `StopReturns` |
| `scheduler_drops` | an audio track with a dropping callback | violation of `ConversionDrained` |
| `timing` | the realtime mapping with two tracks, jumps both ways, overflow at both ends; the syncer with three scripts of two tracks; a frame rate filter of two items with eight timestamps | `OffsetRaisedOnlyByJump`, `DeadlineKept`, `Continuous`, `InSync`, `Grid` |
| `files` | a recorder of two tracks, two packets each session, two sessions, a failure; an input with two connections that deliver or skip two packets in all, a queue of one, a cancellation | `NothingLost`, `RelativeTimingKept`, `CancelSilences`, `CallsReturn` |
| `proxy` | two attempts: a looping source of one packet without retries, read with `ReadPacket` and `ReadPacketOrStateChange`, or an empty one played once with one retry, read with `TryReadPacket` and `ReadPacketOrStateChange`; two stopping threads | `InfoMatchesInput`, `EofSeenOnce`, `RetryBudget`, `CallsReturn` |
| `decoder` | three items, queues of one, a codec that keeps one packet back | `EofAfterFrames`, `StopSilences`, `CallsServed` |
| `source` | two tracks, queues of one, a packet per connection; a reconnection, a loop, a failure, a stop with a restart, and a stop and a failure of an empty source | `EpochsSeparated`, `EndTruthful`, `Settles` |
| `output` | a remuxer over eight plans: B-frames with a negative first DTS, a stalled and an absent track, a DTS that goes back, a PTS below its DTS that the shift still lifts and one that it does not, two sessions, outputs added at any time, a failure; an encoder of two tracks, blocks of two audio frames, with two failures in one session or one in two | `Interleaved`, `DrainsComplete`, `Served`, `FailsForCause`, `CallsReturn` |
| `pipelines` | live: two sessions, two failures, a stop request each; offline: two tracks of one frame, a failure and a stop request in the first session, one of them once a second began; remux: a source that loops into a new connection, whose first packet is of a track that is not selected, with a stop, a probed source that jumps with a failure, a single packet with both | `RootCause`, `StopReaches`, `EndedComplete`, `SessionsServed`, `Implements`, `OfflineImplements`, `CallsReturn` |
| `remux_failed` | the remuxing pipeline with one failure | violation of `FailedPersists` |

The comment above each property says what it means and which code it is about;
`PROJECT.json` pairs each with the hazards it covers and with a plausible bug of
the code that breaks it.

Bounds. Queues hold one item, so that both full and empty occur and a blocked
party meets every closing order; two sessions, attempts or connections let state
leak from one to the next; one fault suffices where the properties are about
what a single failure leaves behind, and it may strike at every call; where the
point is that the first of several is kept (scheduler, encoder, live pipeline)
there are two. The scripts of the remuxer, the syncer and the remuxing pipeline
are chosen so that each branch that looks at a timestamp is taken in both
directions; the units of time are coarse, because only differences against the
thresholds decide. A millisecond has two units in `MCOutput`, so that a time
between two milliseconds occurs, and `Delta` is three of them. Counters that only bound the environment are named `Max...`,
or are fields of the `Plans` or `Configs` of a module where one bound has to
depend on another (source, proxy, remuxing pipeline), and are guards of
environment actions. A run explores such plans side by side: each one combines
the events that meet in one piece of code, and the proofs cover every
combination where there is one. A configuration of the proxy also says which of
the three reads its user makes (`reads`): every read occurs, and that of a
controller with each of the others. `MCBlockingQueue` and `MCOutput` restrict a
behaviour by its `scene` or by a bound in the same way. A RequestStop that outlasts its session is cut off in the offline and
the remuxing pipeline (guard on `requester` in Start): the code would let it
cancel the input of the next session.

Most models stop when the environment's budget is used up, and idle threads may
sleep for ever, so the runs do not check deadlock; blocked threads are covered by
the liveness properties and by the invariants about lost wakeups instead.

What the instances leave out and the proofs, which are for any constants,
include: blocking producers of the queue; a scheduler with both tracks enabled;
long sequences of attempts of the proxy and sources that loop and retry; a media
source that reconnects, fails and is stopped in one session. In both: a
pipeline's parts are what their modules establish, not the modules themselves.

Findings.

* `scheduler_drops` refutes `ConversionDrained`: `scheduler.h` says a track reads
  input only after pending conversion output is drained, but a converted audio
  frame that the business callback drops looks like an empty converter. What the
  resampler still holds, an EOF included, waits for the next input.
  `EverythingDelivered` lets the converter of such a track, and only of such a
  track, keep inputs.
* `remux_failed` refutes `FailedPersists`: `Fail` of the remuxing pipeline
  publishes Failed and lets go of `mutex_` before `RequestStop` sets `stopping_`;
  in between, the packet worker or the input's callback writes Running, Draining
  or WaitingRetry over it. `remux_pipeline.h` says that Failed persists until the
  next Start. The offline pipeline has the same two steps, but looks at `error_`
  before it publishes.

Two further observations, without a statement of the repository that they would
contradict: a packet that the remuxer of a remuxing pipeline refuses after its
failure fails the pipeline as "rejected" (the live pipeline asks the remuxer for
the cause first); and in the live pipeline a RequestStop that outlasts Stop and
the next Start cancels the new source while the state stays Running.

Fairness. A thread inside a call takes its next step (weak fairness per thread or
per call): the OS schedules runnable threads and mutexes are held briefly. Nobody
has to call an operation, and nothing has to fail. External calls: FFmpeg returns
once its interrupt callback fires, armed deadlines expire (except in the proxy,
where an input that is opened or read answers for certain only once it is
cancelled, so that no Stop depends on a timeout), a downstream reader
keeps reading where the run is about delivery, a source that was opened makes
progress until it ends, the proxy of an input that does not loop publishes its
end after its EOF. Spurious wakeups, the scheduler's 20 ms retry and idle poll
are allowed but never relied on. Deadline and retry timers are fair.

## 4. Proofs

* `BlockingQueueProofs`: `TypeCorrect`; `FifoDelivery`, from an invariant that
  ties what each producer had accepted to what is queued and what was popped;
  `NoLostWakeups`, from an invariant that counts, for each side, waiters against
  pending notifications (a thread in the gap before `notify_one`, a woken thread
  that has not looked yet, or an exception's hand-over); `NoLostSignals`, from an
  invariant that relates the revision an event loop recorded to the
  notifications still owed to it. They hold for every set of threads, capacity
  and bound.
* `TimingProofs`, about `MCTiming`. The realtime mapping: `TypeCorrect`,
  `NoAcceleration`, `MarginAfterReset`, `DeadlinesKept`, for every configuration
  the constructor accepts and any set of tracks. `MarginAfterReset` also shows
  that the `min` taken for a late frame always is the new candidate. The syncer:
  `OutputContinuous` (the action property `Continuous`) and `RealInSync`
  (`InSync`), for every script of the two tracks, any start, waits, fillers,
  batches, refusals and moves of the clock. `SyncInv` says of each track that
  `next` is where its output ended, in whatever ticks the track counts, that a
  filler has somewhere to go, and that a forward filler or a suspension has a
  head to return to. `Outcome` is what one Step does to it; it is proved for a
  filler, a real frame, each branch of Correct and Missing, from a bound on the
  rounding (`RescaleNear`). The frame rate filter: `GridKept` (`Grid`), from an
  invariant that ties the next slot to the last output and the remembered picture
  to the newest one.
* `PipelinesProofs`, about `MCPipelines`, for any tracks, number of frames, of
  sessions, of stop requests and of failures, and any script of the remuxing
  pipeline's input: `TypeCorrect` and `RootCauseKept` for the live pipeline;
  `LifecycleImplemented` and `OfflineLifecycleImplemented` (the formulas
  `Implements` and `OfflineImplements`), the refinements of `PipelineLifecycle`,
  in which each step maps to the action of the same meaning or to a stutter;
  `StopAlwaysReaches` (`StopReaches`), `EndsComplete` (`EndedComplete`) and
  `EverySessionServed` (`SessionsServed`) for all three. None of these is
  inductive by itself.
  - Live (`IInv`). `Ordered` says which components are on at each position of
    Start and Stop; it gives that the encoder never meets a closed remuxer that
    has not failed, which is why the generic error is never reported. `Failing`
    says that only a component that has broken is inside Fail, so that a joined
    component cannot set the error after Stop. `Reporting` says that whoever has
    set `error_` is the only one still to report. `Reached` says that a session
    that was stopped or failed has its source and scheduler cancelled, or somebody
    is still on the way to cancel them: a requester, a thread in Fail, or the
    caller, whose Start cannot return without looking. `Published` ties the state
    to the call in progress.
  - Offline (`OffInv`, `OffCounted`, `OffReporting`). `OffAnnouncing` says when
    the source's thread may still call back: only while the worker is between the
    Start and the Stop of the source, and never after it has failed. The published
    state needs it, because an announcement writes `state_`, and so does
    `OffReached`, because a second failure would hide the first one's pending
    cancellation. `OffCounted` counts, for each track, the frames that the source,
    the filter and the list of calls of the filter have between them, and when the
    filter was reset and stopped.
  - Remux (`RemInv`). `RemReading` and `RemDelivering` split the script at the
    packet the worker holds: what comes before was delivered in order and once,
    or waits behind the audio probe. `RemSessions` says where two deliveries
    belong to different sessions, and what the worker still remembers of the last
    one decides about the next; it follows the worker through the three steps of
    a new session, in which outputs may be added and the pipeline may fail.
    `RemOutputs` keeps `registration_` and what each session was opened with
    together. `RemReaping` and `RemFiling` say that every session that was closed
    is retired in order and ends in `history_`, or the retirement thread still has
    it. `RemReached` is the counterpart of `Reached`.
* `FilesProofs`, about `MCFiles`: `PacketsConserved` (the formula `NothingLost`),
  `TimingKept` (`RelativeTimingKept`) and `CancelSilent` (the action property
  `CancelSilences`), for any tracks, time bases, packet sizes, capacities,
  connections, sessions, cancellations and failures. Of the recorder, `RecThreads`
  says which states of the object a worker, a submitter and the two closing calls
  can meet; `RecConserved` and `RecCounted` put every accepted packet into the
  queue, the writer's hand or the file, by track in order and by number;
  `RecOrigin` says that all packets of a file were shifted by one origin, from
  which the timing follows by the bounds of the rounding. Of the input,
  `InputThreads` and `InputSession` say what a reader that has let go of the lock
  knows of the worker and of the session it took its packet from, which is what a
  Cancel in between has to be noticed by; `InputNumbered` numbers the packets on
  their way from the last one that was delivered.
* `SchedulerProofs`: `ErrorsReportedOnce`, `TypesKept`, `InputsInOrder` (the
  formula `InputsConserved`) and `ResultsHandedOnce` (`ResultsConserved`), for
  any plans, capacities, numbers of inputs, failures, sessions and stops.
  `Reported` says that a failure that was kept has exactly one thread that still
  has to report it, or was reported. For the data, each track has its own
  invariant. `Handshake` ties the worker's location to the fields of the job
  (`busy`, `requested`, `completed`), so that driver and worker never hold the
  same job; `Ordered` says that the inputs on the way, from the item peeked at the
  source over the job and the worker to the converter, ascend; `Conserved`, that
  what was read is on the way or done with, and never both; `Counted`, that what
  was made is consumed or is one of three results in flight. `Between` is needed
  where Start begins with nothing in flight: the owner is between two sessions
  only when no thread of the last one runs.
* `AvMediaSourceProofs`: `ConnectionsKeptApart` (the formula `EpochsSeparated`)
  and `EndIsTrue` (`EndTruthful`), for any selection of tracks, capacity, and
  number of connections, packets, failures, stops and restarts. Between two
  dispatches, `Settled` says that what a running decoder was given last is of
  the connection dispatched last, and that one which had its EOF awaits another
  connection; during a dispatch, `Submitting` says what is still owed to each
  decoder, a Reset first where it needs one. Both hold only while no stop or
  failure has made a decoder refuse its items, which is why `Alive` is needed: a
  decoder that refuses has a cause that the dispatcher meets before it goes on.
  `Final` says that the EOF of a source that does not loop is the last item of
  its track, wherever it is on its way to the consumer, so that the consumers
  have everything once each has read its EOF; `Told` ties the last status to the
  stored failure.
  The second part is about the input below the source, `AvInputProxy` as the
  instance `Link` of `MCAvInputProxy`: `DescriptionsMatch` (the formula
  `InfoMatchesInput`), `EofsSeenOnce` (`EofSeenOnce`), `RetriesExact`
  (`RetryBudget`) and `StopsCancel` (`StopCancels`, on which the return
  of Stop in `CallsReturn` rests), for any configuration and any
  number of attempts, packets and sessions. `Attached` says which attempt
  `input_`, the published description and the availability speak of at each
  point of Run; `Ends`, which ends of an input can coexist with a running worker;
  `Reading`, what a reader between its look and its acknowledgement has in hand,
  which may be an input that Run has replaced meanwhile. `Acknowledged` and
  `Withdrawn` say that an input counts as ended only by the reader's
  acknowledgement, and that in a loop the acknowledgement withdraws it. `Counted`
  relates Run's count to the attempts made since the last success, and `GivenUp`
  carries it to the published failure. `Occupied` says at which points of Run an
  input is not closed, where it is the one that a stop takes along.
* `RemuxerProofs`: `InterleavedInvariant` (the formula `Interleaved`),
  `ServedInvariant` (`Served`) and `FailsForCauseInvariant` (`FailsForCause`), for
  any tracks and packets, any outputs and recordings, any number of sessions and
  of failures of ZLMediaKit, from one invariant in four parts.
  - `Sessions` says which tasks can wait for the poller at each point of Start,
    Stop and the Add calls (`Errands`): a task of the holder of `control_` at most
    once and only while it waits, the two last tasks of a session once and
    nothing of the session after them, so that what a task finds is never of
    another session. `Gate` ties the admission of packets to the state, and
    `Phases` says what the running task knows of the session.
  - `PacketInv` follows a track's packets from the submitter over the slot and the
    interleaver to the outputs (`Admitted`, `Marked`, `Queued`). `Released` is what
    makes `Interleaved` inductive: nothing older than a released packet is queued
    or can still come (`Settled`), unless the packet was released because of
    `Delta` (`Excused`). `Shifted` says that the shift fixed by the first release
    lifts the DTS of every packet that is queued or can still come; before the
    first release each track that has started has a packet in the interleaver that
    is no later than its last one, so the packets the shift is taken from cover it.
    `Covered` says that these are the tracks' first packets (`Opens`), so that the
    shift lifts both their times; a later packet has only its DTS covered, for its
    PTS nothing orders.
  - `OutputInv`: an attached output has been given what was released since it was
    attached (`Supplied`). A recording that is attached by its caller while the
    poller has a batch in hand starts after that batch; the poller gives the batch
    to the recordings it saw when it took it (`feeds`).
  - `Blamed`: a task throws without a fault of ZLMediaKit only for a `Cause`: a DTS
    that goes back, a track that is missing at the start, or a packet presented
    before zero and before both times of every track's first packet, which is what
    `PacketInv` leaves of a packet that the shift does not lift. By then every
    track has started or can no longer start (`Begun`), so no packet that comes
    later can take that cause away.
* `AvDecoderProofs`: `FramesBeforeEof` (the formula `EofAfterFrames`) and
  `StoppedReadsNothing` (`StopSilences`), for any capacities, codec delay and
  number of items. The invariant puts every accepted item, or what the codec made
  of it, into one of six places: put out, in Run's hand on the way out, inside the
  codec, an EOF the codec was sent, in Run's hand on the way in, queued.
  `Ordered` keeps them in the order of submission; `Covered` says that a packet
  that is on none of them was cut off by a Reset, which every EOF still on the
  line comes after, so that an EOF that is put out has all its packets before it.
  `Covered` ends with a failure or a stop; `Emitted` keeps what was put out
  complete through a failure, whose output stays readable.

The assumptions are the constructor checks of the code (`CapacityAssumption`,
the thresholds of the realtime configuration, the capacities in
`SchedulerAssumption`), the types of the bounds and of the plans, that the thread
sets are disjoint, that the selected tracks differ (`SourceAssumption`), that `None` is no error
(`NoneAssumption`, `PipelinesAssumption`), that no track is named like a call of
the filter (`TracksAssumption`) and, about the scripts of an input, that an input
that does not loop returns its EOF last (`PlansAssumption`). Of the packets that
the remuxer gets nothing is assumed but that their times are integers
(`RemuxerAssumption`): a remuxing pipeline feeds it what a demuxer read, and
neither of the two compares PTS and DTS. `SyncerAssumption`
says more than the code enforces: that the frames of a video track keep one time
base, in which the duration of a frame is a whole number of ticks, and that no
tick is longer than twice the tolerance. With ticks that do not fit, the
conversion of `next` in ChangeTimeBase rounds by up to half a tick, and the
first frame in the new ticks may be off by as much; with longer ticks no rounded
shift is within the tolerance.

The proofs have one lemma per action, with a step for each part of the invariant
the action can disturb. What they need of sequences is stated once, for one
track, one decoder or any sequence (`SchedulerProofs`, `AvMediaSourceProofs`,
`AvDecoderProofs`, `FilesProofs`). Where a property is about data of any length,
an induction is one over a subset of the naturals (`NatSetInduction`), from the
theorem that these have a least element. Each invariant was model-checked on
the component's instance before it was proved or in the form it is proved in.

Only model-checked: all liveness properties (fairness and ENABLED are outside the
prover's reach), and `DrainsComplete` (the completeness of a drain of Remuxer and
of AvEncoder). The remuxer's half would add to `Released` that each track's
packets are out, in the interleaver, in the slot or in the submitter's hand in
the order they were accepted; the encoder's half needs its own invariant, for the
blocks that the filter and the codec keep back.

## 5. Plan

What would come next, in order of importance:

1. Proofs of `DrainsComplete`: the remuxer's half from `PacketInv`, and AvEncoder.
2. AvMediaFilter and AudioResampler with a state of their own, and the packet
   adaptation of RemuxOutput.
3. An abstract bounded FIFO that BlockingQueue implements.

## 6. Not modelled

* Thread appears in every module as a program counter and a failing start; the
  runtime files only name threads.
* Input description, AvProbe and the FFmpeg wrappers translate or own FFmpeg
  structures and have no state that several calls share.
* Process initialisation, logging and performance counters do not influence the
  media path; wording of messages and statistics that nothing reads are left out.
* Frame converters are pixel arithmetic on the CPU and on CUDA.
* AvMediaFilter and AudioResampler appear in `Scheduler` by their results only;
  RemuxOutput's listeners and pushers, and the adaptation of packets to frames of
  ZLMediaKit, are external to `Remuxer`.
* Inside modelled parts: the retries of `avcodec_send_frame` after EAGAIN; which
  picture fills a gap of the syncer, its validation and its 64-bit range; the
  speed of a remuxing pipeline, which only changes how long a pacing wait lasts,
  and that is arbitrary in the model; what the audio probe computes.
* The syncer's time bases are whole numbers of microseconds, so `ToUs` is exact;
  the code rounds by at most half a microsecond, which the tolerances of `InSync`
  and `Continuous` are far above. `FromUs` and the change of time base do round.
* A failing allocation is no step of any model. Two catch clauses are therefore
  never taken: that of `Finish` around `RemuxOutput::Close`, which drops references
  and erases an entry under a lock (`FinishTask`), and that of the retirement thread,
  whose calls are `Remuxer::Stop`, which does not throw, and copies of statuses
  (`Reap`).
