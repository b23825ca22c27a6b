---------------------------- MODULE AvInputProxy ----------------------------
(***************************************************************************)
(* The reconnecting input (av_input_proxy.cc).  A control worker makes one *)
(* AvInput per attempt, opens it, makes it available to the reader, waits  *)
(* for its end and retires it; the reader blocks on the current input      *)
(* itself and acknowledges its EOF; any thread may request a stop.         *)
(*                                                                         *)
(* The input of an attempt appears as module AvInput says it behaves: it   *)
(* delivers its packets before its end is seen, delivers none once it is   *)
(* cancelled, forgets an earlier cancellation when it is opened, reports   *)
(* its states from its own thread, and its Close joins that thread.        *)
(*                                                                         *)
(* A step is one critical section under mutex_ with the notify_all that    *)
(* follows it, or one call into the input.                                 *)
(***************************************************************************)
EXTENDS Integers

CONSTANTS
  Configs,      \* configurations: loop, and max_retries, -1 for unlimited;
                \* with bounds: packets of an input, and the reads its
                \* user makes
  MaxAttempts,  \* bound: inputs made
  MaxSessions   \* bound: calls of Start

\* The range of the constants.
ProxyParameters ==
  /\ Configs \subseteq [loop : BOOLEAN, maxRetries : Nat \cup {-1},
                      packets : Nat, reads : SUBSET {"wait", "try", "change"}]
  /\ MaxAttempts \in Nat /\ MaxSessions \in Nat

VARIABLES
  config,       \* config_
  stopping,     \* stopping_
  available,    \* available_
  news,         \* read_state_changed_
  status,       \* status_.state
  info,         \* status_.info: the attempt it describes, 0 if none
  terminal,     \* terminal_: how the current input ended
  input,        \* input_: an attempt, 0 if none
  retries,      \* Run's count of retries
  control,      \* where Run is
  publishing,   \* the state Publish is given
  after,        \* where Run goes on after Publish
  outcome,      \* Run's copy of how the attempt ended
  attempt,      \* the last input made
  conn,         \* the state of that input
  cancelled,    \* its cancellation flag
  inputWorker,  \* its thread: none, demuxing, calling InputChanged, ended
  buffer,       \* its queued packets
  produced,     \* packets it demuxed
  reader,       \* where ReadPacket is
  mode,         \* ReadPacket, TryReadPacket or ReadPacketOrStateChange
  readInput,    \* the input it reads, and the description it will return
  readInfo,
  stopper,      \* where the owner in Stop and another in RequestStop are
  stopInput,    \* the input they are to cancel
  eofs,         \* history: EOFs returned for an attempt
  reopened,     \* history: retries since the last success, -1 before a first try
  sessions

proxyVars == <<stopping, available, news, status, info, terminal, input>>
runVars == <<retries, publishing, after, outcome, reopened>>
inputVars == <<attempt, conn, cancelled, inputWorker, buffer, produced>>
readVars == <<mode, readInput, readInfo, eofs>>
stopVars == <<stopper, stopInput>>
vars == <<proxyVars, runVars, inputVars, readVars, stopVars, control, reader,
          sessions, config>>

Loop == config.loop
MaxRetries == config.maxRetries
Attempts == 1..MaxAttempts
Stoppers == {"owner", "other"}
States == {"stopped", "connecting", "connected", "waiting", "ended", "failed"}
Terminal(state) == state \in {"stopped", "ended", "failed"}

TypeOK ==
  /\ config \in Configs
  /\ stopping \in BOOLEAN /\ available \in BOOLEAN /\ news \in BOOLEAN
  /\ status \in States /\ publishing \in States
  /\ info \in {0} \cup Attempts /\ input \in {0} \cup Attempts
  /\ terminal \in {"none", "ended", "failed", "cancelled"}
  /\ outcome \in {"none", "ended", "failed", "cancelled", "threw"}
  /\ retries \in Nat
  /\ control \in {"none", "look", "create", "publish", "news", "prepare",
                  "open", "opening", "io", "unopened", "opened", "connect",
                  "offer", "wait", "waiting", "retire", "cancel", "join",
                  "unset", "decide", "retry", "retrying", "threw", "exit",
                  "exited"}
  /\ after \in {"prepare", "offer", "retry", "exit"}
  /\ attempt \in {0} \cup Attempts
  /\ conn \in {"closed", "opening", "opened", "ended", "failed", "cancelled"}
  /\ cancelled \in BOOLEAN
  /\ inputWorker \in {"none", "run", "report", "exited"}
  /\ buffer \in 0..config.packets /\ produced \in 0..config.packets
  /\ reader \in {"idle", "ready", "unready", "input", "eof", "changed",
                 "unchanged"}
  /\ mode \in {"wait", "try", "change"}
  /\ readInput \in {0} \cup Attempts /\ readInfo \in {0} \cup Attempts
  /\ stopper \in [Stoppers -> {"idle", "cancel", "join"}]
  /\ stopInput \in [Stoppers -> {0} \cup Attempts]
  /\ eofs \in [Attempts -> Nat] /\ reopened \in Nat \cup {-1} /\ sessions \in Nat

Init ==
  /\ config \in Configs
  /\ stopping = FALSE /\ available = FALSE /\ news = FALSE
  /\ status = "stopped" /\ info = 0 /\ terminal = "none" /\ input = 0
  /\ retries = 0 /\ control = "none" /\ outcome = "none" /\ reopened = -1
  /\ publishing = "stopped" /\ after = "exit"
  /\ attempt = 0 /\ conn = "closed" /\ cancelled = FALSE
  /\ inputWorker = "none" /\ buffer = 0 /\ produced = 0
  /\ reader = "idle" /\ mode = "wait" /\ readInput = 0 /\ readInfo = 0
  /\ stopper = [p \in Stoppers |-> "idle"]
  /\ stopInput = [p \in Stoppers |-> 0]
  /\ eofs = [a \in Attempts |-> 0] /\ sessions = 0

-----------------------------------------------------------------------------
(* changed_.notify_all: sleepers evaluate their predicates again.          *)

\* Waking the control worker only.
AwakeWorker(pc) == CASE pc = "waiting" -> "wait"
                     [] pc = "retrying" -> "retry"
                     [] OTHER -> pc

Awake(pc) == CASE pc = "unready" -> "ready"
               [] pc = "unchanged" -> "changed"
               [] pc = "waiting" -> "wait"
               [] pc = "retrying" -> "retry"
               [] OTHER -> pc

WakeReader == reader' = Awake(reader)
WakeControl == control' = Awake(control)

-----------------------------------------------------------------------------
(* Start, RequestStop and Stop.                                            *)

\* Reads of the previous session are over.
Start ==
  /\ control = "none" /\ stopper["owner"] = "idle" /\ reader = "idle"
  /\ sessions < MaxSessions /\ sessions' = sessions + 1
  /\ available' = FALSE /\ news' = FALSE /\ info' = 0 /\ terminal' = "none"
  /\ \/ stopping' = FALSE /\ status' = "connecting" /\ control' = "look"
     \/ stopping' = TRUE /\ status' = "stopped" /\ UNCHANGED control
  /\ retries' = 0 /\ reopened' = -1
  /\ UNCHANGED <<input, publishing, after, outcome, inputVars, readVars,
                 stopVars, reader>>

RequestStop(p) ==
  /\ stopper[p] = "idle" /\ sessions > 0
  /\ p = "owner" => control # "none"
  /\ stopping' = TRUE
  /\ stopper' = [stopper EXCEPT ![p] = "cancel"]
  /\ stopInput' = [stopInput EXCEPT ![p] = input]
  /\ WakeReader /\ WakeControl
  /\ UNCHANGED <<available, news, status, info, terminal, input, runVars,
                 inputVars, readVars, sessions>>

CancelInput(p) ==
  /\ stopper[p] = "cancel"
  /\ cancelled' = (cancelled \/ stopInput[p] \in {attempt} \ {0})
  /\ stopper' = [stopper EXCEPT ![p] = IF p = "owner" THEN "join" ELSE "idle"]
  /\ UNCHANGED <<proxyVars, runVars, attempt, conn, inputWorker, buffer,
                 produced, readVars, stopInput, control, reader, sessions>>

Join ==
  /\ stopper["owner"] = "join" /\ control = "exited"
  /\ stopper' = [stopper EXCEPT !["owner"] = "idle"]
  /\ control' = "none"
  /\ UNCHANGED <<proxyVars, runVars, inputVars, readVars, stopInput, reader,
                 sessions>>

-----------------------------------------------------------------------------
(* Run: one attempt after another.                                         *)

Go(pc) == control' = pc

\* Steps of Run that touch neither the proxy's shared state nor the input.
RunOnly == UNCHANGED <<proxyVars, inputVars, readVars, stopVars, reader,
                       sessions>>

\* Publish stores the state, tells the observer, then wakes a reader that waits
\* for state changes: the observer's event is queued before the reader looks.
WillPublish(state, then) ==
  Go("publish") /\ publishing' = state /\ after' = then

Publish ==
  /\ control = "publish" /\ Go("news")
  /\ status' = publishing
  /\ WakeReader
  /\ UNCHANGED <<stopping, available, news, info, terminal, input, runVars,
                 inputVars, readVars, stopVars, sessions>>

PublishNews ==
  /\ control = "news" /\ Go(after)
  /\ news' = TRUE
  /\ WakeReader
  /\ UNCHANGED <<stopping, available, status, info, terminal, input, runVars,
                 inputVars, readVars, stopVars, sessions>>

\* The loop's test, and an exception on the way to a new input.
Look ==
  /\ control = "look"
  /\ \/ stopping /\ WillPublish("stopped", "exit") /\ UNCHANGED outcome
     \/ /\ ~stopping /\ attempt < MaxAttempts
        /\ Go("create") /\ UNCHANGED <<publishing, after, outcome>>
     \/ /\ ~stopping /\ attempt < MaxAttempts
        /\ Go("threw") /\ outcome' = "threw" /\ UNCHANGED <<publishing, after>>
  /\ UNCHANGED <<retries, reopened>> /\ RunOnly

Create ==
  /\ control = "create"
  /\ attempt' = attempt + 1 /\ input' = attempt + 1
  /\ info' = 0 /\ terminal' = "none"
  /\ conn' = "closed" /\ cancelled' = FALSE /\ buffer' = 0 /\ produced' = 0
  /\ WillPublish("connecting", "prepare")
  /\ outcome' = "none"
  /\ UNCHANGED <<stopping, available, news, status, retries, reopened,
                 inputWorker, readVars, stopVars, reader, sessions>>

Prepare ==
  /\ control = "prepare"
  /\ Go(IF stopping THEN "retire" ELSE "open")
  /\ UNCHANGED runVars /\ RunOnly

\* AvInput::Open resets its cancellation flag first.
Open ==
  /\ control = "open" /\ Go("opening")
  /\ cancelled' = FALSE /\ conn' = "opening"
  /\ reopened' = reopened + 1
  /\ UNCHANGED <<proxyVars, retries, publishing, after, outcome, attempt,
                 inputWorker, buffer, produced, readVars, stopVars, reader,
                 sessions>>

\* Leaving the stop to whoever requested it.
OpeningContinues == cancelled
\* InputChanged for Opening: a stop requested before the reset is applied again.
OpeningCancelled == cancelled \/ stopping

Opening ==
  /\ control = "opening" /\ Go("io")
  /\ cancelled' = OpeningCancelled
  /\ WakeReader
  /\ UNCHANGED <<proxyVars, runVars, attempt, conn, inputWorker, buffer,
                 produced, readVars, stopVars, sessions>>

OpenIo ==
  /\ control = "io"
  /\ \/ /\ ~cancelled /\ conn' = "opened" /\ inputWorker' = "run" /\ Go("opened")
     \/ /\ conn' = IF cancelled THEN "cancelled" ELSE "failed"
        /\ Go("unopened") /\ UNCHANGED inputWorker
  /\ UNCHANGED <<proxyVars, runVars, attempt, cancelled, buffer, produced,
                 readVars, stopVars, reader, sessions>>

\* The source's own end taken for the reader's acknowledgement.
EndsWithAny(state) ==
  IF terminal = "none" /\ state \in {"ended", "failed", "cancelled"} THEN state
  ELSE terminal

\* InputChanged keeps the first failure or cancellation; an end is left to the
\* reader to acknowledge.
EndsWith(state) ==
  IF terminal = "none" /\ state \in {"failed", "cancelled"} THEN state
  ELSE terminal

InputChanged(state) == terminal' = EndsWith(state)

\* Open throws after it has reported.
Unopened ==
  /\ control = "unopened" /\ Go("retire")
  /\ InputChanged(conn)
  /\ outcome' = "failed"
  /\ WakeReader
  /\ UNCHANGED <<stopping, available, news, status, info, input, retries,
                 publishing, after, reopened, inputVars, readVars, stopVars,
                 sessions>>

\* Copying the description may throw, which counts as a failed attempt.
Opened ==
  /\ control = "opened"
  /\ \/ /\ Go("connect") /\ retries' = 0 /\ reopened' = 0 /\ info' = attempt
        /\ UNCHANGED outcome
     \/ /\ Go("retire") /\ outcome' = "failed"
        /\ UNCHANGED <<retries, reopened, info>>
  /\ UNCHANGED <<stopping, available, news, status, terminal, input, publishing,
                 after, inputVars, readVars, stopVars, reader, sessions>>

Connect ==
  /\ control = "connect"
  /\ IF stopping THEN Go("offer") /\ UNCHANGED <<publishing, after>>
                 ELSE WillPublish("connected", "offer")
  /\ UNCHANGED <<retries, outcome, reopened>> /\ RunOnly

\* The input is offered only after Connected was published.
Offer ==
  /\ control = "offer" /\ Go("wait")
  /\ available' = ~stopping
  /\ WakeReader
  /\ UNCHANGED <<stopping, news, status, info, terminal, input, runVars,
                 inputVars, readVars, stopVars, sessions>>

AwaitEnd ==
  /\ control = "wait"
  /\ IF stopping \/ terminal # "none"
     THEN Go("retire") /\ outcome' = IF stopping THEN outcome ELSE terminal
     ELSE Go("waiting") /\ UNCHANGED outcome
  /\ UNCHANGED <<retries, publishing, after, reopened>> /\ RunOnly

-----------------------------------------------------------------------------
(* Retire, and what the end of an attempt leads to.                        *)

\* Closing an input that stays on offer.
RetireOffered ==
  /\ control = "retire" /\ Go("cancel")
  /\ UNCHANGED <<proxyVars, runVars, inputVars, readVars, stopVars, reader,
                 sessions>>

Retire ==
  /\ control = "retire" /\ Go("cancel")
  /\ available' = FALSE
  /\ UNCHANGED <<stopping, news, status, info, terminal, input, runVars,
                 inputVars, readVars, stopVars, reader, sessions>>

CloseCancels ==
  /\ control = "cancel" /\ Go("join")
  /\ cancelled' = TRUE
  /\ UNCHANGED <<proxyVars, runVars, attempt, conn, inputWorker, buffer,
                 produced, readVars, stopVars, reader, sessions>>

CloseJoins ==
  /\ control = "join" /\ Go("unset")
  /\ inputWorker \in {"none", "exited"}
  /\ inputWorker' = "none" /\ conn' = "closed" /\ buffer' = 0
  /\ UNCHANGED <<proxyVars, runVars, attempt, cancelled, produced, readVars,
                 stopVars, reader, sessions>>

Unset ==
  /\ control = "unset" /\ Go("decide")
  /\ input' = 0
  /\ WakeReader
  /\ UNCHANGED <<stopping, available, news, status, info, terminal, runVars,
                 inputVars, readVars, stopVars, sessions>>

\* One retry too many.
ExhaustedLate == MaxRetries >= 0 /\ retries > MaxRetries
Exhausted == MaxRetries >= 0 /\ retries >= MaxRetries

Decide ==
  /\ control = "decide"
  /\ \/ /\ stopping \/ outcome \notin {"ended", "failed"}
        /\ WillPublish("stopped", "exit") /\ UNCHANGED <<retries, reopened>>
     \/ /\ ~stopping /\ outcome = "ended" /\ ~Loop
        /\ WillPublish("ended", "exit") /\ UNCHANGED <<retries, reopened>>
     \/ /\ ~stopping /\ outcome = "ended" /\ Loop
        /\ Go("look") /\ reopened' = -1
        /\ UNCHANGED <<retries, publishing, after>>
     \/ /\ ~stopping /\ outcome = "failed" /\ Exhausted
        /\ WillPublish("failed", "exit") /\ UNCHANGED <<retries, reopened>>
     \/ /\ ~stopping /\ outcome = "failed" /\ ~Exhausted
        /\ retries' = retries + 1 /\ WillPublish("waiting", "retry")
        /\ UNCHANGED reopened
  /\ UNCHANGED outcome /\ RunOnly

AwaitRetry ==
  /\ control = "retry"
  /\ IF stopping THEN WillPublish("stopped", "exit")
                 ELSE Go("retrying") /\ UNCHANGED <<publishing, after>>
  /\ UNCHANGED <<retries, outcome, reopened>> /\ RunOnly

\* The delay of RetryDelay has passed.
RetryDue ==
  /\ control = "retrying" /\ Go("look")
  /\ UNCHANGED runVars /\ RunOnly

\* The outer handler; no input is set where an exception leaves the loop.
Threw ==
  /\ control = "threw"
  /\ WillPublish(IF stopping THEN "stopped" ELSE "failed", "exit")
  /\ UNCHANGED <<retries, outcome, reopened>> /\ RunOnly

Exit ==
  /\ control = "exit" /\ Go("exited")
  /\ UNCHANGED runVars /\ RunOnly

-----------------------------------------------------------------------------
(* The thread of the current input.                                        *)

InputOnly == UNCHANGED <<proxyVars, runVars, attempt, cancelled, readVars,
                         stopVars, control, reader, sessions>>

Demux ==
  /\ inputWorker = "run" /\ ~cancelled
  /\ produced < config.packets
  /\ produced' = produced + 1 /\ buffer' = buffer + 1
  /\ UNCHANGED <<conn, inputWorker>> /\ InputOnly

InputEnds ==
  /\ inputWorker = "run" /\ inputWorker' = "report"
  /\ \/ cancelled /\ conn' = "cancelled"
     \/ ~cancelled /\ conn' = "failed"
     \/ ~cancelled /\ buffer = 0 /\ conn' = "ended"
  /\ UNCHANGED <<buffer, produced>> /\ InputOnly

InputReports ==
  /\ inputWorker = "report" /\ inputWorker' = "exited"
  /\ InputChanged(conn)
  /\ WakeReader /\ WakeControl
  /\ UNCHANGED <<stopping, available, news, status, info, input, runVars,
                 attempt, conn, cancelled, buffer, produced, readVars, stopVars,
                 sessions>>

-----------------------------------------------------------------------------
(* ReadPacket in its three modes.                                          *)

ReadOnly == UNCHANGED <<stopping, status, info, input, runVars, stopVars,
                        sessions>>

Read(m) ==
  /\ reader = "idle" /\ reader' = "ready" /\ sessions > 0
  /\ mode' = m
  /\ UNCHANGED <<available, news, terminal, inputVars, readInput, readInfo,
                 eofs, control>>
  /\ ReadOnly

AcknowledgedEnd == ~Loop /\ terminal = "ended"
HasNews == mode = "change" /\ news

Ready == stopping \/ available \/ Terminal(status) \/ HasNews \/ AcknowledgedEnd

\* Returns kNull, kEof or goes on to read the current input.
Enter ==
  /\ reader = "ready"
  /\ \/ /\ mode # "try" /\ ~Ready
        /\ reader' = "unready" /\ UNCHANGED <<news, readInput, readInfo>>
     \/ /\ HasNews
        /\ news' = FALSE /\ reader' = "idle" /\ UNCHANGED <<readInput, readInfo>>
     \/ /\ mode = "try" \/ Ready
        /\ ~HasNews
        /\ ~available \/ stopping \/ Terminal(status) \/ AcknowledgedEnd
        /\ reader' = "idle" /\ UNCHANGED <<news, readInput, readInfo>>
     \/ /\ ~HasNews /\ available /\ ~stopping /\ ~Terminal(status)
        /\ ~AcknowledgedEnd
        /\ readInput' = input /\ readInfo' = info
        /\ reader' = "input" /\ UNCHANGED news
  /\ UNCHANGED <<available, terminal, inputVars, mode, eofs, control>>
  /\ ReadOnly

Live == readInput = attempt /\ ~cancelled /\ conn # "closed"

\* What AvInput::ReadPacket or TryReadPacket returns.
ReadInput ==
  /\ reader = "input"
  /\ \/ /\ Live /\ buffer > 0
        /\ buffer' = buffer - 1 /\ reader' = "idle"
     \/ /\ Live /\ buffer = 0 /\ conn = "ended"
        /\ reader' = "eof" /\ UNCHANGED buffer
     \/ /\ ~Live \/ (buffer = 0 /\ (mode = "try" \/ conn = "failed"))
        /\ conn = "ended" => ~Live
        /\ reader' = IF mode = "try" THEN "idle" ELSE "changed"
        /\ UNCHANGED buffer
  /\ UNCHANGED <<available, news, terminal, attempt, conn, cancelled,
                 inputWorker, produced, readVars, control>>
  /\ ReadOnly

\* Leaving the ended input on offer.
StillOffered == available

OfferAfterEof == available /\ ~Loop

AcknowledgeEof ==
  /\ reader = "eof" /\ reader' = "idle"
  /\ eofs' = [eofs EXCEPT ![readInput] = @ + 1]
  /\ IF ~stopping /\ input = readInput /\ terminal = "none"
     THEN terminal' = "ended" /\ available' = OfferAfterEof
     ELSE UNCHANGED <<terminal, available>>
  /\ WakeControl
  /\ UNCHANGED <<news, inputVars, mode, readInput, readInfo>>
  /\ ReadOnly

\* The input gave nothing: wait for a stop, an end, a state or another input.
Changed ==
  \/ stopping \/ Terminal(status) \/ HasNews
  \/ available /\ input # readInput

AwaitChange ==
  /\ reader = "changed"
  /\ reader' = IF Changed THEN "ready" ELSE "unchanged"
  /\ UNCHANGED <<available, news, terminal, inputVars, readVars, control>>
  /\ ReadOnly

-----------------------------------------------------------------------------
Control ==
  \/ Publish \/ PublishNews \/ Look \/ Create \/ Prepare \/ Open \/ Opening
  \/ Unopened \/ Opened \/ Connect \/ Offer \/ AwaitEnd \/ Retire
  \/ CloseCancels \/ CloseJoins \/ Unset \/ Decide \/ AwaitRetry \/ RetryDue
  \/ Threw \/ Exit

ReaderStep == Enter \/ ReadInput \/ AcknowledgeEof \/ AwaitChange

Step ==
  \/ Start \/ Join \/ \E p \in Stoppers : RequestStop(p) \/ CancelInput(p)
  \/ Control \/ OpenIo
  \/ Demux \/ InputEnds \/ InputReports
  \/ (\E m \in config.reads : Read(m)) \/ ReaderStep

Next == Step /\ UNCHANGED config

\* Calls proceed; a source that is opened or read need not answer, and none of its
\* deadlines is counted on, unless it is cancelled (AvInput's interrupt).
Fairness ==
  /\ WF_vars(Control /\ UNCHANGED config) /\ WF_vars(cancelled /\ OpenIo /\ UNCHANGED config)
  /\ WF_vars(ReaderStep /\ UNCHANGED config)
  /\ WF_vars(cancelled /\ InputEnds /\ UNCHANGED config)
  /\ WF_vars(InputReports /\ UNCHANGED config)
  /\ WF_vars(Join /\ UNCHANGED config)
  /\ \A p \in Stoppers : WF_vars(CancelInput(p) /\ UNCHANGED config)

Spec == Init /\ [][Next]_vars /\ Fairness

-----------------------------------------------------------------------------
(* Properties.                                                             *)

\* A packet is returned with the description of the input it comes from, even
\* when the control worker replaces the input meanwhile.
InfoMatchesInput ==
  /\ TypeOK
  /\ reader \in {"input", "eof"} => readInfo = readInput

\* A looping input reports EOF at most once, and an input that ended is not
\* replaced before the reader has seen its EOF.
EofSeenOnce ==
  /\ Loop => \A a \in Attempts : eofs[a] <= 1
  /\ control = "retire" /\ outcome = "ended" => eofs[attempt] > 0

\* The proxy gives up after exactly max_retries further attempts; a successful
\* open starts the count again.
RetryBudget ==
  status = "failed" /\ outcome = "failed" => reopened = MaxRetries

\* A stop reaches an open input: while one is being opened or used after a stop was
\* requested it is cancelled, or the requester is about to cancel it, although
\* Open forgets a cancellation that came before it (RequestStop, InputChanged).
StopCancels ==
  (stopping /\ conn # "closed" /\ control # "opening") =>
    cancelled \/ \E p \in Stoppers : stopper[p] = "cancel" /\ stopInput[p] = attempt

\* Stop returns although the source may hang or the worker waits for a retry;
\* a stop releases a reader wherever it is blocked; and a controller that waits
\* for packets or states gets to see a published state.
CallsReturn ==
  /\ stopper["owner"] = "cancel" ~> stopper["owner"] = "idle"
  /\ stopping /\ reader # "idle" ~> reader = "idle" \/ ~stopping
  /\ news /\ reader # "idle" /\ mode = "change" ~> reader = "idle"

=============================================================================
