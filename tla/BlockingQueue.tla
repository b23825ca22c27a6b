---------------------------- MODULE BlockingQueue ----------------------------
(***************************************************************************)
(* The bounded FIFO of the platform layer (blocking_queue.h), used between *)
(* every pair of threads of the streamer.  One step is either a critical   *)
(* section under mutex_ or one of the notifications that the code issues   *)
(* after it has released mutex_: the gap between unlock and notify is      *)
(* where a wakeup could be lost.                                           *)
(*                                                                         *)
(* Besides blocking callers the queue serves event loops: a Selector reads *)
(* with TryPop and sleeps on a WaitSignal revision (wait_signal.h), a      *)
(* Poller writes with a zero timeout and sleeps on a WriteSignal revision  *)
(* (write_signal.h).  Both record the revision before they look at the     *)
(* queue.  A signal's own Notify and Wait are one step each: they keep     *)
(* revision_ under the signal's own mutex.                                 *)
(***************************************************************************)
EXTENDS Integers, Sequences, FiniteSets

CONSTANTS
  Producers,  \* threads that call Push
  Timed,      \* the producers whose Push has a timeout
  Pollers,    \* the timed producers that sleep on the write signal
  Consumers,  \* threads that call Pop
  Selectors,  \* threads that call TryPop and sleep on the read signal
  Owner,      \* the thread that calls Close, SetReadSignal, SetWriteSignal
  Installed,  \* the signals the owner sets, among "read" and "write"
  Capacity,   \* capacity_
  MaxItems,   \* bound: items one producer may hand over
  MaxFaults   \* bound: exceptions thrown by T's copy and move operations

\* The constructor rejects a capacity of zero.
ASSUME CapacityAssumption == Capacity \in Nat \ {0}

ASSUME BoundsAssumption == MaxItems \in Nat /\ MaxFaults \in Nat

ASSUME ThreadsAssumption ==
  /\ IsFiniteSet(Producers) /\ IsFiniteSet(Consumers) /\ IsFiniteSet(Selectors)
  /\ Pollers \subseteq Timed /\ Timed \subseteq Producers
  /\ Producers \cap (Consumers \cup Selectors) = {}
  /\ Consumers \cap Selectors = {}
  /\ Owner \notin Producers \cup Consumers \cup Selectors

Poppers == Consumers \cup Selectors
EventLoops == Pollers \cup Selectors
Threads == Producers \cup Poppers \cup {Owner}

\* An item is the n-th one its producer got accepted.
Items == Producers \X (Nat \ {0})

VARIABLES
  queue,        \* queue_
  closed,       \* closed_
  registered,   \* which of read_signal_ / write_signal_ are set
  revision,     \* revision_ of the read and of the write signal
  pc,           \* where a thread is inside its operation
  held,         \* the signals a thread locked before it released mutex_
  observed,     \* the revision an event loop recorded before it looked
  pushed,       \* items accepted from a producer
  popped,       \* number of the last item of a producer handed to a popper
  faults        \* exceptions thrown so far

vars == <<queue, closed, registered, revision, pc, held, observed, pushed,
          popped, faults>>

Signals == {"read", "write"}

Locations == {"idle",      \* not inside an operation
              "look",      \* event loop: revision recorded, about to call
              "waiting",   \* blocked in not_full_ or not_empty_
              "awake",     \* woken, about to reacquire mutex_
              "expired",   \* timed out, about to reacquire mutex_
              "notify",    \* moved an item: owes the other side notify_one
              "retry",     \* threw: owes its own side notify_one
              "signal",    \* owes Notify to the signals it holds
              "sleep",     \* event loop: waits for a new revision
              "closing",   \* Close: owes not_empty_.notify_all
              "closing2"}  \* Close: owes not_full_.notify_all

TypeOK ==
  /\ queue \in Seq(Items) /\ Len(queue) <= Capacity
  /\ closed \in BOOLEAN
  /\ registered \in SUBSET Signals
  /\ revision \in [Signals -> Nat]
  /\ pc \in [Threads -> Locations]
  /\ held \in [Threads -> SUBSET Signals]
  /\ observed \in [EventLoops -> Nat]
  /\ pushed \in [Producers -> Nat]
  /\ popped \in [Producers -> Nat]
  /\ faults \in Nat

Init ==
  /\ queue = <<>>
  /\ closed = FALSE
  /\ registered = {}
  /\ revision = [s \in Signals |-> 0]
  /\ pc = [t \in Threads |-> "idle"]
  /\ held = [t \in Threads |-> {}]
  /\ observed = [t \in EventLoops |-> 0]
  /\ pushed = [p \in Producers |-> 0]
  /\ popped = [p \in Producers |-> 0]
  /\ faults = 0

-----------------------------------------------------------------------------
(* Condition variables.  notify_one wakes any one waiter, if there is one. *)

Waiting(side) == {t \in side : pc[t] = "waiting"}

NotifyOne(t, side, next) ==
  IF Waiting(side) = {}
  THEN pc' = [pc EXCEPT ![t] = next]
  ELSE \E w \in Waiting(side) : pc' = [pc EXCEPT ![t] = next, ![w] = "awake"]

NotifyAll(t, side, next) ==
  pc' = [u \in Threads |-> IF u = t THEN next
                           ELSE IF u \in Waiting(side) THEN "awake" ELSE pc[u]]

\* The read signal belongs to a selector, the write signal to a poller.
SignalOf(t) == IF t \in Selectors THEN "read" ELSE "write"

-----------------------------------------------------------------------------
(* Push.  A thread enters PushImpl from a call, or re-evaluates the wait   *)
(* predicate after a wakeup or a timeout.                                  *)

InPush(p) ==
  /\ pushed[p] < MaxItems
  /\ \/ pc[p] \in {"awake", "expired"}
     \/ pc[p] = IF p \in Pollers THEN "look" ELSE "idle"

PushClosed(p) ==
  /\ InPush(p)
  /\ closed
  /\ pc' = [pc EXCEPT ![p] = "idle"]
  /\ UNCHANGED <<queue, closed, registered, revision, held, observed, pushed,
                 popped, faults>>

\* kTimeout sends an event loop to its signal, and any other caller back.
PushWait(p) ==
  /\ InPush(p)
  /\ ~closed /\ Len(queue) >= Capacity
  /\ pc' = [pc EXCEPT ![p] = IF pc[p] # "expired" THEN "waiting"
                             ELSE IF p \in Pollers THEN "sleep" ELSE "idle"]
  /\ UNCHANGED <<queue, closed, registered, revision, held, observed, pushed,
                 popped, faults>>

PushItem(p) ==
  /\ InPush(p)
  /\ ~closed /\ Len(queue) < Capacity
  /\ queue' = Append(queue, <<p, pushed[p] + 1>>)
  /\ pushed' = [pushed EXCEPT ![p] = @ + 1]
  /\ held' = [held EXCEPT ![p] = registered \cap {"read"}]
  /\ pc' = [pc EXCEPT ![p] = "notify"]
  /\ UNCHANGED <<closed, registered, revision, observed, popped, faults>>

\* emplace_back throws: nothing is queued and the wakeup is passed on.
PushThrow(p) ==
  /\ InPush(p)
  /\ ~closed /\ Len(queue) < Capacity
  /\ faults < MaxFaults
  /\ faults' = faults + 1
  /\ pc' = [pc EXCEPT ![p] = "retry"]
  /\ UNCHANGED <<queue, closed, registered, revision, held, observed, pushed,
                 popped>>

\* wait_for: the timeout passes while the producer waits.
Timeout(p) ==
  /\ p \in Timed
  /\ pc[p] = "waiting"
  /\ pc' = [pc EXCEPT ![p] = "expired"]
  /\ UNCHANGED <<queue, closed, registered, revision, held, observed, pushed,
                 popped, faults>>

-----------------------------------------------------------------------------
(* Pop waits for an item, TryPop does not; both end in PopImpl.            *)

InPop(c) ==
  \/ pc[c] = "awake"
  \/ pc[c] = IF c \in Selectors THEN "look" ELSE "idle"

\* Pop blocks; for a TryPop, kEmpty sends the selector to its signal.
PopWait(c) ==
  /\ InPop(c)
  /\ ~closed /\ queue = <<>>
  /\ pc' = [pc EXCEPT ![c] = IF c \in Selectors THEN "sleep" ELSE "waiting"]
  /\ UNCHANGED <<queue, closed, registered, revision, held, observed, pushed,
                 popped, faults>>

PopClosed(c) ==
  /\ InPop(c)
  /\ closed /\ queue = <<>>
  /\ pc' = [pc EXCEPT ![c] = "idle"]
  /\ UNCHANGED <<queue, closed, registered, revision, held, observed, pushed,
                 popped, faults>>

PopItem(c) ==
  /\ InPop(c)
  /\ queue # <<>>
  /\ LET item == Head(queue)
     IN  popped' = [popped EXCEPT ![item[1]] = item[2]]
  /\ queue' = Tail(queue)
  /\ held' = [held EXCEPT ![c] = registered \cap {"write"}]
  /\ pc' = [pc EXCEPT ![c] = "notify"]
  /\ UNCHANGED <<closed, registered, revision, observed, pushed, faults>>

\* Mutation: the item is removed although its move assignment threw.
PopThrowDropsItem(c) ==
  /\ InPop(c)
  /\ queue # <<>>
  /\ faults < MaxFaults
  /\ faults' = faults + 1
  /\ queue' = Tail(queue)
  /\ pc' = [pc EXCEPT ![c] = "retry"]
  /\ UNCHANGED <<closed, registered, revision, held, observed, pushed, popped>>

\* The move assignment throws: the item stays and the wakeup is passed on.
PopThrow(c) ==
  /\ InPop(c)
  /\ queue # <<>>
  /\ faults < MaxFaults
  /\ faults' = faults + 1
  /\ pc' = [pc EXCEPT ![c] = "retry"]
  /\ UNCHANGED <<queue, closed, registered, revision, held, observed, pushed,
                 popped>>

-----------------------------------------------------------------------------
(* What a thread does after it has released mutex_.                        *)

AfterNotify(t) == IF held[t] = {} THEN "idle" ELSE "signal"

\* notify_one on the other side's condition variable.
NotifyPeer(t) ==
  /\ pc[t] = "notify"
  /\ NotifyOne(t, IF t \in Producers THEN Consumers ELSE Producers,
               AfterNotify(t))
  /\ UNCHANGED <<queue, closed, registered, revision, held, observed, pushed,
                 popped, faults>>

\* Mutation: the exception leaves without passing the wakeup on.
RethrowOnly(t) ==
  /\ pc[t] = "retry"
  /\ pc' = [pc EXCEPT ![t] = "idle"]
  /\ UNCHANGED <<queue, closed, registered, revision, held, observed, pushed,
                 popped, faults>>

\* notify_one on the own side's condition variable, then rethrow.
NotifyOwn(t) ==
  /\ pc[t] = "retry"
  /\ NotifyOne(t, IF t \in Producers THEN Producers ELSE Consumers, "idle")
  /\ UNCHANGED <<queue, closed, registered, revision, held, observed, pushed,
                 popped, faults>>

\* signal->Notify() for every signal that was locked; Close notifies the
\* read signal first.
Signal(t) ==
  /\ pc[t] = "signal"
  /\ LET s == IF "read" \in held[t] THEN "read" ELSE "write"
     IN  /\ revision' = [revision EXCEPT ![s] = @ + 1]
         /\ held' = [held EXCEPT ![t] = @ \ {s}]
         /\ pc' = [pc EXCEPT ![t] = IF held[t] = {s} THEN "idle" ELSE "signal"]
  /\ UNCHANGED <<queue, closed, registered, observed, pushed, popped, faults>>

-----------------------------------------------------------------------------
(* The event loops: GetRevision, look at the queue, Wait(observed).        *)

Observe(t) ==
  /\ t \in EventLoops
  /\ pc[t] = "idle"
  /\ observed' = [observed EXCEPT ![t] = revision[SignalOf(t)]]
  /\ pc' = [pc EXCEPT ![t] = "look"]
  /\ UNCHANGED <<queue, closed, registered, revision, held, pushed, popped,
                 faults>>

Wake(t) ==
  /\ t \in EventLoops
  /\ pc[t] = "sleep"
  /\ revision[SignalOf(t)] # observed[t]
  /\ pc' = [pc EXCEPT ![t] = "idle"]
  /\ UNCHANGED <<queue, closed, registered, revision, held, observed, pushed,
                 popped, faults>>

-----------------------------------------------------------------------------
(* The owner's operations.                                                 *)

\* SetReadSignal and SetWriteSignal replay a readiness that already exists.
Ready(s) ==
  \/ closed
  \/ IF s = "read" THEN queue # <<>> ELSE Len(queue) < Capacity

\* Mutation: registration does not replay existing readiness.
SetSignalNoReplay(s) ==
  /\ pc[Owner] = "idle"
  /\ s \in Installed \ registered
  /\ registered' = registered \cup {s}
  /\ UNCHANGED <<queue, closed, revision, pc, held, observed, pushed, popped,
                 faults>>

SetSignal(s) ==
  /\ pc[Owner] = "idle"
  /\ s \in Installed \ registered
  /\ registered' = registered \cup {s}
  /\ held' = [held EXCEPT ![Owner] = IF Ready(s) THEN {s} ELSE {}]
  /\ pc' = [pc EXCEPT ![Owner] = IF Ready(s) THEN "signal" ELSE "idle"]
  /\ UNCHANGED <<queue, closed, revision, observed, pushed, popped, faults>>

\* Mutation: Close wakes the condition variables but not the signals.
CloseWithoutSignals ==
  /\ pc[Owner] = "idle"
  /\ ~closed
  /\ closed' = TRUE
  /\ pc' = [pc EXCEPT ![Owner] = "closing"]
  /\ UNCHANGED <<queue, registered, revision, held, observed, pushed, popped,
                 faults>>

\* Owners close a queue once per session.
Close ==
  /\ pc[Owner] = "idle"
  /\ ~closed
  /\ closed' = TRUE
  /\ held' = [held EXCEPT ![Owner] = registered]
  /\ pc' = [pc EXCEPT ![Owner] = "closing"]
  /\ UNCHANGED <<queue, registered, revision, observed, pushed, popped, faults>>

CloseNotify ==
  /\ \/ pc[Owner] = "closing" /\ NotifyAll(Owner, Consumers, "closing2")
     \/ pc[Owner] = "closing2" /\ NotifyAll(Owner, Producers, AfterNotify(Owner))
  /\ UNCHANGED <<queue, closed, registered, revision, held, observed, pushed,
                 popped, faults>>

\* A condition variable may wake a waiter for no reason.
SpuriousWake(t) ==
  /\ pc[t] = "waiting"
  /\ pc' = [pc EXCEPT ![t] = "awake"]
  /\ UNCHANGED <<queue, closed, registered, revision, held, observed, pushed,
                 popped, faults>>

-----------------------------------------------------------------------------
Push(p) == PushClosed(p) \/ PushWait(p) \/ PushItem(p) \/ PushThrow(p)

Pop(c) == PopWait(c) \/ PopClosed(c) \/ PopItem(c) \/ PopThrow(c)

After(t) == NotifyPeer(t) \/ NotifyOwn(t) \/ Signal(t)

Next ==
  \/ \E p \in Producers : Push(p) \/ Timeout(p)
  \/ \E c \in Poppers : Pop(c)
  \/ \E t \in Threads : After(t)
  \/ \E t \in EventLoops : Observe(t) \/ Wake(t)
  \/ \E t \in Producers \cup Consumers : SpuriousWake(t)
  \/ \E s \in Signals : SetSignal(s)
  \/ Close
  \/ CloseNotify

Spec == Init /\ [][Next]_vars

\* A thread that is inside an operation keeps running.  Nothing obliges a
\* thread to start one, a timer to fire or a spurious wakeup to happen.
Running(t) == pc[t] # "idle"

Fairness ==
  /\ \A p \in Producers : WF_vars(Running(p) /\ Push(p))
  /\ \A c \in Poppers : WF_vars(Running(c) /\ Pop(c))
  /\ \A t \in Threads : WF_vars(After(t))
  /\ \A t \in EventLoops : WF_vars(Wake(t))
  /\ WF_vars(CloseNotify)

FairSpec == Spec /\ Fairness

-----------------------------------------------------------------------------
(* Properties.                                                             *)

\* FIFO: whatever interleaving, timeout or exception happens, what is queued
\* of a producer is exactly what was accepted from it and not yet delivered,
\* and stands in the order of acceptance.
FifoNoLoss ==
  /\ \A p \in Producers :
       /\ popped[p] <= pushed[p]
       /\ {queue[i][2] : i \in {k \in DOMAIN queue : queue[k][1] = p}}
            = (popped[p] + 1)..pushed[p]
  /\ \A i, j \in DOMAIN queue :
       i < j /\ queue[i][1] = queue[j][1] => queue[i][2] < queue[j][2]

\* Threads that will deliver a wakeup to side, or already received one.
OwesPop ==
  {t \in Threads : \/ t \in Producers /\ pc[t] = "notify"
                   \/ t \in Poppers /\ pc[t] \in {"retry", "awake"}}

OwesPush ==
  {t \in Threads : \/ t \in Poppers /\ pc[t] = "notify"
                   \/ t \in Producers /\ pc[t] \in {"retry", "awake", "expired"}}

\* As long as a Pop is blocked, every queued item has a thread that still has
\* to notify not_empty_ or a consumer already woken for it; after Close, every
\* blocked Pop is still to be woken by its notify_all.
NoLostPopWakeup ==
  Waiting(Consumers) # {} =>
    IF closed THEN pc[Owner] = "closing"
    ELSE Len(queue) <= Cardinality(OwesPop)

\* The same for a blocked Push and the free slots.
NoLostPushWakeup ==
  Waiting(Producers) # {} =>
    IF closed THEN pc[Owner] \in {"closing", "closing2"}
    ELSE Capacity - Len(queue) <= Cardinality(OwesPush)

\* No wakeup of not_empty_ or not_full_ is lost, although both are notified
\* after mutex_ is released, notify_one wakes a single thread, and the thread
\* it wakes may throw or may have timed out.
NoLostWakeup == NoLostPopWakeup /\ NoLostPushWakeup

\* An event loop never sleeps through readiness: when it waits for a revision
\* that has not changed although its registered signal's condition holds, some
\* thread already locked the signal and is about to Notify it.
NoLostSignal ==
  \A t \in EventLoops :
    LET s == SignalOf(t)
    IN  /\ pc[t] = "sleep"
        /\ observed[t] = revision[s]
        /\ s \in registered
        /\ Ready(s)
        => \E u \in Threads : s \in held[u]

Asleep(t) ==
  \/ pc[t] = "waiting"
  \/ pc[t] = "sleep" /\ SignalOf(t) \in registered

CanProceed(t) ==
  closed \/ IF t \in Producers THEN Len(queue) < Capacity ELSE queue # <<>>

\* A thread blocked in Push or Pop, or asleep on a registered signal, goes on
\* once there is room, an item or a Close for it, unless another thread takes
\* that away first.  Timeouts and spurious wakeups are not relied upon.
CallsServed ==
  \A t \in Producers \cup Poppers :
    (Asleep(t) /\ CanProceed(t)) ~> (~Asleep(t) \/ ~CanProceed(t))
=============================================================================
