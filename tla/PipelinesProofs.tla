-------------------------- MODULE PipelinesProofs --------------------------
(***************************************************************************)
(* The three pipelines for any tracks, scripts of the source, number of    *)
(* frames, of sessions, of stop requests and of failures.                  *)
(*                                                                         *)
(* The first part is about the live pipeline.  Its inductive invariant,    *)
(* IInv, says what the published state says of the call in progress        *)
(* (Published), where the threads inside Fail may be (Failing), which      *)
(* components the two fixed orders leave on (Ordered), who reports         *)
(* (Reporting) and how a cancellation that a component's Start forgets is  *)
(* made up for (Reached).                                                  *)
(*                                                                         *)
(* The second is about the offline pipeline: OffInv, whose parts have the  *)
(* same names and say besides when the source may still announce a state   *)
(* (OffAnnouncing); OffCounted, which counts the calls of the filter       *)
(* against the frames that are left; and OffReporting.                     *)
(*                                                                         *)
(* The third is about the remuxing pipeline: RemInv says of the packets    *)
(* how the script, what was read and what was delivered belong together    *)
(* (RemReading, RemDelivering, RemBegun), of the sessions where they       *)
(* change and which outputs they have (RemSessions, RemOutputs), and of    *)
(* the retirement thread what it still has to file (RemReaping,            *)
(* RemFiling).  The last part composes them.                               *)
(***************************************************************************)
EXTENDS MCPipelines, FiniteSetTheorems, WellFoundedInduction, TLAPS

Published ==
  /\ ~started => caller = "idle" /\ state \in {"stopped", "failed"}
  /\ started => state # "stopped"
  /\ error # None <=> state = "failed"
  /\ state = "starting" =>
       \/ caller = "start"
       \/ caller = "catch" /\ failing["caller"].at = "fail"
  /\ caller \in {"start", "join"} => nth \in 1..5

Failing ==
  /\ \A c \in Components : failing[c].at # "no" => parts[c] = "broken"
  /\ caller # "catch" => failing["caller"].at = "no"
  /\ \A t \in Threads :
       IF failing[t].at = "no" THEN failing[t].cause = None
       ELSE failing[t].cause \notin {None, "rejected"}

\* The remuxer outlives the encoder that feeds it.
Ordered ==
  /\ ~started => \A c \in Components : parts[c] = "off"
  /\ caller = "start" =>
       /\ nth <= 1 => parts["encoder"] = "off"
       /\ nth <= 2 => parts["remuxer"] = "off"
       /\ nth <= 3 => parts["source"] = "off"
       /\ nth <= 4 => parts["scheduler"] = "off"
       /\ nth > 2 => parts["remuxer"] # "off"
  /\ caller = "join" =>
       /\ nth > 1 => parts["scheduler"] = "off"
       /\ nth > 2 => parts["source"] = "off"
       /\ nth > 3 => parts["encoder"] = "off"
       /\ nth > 4 => parts["remuxer"] = "off"
  /\ fed /\ parts["remuxer"] = "off" => ~Alive("encoder")

\* The thread that set error_ is the only one that calls OnError.
Reporting ==
  /\ reports <= 1 /\ error # "rejected"
  /\ error = None => reports = 0 /\ \A t \in Threads : failing[t].at # "cancel"
  /\ \A t \in Threads : failing[t].at = "cancel" =>
       /\ reports = 0
       /\ \A u \in Threads : failing[u].at = "cancel" => u = t

Pending ==
  \/ caller \in {"start", "catch", "stop", "cancel"}
  \/ requester = "cancel"
  \/ \E t \in Threads : failing[t].at = "cancel"

Reached ==
  started /\ state \in {"stopping", "failed"} =>
    Pending \/ (parts["source"] # "on" /\ parts["scheduler"] # "on")

IInv == TypeOK /\ Published /\ Failing /\ Ordered /\ Reporting /\ Reached

\* What RequestStop makes of the components' states.
LEMMA CancelledParts ==
  ASSUME TypeOK
  PROVE  /\ Cancelled \in [Components -> {"off", "on", "cancelled", "broken"}]
         /\ Cancelled["source"] # "on" /\ Cancelled["scheduler"] # "on"
         /\ \A c \in Components : /\ Cancelled[c] = "off" <=> parts[c] = "off"
                                 /\ Cancelled[c] \in {"on", "cancelled"} <=> Alive(c)
BY DEF TypeOK, Cancelled, Components, Alive

\* It switches no component on or off.
LEMMA CancelKeepsOrder ==
  ASSUME TypeOK, Ordered, parts' = Cancelled, UNCHANGED <<started, fed>>,
         UNCHANGED <<caller, nth>> \/ (caller' = "join" /\ nth' = 1)
  PROVE  Ordered'
<1>1. \A c \in Components : parts'[c] = "off" <=> parts[c] = "off"
  BY DEF TypeOK, Cancelled, Components
<1>2. parts'["encoder"] \in {"on", "cancelled"} => Alive("encoder")
  BY DEF TypeOK, Cancelled, Components, Alive
<1>3. /\ "encoder" \in Components /\ "remuxer" \in Components
      /\ "source" \in Components /\ "scheduler" \in Components
  BY DEF Components
<1>4. ~started' => \A c \in Components : parts'[c] = "off"
  BY <1>1 DEF Ordered
<1>5. Ordered!2'
  BY <1>1, <1>3 DEF Ordered
<1>6. Ordered!3'
  BY <1>1, <1>3 DEF Ordered
<1>7. fed' /\ parts'["remuxer"] = "off" => ~Alive("encoder")'
  BY <1>1, <1>2, <1>3 DEF Ordered, Alive
<1> QED
  BY <1>4, <1>5, <1>6, <1>7 DEF Ordered

\* The constructed pipeline is stopped, with every component off.
LEMMA InitInv == Init => IInv
<1> SUFFICES ASSUME Init PROVE IInv
  OBVIOUS
<1>1. TypeOK
  <2>1. started \in BOOLEAN /\ fed \in BOOLEAN
    BY Zenon DEF Init
  <2>2. failing \in [Threads -> [at : {"no", "fail", "cancel"}, cause : Causes \cup {None}]]
    BY DEF Init, Calm
  <2>3. parts \in [Components -> {"off", "on", "cancelled", "broken"}]
    BY DEF Init
  <2> QED
    BY <2>1, <2>2, <2>3 DEF Init, TypeOK
<1>2. Published
  BY DEF Init, Published
<1>3. /\ \A t \in Threads : failing[t].at = "no" /\ failing[t].cause = None
      /\ error = None /\ reports = 0
  <2>1. \A t \in Threads : failing[t] = Calm
    BY DEF Init
  <2>2. Calm.at = "no" /\ Calm.cause = None
    BY DEF Calm
  <2> QED
    BY <2>1, <2>2 DEF Init
<1>4. Failing
  BY <1>3 DEF Failing, Threads, Components
<1>5. Reporting
  BY <1>3, NoneAssumption DEF Reporting
<1>6. Ordered /\ Reached
  BY DEF Init, Ordered, Reached, Components
<1> QED
  BY <1>1, <1>2, <1>4, <1>5, <1>6 DEF IInv

\* Start is accepted only when everything is off and no thread is in Fail.
LEMMA StartInv == IInv /\ Start => IInv'
<1> SUFFICES ASSUME IInv, Start PROVE IInv'
  OBVIOUS
<1> USE DEF IInv, Start, Goto
<1>1. TypeOK'
  <2>1. started' \in BOOLEAN /\ fed' \in BOOLEAN
    BY Zenon
  <2>2. error' \in Causes \cup {None}
    BY Zenon
  <2> QED
    BY <2>1, <2>2 DEF TypeOK
<1>2. Published'
  <2>1. started' = TRUE /\ error' = None /\ state' = "starting" /\ caller' = "start" /\ nth' = 1
    OBVIOUS
  <2> QED
    BY <2>1 DEF Published
<1>3. Failing'
  BY DEF Published, Failing, Threads, Components
<1>4. Ordered'
  BY DEF Published, Ordered, Components, Alive
<1>5. Reporting'
  BY NoneAssumption DEF Published, Ordered, Failing, Reporting, Threads, Components
<1>6. Reached'
  BY DEF Reached
<1> QED
  BY <1>1, <1>2, <1>3, <1>4, <1>5, <1>6 DEF IInv

\* Which component each step of Start is about.
LEMMA StartOrderFacts ==
  ASSUME NEW n \in 1..4
  PROVE  /\ StartOrder[n] \in Components
         /\ StartOrder[n] = "encoder" <=> n = 1
         /\ StartOrder[n] = "remuxer" <=> n = 2
         /\ StartOrder[n] = "source" <=> n = 3
         /\ StartOrder[n] = "scheduler" <=> n = 4
BY DEF StartOrder, Components

\* Which component each step of Stop joins.
LEMMA StopOrderFacts ==
  ASSUME NEW n \in 1..4
  PROVE  /\ StopOrder[n] \in Components
         /\ StopOrder[n] = "scheduler" <=> n = 1
         /\ StopOrder[n] = "source" <=> n = 2
         /\ StopOrder[n] = "encoder" <=> n = 3
         /\ StopOrder[n] = "remuxer" <=> n = 4
BY DEF StopOrder, Components

\* CheckFailure and the Start of one component, or the throw to the catch.
LEMMA StartPartInv == IInv /\ StartPart => IInv'
<1> SUFFICES ASSUME IInv, StartPart PROVE IInv'
  OBVIOUS
<1> DEFINE c == StartOrder[nth]
<1> USE DEF IInv
<1>1. nth \in 1..4
  BY DEF TypeOK, Published, StartPart
<1>2. /\ state' = state /\ started' = started /\ error' = error /\ reports' = reports
      /\ requester' = requester /\ caller = "start"
  BY DEF StartPart, pipeline
<1>3. /\ c \in Components /\ parts[c] = "off" /\ failing[c].at = "no"
      /\ failing["caller"].at = "no"
  BY <1>1, <1>2, StartOrderFacts DEF Ordered, Failing, Components
<1>4. CASE /\ error = None /\ parts' = [parts EXCEPT ![c] = "on"]
           /\ fed' = (c = "scheduler") /\ caller' = "start" /\ nth' = nth + 1
           /\ failing' = failing
  <2>1. fed' \in BOOLEAN /\ (fed' => nth = 4)
    BY <1>1, <1>4, StartOrderFacts
  <2>2. TypeOK'
    BY <1>1, <1>2, <1>3, <1>4, <2>1 DEF TypeOK
  <2>3. Published'
    BY <1>1, <1>2, <1>4 DEF Published
  <2>4. Failing'
    BY <1>2, <1>3, <1>4 DEF TypeOK, Failing
  <2>5. Ordered'
    BY <1>1, <1>2, <1>4, <2>1, StartOrderFacts DEF TypeOK, Ordered, Published, Alive, Components
  <2>6. Reporting'
    BY <1>2, <1>4 DEF Reporting
  <2>7. Reached'
    BY <1>4 DEF Reached, Pending
  <2> QED
    BY <2>2, <2>3, <2>4, <2>5, <2>6, <2>7
<1>5. ASSUME NEW cause \in Components, parts' = parts, fed' = fed,
             caller' = "catch", nth' = 0,
             failing' = [failing EXCEPT !["caller"] = [at |-> "fail", cause |-> cause]]
      PROVE  IInv'
  <2>1. TypeOK'
    BY <1>2, <1>5 DEF TypeOK, Threads, Causes
  <2>2. Published'
    BY <1>2, <1>5 DEF TypeOK, Published, Threads
  <2>3. Failing'
    BY <1>5, NoneAssumption DEF TypeOK, Failing, Threads, Components
  <2>4. Ordered'
    BY <1>2, <1>5 DEF Ordered, Alive
  <2>5. Reporting'
    BY <1>2, <1>5 DEF TypeOK, Reporting, Threads
  <2>6. Reached'
    BY <1>5 DEF Reached, Pending
  <2> QED
    BY <2>1, <2>2, <2>3, <2>4, <2>5, <2>6
<1>6. CASE error # None /\ Throw(error) /\ UNCHANGED <<parts, fed, counters>>
  <2>1. error \in Components
    BY <1>6 DEF TypeOK, Reporting, Causes
  <2> QED
    BY <1>5, <1>6, <2>1 DEF Throw, Goto, Failure
<1>7. CASE error = None /\ Fault /\ Throw(c) /\ UNCHANGED <<parts, fed>>
  BY <1>3, <1>5, <1>7 DEF Throw, Goto, Failure
<1> QED
  BY <1>4, <1>6, <1>7 DEF StartPart, Goto

\* The last critical section of Start: run, honour a stop, or throw.
LEMMA CommitInv == IInv /\ Commit => IInv'
<1> SUFFICES ASSUME IInv, Commit PROVE IInv'
  OBVIOUS
<1> USE DEF IInv, Commit, Goto, Throw, Failure, counters
<1>1. TypeOK'
  BY DEF TypeOK, Threads, Components, Causes
<1>2. Published'
  BY DEF TypeOK, Published, Threads
<1>3. Failing'
  BY DEF TypeOK, Failing, Reporting, Threads, Components, Causes
<1>4. Ordered'
  BY DEF TypeOK, Published, Ordered, Alive
<1>5. Reporting'
  BY DEF TypeOK, Failing, Reporting, Threads
<1>6. Reached'
  BY DEF Reached, Pending, Published
<1> QED
  BY <1>1, <1>2, <1>3, <1>4, <1>5, <1>6 DEF IInv

\* A component fails on its own thread.
LEMMA BreakInv == ASSUME NEW c \in Components PROVE IInv /\ Break(c) => IInv'
<1> SUFFICES ASSUME IInv, Break(c) PROVE IInv'
  OBVIOUS
<1> USE DEF IInv, Break, Failure, Fault, pipeline, calling
<1>1. TypeOK'
  BY DEF TypeOK, Threads, Components, Causes
<1>2. Published'
  BY DEF TypeOK, Published, Threads, Components
<1>3. Failing'
  BY NoneAssumption DEF TypeOK, Failing, Threads, Components, Causes
<1>4. Ordered'
  BY DEF TypeOK, Published, Ordered, Alive, Components
<1>5. Reporting'
  BY DEF TypeOK, Failing, Reporting, Threads, Alive
<1>6. Reached'
  BY DEF TypeOK, Reached, Pending, Threads, Components, Failing, Alive
<1> QED
  BY <1>1, <1>2, <1>3, <1>4, <1>5, <1>6 DEF IInv

\* The encoder finds the remuxer closed: only after it failed, by the order of
\* Stop, so that the cause is never the generic one.
LEMMA OutputRefusedInv == IInv /\ OutputRefused => IInv'
<1> SUFFICES ASSUME IInv, OutputRefused PROVE IInv'
  OBVIOUS
<1> USE DEF IInv, OutputRefused, Failure, pipeline, calling, counters, Alive
<1>1. TypeOK'
  BY DEF TypeOK, Threads, Components, Causes, Ordered
<1>2. Published'
  BY DEF TypeOK, Published, Threads, Components
<1>3. Failing'
  BY NoneAssumption DEF TypeOK, Failing, Ordered, Reporting, Threads, Components, Causes
<1>4. Ordered'
  BY DEF TypeOK, Published, Ordered, Components
<1>5. Reporting'
  BY DEF TypeOK, Failing, Reporting, Threads, Components
<1>6. Reached'
  BY DEF TypeOK, Reached, Pending, Threads, Components, Failing
<1> QED
  BY <1>1, <1>2, <1>3, <1>4, <1>5, <1>6 DEF IInv

\* The critical section of Fail: the first error wins and reports.
LEMMA FailLockInv == ASSUME NEW c \in Threads PROVE IInv /\ FailLock(c) => IInv'
<1> SUFFICES ASSUME IInv, FailLock(c) PROVE IInv'
  OBVIOUS
<1> USE DEF IInv, FailLock, KeepFirst, Calm, calling, counters
<1>1. TypeOK'
  BY DEF TypeOK, Causes
<1>2. Published'
  BY DEF TypeOK, Published, Failing, Threads, Components
<1>3. Failing'
  BY DEF TypeOK, Failing
<1>4. Ordered'
  BY DEF Ordered, Alive
<1>5. Reporting'
  BY DEF TypeOK, Failing, Reporting
<1>6. Reached'
  BY DEF TypeOK, Reached, Pending
<1> QED
  BY <1>1, <1>2, <1>3, <1>4, <1>5, <1>6 DEF IInv

\* The rest of Fail: the cancellations and OnError.
LEMMA FailCancelInv == ASSUME NEW c \in Threads PROVE IInv /\ FailCancel(c) => IInv'
<1> SUFFICES ASSUME IInv, FailCancel(c) PROVE IInv'
  OBVIOUS
<1> USE DEF IInv, FailCancel, Calm, pipeline, calling, counters
<1>1. TypeOK'
  BY CancelledParts DEF TypeOK
<1>2. Published'
  BY DEF TypeOK, Published
<1>3. Failing'
  BY CancelledParts DEF TypeOK, Failing, Components, Cancelled
<1>4. Ordered'
  BY CancelKeepsOrder
<1>5. Reporting'
  BY DEF TypeOK, Failing, Reporting
<1>6. Reached'
  BY CancelledParts DEF Reached
<1> QED
  BY <1>1, <1>2, <1>3, <1>4, <1>5, <1>6 DEF IInv

\* The critical section of RequestStop leaves a cancellation to come.
LEMMA RequestStopInv == IInv /\ RequestStop => IInv'
<1> SUFFICES ASSUME IInv, RequestStop PROVE IInv'
  OBVIOUS
<1> USE DEF IInv, RequestStop, RequestedState, calling
<1>1. TypeOK'
  BY DEF TypeOK
<1>2. Published'
  BY DEF TypeOK, Published
<1>3. Failing'
  BY DEF Failing
<1>4. Ordered'
  BY DEF Ordered, Alive
<1>5. Reporting'
  BY DEF Reporting
<1>6. Reached'
  BY DEF Reached, Pending
<1> QED
  BY <1>1, <1>2, <1>3, <1>4, <1>5, <1>6 DEF IInv

\* The cancellations of RequestStop.
LEMMA RequestCancelInv == IInv /\ RequestCancel => IInv'
<1> SUFFICES ASSUME IInv, RequestCancel PROVE IInv'
  OBVIOUS
<1> USE DEF IInv, RequestCancel, pipeline, calling, counters
<1>1. TypeOK'
  BY CancelledParts DEF TypeOK
<1>2. Published'
  BY DEF Published
<1>3. Failing'
  BY CancelledParts DEF TypeOK, Failing, Components, Cancelled
<1>4. Ordered'
  BY CancelKeepsOrder
<1>5. Reporting'
  BY DEF Reporting
<1>6. Reached'
  BY CancelledParts DEF Reached
<1> QED
  BY <1>1, <1>2, <1>3, <1>4, <1>5, <1>6 DEF IInv

\* The cancellations of the RequestStop inside Stop.
LEMMA StopCancelInv == IInv /\ StopCancel => IInv'
<1> SUFFICES ASSUME IInv, StopCancel PROVE IInv'
  OBVIOUS
<1> USE DEF IInv, StopCancel, pipeline, Goto, counters
<1>1. TypeOK'
  BY CancelledParts DEF TypeOK
<1>2. Published'
  BY DEF Published
<1>3. Failing'
  BY CancelledParts DEF TypeOK, Failing, Components, Cancelled
<1>4. Ordered'
  BY CancelKeepsOrder
<1>5. Reporting'
  BY DEF Reporting
<1>6. Reached'
  BY CancelledParts DEF Reached
<1> QED
  BY <1>1, <1>2, <1>3, <1>4, <1>5, <1>6 DEF IInv

\* Fail has returned to the catch of Start, which stops.
LEMMA CatchDoneInv == IInv /\ CatchDone => IInv'
<1> SUFFICES ASSUME IInv, CatchDone PROVE IInv'
  OBVIOUS
<1> USE DEF IInv, CatchDone, Goto, Calm, pipeline, counters
<1>1. TypeOK'
  BY DEF TypeOK
<1>2. Published'
  BY DEF TypeOK, Published
<1>3. Failing'
  BY DEF Failing
<1>4. Ordered'
  BY DEF Ordered, Alive
<1>5. Reporting'
  BY DEF Reporting
<1>6. Reached'
  BY DEF Reached, Pending
<1> QED
  BY <1>1, <1>2, <1>3, <1>4, <1>5, <1>6 DEF IInv

\* A call of Stop.
LEMMA StopInv == IInv /\ Stop => IInv'
<1> SUFFICES ASSUME IInv, Stop PROVE IInv'
  OBVIOUS
<1> USE DEF IInv, Stop, Goto, pipeline, counters
<1>1. TypeOK'
  BY DEF TypeOK
<1>2. Published'
  BY DEF TypeOK, Published
<1>3. Failing'
  BY DEF Failing
<1>4. Ordered'
  BY DEF Ordered, Alive
<1>5. Reporting'
  BY DEF Reporting
<1>6. Reached'
  BY DEF Reached, Pending
<1> QED
  BY <1>1, <1>2, <1>3, <1>4, <1>5, <1>6 DEF IInv

\* The critical section of the RequestStop inside Stop.
LEMMA StopRequestInv == IInv /\ StopRequest => IInv'
<1> SUFFICES ASSUME IInv, StopRequest PROVE IInv'
  OBVIOUS
<1> USE DEF IInv, StopRequest, RequestedState, Goto, counters
<1>1. TypeOK'
  BY DEF TypeOK
<1>2. Published'
  BY DEF TypeOK, Published
<1>3. Failing'
  BY DEF Failing
<1>4. Ordered'
  BY DEF Ordered, Alive
<1>5. Reporting'
  BY DEF Reporting
<1>6. Reached'
  BY DEF Reached, Pending
<1> QED
  BY <1>1, <1>2, <1>3, <1>4, <1>5, <1>6 DEF IInv

\* Stop of one component joins its threads, the encoder before the remuxer.
LEMMA StopPartInv == IInv /\ StopPart => IInv'
<1> SUFFICES ASSUME IInv, StopPart PROVE IInv'
  OBVIOUS
<1> USE DEF IInv, StopPart, Goto, Calm, pipeline, counters
<1>1. TypeOK'
  BY StopOrderFacts DEF TypeOK, Published
<1>2. Published'
  BY DEF TypeOK, Published
<1>3. Failing'
  BY DEF TypeOK, Failing
<1>4. Ordered'
  BY StopOrderFacts DEF TypeOK, Published, Ordered, Alive, Components
<1>5. Reporting'
  BY DEF Reporting
<1>6. Reached'
  BY StopOrderFacts DEF TypeOK, Published, Reached, Pending, Components
<1> QED
  BY <1>1, <1>2, <1>3, <1>4, <1>5, <1>6 DEF IInv

\* The last critical section of Stop.
LEMMA StopDoneInv == IInv /\ StopDone => IInv'
<1> SUFFICES ASSUME IInv, StopDone PROVE IInv'
  OBVIOUS
<1> USE DEF IInv, StopDone, Goto, counters
<1>1. TypeOK'
  <2>1. started' \in BOOLEAN /\ fed' \in BOOLEAN
    BY Zenon DEF TypeOK
  <2>2. error' \in Causes \cup {None}
    BY Zenon DEF TypeOK
  <2> QED
    BY <2>1, <2>2 DEF TypeOK
<1>2. Published'
  BY DEF TypeOK, Published, Ordered
<1>3. Failing'
  BY DEF Failing
<1>4. Ordered'
  BY DEF TypeOK, Ordered, Alive, Components
<1>5. Reporting'
  BY DEF Reporting
<1>6. Reached'
  BY DEF Reached, Pending
<1> QED
  BY <1>1, <1>2, <1>3, <1>4, <1>5, <1>6 DEF IInv

\* A step of something else.
LEMMA StutterInv == IInv /\ UNCHANGED vars => IInv'
<1> SUFFICES ASSUME IInv, UNCHANGED vars PROVE IInv'
  OBVIOUS
<1> USE DEF IInv, vars, pipeline, calling, counters
<1>1. TypeOK'
  BY DEF TypeOK
<1>2. Published'
  BY DEF Published
<1>3. Failing'
  BY DEF Failing
<1>4. Ordered'
  BY DEF Ordered, Alive
<1>5. Reporting'
  BY DEF Reporting
<1>6. Reached'
  BY DEF Reached, Pending
<1> QED
  BY <1>1, <1>2, <1>3, <1>4, <1>5, <1>6 DEF IInv

\* The invariant is inductive.
LEMMA StepInv == IInv /\ [Next]_vars => IInv'
<1> SUFFICES ASSUME IInv, [Next]_vars PROVE IInv'
  OBVIOUS
<1>1. CASE Start \/ Stop \/ OutputRefused
  BY <1>1, StartInv, StopInv, OutputRefusedInv
<1>2. CASE CallerStep
  BY <1>2, StartPartInv, CommitInv, CatchDoneInv, StopRequestInv, StopCancelInv,
     StopPartInv, StopDoneInv DEF CallerStep
<1>3. CASE FailStep
  BY <1>3, FailLockInv, FailCancelInv DEF FailStep
<1>4. CASE RequestStop \/ RequestCancel
  BY <1>4, RequestStopInv, RequestCancelInv
<1>5. CASE \E c \in Components : Break(c)
  BY <1>5, BreakInv
<1>6. CASE UNCHANGED vars
  BY <1>6, StutterInv
<1> QED
  BY <1>1, <1>2, <1>3, <1>4, <1>5, <1>6 DEF Next

\* It holds in every reachable state.
LEMMA Invariance == Spec => []IInv
BY InitInv, StepInv, PTL DEF Spec

\* Every variable keeps its type (Impl, the fields of LivePipeline).
THEOREM TypeCorrect == Spec => []TypeOK
<1>1. IInv => TypeOK
  BY DEF IInv
<1> QED
  BY <1>1, Invariance, PTL

\* However many components fail and in whatever order they do, the error of a
\* session is that of a component and is reported once: the remuxer is closed
\* after the encoder that feeds it, so that no refusal of a closed remuxer is
\* taken for a failure (OnPacket of the encoder, Fail, Stop).
THEOREM RootCauseKept == Spec => []RootCause
<1>1. IInv => RootCause
  <2> SUFFICES ASSUME IInv PROVE RootCause
    OBVIOUS
  <2>1. ASSUME NEW t \in Threads PROVE failing[t].cause # "rejected"
    BY NoneAssumption DEF IInv, Failing
  <2> QED
    BY <2>1 DEF IInv, Reporting, RootCause
<1> QED
  BY <1>1, Invariance, PTL

\* A stop or failure that a component's Start has forgotten is made up for
\* before the caller returns (Start, its final critical section and catch).
LEMMA InvReaches == IInv => StopReachesParts
<1> SUFFICES ASSUME IInv, started, caller = "idle", requester = "idle",
                    \A t \in Threads : failing[t] = Calm
             PROVE  \/ state = "running" /\ error = None
                    \/ /\ state \in {"stopping", "failed"}
                       /\ \A c \in {"source", "scheduler"} : parts[c] # "on"
  BY DEF StopReachesParts
<1>1. \A t \in Threads : failing[t].at = "no"
  BY DEF Calm
<1>2. ~Pending
  BY <1>1 DEF Pending
<1>3. state \in {"running", "stopping", "failed"}
  BY DEF IInv, TypeOK, Published
<1> QED
  BY <1>2, <1>3 DEF IInv, Published, Reached

-----------------------------------------------------------------------------
(* The refinement of PipelineLifecycle.                                    *)

\* The first state of the pipeline is that of its specification.
LEMMA InitRefines == Init => LC!Init
BY DEF Init, LC!Init

\* Every step either leaves the published state alone or is the step of
\* PipelineLifecycle of the same name.
LEMMA StepRefines == IInv /\ [Next]_vars => [LC!Next]_LC!vars
<1> SUFFICES ASSUME IInv, [Next]_vars PROVE [LC!Next]_LC!vars
  OBVIOUS
<1> USE DEF LC!vars, LC!Next
<1>1. CASE Start
  BY <1>1 DEF Start, LC!Begin
<1>2. CASE Commit
  <2>1. started /\ (error = None => state \in {"starting", "running", "stopping"})
    BY <1>2 DEF Commit, IInv, TypeOK, Published
  <2>2. CASE error = None /\ state # "stopping"
    <3>1. LC!Advance
      BY <1>2, <2>1, <2>2 DEF Commit, LC!Advance, LC!Active
    <3> QED
      BY <3>1
  <2>3. CASE error # None \/ state = "stopping"
    BY <1>2, <2>3 DEF Commit
  <2> QED
    BY <2>2, <2>3
<1>3. CASE FailStep
  <2>1. PICK t \in Threads : FailLock(t) \/ FailCancel(t)
    BY <1>3 DEF FailStep
  <2>2. CASE FailLock(t)
    <3>1. failing[t].cause # None
      BY <2>2 DEF IInv, Failing, FailLock
    <3>2. started
      BY <2>2 DEF IInv, Failing, Published, Ordered, FailLock, Threads, Components
    <3>3. CASE error = None
      <4>1. LC!Fail
        BY <2>2, <3>1, <3>2, <3>3 DEF FailLock, KeepFirst, LC!Fail
      <4> QED
        BY <4>1
    <3>4. CASE error # None
      BY <2>2, <3>4 DEF FailLock, KeepFirst
    <3> QED
      BY <3>3, <3>4
  <2>3. CASE FailCancel(t)
    BY <2>3 DEF FailCancel, pipeline
  <2> QED
    BY <2>1, <2>2, <2>3
<1>4. CASE RequestStop \/ StopRequest
  <2>1. state' = RequestedState /\ UNCHANGED <<started, error>>
    BY <1>4 DEF RequestStop, StopRequest
  <2>2. CASE started /\ state # "failed"
    <3>1. error = None /\ state # "ended"
      BY <2>2 DEF IInv, TypeOK, Published
    <3>2. LC!Cancel
      BY <2>1, <2>2, <3>1 DEF RequestedState, LC!Cancel
    <3> QED
      BY <3>2
  <2>3. CASE ~(started /\ state # "failed")
    BY <2>1, <2>3 DEF RequestedState
  <2> QED
    BY <2>2, <2>3
<1>5. CASE StopDone
  <2>1. state # "ended"
    BY DEF IInv, TypeOK
  <2>2. LC!Close
    BY <1>5, <2>1 DEF StopDone, LC!Close
  <2> QED
    BY <2>2
<1>6. CASE StartPart \/ CatchDone \/ Stop \/ StopCancel \/ StopPart
  BY <1>6 DEF StartPart, CatchDone, Stop, StopCancel, StopPart, pipeline
<1>7. CASE OutputRefused \/ RequestCancel \/ (\E c \in Components : Break(c))
  BY <1>7 DEF OutputRefused, RequestCancel, Break, pipeline
<1>8. CASE UNCHANGED vars
  BY <1>8 DEF vars, pipeline
<1> QED
  BY <1>1, <1>2, <1>3, <1>4, <1>5, <1>6, <1>7, <1>8 DEF Next, CallerStep

\* The published state of a live pipeline keeps the promises of every pipeline,
\* whatever its components' threads do (Start, Fail, RequestStop, Stop).
THEOREM LifecycleImplemented == Spec => Implements
BY InitRefines, StepRefines, Invariance, PTL DEF Spec, Implements, LC!Spec

OffLive == {"opening", "running", "draining"}
OffBefore == {"off", "filter", "source", "open"}
OffDuring == {"again", "observe", "round", "wait", "reset", "end", "endwait", "clean"}

OffTyped ==
  /\ error1 \in Offline!Threads \cup {None}
  /\ state1 \in {"stopped", "starting", "running", "draining", "ended", "stopping", "failed"}
  /\ control \in {"idle", "start", "catch", "stop", "cancel", "join"}
  /\ worker1 \in OffBefore \cup OffDuring \cup {"final"}
  /\ source \in OffLive \cup {"off", "ended", "failed", "cancelled"}
  /\ thrower \in [Offline!Threads -> [at : {"no", "fail", "request", "cancel"},
                             cause : Offline!Threads \cup {None}]]
  /\ \A t \in Offline!Threads : thrower[t].at # "no" => thrower[t].cause # None

\* The source lives between its Start and its Stop by the worker.
OffAnnouncing ==
  /\ worker1 \in OffBefore \cup {"final"} =>
       announce = None /\ source \notin OffLive /\ thrower["source"].at = "no"
  /\ thrower["source"].at # "no" => announce = None /\ source = "failed"
  /\ announce # None /\ announce = "failed" => source = "failed"

OffPublished ==
  /\ worker1 # "off" => started1 /\ ~ended
  /\ control = "start" => started1 /\ ~ended /\ worker1 = "off"
  /\ (worker1 # "off" \/ control = "start") /\ error1 = None /\ ~stopping =>
       state1 \in {"starting", "running", "draining"}
  /\ error1 # None => state1 = "failed"
  /\ error1 = None => (ended <=> state1 = "ended")

OffCompleted ==
  /\ completed => source = "ended" /\ worker1 \in {"clean", "final", "off"}
  /\ ended => source = "ended"
  /\ control = "start" => ~completed /\ worker1 = "off"

OffLooking == {"observe", "round", "wait", "reset", "end", "endwait"}

OffPending ==
  \/ control = "cancel" \/ asker = "cancel"
  \/ \E t \in Offline!Threads : thrower[t].at = "cancel"

OffReached ==
  stopping /\ worker1 \in OffLooking =>
    OffPending \/ (source \notin OffLive /\ (worker1 \in {"wait", "endwait"} => changed))

OffInv == OffTyped /\ OffAnnouncing /\ OffPublished /\ OffCompleted /\ OffReached

\* Start: nothing of the last session is left.
LEMMA OfflineStartKeeps ==
  ASSUME None \notin Offline!Threads PROVE OffInv /\ Offline!Start => OffInv'
<1> SUFFICES ASSUME OffInv, Offline!Start PROVE OffInv'
  OBVIOUS
<1> USE DEF OffInv, OffBefore, OffDuring, OffLive, Offline!Start, Offline!input
<1>1. OffTyped'
  BY DEF OffTyped
<1>2. OffAnnouncing'
  BY DEF OffAnnouncing, OffPublished, OffTyped, Offline!Threads, Offline!Calm
<1>3. OffPublished'
  BY DEF OffPublished
<1>4. OffCompleted'
  BY DEF OffCompleted, OffPublished
<1>5. OffReached'
  BY DEF OffReached, OffPending, OffLooking
<1> QED
  BY <1>1, <1>2, <1>3, <1>4, <1>5 DEF OffInv

\* The worker is created, or Start fails.
LEMMA OfflineStartWorkerKeeps ==
  ASSUME None \notin Offline!Threads PROVE OffInv /\ Offline!StartWorker => OffInv'
<1> SUFFICES ASSUME OffInv, Offline!StartWorker PROVE OffInv'
  OBVIOUS
<1> USE DEF OffInv, OffBefore, OffDuring, OffLive, Offline!StartWorker, Offline!pipeline,
     Offline!input, Offline!counters, Offline!Fault, Offline!Failure
<1>1. OffTyped'
  BY DEF OffTyped, Offline!Threads
<1>2. OffAnnouncing'
  BY DEF OffAnnouncing, OffPublished, OffTyped, Offline!Threads, Offline!Calm
<1>3. OffPublished'
  BY DEF OffPublished, OffAnnouncing, OffTyped
<1>4. OffCompleted'
  BY DEF OffCompleted, OffPublished
<1>5. OffReached'
  BY DEF OffTyped, OffReached, OffPending, OffLooking, OffPublished
<1> QED
  BY <1>1, <1>2, <1>3, <1>4, <1>5 DEF OffInv

\* A call of Stop, or that of the catch of Start.
LEMMA OfflineStopKeeps ==
  ASSUME None \notin Offline!Threads PROVE OffInv /\ Offline!Stop => OffInv'
<1> SUFFICES ASSUME OffInv, Offline!Stop PROVE OffInv'
  OBVIOUS
<1> USE DEF OffInv, OffBefore, OffDuring, OffLive, Offline!Stop, Offline!pipeline,
     Offline!consume, Offline!input, Offline!counters
<1>1. OffTyped'
  BY DEF OffTyped
<1>2. OffAnnouncing'
  BY DEF OffAnnouncing, OffPublished, OffTyped, Offline!Threads, Offline!Calm
<1>3. OffPublished'
  BY DEF OffPublished, OffAnnouncing, OffTyped
<1>4. OffCompleted'
  BY DEF OffCompleted, OffPublished
<1>5. OffReached'
  BY DEF OffReached, OffPending, OffLooking
<1> QED
  BY <1>1, <1>2, <1>3, <1>4, <1>5 DEF OffInv

\* RequestStop inside Stop, its critical section.
LEMMA OfflineStopRequestKeeps ==
  ASSUME None \notin Offline!Threads PROVE OffInv /\ Offline!StopRequest => OffInv'
<1> SUFFICES ASSUME OffInv, Offline!StopRequest PROVE OffInv'
  OBVIOUS
<1> USE DEF OffInv, OffBefore, OffDuring, OffLive, Offline!StopRequest, Offline!Requested,
     Offline!consume, Offline!input, Offline!counters
<1>1. OffTyped'
  BY DEF OffTyped
<1>2. OffAnnouncing'
  BY DEF OffAnnouncing, OffPublished, OffTyped, Offline!Threads, Offline!Calm
<1>3. OffPublished'
  BY DEF OffPublished, OffAnnouncing, OffTyped
<1>4. OffCompleted'
  BY DEF OffCompleted, OffPublished
<1>5. OffReached'
  BY DEF OffReached, OffPending, OffLooking
<1> QED
  BY <1>1, <1>2, <1>3, <1>4, <1>5 DEF OffInv

\* RequestStop inside Stop, the cancellation.
LEMMA OfflineStopCancelKeeps ==
  ASSUME None \notin Offline!Threads PROVE OffInv /\ Offline!StopCancel => OffInv'
<1> SUFFICES ASSUME OffInv, Offline!StopCancel PROVE OffInv'
  OBVIOUS
<1> USE DEF OffInv, OffBefore, OffDuring, OffLive, Offline!StopCancel, Offline!Cancel,
     Offline!SourceCancelled, Offline!pipeline, Offline!consume, Offline!counters
<1>1. OffTyped'
  BY DEF OffTyped
<1>2. OffAnnouncing'
  BY DEF OffAnnouncing, OffPublished, OffTyped, Offline!Threads, Offline!Calm
<1>3. OffPublished'
  BY DEF OffPublished, OffAnnouncing, OffTyped
<1>4. OffCompleted'
  BY DEF OffCompleted, OffPublished
<1>5. OffReached'
  BY DEF OffReached, OffPending, OffLooking
<1> QED
  BY <1>1, <1>2, <1>3, <1>4, <1>5 DEF OffInv

\* The worker is joined.
LEMMA OfflineStopDoneKeeps ==
  ASSUME None \notin Offline!Threads PROVE OffInv /\ Offline!StopDone => OffInv'
<1> SUFFICES ASSUME OffInv, Offline!StopDone PROVE OffInv'
  OBVIOUS
<1> USE DEF OffInv, OffBefore, OffDuring, OffLive, Offline!StopDone, Offline!consume,
     Offline!counters
<1>1. OffTyped'
  BY DEF OffTyped
<1>2. OffAnnouncing'
  BY DEF OffAnnouncing, OffPublished, OffTyped, Offline!Threads, Offline!Calm
<1>3. OffPublished'
  BY DEF OffPublished, OffAnnouncing, OffTyped
<1>4. OffCompleted'
  BY DEF OffCompleted, OffPublished
<1>5. OffReached'
  BY DEF OffReached, OffPending, OffLooking
<1> QED
  BY <1>1, <1>2, <1>3, <1>4, <1>5 DEF OffInv

\* RequestStop, its critical section.
LEMMA OfflineRequestStopKeeps ==
  ASSUME None \notin Offline!Threads PROVE OffInv /\ Offline!RequestStop => OffInv'
<1> SUFFICES ASSUME OffInv, Offline!RequestStop PROVE OffInv'
  OBVIOUS
<1> USE DEF OffInv, OffBefore, OffDuring, OffLive, Offline!RequestStop, Offline!Requested,
     Offline!consume, Offline!input
<1>1. OffTyped'
  BY DEF OffTyped
<1>2. OffAnnouncing'
  BY DEF OffAnnouncing, OffPublished, OffTyped, Offline!Threads, Offline!Calm
<1>3. OffPublished'
  BY DEF OffPublished, OffAnnouncing, OffTyped
<1>4. OffCompleted'
  BY DEF OffCompleted, OffPublished
<1>5. OffReached'
  BY DEF OffReached, OffPending, OffLooking
<1> QED
  BY <1>1, <1>2, <1>3, <1>4, <1>5 DEF OffInv

\* RequestStop, the cancellation.
LEMMA OfflineRequestCancelKeeps ==
  ASSUME None \notin Offline!Threads PROVE OffInv /\ Offline!RequestCancel => OffInv'
<1> SUFFICES ASSUME OffInv, Offline!RequestCancel PROVE OffInv'
  OBVIOUS
<1> USE DEF OffInv, OffBefore, OffDuring, OffLive, Offline!RequestCancel, Offline!Cancel,
     Offline!SourceCancelled, Offline!pipeline, Offline!consume, Offline!counters
<1>1. OffTyped'
  BY DEF OffTyped
<1>2. OffAnnouncing'
  BY DEF OffAnnouncing, OffPublished, OffTyped, Offline!Threads, Offline!Calm
<1>3. OffPublished'
  BY DEF OffPublished, OffAnnouncing, OffTyped
<1>4. OffCompleted'
  BY DEF OffCompleted, OffPublished
<1>5. OffReached'
  BY DEF OffReached, OffPending, OffLooking
<1> QED
  BY <1>1, <1>2, <1>3, <1>4, <1>5 DEF OffInv

\* Fail, its critical section: the first error wins.
LEMMA OfflineFailLockKeeps ==
  ASSUME NEW t \in Offline!Threads, None \notin Offline!Threads PROVE OffInv /\ Offline!FailLock(t) => OffInv'
<1> SUFFICES ASSUME OffInv, Offline!FailLock(t) PROVE OffInv'
  OBVIOUS
<1> USE DEF OffInv, OffBefore, OffDuring, OffLive, Offline!FailLock, Offline!Calm,
     Offline!consume, Offline!input, Offline!counters
<1>1. OffTyped'
  BY DEF OffTyped
<1>2. OffAnnouncing'
  BY DEF OffAnnouncing, OffPublished, OffTyped, Offline!Threads, Offline!Calm
<1>3. OffPublished'
  BY DEF OffPublished, OffAnnouncing, OffTyped
<1>4. OffCompleted'
  BY DEF OffCompleted, OffPublished
<1>5. OffReached'
  BY DEF OffTyped, OffReached, OffPending, OffLooking
<1> QED
  BY <1>1, <1>2, <1>3, <1>4, <1>5 DEF OffInv

\* The RequestStop inside Fail, its critical section.
LEMMA OfflineFailRequestKeeps ==
  ASSUME NEW t \in Offline!Threads, None \notin Offline!Threads PROVE OffInv /\ Offline!FailRequest(t) => OffInv'
<1> SUFFICES ASSUME OffInv, Offline!FailRequest(t) PROVE OffInv'
  OBVIOUS
<1> USE DEF OffInv, OffBefore, OffDuring, OffLive, Offline!FailRequest, Offline!Requested,
     Offline!consume, Offline!input, Offline!counters
<1>1. OffTyped'
  BY DEF OffTyped
<1>2. OffAnnouncing'
  BY DEF OffAnnouncing, OffPublished, OffTyped, Offline!Threads, Offline!Calm
<1>3. OffPublished'
  BY DEF OffPublished, OffAnnouncing, OffTyped
<1>4. OffCompleted'
  BY DEF OffCompleted, OffPublished
<1>5. OffReached'
  BY DEF OffTyped, OffReached, OffPending, OffLooking
<1> QED
  BY <1>1, <1>2, <1>3, <1>4, <1>5 DEF OffInv

\* The RequestStop inside Fail, the cancellation.
LEMMA OfflineFailCancelKeeps ==
  ASSUME NEW t \in Offline!Threads, None \notin Offline!Threads PROVE OffInv /\ Offline!FailCancel(t) => OffInv'
<1> SUFFICES ASSUME OffInv, Offline!FailCancel(t) PROVE OffInv'
  OBVIOUS
<1> USE DEF OffInv, OffBefore, OffDuring, OffLive, Offline!FailCancel, Offline!Cancel,
     Offline!SourceCancelled, Offline!Calm, Offline!pipeline, Offline!consume,
     Offline!counters
<1>1. OffTyped'
  BY DEF OffTyped
<1>2. OffAnnouncing'
  BY DEF OffAnnouncing, OffPublished, OffTyped, Offline!Threads, Offline!Calm
<1>3. OffPublished'
  BY DEF OffPublished, OffAnnouncing, OffTyped
<1>4. OffCompleted'
  BY DEF OffCompleted, OffPublished
<1>5. OffReached'
  BY DEF OffTyped, OffReached, OffPending, OffLooking
<1> QED
  BY <1>1, <1>2, <1>3, <1>4, <1>5 DEF OffInv

\* The source is open.
LEMMA OfflineOpenedKeeps ==
  ASSUME None \notin Offline!Threads PROVE OffInv /\ Offline!Opened => OffInv'
<1> SUFFICES ASSUME OffInv, Offline!Opened PROVE OffInv'
  OBVIOUS
<1> USE DEF OffInv, OffBefore, OffDuring, OffLive, Offline!Opened, Offline!SourceStep,
     Offline!pipeline, Offline!consume, Offline!counters
<1>1. OffTyped'
  BY DEF OffTyped
<1>2. OffAnnouncing'
  BY DEF OffAnnouncing, OffPublished, OffTyped, Offline!Threads, Offline!Calm
<1>3. OffPublished'
  BY DEF OffPublished, OffAnnouncing, OffTyped
<1>4. OffCompleted'
  BY DEF OffCompleted, OffPublished
<1>5. OffReached'
  BY DEF OffReached, OffPending, OffLooking
<1> QED
  BY <1>1, <1>2, <1>3, <1>4, <1>5 DEF OffInv

\* The source has a frame or an EOF.
LEMMA OfflineDeliverKeeps ==
  ASSUME NEW k \in Tracks, None \notin Offline!Threads PROVE OffInv /\ Offline!Deliver(k) => OffInv'
<1> SUFFICES ASSUME OffInv, Offline!Deliver(k) PROVE OffInv'
  OBVIOUS
<1> USE DEF OffInv, OffBefore, OffDuring, OffLive, Offline!Deliver, Offline!pipeline,
     Offline!consume, Offline!counters
<1>1. OffTyped'
  BY DEF OffTyped
<1>2. OffAnnouncing'
  BY DEF OffAnnouncing, OffPublished, OffTyped, Offline!Threads, Offline!Calm
<1>3. OffPublished'
  BY DEF OffPublished, OffAnnouncing, OffTyped
<1>4. OffCompleted'
  BY DEF OffCompleted, OffPublished
<1>5. OffReached'
  BY DEF OffReached, OffPending, OffLooking
<1> QED
  BY <1>1, <1>2, <1>3, <1>4, <1>5 DEF OffInv

\* The source has delivered all.
LEMMA OfflineDrainedKeeps ==
  ASSUME None \notin Offline!Threads PROVE OffInv /\ Offline!Drained => OffInv'
<1> SUFFICES ASSUME OffInv, Offline!Drained PROVE OffInv'
  OBVIOUS
<1> USE DEF OffInv, OffBefore, OffDuring, OffLive, Offline!Drained, Offline!SourceStep,
     Offline!pipeline, Offline!consume, Offline!counters
<1>1. OffTyped'
  BY DEF OffTyped
<1>2. OffAnnouncing'
  BY DEF OffAnnouncing, OffPublished, OffTyped, Offline!Threads, Offline!Calm
<1>3. OffPublished'
  BY DEF OffPublished, OffAnnouncing, OffTyped
<1>4. OffCompleted'
  BY DEF OffCompleted, OffPublished
<1>5. OffReached'
  BY DEF OffReached, OffPending, OffLooking
<1> QED
  BY <1>1, <1>2, <1>3, <1>4, <1>5 DEF OffInv

\* The source has ended.
LEMMA OfflineEndedKeeps ==
  ASSUME None \notin Offline!Threads PROVE OffInv /\ Offline!Ended => OffInv'
<1> SUFFICES ASSUME OffInv, Offline!Ended PROVE OffInv'
  OBVIOUS
<1> USE DEF OffInv, OffBefore, OffDuring, OffLive, Offline!Ended, Offline!SourceStep,
     Offline!pipeline, Offline!consume, Offline!counters
<1>1. OffTyped'
  BY DEF OffTyped
<1>2. OffAnnouncing'
  BY DEF OffAnnouncing, OffPublished, OffTyped, Offline!Threads, Offline!Calm
<1>3. OffPublished'
  BY DEF OffPublished, OffAnnouncing, OffTyped
<1>4. OffCompleted'
  BY DEF OffCompleted, OffPublished
<1>5. OffReached'
  BY DEF OffReached, OffPending, OffLooking
<1> QED
  BY <1>1, <1>2, <1>3, <1>4, <1>5 DEF OffInv

\* The source has failed.
LEMMA OfflineFailedKeeps ==
  ASSUME None \notin Offline!Threads PROVE OffInv /\ Offline!Failed => OffInv'
<1> SUFFICES ASSUME OffInv, Offline!Failed PROVE OffInv'
  OBVIOUS
<1> USE DEF OffInv, OffBefore, OffDuring, OffLive, Offline!Failed, Offline!Fault,
     Offline!SourceStep, Offline!pipeline, Offline!consume, Offline!counters
<1>1. OffTyped'
  BY DEF OffTyped
<1>2. OffAnnouncing'
  BY DEF OffAnnouncing, OffPublished, OffTyped, Offline!Threads, Offline!Calm
<1>3. OffPublished'
  BY DEF OffPublished, OffAnnouncing, OffTyped
<1>4. OffCompleted'
  BY DEF OffCompleted, OffPublished
<1>5. OffReached'
  BY DEF OffReached, OffPending, OffLooking
<1> QED
  BY <1>1, <1>2, <1>3, <1>4, <1>5 DEF OffInv

\* The callback of the source: only before the worker has stopped it.
LEMMA OfflineAnnounceKeeps ==
  ASSUME None \notin Offline!Threads PROVE OffInv /\ Offline!Announce => OffInv'
<1> SUFFICES ASSUME OffInv, Offline!Announce PROVE OffInv'
  OBVIOUS
<1> USE DEF OffInv, OffBefore, OffDuring, OffLive, Offline!Announce,
     Offline!AnnouncedState, Offline!Failure, Offline!consume, Offline!counters
<1>1. OffTyped'
  BY DEF OffTyped, Offline!Threads
<1>2. OffAnnouncing'
  BY DEF OffAnnouncing, OffPublished, OffTyped, Offline!Threads, Offline!Calm
<1>3. OffPublished'
  BY DEF OffPublished, OffAnnouncing, OffTyped
<1>4. OffCompleted'
  BY DEF OffCompleted, OffPublished
<1>5. OffReached'
  BY DEF OffTyped, OffAnnouncing, OffReached, OffPending, OffLooking, Offline!Threads
<1> QED
  BY <1>1, <1>2, <1>3, <1>4, <1>5 DEF OffInv

\* The business filter is started.
LEMMA OfflineFilterStartKeeps ==
  ASSUME None \notin Offline!Threads PROVE OffInv /\ Offline!FilterStart => OffInv'
<1> SUFFICES ASSUME OffInv, Offline!FilterStart PROVE OffInv'
  OBVIOUS
<1> USE DEF OffInv, OffBefore, OffDuring, OffLive, Offline!FilterStart, Offline!Throws,
     Offline!Fault, Offline!Failure, Offline!Called, Offline!counters, Offline!input,
     Offline!Quiet, Offline!pipeline
<1>1. OffTyped'
  BY DEF OffTyped, Offline!Threads
<1>2. OffAnnouncing'
  BY DEF OffAnnouncing, OffPublished, OffTyped, Offline!Threads, Offline!Calm
<1>3. OffPublished'
  BY DEF OffPublished, OffAnnouncing, OffTyped
<1>4. OffCompleted'
  BY DEF OffCompleted, OffPublished
<1>5. OffReached'
  BY DEF OffReached, OffPending, OffLooking
<1> QED
  BY <1>1, <1>2, <1>3, <1>4, <1>5 DEF OffInv

\* The worker starts the source unless it is to stop.
LEMMA OfflineSourceWantedKeeps ==
  ASSUME None \notin Offline!Threads PROVE OffInv /\ Offline!SourceWanted => OffInv'
<1> SUFFICES ASSUME OffInv, Offline!SourceWanted PROVE OffInv'
  OBVIOUS
<1> USE DEF OffInv, OffBefore, OffDuring, OffLive, Offline!SourceWanted, Offline!input,
     Offline!counters, Offline!Quiet, Offline!pipeline
<1>1. OffTyped'
  BY DEF OffTyped
<1>2. OffAnnouncing'
  BY DEF OffAnnouncing, OffPublished, OffTyped, Offline!Threads, Offline!Calm
<1>3. OffPublished'
  BY DEF OffPublished, OffAnnouncing, OffTyped
<1>4. OffCompleted'
  BY DEF OffCompleted, OffPublished
<1>5. OffReached'
  BY DEF OffAnnouncing, OffReached, OffPending, OffLooking
<1> QED
  BY <1>1, <1>2, <1>3, <1>4, <1>5 DEF OffInv

\* The source is started, which forgets an earlier cancellation.
LEMMA OfflineSourceStartKeeps ==
  ASSUME None \notin Offline!Threads PROVE OffInv /\ Offline!SourceStart => OffInv'
<1> SUFFICES ASSUME OffInv, Offline!SourceStart PROVE OffInv'
  OBVIOUS
<1> USE DEF OffInv, OffBefore, OffDuring, OffLive, Offline!SourceStart,
     Offline!SourceStarted, Offline!Throws, Offline!Fault, Offline!Failure,
     Offline!Called, Offline!counters, Offline!input, Offline!Quiet, Offline!pipeline
<1>1. OffTyped'
  BY DEF OffTyped, Offline!Threads
<1>2. OffAnnouncing'
  BY DEF OffAnnouncing, OffPublished, OffTyped, Offline!Threads, Offline!Calm
<1>3. OffPublished'
  BY DEF OffPublished, OffAnnouncing, OffTyped
<1>4. OffCompleted'
  BY DEF OffCompleted, OffPublished
<1>5. OffReached'
  BY DEF OffReached, OffPending, OffLooking
<1> QED
  BY <1>1, <1>2, <1>3, <1>4, <1>5 DEF OffInv

\* The worker looks again whether to stop.
LEMMA OfflineStopAgainKeeps ==
  ASSUME None \notin Offline!Threads PROVE OffInv /\ Offline!StopAgain => OffInv'
<1> SUFFICES ASSUME OffInv, Offline!StopAgain PROVE OffInv'
  OBVIOUS
<1> USE DEF OffInv, OffBefore, OffDuring, OffLive, Offline!StopAgain, Offline!Cancel,
     Offline!SourceCancelled, Offline!input, Offline!counters, Offline!Quiet,
     Offline!pipeline
<1>1. OffTyped'
  BY DEF OffTyped
<1>2. OffAnnouncing'
  BY DEF OffAnnouncing, OffPublished, OffTyped, Offline!Threads, Offline!Calm
<1>3. OffPublished'
  BY DEF OffPublished, OffAnnouncing, OffTyped
<1>4. OffCompleted'
  BY DEF OffCompleted, OffPublished
<1>5. OffReached'
  BY DEF OffReached, OffPending, OffLooking
<1> QED
  BY <1>1, <1>2, <1>3, <1>4, <1>5 DEF OffInv

\* A round begins.
LEMMA OfflineObserveKeeps ==
  ASSUME None \notin Offline!Threads PROVE OffInv /\ Offline!Observe => OffInv'
<1> SUFFICES ASSUME OffInv, Offline!Observe PROVE OffInv'
  OBVIOUS
<1> USE DEF OffInv, OffBefore, OffDuring, OffLive, Offline!Observe, Offline!input,
     Offline!counters, Offline!Quiet, Offline!pipeline
<1>1. OffTyped'
  BY DEF OffTyped
<1>2. OffAnnouncing'
  BY DEF OffAnnouncing, OffPublished, OffTyped, Offline!Threads, Offline!Calm
<1>3. OffPublished'
  BY DEF OffPublished, OffAnnouncing, OffTyped
<1>4. OffCompleted'
  BY DEF OffCompleted, OffPublished
<1>5. OffReached'
  BY DEF OffReached, OffPending, OffLooking
<1> QED
  BY <1>1, <1>2, <1>3, <1>4, <1>5 DEF OffInv

\* A track is read.
LEMMA OfflineReadKeeps ==
  ASSUME NEW k \in Tracks, None \notin Offline!Threads PROVE OffInv /\ Offline!Read(k) => OffInv'
<1> SUFFICES ASSUME OffInv, Offline!Read(k) PROVE OffInv'
  OBVIOUS
<1> USE DEF OffInv, OffBefore, OffDuring, OffLive, Offline!Read, Offline!Throws,
     Offline!Fault, Offline!Failure, Offline!Called, Offline!counters, Offline!Quiet,
     Offline!pipeline
<1>1. OffTyped'
  BY DEF OffTyped, Offline!Threads
<1>2. OffAnnouncing'
  BY DEF OffAnnouncing, OffPublished, OffTyped, Offline!Threads, Offline!Calm
<1>3. OffPublished'
  BY DEF OffPublished, OffAnnouncing, OffTyped
<1>4. OffCompleted'
  BY DEF OffCompleted, OffPublished
<1>5. OffReached'
  BY DEF OffTyped, OffReached, OffPending, OffLooking, Offline!Threads
<1> QED
  BY <1>1, <1>2, <1>3, <1>4, <1>5 DEF OffInv

\* A round ends: the worker does not sleep when it is to stop.
LEMMA OfflineRoundDoneKeeps ==
  ASSUME None \notin Offline!Threads PROVE OffInv /\ Offline!RoundDone => OffInv'
<1> SUFFICES ASSUME OffInv, Offline!RoundDone PROVE OffInv'
  OBVIOUS
<1> USE DEF OffInv, OffBefore, OffDuring, OffLive, Offline!RoundDone, Offline!input,
     Offline!counters, Offline!Quiet, Offline!pipeline
<1>1. OffTyped'
  BY DEF OffTyped
<1>2. OffAnnouncing'
  BY DEF OffAnnouncing, OffPublished, OffTyped, Offline!Threads, Offline!Calm
<1>3. OffPublished'
  BY DEF OffPublished, OffAnnouncing, OffTyped
<1>4. OffCompleted'
  BY DEF OffCompleted, OffPublished
<1>5. OffReached'
  BY DEF OffReached, OffPending, OffLooking
<1> QED
  BY <1>1, <1>2, <1>3, <1>4, <1>5 DEF OffInv

\* The signal wakes the worker.
LEMMA OfflineWaitKeeps ==
  ASSUME None \notin Offline!Threads PROVE OffInv /\ Offline!Wait => OffInv'
<1> SUFFICES ASSUME OffInv, Offline!Wait PROVE OffInv'
  OBVIOUS
<1> USE DEF OffInv, OffBefore, OffDuring, OffLive, Offline!Wait, Offline!input,
     Offline!counters, Offline!Quiet, Offline!pipeline
<1>1. OffTyped'
  BY DEF OffTyped
<1>2. OffAnnouncing'
  BY DEF OffAnnouncing, OffPublished, OffTyped, Offline!Threads, Offline!Calm
<1>3. OffPublished'
  BY DEF OffPublished, OffAnnouncing, OffTyped
<1>4. OffCompleted'
  BY DEF OffCompleted, OffPublished
<1>5. OffReached'
  BY DEF OffReached, OffPending, OffLooking
<1> QED
  BY <1>1, <1>2, <1>3, <1>4, <1>5 DEF OffInv

\* The filter is reset after the last EOF.
LEMMA OfflineFilterResetKeeps ==
  ASSUME None \notin Offline!Threads PROVE OffInv /\ Offline!FilterReset => OffInv'
<1> SUFFICES ASSUME OffInv, Offline!FilterReset PROVE OffInv'
  OBVIOUS
<1> USE DEF OffInv, OffBefore, OffDuring, OffLive, Offline!FilterReset, Offline!Throws,
     Offline!Fault, Offline!Failure, Offline!Called, Offline!counters, Offline!input,
     Offline!Quiet, Offline!pipeline
<1>1. OffTyped'
  BY DEF OffTyped, Offline!Threads
<1>2. OffAnnouncing'
  BY DEF OffAnnouncing, OffPublished, OffTyped, Offline!Threads, Offline!Calm
<1>3. OffPublished'
  BY DEF OffPublished, OffAnnouncing, OffTyped
<1>4. OffCompleted'
  BY DEF OffCompleted, OffPublished
<1>5. OffReached'
  BY DEF OffReached, OffPending, OffLooking
<1> QED
  BY <1>1, <1>2, <1>3, <1>4, <1>5 DEF OffInv

\* The worker looks whether the source has ended.
LEMMA OfflineAwaitEndKeeps ==
  ASSUME None \notin Offline!Threads PROVE OffInv /\ Offline!AwaitEnd => OffInv'
<1> SUFFICES ASSUME OffInv, Offline!AwaitEnd PROVE OffInv'
  OBVIOUS
<1> USE DEF OffInv, OffBefore, OffDuring, OffLive, Offline!AwaitEnd, Offline!input,
     Offline!counters, Offline!Quiet, Offline!pipeline
<1>1. OffTyped'
  BY DEF OffTyped
<1>2. OffAnnouncing'
  BY DEF OffAnnouncing, OffPublished, OffTyped, Offline!Threads, Offline!Calm
<1>3. OffPublished'
  BY DEF OffPublished, OffAnnouncing, OffTyped
<1>4. OffCompleted'
  BY DEF OffCompleted, OffPublished
<1>5. OffReached'
  BY DEF OffReached, OffPending, OffLooking
<1> QED
  BY <1>1, <1>2, <1>3, <1>4, <1>5 DEF OffInv

\* The worker stops the source and the filter.
LEMMA OfflineCleanKeeps ==
  ASSUME None \notin Offline!Threads PROVE OffInv /\ Offline!Clean => OffInv'
<1> SUFFICES ASSUME OffInv, Offline!Clean PROVE OffInv'
  OBVIOUS
<1> USE DEF OffInv, OffBefore, OffDuring, OffLive, Offline!Clean, Offline!Fault,
     Offline!Failure, Offline!Called, Offline!counters, Offline!Quiet, Offline!pipeline
<1>1. OffTyped'
  BY DEF OffTyped, Offline!Threads
<1>2. OffAnnouncing'
  BY DEF OffAnnouncing, OffPublished, OffTyped, Offline!Threads, Offline!Calm
<1>3. OffPublished'
  BY DEF OffPublished, OffAnnouncing, OffTyped
<1>4. OffCompleted'
  BY DEF OffCompleted, OffPublished
<1>5. OffReached'
  BY DEF OffReached, OffPending, OffLooking
<1> QED
  BY <1>1, <1>2, <1>3, <1>4, <1>5 DEF OffInv

\* The worker publishes the final state.
LEMMA OfflineFinishKeeps ==
  ASSUME None \notin Offline!Threads PROVE OffInv /\ Offline!Finish => OffInv'
<1> SUFFICES ASSUME OffInv, Offline!Finish PROVE OffInv'
  OBVIOUS
<1> USE DEF OffInv, OffBefore, OffDuring, OffLive, Offline!Finish, Offline!input,
     Offline!counters
<1>1. OffTyped'
  BY DEF OffTyped
<1>2. OffAnnouncing'
  BY DEF OffAnnouncing, OffPublished, OffTyped, Offline!Threads, Offline!Calm
<1>3. OffPublished'
  BY DEF OffPublished, OffAnnouncing, OffTyped
<1>4. OffCompleted'
  BY DEF OffCompleted, OffPublished
<1>5. OffReached'
  BY DEF OffReached, OffPending, OffLooking
<1> QED
  BY <1>1, <1>2, <1>3, <1>4, <1>5 DEF OffInv

\* A step of something else.
LEMMA OfflineStutterKeeps == OffInv /\ UNCHANGED Offline!vars => OffInv'
<1> SUFFICES ASSUME OffInv, UNCHANGED Offline!vars PROVE OffInv'
  OBVIOUS
<1> USE DEF OffInv, Offline!vars, Offline!pipeline, Offline!consume, Offline!input,
     Offline!counters
<1>1. OffTyped'
  BY DEF OffTyped
<1>2. OffAnnouncing' /\ OffCompleted'
  BY DEF OffAnnouncing, OffCompleted
<1>3. OffPublished'
  BY DEF OffPublished
<1>4. OffReached'
  BY DEF OffReached, OffPending
<1> QED
  BY <1>1, <1>2, <1>3, <1>4 DEF OffInv

\* The invariant is inductive.
LEMMA OfflineStepKeeps ==
  ASSUME None \notin Offline!Threads PROVE OffInv /\ [Offline!Next]_(Offline!vars) => OffInv'
<1> SUFFICES ASSUME OffInv, [Offline!Next]_(Offline!vars) PROVE OffInv'
  OBVIOUS
<1>1. CASE Offline!Start \/ Offline!Stop
  BY <1>1, OfflineStartKeeps, OfflineStopKeeps
<1>2. CASE Offline!CallerStep
  BY <1>2, OfflineStartWorkerKeeps, OfflineStopRequestKeeps, OfflineStopCancelKeeps,
       OfflineStopDoneKeeps, OfflineStopKeeps
     DEF Offline!CallerStep
<1>3. CASE Offline!RequestStop \/ Offline!RequestCancel
  BY <1>3, OfflineRequestStopKeeps, OfflineRequestCancelKeeps
<1>4. CASE Offline!FailStep
  BY <1>4, OfflineFailLockKeeps, OfflineFailRequestKeeps, OfflineFailCancelKeeps DEF
       Offline!FailStep
<1>5. CASE Offline!SourceProgress \/ Offline!Failed
  BY <1>5, OfflineOpenedKeeps, OfflineDeliverKeeps, OfflineDrainedKeeps,
       OfflineEndedKeeps, OfflineFailedKeeps, OfflineAnnounceKeeps
     DEF Offline!SourceProgress
<1>6. CASE Offline!WorkerStep
  BY <1>6, OfflineFilterStartKeeps, OfflineSourceWantedKeeps, OfflineSourceStartKeeps,
       OfflineStopAgainKeeps,
     OfflineObserveKeeps, OfflineReadKeeps, OfflineRoundDoneKeeps, OfflineWaitKeeps, OfflineFilterResetKeeps, OfflineAwaitEndKeeps,
     OfflineCleanKeeps, OfflineFinishKeeps DEF Offline!WorkerStep
<1>7. CASE UNCHANGED Offline!vars
  BY <1>7, OfflineStutterKeeps
<1> QED
  BY <1>1, <1>2, <1>3, <1>4, <1>5, <1>6, <1>7 DEF Offline!Next

\* The constructed pipeline is stopped and its source off.
LEMMA OfflineInitKeeps == Offline!Init => OffInv
<1> SUFFICES ASSUME Offline!Init PROVE OffInv
  OBVIOUS
<1>1. \A t \in Offline!Threads : thrower[t] = Offline!Calm
  BY DEF Offline!Init
<1>2. OffTyped
  <2>1. thrower \in [Offline!Threads -> [at : {"no", "fail", "request", "cancel"},
                               cause : Offline!Threads \cup {None}]]
    BY DEF Offline!Init, Offline!Calm
  <2>2. \A t \in Offline!Threads : thrower[t].at = "no"
    BY <1>1 DEF Offline!Calm
  <2> QED
    BY <2>1, <2>2 DEF Offline!Init, OffTyped, OffBefore
<1>3. OffAnnouncing /\ OffCompleted
  BY <1>1 DEF Offline!Init, OffAnnouncing, OffCompleted, OffLive, Offline!Calm, Offline!Threads
<1>4. OffPublished
  BY DEF Offline!Init, OffPublished
<1>5. OffReached
  BY DEF Offline!Init, OffReached
<1> QED
  BY <1>2, <1>3, <1>4, <1>5 DEF OffInv

\* A stop or a failure at any moment reaches the source although its Start
\* forgets a cancellation, and wakes a worker that sleeps on the signal (Run,
\* Consume, RequestStop, Fail).
LEMMA OfflineInvReaches == OffInv => Offline!StopReachesSource
<1> SUFFICES ASSUME OffInv, stopping, asker = "idle",
                    worker1 \in {"observe", "round", "wait", "end", "endwait"},
                    control \in {"idle", "join"}, \A t \in Offline!Threads : thrower[t] = Offline!Calm
             PROVE  /\ source \notin OffLive
                    /\ worker1 \in {"wait", "endwait"} => changed
  BY DEF Offline!StopReachesSource, OffLive
<1>1. ~OffPending
  BY DEF OffPending, Offline!Calm
<1> QED
  BY <1>1 DEF OffInv, OffReached, OffLooking

-----------------------------------------------------------------------------
(* Whom the filter was called for, and who reports.                        *)

OffCalls == Tracks \cup {"start", "reset", "stop"}
OffCount(f, w) == Cardinality({i \in DOMAIN f : f[i] = w})
OffHeld == {<<>>, <<"frame">>, <<"eof">>}

\* No frame of a track is lost between the source and the filter.
OffBalanced == \A t \in Tracks :
  /\ items[t] = <<"frame">> => left[t] > 0
  /\ items[t] = <<"eof">> => left[t] = 0
  /\ t \in eof => left[t] = 0 /\ items[t] = <<>>
  /\ OffCount(filter, t) + (IF items[t] = <<"frame">> THEN 1 ELSE 0)
       + (IF left[t] = 0 THEN 0 ELSE left[t] - 1) = Frames
OffFiltered == \A t \in Tracks : OffCount(filter, t) = Frames

OffCounted ==
  /\ filter \in Seq(OffCalls) /\ eof \subseteq Tracks /\ todo \subseteq Tracks
  /\ items \in [Tracks -> OffHeld] /\ left \in [Tracks -> Nat]
  /\ control = "start" \/ worker1 = "filter" => filter = <<>> /\ eof = {}
  /\ worker1 \in {"source", "open"} => filter = <<"start">> /\ eof = {}
  /\ worker1 \in {"again", "round", "wait"} \/ (worker1 = "observe" /\ ~stopping) =>
       OffBalanced /\ OffCount(filter, "reset") = 0
  /\ worker1 = "round" => todo \cap eof = {}
  /\ worker1 = "reset" => OffFiltered /\ OffCount(filter, "reset") = 0
  /\ worker1 \in {"end", "endwait"} => OffCount(filter, "reset") = 1
  /\ worker1 \in {"final", "off"} \/ OffCount(filter, "stop") = 0
  /\ worker1 \in {"final", "off"} /\ filter # <<>> =>
       OffCount(filter, "stop") = 1 /\ filter[Len(filter)] = "stop"
  /\ OffCount(filter, "reset") # 0 => OffFiltered /\ OffCount(filter, "reset") = 1
  /\ completed => OffCount(filter, "reset") = 1
  /\ ended => completed

\* One thread at most is past the lock of Fail, the one that set error_.
OffPast(t) == thrower[t].at \in {"request", "cancel"}
OffReporting ==
  /\ thrower["worker"].at # "no" => worker1 \in {"clean", "final"}
  /\ thrower["caller"].at # "no" => control = "catch"
  /\ told \in 0..1
  /\ error1 = None => told = 0 /\ \A t \in Offline!Threads : ~OffPast(t)
  /\ \A t, u \in Offline!Threads : OffPast(t) => told = 0 /\ (OffPast(u) => u = t)

\* A call of the filter is one more of its kind.
LEMMA OfflineCountAppend ==
  ASSUME NEW S, NEW f \in Seq(S), NEW v \in S, NEW w
  PROVE  /\ OffCount(f, w) \in Nat
         /\ OffCount(Append(f, v), w) = OffCount(f, w) + (IF v = w THEN 1 ELSE 0)
<1> DEFINE n == Len(f)
           A == {i \in DOMAIN f : f[i] = w}
           g == Append(f, v)
           B == {i \in DOMAIN g : g[i] = w}
<1>1. n \in Nat /\ DOMAIN f = 1..n
  OBVIOUS
<1>2. IsFiniteSet(A)
  <2>1. IsFiniteSet(1..n)
    BY <1>1, FS_Interval
  <2>2. A \in SUBSET (1..n)
    BY <1>1
  <2> QED
    BY <2>1, <2>2, FS_Subset
<1>3. /\ DOMAIN g = 1..(n + 1) /\ g[n + 1] = v
      /\ \A i \in 1..n : g[i] = f[i]
  BY <1>1
<1>4. /\ n + 1 \notin A /\ A \subseteq 1..n
      /\ \A i \in 1..(n + 1) : i \in 1..n \/ i = n + 1
      /\ n + 1 \in 1..(n + 1) /\ \A i \in 1..n : i \in 1..(n + 1)
  BY <1>1
<1> HIDE DEF g, n
<1>5. B = IF v = w THEN A \cup {n + 1} ELSE A
  <2>1. CASE v = w
    <3>1. \A i : i \in B <=> i \in A \cup {n + 1}
      BY <1>1, <1>3, <1>4, <2>1
    <3> QED
      BY <2>1, <3>1
  <2>2. CASE v # w
    <3>1. \A i : i \in B <=> i \in A
      BY <1>1, <1>3, <1>4, <2>2
    <3> QED
      BY <2>2, <3>1
  <2> QED
    BY <2>1, <2>2
<1>6. OffCount(f, w) = Cardinality(A) /\ OffCount(Append(f, v), w) = Cardinality(B)
  BY DEF OffCount, g
<1> HIDE DEF A, B
<1>7. Cardinality(A) \in Nat
  BY <1>2, FS_CardinalityType
<1>8. Cardinality(A \cup {n + 1}) = Cardinality(A) + 1
  BY <1>2, <1>4, FS_AddElement
<1> QED
  BY <1>5, <1>6, <1>7, <1>8

\* Before the first call there is none.
LEMMA OfflineCountEmpty == ASSUME NEW w PROVE OffCount(<<>>, w) = 0
<1>1. {i \in DOMAIN <<>> : <<>>[i] = w} = {}
  OBVIOUS
<1> QED
  BY <1>1, FS_EmptySet DEF OffCount

\* What TryRead may return are different things.
LEMMA OfflineHeldDiffer == <<>> # <<"frame">> /\ <<>> # <<"eof">> /\ <<"frame">> # <<"eof">>
<1>1. Len(<<>>) = 0 /\ Len(<<"frame">>) = 1 /\ Len(<<"eof">>) = 1
  OBVIOUS
<1>2. <<"frame">>[1] # <<"eof">>[1]
  OBVIOUS
<1> QED
  BY <1>1, <1>2

\* How often the filter was called for what is a number.
LEMMA OfflineCountType == ASSUME OffCounted, NEW w PROVE OffCount(filter, w) \in Nat
<1>1. filter \in Seq(OffCalls) /\ "stop" \in OffCalls
  BY DEF OffCounted, OffCalls
<1> QED
  BY <1>1, OfflineCountAppend

\* How a call changes the counts.
LEMMA OfflineCalling ==
  ASSUME OffCounted, NEW v \in OffCalls, Offline!Called(v)
  PROVE  /\ filter' \in Seq(OffCalls) /\ filter' # <<>> /\ filter'[Len(filter')] = v
         /\ \A w : OffCount(filter', w) = OffCount(filter, w) + (IF v = w THEN 1 ELSE 0)
         /\ \A w : OffCount(filter, w) \in Nat
<1>1. filter \in Seq(OffCalls) /\ filter' = Append(filter, v)
  BY DEF OffCounted, Offline!Called
<1>2. \A w : OffCount(filter', w) = OffCount(filter, w) + (IF v = w THEN 1 ELSE 0) /\ OffCount(filter, w) \in Nat
  BY <1>1, OfflineCountAppend
<1>3. filter' \in Seq(OffCalls) /\ filter' # <<>> /\ filter'[Len(filter')] = v
  BY <1>1
<1> QED
  BY <1>2, <1>3

\* Most steps leave the frames and the filter alone.
LEMMA OfflineCountedFrame ==
  ASSUME OffCounted, UNCHANGED <<filter, items, left, eof, todo, completed, worker1>>,
         stopping => stopping', ended' => ended, control' = "start" => control = "start"
  PROVE  OffCounted'
<1>1. (OffBalanced' <=> OffBalanced) /\ (OffFiltered' <=> OffFiltered)
  BY DEF OffBalanced, OffFiltered
<1> QED
  BY <1>1 DEF OffCounted

\* And most leave Fail alone.
LEMMA OfflineReportingFrame ==
  ASSUME OffReporting, UNCHANGED <<thrower, told, error1>>,
         worker1 \in {"clean", "final"} => worker1' \in {"clean", "final"} \/ thrower["worker"].at = "no",
         control = "catch" => control' = "catch" \/ thrower["caller"].at = "no"
  PROVE  OffReporting'
BY DEF OffReporting, OffPast

\* A thread enters Fail.
LEMMA OfflineReportingFails ==
  ASSUME OffReporting, OffTyped, UNCHANGED <<told, error1>>, NEW s \in Offline!Threads, NEW c,
         thrower[s].at = "no", thrower' = [thrower EXCEPT ![s] = Offline!Failure(c)],
         s = "worker" \/ worker1' = worker1, s = "caller" \/ control' = control,
         s = "worker" => worker1' \in {"clean", "final"}, s = "caller" => control' = "catch"
  PROVE  OffReporting'
<1>1. \A t \in Offline!Threads : thrower'[t] = IF t = s THEN Offline!Failure(c) ELSE thrower[t]
  BY DEF OffTyped
<1>2. thrower'[s].at = "fail"
  BY <1>1 DEF Offline!Failure
<1>3. \A t \in Offline!Threads : OffPast(t)' <=> OffPast(t)
  BY <1>1, <1>2 DEF OffPast
<1>4. /\ thrower'["worker"].at # "no" => worker1' \in {"clean", "final"}
      /\ thrower'["caller"].at # "no" => control' = "catch"
  BY <1>1 DEF OffReporting, Offline!Threads
<1> QED
  BY <1>3, <1>4 DEF OffReporting

\* A new session has called nobody and reported nothing.
LEMMA OfflineStartCounts ==
  ASSUME OffInv, OffCounted, OffReporting, Offline!Start PROVE OffCounted' /\ OffReporting'
<1> USE DEF OffInv, Offline!Start, Offline!pipeline, Offline!consume, Offline!input,
     Offline!counters
<1>1. OffCounted'
  <2>1. filter' = <<>> /\ eof' = {} /\ ~completed' /\ ~ended' /\ worker1' = "off" /\ UNCHANGED <<items, left, todo>>
    BY DEF OffPublished
  <2>2. \A w : OffCount(filter', w) = 0
    BY <2>1, OfflineCountEmpty
  <2>3. filter' \in Seq(OffCalls)
    BY <2>1
  <2> HIDE DEF Offline!Start, OffInv
  <2> QED
    BY <2>1, <2>2, <2>3 DEF OffCounted
<1>2. OffReporting'
  <2>1. worker1 = "off" /\ control = "idle"
    BY DEF OffPublished
  <2>2. \A t \in Offline!Threads : thrower[t].at = "no"
    BY <2>1 DEF OffReporting, OffAnnouncing, OffBefore, Offline!Threads
  <2>3. UNCHANGED thrower /\ told' = 0
    OBVIOUS
  <2> HIDE DEF Offline!Start, OffInv
  <2> QED
    BY <2>2, <2>3 DEF OffReporting, OffPast, Offline!Threads
<1> QED
  BY <1>1, <1>2

\* The worker is created, or Start fails.
LEMMA OfflineStartWorkerCounts ==
  ASSUME OffInv, OffCounted, OffReporting, Offline!StartWorker PROVE OffCounted' /\ OffReporting'
<1> USE DEF OffInv, Offline!StartWorker, Offline!pipeline, Offline!consume, Offline!input,
     Offline!counters, Offline!Fault
<1>1. OffCounted'
  <2>1. /\ filter = <<>> /\ eof = {} /\ worker1 = "off" /\ worker1' \in {"off", "filter"}
        /\ UNCHANGED <<filter, items, left, eof, todo, completed, ended>>
    BY DEF OffCounted, OffPublished
  <2>2. \A w : OffCount(filter, w) = 0
    BY <2>1, OfflineCountEmpty
  <2> HIDE DEF Offline!StartWorker, OffInv
  <2> QED
    BY <2>1, <2>2 DEF OffCounted, OffFiltered
<1>2. OffReporting'
  <2>1. CASE thrower' = [thrower EXCEPT !["caller"] = Offline!Failure("caller")]
    <3>1. thrower["caller"].at = "no"
      BY <2>1 DEF OffReporting, OffPublished, OffAnnouncing, Offline!Calm
    <3>3. thrower'["caller"].at = "fail"
      BY <2>1 DEF OffTyped, Offline!Threads, Offline!Failure
    <3>4. thrower' # thrower
      BY <3>1, <3>3
    <3>2. /\ OffTyped /\ UNCHANGED <<told, error1>> /\ "caller" \in Offline!Threads
          /\ ("caller" = "worker" \/ worker1' = worker1) /\ ("caller" = "caller" \/ control' = control)
          /\ ("caller" = "worker" => worker1' \in {"clean", "final"}) /\ ("caller" = "caller" => control' = "catch")
      BY <2>1, <3>4 DEF Offline!Threads, Offline!Quiet
    <3> HIDE DEF Offline!StartWorker
    <3> QED
      BY <2>1, <3>1, <3>2, OfflineReportingFails
  <2>2. CASE UNCHANGED thrower
    <3>1. /\ UNCHANGED <<thrower, told, error1>>
          /\ worker1 \in {"clean", "final"} => worker1' \in {"clean", "final"} \/ thrower["worker"].at = "no"
          /\ control = "catch" => control' = "catch" \/ thrower["caller"].at = "no"
      BY <2>2 DEF Offline!Calm, Offline!Quiet, OffPublished
    <3> HIDE DEF Offline!StartWorker
    <3> QED
      BY <3>1, OfflineReportingFrame
  <2> QED
    BY <2>1, <2>2
<1> QED
  BY <1>1, <1>2

\* Stop is called.
LEMMA OfflineStopCounts ==
  ASSUME OffInv, OffCounted, OffReporting, Offline!Stop PROVE OffCounted' /\ OffReporting'
<1> USE DEF OffInv, Offline!Stop, Offline!pipeline, Offline!consume, Offline!input,
     Offline!counters
<1>1. OffCounted'
  <2>1. /\ UNCHANGED <<filter, items, left, eof, todo, completed, worker1>>
        /\ (stopping => stopping') /\ (ended' => ended) /\ (control' = "start" => control = "start")
    OBVIOUS
  <2> HIDE DEF Offline!Stop
  <2> QED
    BY <2>1, OfflineCountedFrame
<1>2. OffReporting'
  <2>1. /\ UNCHANGED <<thrower, told, error1>>
        /\ worker1 \in {"clean", "final"} => worker1' \in {"clean", "final"} \/ thrower["worker"].at = "no"
        /\ control = "catch" => control' = "catch" \/ thrower["caller"].at = "no"
    BY DEF Offline!Calm, OffTyped, OffReporting
  <2> HIDE DEF Offline!Stop
  <2> QED
    BY <2>1, OfflineReportingFrame
<1> QED
  BY <1>1, <1>2

\* Stop requests a stop.
LEMMA OfflineStopRequestCounts ==
  ASSUME OffInv, OffCounted, OffReporting, Offline!StopRequest PROVE OffCounted' /\ OffReporting'
<1> USE DEF OffInv, Offline!StopRequest, Offline!pipeline, Offline!consume, Offline!input,
     Offline!counters, Offline!Requested, Offline!Cancel, Offline!SourceCancelled
<1>1. OffCounted'
  <2>1. /\ UNCHANGED <<filter, items, left, eof, todo, completed, worker1>>
        /\ (stopping => stopping') /\ (ended' => ended) /\ (control' = "start" => control = "start")
    OBVIOUS
  <2> HIDE DEF Offline!StopRequest
  <2> QED
    BY <2>1, OfflineCountedFrame
<1>2. OffReporting'
  <2>1. /\ UNCHANGED <<thrower, told, error1>>
        /\ worker1 \in {"clean", "final"} => worker1' \in {"clean", "final"} \/ thrower["worker"].at = "no"
        /\ control = "catch" => control' = "catch" \/ thrower["caller"].at = "no"
    BY DEF Offline!Calm, OffTyped, OffReporting
  <2> HIDE DEF Offline!StopRequest
  <2> QED
    BY <2>1, OfflineReportingFrame
<1> QED
  BY <1>1, <1>2

\* Stop cancels the source.
LEMMA OfflineStopCancelCounts ==
  ASSUME OffInv, OffCounted, OffReporting, Offline!StopCancel PROVE OffCounted' /\ OffReporting'
<1> USE DEF OffInv, Offline!StopCancel, Offline!pipeline, Offline!consume, Offline!input,
     Offline!counters, Offline!Requested, Offline!Cancel, Offline!SourceCancelled
<1>1. OffCounted'
  <2>1. /\ UNCHANGED <<filter, items, left, eof, todo, completed, worker1>>
        /\ (stopping => stopping') /\ (ended' => ended) /\ (control' = "start" => control = "start")
    OBVIOUS
  <2> HIDE DEF Offline!StopCancel
  <2> QED
    BY <2>1, OfflineCountedFrame
<1>2. OffReporting'
  <2>1. /\ UNCHANGED <<thrower, told, error1>>
        /\ worker1 \in {"clean", "final"} => worker1' \in {"clean", "final"} \/ thrower["worker"].at = "no"
        /\ control = "catch" => control' = "catch" \/ thrower["caller"].at = "no"
    BY DEF Offline!Calm, OffTyped, OffReporting
  <2> HIDE DEF Offline!StopCancel
  <2> QED
    BY <2>1, OfflineReportingFrame
<1> QED
  BY <1>1, <1>2

\* Stop returns.
LEMMA OfflineStopDoneCounts ==
  ASSUME OffInv, OffCounted, OffReporting, Offline!StopDone PROVE OffCounted' /\ OffReporting'
<1> USE DEF OffInv, Offline!StopDone, Offline!pipeline, Offline!consume, Offline!input,
     Offline!counters
<1>1. OffCounted'
  <2>1. /\ UNCHANGED <<filter, items, left, eof, todo, completed, worker1>>
        /\ (stopping => stopping') /\ (ended' => ended) /\ (control' = "start" => control = "start")
    OBVIOUS
  <2> HIDE DEF Offline!StopDone
  <2> QED
    BY <2>1, OfflineCountedFrame
<1>2. OffReporting'
  <2>1. /\ UNCHANGED <<thrower, told, error1>>
        /\ worker1 \in {"clean", "final"} => worker1' \in {"clean", "final"} \/ thrower["worker"].at = "no"
        /\ control = "catch" => control' = "catch" \/ thrower["caller"].at = "no"
    BY DEF Offline!Calm, OffTyped, OffReporting
  <2> HIDE DEF Offline!StopDone
  <2> QED
    BY <2>1, OfflineReportingFrame
<1> QED
  BY <1>1, <1>2

\* Another thread requests a stop.
LEMMA OfflineRequestStopCounts ==
  ASSUME OffInv, OffCounted, OffReporting, Offline!RequestStop PROVE OffCounted' /\ OffReporting'
<1> USE DEF OffInv, Offline!RequestStop, Offline!pipeline, Offline!consume, Offline!input,
     Offline!counters, Offline!Requested, Offline!Cancel, Offline!SourceCancelled
<1>1. OffCounted'
  <2>1. /\ UNCHANGED <<filter, items, left, eof, todo, completed, worker1>>
        /\ (stopping => stopping') /\ (ended' => ended) /\ (control' = "start" => control = "start")
    OBVIOUS
  <2> HIDE DEF Offline!RequestStop
  <2> QED
    BY <2>1, OfflineCountedFrame
<1>2. OffReporting'
  <2>1. /\ UNCHANGED <<thrower, told, error1>>
        /\ worker1 \in {"clean", "final"} => worker1' \in {"clean", "final"} \/ thrower["worker"].at = "no"
        /\ control = "catch" => control' = "catch" \/ thrower["caller"].at = "no"
    BY DEF Offline!Calm, OffTyped, OffReporting
  <2> HIDE DEF Offline!RequestStop
  <2> QED
    BY <2>1, OfflineReportingFrame
<1> QED
  BY <1>1, <1>2

\* It cancels the source.
LEMMA OfflineRequestCancelCounts ==
  ASSUME OffInv, OffCounted, OffReporting, Offline!RequestCancel PROVE OffCounted' /\ OffReporting'
<1> USE DEF OffInv, Offline!RequestCancel, Offline!pipeline, Offline!consume,
     Offline!input, Offline!counters, Offline!Requested, Offline!Cancel,
     Offline!SourceCancelled
<1>1. OffCounted'
  <2>1. /\ UNCHANGED <<filter, items, left, eof, todo, completed, worker1>>
        /\ (stopping => stopping') /\ (ended' => ended) /\ (control' = "start" => control = "start")
    OBVIOUS
  <2> HIDE DEF Offline!RequestCancel
  <2> QED
    BY <2>1, OfflineCountedFrame
<1>2. OffReporting'
  <2>1. /\ UNCHANGED <<thrower, told, error1>>
        /\ worker1 \in {"clean", "final"} => worker1' \in {"clean", "final"} \/ thrower["worker"].at = "no"
        /\ control = "catch" => control' = "catch" \/ thrower["caller"].at = "no"
    BY DEF Offline!Calm, OffTyped, OffReporting
  <2> HIDE DEF Offline!RequestCancel
  <2> QED
    BY <2>1, OfflineReportingFrame
<1> QED
  BY <1>1, <1>2

\* Only the first failure is kept.
LEMMA OfflineFailLockCounts ==
  ASSUME OffInv, OffCounted, OffReporting, NEW s \in Offline!Threads, Offline!FailLock(s) PROVE OffCounted' /\ OffReporting'
<1> USE DEF OffInv, Offline!FailLock, Offline!pipeline, Offline!consume, Offline!input,
     Offline!counters
<1>1. OffCounted'
  <2>1. /\ UNCHANGED <<filter, items, left, eof, todo, completed, worker1>>
        /\ (stopping => stopping') /\ (ended' => ended) /\ (control' = "start" => control = "start")
    OBVIOUS
  <2> HIDE DEF Offline!FailLock
  <2> QED
    BY <2>1, OfflineCountedFrame
<1>2. OffReporting'
  <2>1. CASE ~started1 \/ error1 # None
    <3>1. thrower' = [thrower EXCEPT ![s] = Offline!Calm] /\ UNCHANGED <<error1, told, worker1, control>> /\ thrower[s].at = "fail"
      BY <2>1
    <3>2. \A t \in Offline!Threads : thrower'[t] = IF t = s THEN Offline!Calm ELSE thrower[t]
      BY <3>1 DEF OffTyped
    <3> HIDE DEF Offline!FailLock, OffInv
    <3> QED
      BY <3>1, <3>2 DEF OffReporting, OffPast, Offline!Calm, Offline!Threads
  <2>2. CASE started1 /\ error1 = None
    <3>1. /\ thrower' = [thrower EXCEPT ![s].at = "request"] /\ UNCHANGED <<told, worker1, control>>
          /\ error1' = thrower[s].cause /\ thrower[s].at = "fail" /\ error1' # None
      BY <2>2 DEF OffTyped
    <3>2. \A t \in Offline!Threads : thrower'[t].at = IF t = s THEN "request" ELSE thrower[t].at
      BY <3>1 DEF OffTyped
    <3> HIDE DEF Offline!FailLock, OffInv
    <3> QED
      BY <2>2, <3>1, <3>2 DEF OffReporting, OffPast, Offline!Threads
  <2> QED
    BY <2>1, <2>2
<1> QED
  BY <1>1, <1>2

\* Fail requests a stop.
LEMMA OfflineFailRequestCounts ==
  ASSUME OffInv, OffCounted, OffReporting, NEW s \in Offline!Threads, Offline!FailRequest(s) PROVE OffCounted' /\ OffReporting'
<1> USE DEF OffInv, Offline!FailRequest, Offline!pipeline, Offline!consume, Offline!input,
     Offline!counters, Offline!Requested, Offline!Cancel, Offline!SourceCancelled
<1>1. OffCounted'
  <2>1. /\ UNCHANGED <<filter, items, left, eof, todo, completed, worker1>>
        /\ (stopping => stopping') /\ (ended' => ended) /\ (control' = "start" => control = "start")
    OBVIOUS
  <2> HIDE DEF Offline!FailRequest
  <2> QED
    BY <2>1, OfflineCountedFrame
<1>2. OffReporting'
  <2>1. /\ thrower' = [thrower EXCEPT ![s].at = "cancel"] /\ UNCHANGED <<error1, told, worker1, control>>
        /\ thrower[s].at = "request"
    OBVIOUS
  <2>2. \A t \in Offline!Threads : thrower'[t].at = IF t = s THEN "cancel" ELSE thrower[t].at
    BY <2>1 DEF OffTyped
  <2> HIDE DEF Offline!FailRequest, OffInv
  <2>3. \A t \in Offline!Threads : OffPast(t)' <=> OffPast(t)
    BY <2>1, <2>2 DEF OffPast
  <2>4. \A t \in Offline!Threads : thrower'[t].at = "no" <=> thrower[t].at = "no"
    BY <2>1, <2>2
  <2> QED
    BY <2>1, <2>3, <2>4 DEF OffReporting, Offline!Threads
<1> QED
  BY <1>1, <1>2

\* The one that set error_ reports it.
LEMMA OfflineFailCancelCounts ==
  ASSUME OffInv, OffCounted, OffReporting, NEW s \in Offline!Threads, Offline!FailCancel(s) PROVE OffCounted' /\ OffReporting'
<1> USE DEF OffInv, Offline!FailCancel, Offline!pipeline, Offline!consume, Offline!input,
     Offline!counters, Offline!Requested, Offline!Cancel, Offline!SourceCancelled
<1>1. OffCounted'
  <2>1. /\ UNCHANGED <<filter, items, left, eof, todo, completed, worker1>>
        /\ (stopping => stopping') /\ (ended' => ended) /\ (control' = "start" => control = "start")
    OBVIOUS
  <2> HIDE DEF Offline!FailCancel
  <2> QED
    BY <2>1, OfflineCountedFrame
<1>2. OffReporting'
  <2>1. /\ thrower' = [thrower EXCEPT ![s] = Offline!Calm] /\ UNCHANGED <<error1, worker1, control>>
        /\ thrower[s].at = "cancel" /\ told' = told + 1
    OBVIOUS
  <2>2. \A t \in Offline!Threads : thrower'[t] = IF t = s THEN Offline!Calm ELSE thrower[t]
    BY <2>1 DEF OffTyped
  <2> HIDE DEF Offline!FailCancel, OffInv
  <2>3. OffPast(s) /\ told = 0 /\ error1 # None /\ \A t \in Offline!Threads : t # s => ~OffPast(t)
    BY <2>1 DEF OffReporting, OffPast
  <2>4. \A t \in Offline!Threads : ~OffPast(t)'
    BY <2>2, <2>3 DEF OffPast, Offline!Calm
  <2>5. \A t \in Offline!Threads : thrower'[t].at # "no" => thrower[t].at # "no"
    BY <2>2 DEF Offline!Calm
  <2> QED
    BY <2>1, <2>3, <2>4, <2>5 DEF OffReporting, Offline!Threads
<1> QED
  BY <1>1, <1>2

\* The source opens.
LEMMA OfflineOpenedCounts ==
  ASSUME OffInv, OffCounted, OffReporting, Offline!Opened PROVE OffCounted' /\ OffReporting'
<1> USE DEF OffInv, Offline!Opened, Offline!pipeline, Offline!consume, Offline!input,
     Offline!counters, Offline!SourceStep
<1>1. OffCounted'
  <2>1. /\ UNCHANGED <<filter, items, left, eof, todo, completed, worker1>>
        /\ (stopping => stopping') /\ (ended' => ended) /\ (control' = "start" => control = "start")
    OBVIOUS
  <2> HIDE DEF Offline!Opened
  <2> QED
    BY <2>1, OfflineCountedFrame
<1>2. OffReporting'
  <2>1. /\ UNCHANGED <<thrower, told, error1>>
        /\ worker1 \in {"clean", "final"} => worker1' \in {"clean", "final"} \/ thrower["worker"].at = "no"
        /\ control = "catch" => control' = "catch" \/ thrower["caller"].at = "no"
    BY DEF Offline!Calm, OffTyped, OffReporting
  <2> HIDE DEF Offline!Opened
  <2> QED
    BY <2>1, OfflineReportingFrame
<1> QED
  BY <1>1, <1>2

\* The source drains.
LEMMA OfflineDrainedCounts ==
  ASSUME OffInv, OffCounted, OffReporting, Offline!Drained PROVE OffCounted' /\ OffReporting'
<1> USE DEF OffInv, Offline!Drained, Offline!pipeline, Offline!consume, Offline!input,
     Offline!counters, Offline!SourceStep
<1>1. OffCounted'
  <2>1. /\ UNCHANGED <<filter, items, left, eof, todo, completed, worker1>>
        /\ (stopping => stopping') /\ (ended' => ended) /\ (control' = "start" => control = "start")
    OBVIOUS
  <2> HIDE DEF Offline!Drained
  <2> QED
    BY <2>1, OfflineCountedFrame
<1>2. OffReporting'
  <2>1. /\ UNCHANGED <<thrower, told, error1>>
        /\ worker1 \in {"clean", "final"} => worker1' \in {"clean", "final"} \/ thrower["worker"].at = "no"
        /\ control = "catch" => control' = "catch" \/ thrower["caller"].at = "no"
    BY DEF Offline!Calm, OffTyped, OffReporting
  <2> HIDE DEF Offline!Drained
  <2> QED
    BY <2>1, OfflineReportingFrame
<1> QED
  BY <1>1, <1>2

\* The source ends.
LEMMA OfflineEndedCounts ==
  ASSUME OffInv, OffCounted, OffReporting, Offline!Ended PROVE OffCounted' /\ OffReporting'
<1> USE DEF OffInv, Offline!Ended, Offline!pipeline, Offline!consume, Offline!input,
     Offline!counters, Offline!SourceStep
<1>1. OffCounted'
  <2>1. /\ UNCHANGED <<filter, items, left, eof, todo, completed, worker1>>
        /\ (stopping => stopping') /\ (ended' => ended) /\ (control' = "start" => control = "start")
    OBVIOUS
  <2> HIDE DEF Offline!Ended
  <2> QED
    BY <2>1, OfflineCountedFrame
<1>2. OffReporting'
  <2>1. /\ UNCHANGED <<thrower, told, error1>>
        /\ worker1 \in {"clean", "final"} => worker1' \in {"clean", "final"} \/ thrower["worker"].at = "no"
        /\ control = "catch" => control' = "catch" \/ thrower["caller"].at = "no"
    BY DEF Offline!Calm, OffTyped, OffReporting
  <2> HIDE DEF Offline!Ended
  <2> QED
    BY <2>1, OfflineReportingFrame
<1> QED
  BY <1>1, <1>2

\* The source fails.
LEMMA OfflineFailedCounts ==
  ASSUME OffInv, OffCounted, OffReporting, Offline!Failed PROVE OffCounted' /\ OffReporting'
<1> USE DEF OffInv, Offline!Failed, Offline!pipeline, Offline!consume, Offline!input,
     Offline!counters, Offline!SourceStep
<1>1. OffCounted'
  <2>1. /\ UNCHANGED <<filter, items, left, eof, todo, completed, worker1>>
        /\ (stopping => stopping') /\ (ended' => ended) /\ (control' = "start" => control = "start")
    OBVIOUS
  <2> HIDE DEF Offline!Failed
  <2> QED
    BY <2>1, OfflineCountedFrame
<1>2. OffReporting'
  <2>1. /\ UNCHANGED <<thrower, told, error1>>
        /\ worker1 \in {"clean", "final"} => worker1' \in {"clean", "final"} \/ thrower["worker"].at = "no"
        /\ control = "catch" => control' = "catch" \/ thrower["caller"].at = "no"
    BY DEF Offline!Calm, OffTyped, OffReporting
  <2> HIDE DEF Offline!Failed
  <2> QED
    BY <2>1, OfflineReportingFrame
<1> QED
  BY <1>1, <1>2

\* The source tells its state.
LEMMA OfflineAnnounceCounts ==
  ASSUME OffInv, OffCounted, OffReporting, Offline!Announce PROVE OffCounted' /\ OffReporting'
<1> USE DEF OffInv, Offline!Announce, Offline!pipeline, Offline!consume, Offline!input,
     Offline!counters, Offline!AnnouncedState
<1>1. OffCounted'
  <2>1. /\ UNCHANGED <<filter, items, left, eof, todo, completed, worker1>>
        /\ (stopping => stopping') /\ (ended' => ended) /\ (control' = "start" => control = "start")
    OBVIOUS
  <2> HIDE DEF Offline!Announce
  <2> QED
    BY <2>1, OfflineCountedFrame
<1>2. OffReporting'
  <2>1. CASE thrower' = [thrower EXCEPT !["source"] = Offline!Failure("source")]
    <3>1. thrower["source"].at = "no"
      BY <2>1 DEF OffReporting, OffPublished, OffAnnouncing, Offline!Calm
    <3>3. thrower'["source"].at = "fail"
      BY <2>1 DEF OffTyped, Offline!Threads, Offline!Failure
    <3>4. thrower' # thrower
      BY <3>1, <3>3
    <3>2. /\ OffTyped /\ UNCHANGED <<told, error1>> /\ "source" \in Offline!Threads
          /\ ("source" = "worker" \/ worker1' = worker1) /\ ("source" = "caller" \/ control' = control)
          /\ ("source" = "worker" => worker1' \in {"clean", "final"}) /\ ("source" = "caller" => control' = "catch")
      BY <2>1, <3>4 DEF Offline!Threads, Offline!Quiet
    <3> HIDE DEF Offline!Announce
    <3> QED
      BY <2>1, <3>1, <3>2, OfflineReportingFails
  <2>2. CASE UNCHANGED thrower
    <3>1. /\ UNCHANGED <<thrower, told, error1>>
          /\ worker1 \in {"clean", "final"} => worker1' \in {"clean", "final"} \/ thrower["worker"].at = "no"
          /\ control = "catch" => control' = "catch" \/ thrower["caller"].at = "no"
      BY <2>2 DEF Offline!Calm, Offline!Quiet, OffPublished
    <3> HIDE DEF Offline!Announce
    <3> QED
      BY <3>1, OfflineReportingFrame
  <2> QED
    BY <2>1, <2>2
<1> QED
  BY <1>1, <1>2

\* A frame or an EOF waits to be read.
LEMMA OfflineDeliverCounts ==
  ASSUME OffInv, OffCounted, OffReporting, NEW k \in Tracks, Offline!Deliver(k) PROVE OffCounted' /\ OffReporting'
<1> USE DEF OffInv, Offline!Deliver, Offline!pipeline, Offline!consume, Offline!input,
     Offline!counters
<1>1. OffCounted'
  <2>1. /\ items[k] = <<>> /\ left[k] \in Nat \ {0} /\ k \in Tracks
        /\ items' = [items EXCEPT ![k] = IF left[k] > 1 THEN <<"frame">> ELSE <<"eof">>]
        /\ left' = [left EXCEPT ![k] = @ - 1]
        /\ UNCHANGED <<Offline!pipeline, control, Offline!consume, eof, filter>>
    BY DEF OffCounted
  <2> HIDE DEF Offline!Deliver, OffInv
  <2>2. items' \in [Tracks -> OffHeld] /\ left' \in [Tracks -> Nat]
    BY <2>1 DEF OffCounted, OffHeld
  <2>3. OffBalanced => OffBalanced'
    <3> SUFFICES ASSUME OffBalanced, NEW t \in Tracks
                 PROVE  /\ items'[t] = <<"frame">> => left'[t] > 0
                        /\ items'[t] = <<"eof">> => left'[t] = 0
                        /\ t \in eof => left'[t] = 0 /\ items'[t] = <<>>
                        /\ OffCount(filter, t) + (IF items'[t] = <<"frame">> THEN 1 ELSE 0)
                             + (IF left'[t] = 0 THEN 0 ELSE left'[t] - 1) = Frames
      BY <2>1 DEF OffBalanced
    <3>1. items'[t] = (IF t = k THEN (IF left[k] > 1 THEN <<"frame">> ELSE <<"eof">>) ELSE items[t])
          /\ left'[t] = IF t = k THEN left[k] - 1 ELSE left[t]
      BY <2>1 DEF OffCounted
    <3>2. OffCount(filter, t) \in Nat
      BY OfflineCountType
    <3> QED
      BY <2>1, <3>1, <3>2, OfflineHeldDiffer DEF OffBalanced
  <2>4. OffFiltered' <=> OffFiltered
    BY <2>1 DEF OffFiltered
  <2> QED
    BY <2>1, <2>2, <2>3, <2>4 DEF OffCounted
<1>2. OffReporting'
  <2>1. /\ UNCHANGED <<thrower, told, error1>>
        /\ worker1 \in {"clean", "final"} => worker1' \in {"clean", "final"} \/ thrower["worker"].at = "no"
        /\ control = "catch" => control' = "catch" \/ thrower["caller"].at = "no"
    BY DEF Offline!Calm, OffTyped, OffReporting
  <2> HIDE DEF Offline!Deliver
  <2> QED
    BY <2>1, OfflineReportingFrame
<1> QED
  BY <1>1, <1>2

\* The filter starts, or throws.
LEMMA OfflineFilterStartCounts ==
  ASSUME OffInv, OffCounted, OffReporting, Offline!FilterStart PROVE OffCounted' /\ OffReporting'
<1> USE DEF OffInv, Offline!FilterStart, Offline!pipeline, Offline!consume, Offline!input,
     Offline!counters, Offline!Throws, Offline!Fault, Offline!Quiet
<1>1. OffCounted'
  <2>0. filter = <<>> /\ eof = {} /\ worker1 = "filter" /\ UNCHANGED <<eof, todo, items, left, completed, ended, control>> /\ control # "start"
    BY DEF OffCounted, OffPublished
  <2>1. CASE Offline!Called("start") /\ worker1' = "source"
    <3>1. "start" \in OffCalls
      BY DEF OffCalls
    <3>2. filter' \in Seq(OffCalls) /\ \A w : OffCount(filter', w) = OffCount(filter, w) + (IF "start" = w THEN 1 ELSE 0)
      BY <2>1, <3>1, OfflineCalling
    <3>3. \A w : w # "start" => OffCount(filter', w) = 0
      BY <2>0, <3>2, OfflineCountEmpty
    <3>4. filter' = <<"start">>
      BY <2>0, <2>1 DEF Offline!Called
    <3> HIDE DEF Offline!FilterStart, OffInv
    <3>5. ~completed /\ ~ended'
      BY <2>0, OfflineCountEmpty DEF OffCounted
    <3> QED
      BY <2>0, <2>1, <3>2, <3>3, <3>4, <3>5 DEF OffCounted
  <2>2. CASE UNCHANGED filter /\ worker1' = "clean"
    <3> HIDE DEF Offline!FilterStart, OffInv
    <3>1. OffFiltered' <=> OffFiltered
      BY <2>2 DEF OffFiltered
    <3> QED
      BY <2>0, <2>2, <3>1 DEF OffCounted
  <2> QED
    BY <2>1, <2>2
<1>2. OffReporting'
  <2>1. CASE thrower' = [thrower EXCEPT !["worker"] = Offline!Failure("worker")]
    <3>1. thrower["worker"].at = "no"
      BY <2>1 DEF OffReporting, OffPublished, OffAnnouncing, Offline!Calm
    <3>3. thrower'["worker"].at = "fail"
      BY <2>1 DEF OffTyped, Offline!Threads, Offline!Failure
    <3>4. thrower' # thrower
      BY <3>1, <3>3
    <3>2. /\ OffTyped /\ UNCHANGED <<told, error1>> /\ "worker" \in Offline!Threads
          /\ ("worker" = "worker" \/ worker1' = worker1) /\ ("worker" = "caller" \/ control' = control)
          /\ ("worker" = "worker" => worker1' \in {"clean", "final"}) /\ ("worker" = "caller" => control' = "catch")
      BY <2>1, <3>4 DEF Offline!Threads, Offline!Quiet
    <3> HIDE DEF Offline!FilterStart
    <3> QED
      BY <2>1, <3>1, <3>2, OfflineReportingFails
  <2>2. CASE UNCHANGED thrower
    <3>1. /\ UNCHANGED <<thrower, told, error1>>
          /\ worker1 \in {"clean", "final"} => worker1' \in {"clean", "final"} \/ thrower["worker"].at = "no"
          /\ control = "catch" => control' = "catch" \/ thrower["caller"].at = "no"
      BY <2>2 DEF Offline!Calm, Offline!Quiet, OffPublished
    <3> HIDE DEF Offline!FilterStart
    <3> QED
      BY <3>1, OfflineReportingFrame
  <2> QED
    BY <2>1, <2>2
<1> QED
  BY <1>1, <1>2

\* A stop that came before the source is started skips it.
LEMMA OfflineSourceWantedCounts ==
  ASSUME OffInv, OffCounted, OffReporting, Offline!SourceWanted PROVE OffCounted' /\ OffReporting'
<1> USE DEF OffInv, Offline!SourceWanted, Offline!pipeline, Offline!consume,
     Offline!input, Offline!counters, Offline!Quiet
<1>1. OffCounted'
  <2>0. /\ worker1 = "source" /\ worker1' = (IF stopping THEN "observe" ELSE "open")
        /\ UNCHANGED <<filter, eof, todo, items, left, completed, ended, control, stopping>> /\ control # "start"
    BY DEF OffPublished
  <2>1. OffFiltered' <=> OffFiltered
    BY <2>0 DEF OffFiltered
  <2> HIDE DEF Offline!SourceWanted, OffInv
  <2> QED
    BY <2>0, <2>1 DEF OffCounted
<1>2. OffReporting'
  <2>1. /\ UNCHANGED <<thrower, told, error1>>
        /\ worker1 \in {"clean", "final"} => worker1' \in {"clean", "final"} \/ thrower["worker"].at = "no"
        /\ control = "catch" => control' = "catch" \/ thrower["caller"].at = "no"
    BY DEF Offline!Calm, OffTyped, OffReporting
  <2> HIDE DEF Offline!SourceWanted
  <2> QED
    BY <2>1, OfflineReportingFrame
<1> QED
  BY <1>1, <1>2

\* One start is one start, and nothing else.
LEMMA OfflineCountStart == \A w : OffCount(<<"start">>, w) = IF "start" = w THEN 1 ELSE 0
<1> SUFFICES ASSUME NEW w PROVE OffCount(<<"start">>, w) = IF "start" = w THEN 1 ELSE 0
  OBVIOUS
<1>1. <<"start">> = Append(<<>>, "start") /\ <<>> \in Seq({"start"}) /\ "start" \in {"start"}
  OBVIOUS
<1> DEFINE e == <<>>
           v == "start"
<1>2. e \in Seq({v}) /\ v \in {v} /\ OffCount(e, w) = 0 /\ <<"start">> = Append(e, v)
  BY <1>1, OfflineCountEmpty
<1> HIDE DEF e, v
<1>3. OffCount(Append(e, v), w) = OffCount(e, w) + (IF v = w THEN 1 ELSE 0)
  BY <1>2, OfflineCountAppend
<1>4. OffCount(<<"start">>, w) = 0 + (IF v = w THEN 1 ELSE 0)
  BY <1>2, <1>3
<1>5. 0 + 1 = 1 /\ 0 + 0 = 0
  OBVIOUS
<1> QED
  BY <1>4, <1>5 DEF v

\* The source has every frame to deliver.
LEMMA OfflineSourceStartCounts ==
  ASSUME OffInv, OffCounted, OffReporting, Offline!SourceStart PROVE OffCounted' /\ OffReporting'
<1> USE DEF OffInv, Offline!SourceStart, Offline!pipeline, Offline!consume, Offline!input,
     Offline!counters, Offline!Throws, Offline!Fault, Offline!Quiet, Offline!SourceStarted
<1>1. OffCounted'
  <2>0. /\ worker1 = "open" /\ filter = <<"start">> /\ eof = {} /\ control # "start"
        /\ UNCHANGED <<filter, eof, todo, completed, ended, control, stopping>>
    BY DEF OffCounted, OffPublished
  <2>1. \A w : w # "start" => OffCount(filter, w) = 0
    <3>1. filter = <<"start">>
      BY <2>0
    <3> HIDE DEF Offline!SourceStart, OffInv
    <3> QED
      BY <3>1, OfflineCountStart
  <2>2. OffFiltered' <=> OffFiltered
    BY <2>0 DEF OffFiltered
  <2>3. CASE items' = [t \in Tracks |-> <<>>] /\ left' = [t \in Tracks |-> Frames + 1] /\ worker1' = "again"
    <3> HIDE DEF Offline!SourceStart, OffInv
    <3>1. \A t \in Tracks : t # "start" /\ items'[t] = <<>> /\ left'[t] = Frames + 1
      BY <2>3, TracksAssumption
    <3>2. OffBalanced'
      BY <2>0, <2>1, <3>1, OfflineHeldDiffer, TracksAssumption DEF OffBalanced
    <3>3. items' \in [Tracks -> OffHeld] /\ left' \in [Tracks -> Nat]
      BY <2>3, TracksAssumption DEF OffHeld
    <3>4. OffCount(filter', "reset") = 0 /\ OffCount(filter', "stop") = 0
      BY <2>0, <2>1
    <3> QED
      BY <2>0, <2>2, <2>3, <3>2, <3>3, <3>4 DEF OffCounted
  <2>4. CASE UNCHANGED <<items, left>> /\ worker1' = "clean"
    <3> HIDE DEF Offline!SourceStart, OffInv
    <3> QED
      BY <2>0, <2>2, <2>4 DEF OffCounted
  <2> QED
    BY <2>3, <2>4
<1>2. OffReporting'
  <2>1. CASE thrower' = [thrower EXCEPT !["worker"] = Offline!Failure("worker")]
    <3>1. thrower["worker"].at = "no"
      BY <2>1 DEF OffReporting, OffPublished, OffAnnouncing, Offline!Calm
    <3>3. thrower'["worker"].at = "fail"
      BY <2>1 DEF OffTyped, Offline!Threads, Offline!Failure
    <3>4. thrower' # thrower
      BY <3>1, <3>3
    <3>2. /\ OffTyped /\ UNCHANGED <<told, error1>> /\ "worker" \in Offline!Threads
          /\ ("worker" = "worker" \/ worker1' = worker1) /\ ("worker" = "caller" \/ control' = control)
          /\ ("worker" = "worker" => worker1' \in {"clean", "final"}) /\ ("worker" = "caller" => control' = "catch")
      BY <2>1, <3>4 DEF Offline!Threads, Offline!Quiet
    <3> HIDE DEF Offline!SourceStart
    <3> QED
      BY <2>1, <3>1, <3>2, OfflineReportingFails
  <2>2. CASE UNCHANGED thrower
    <3>1. /\ UNCHANGED <<thrower, told, error1>>
          /\ worker1 \in {"clean", "final"} => worker1' \in {"clean", "final"} \/ thrower["worker"].at = "no"
          /\ control = "catch" => control' = "catch" \/ thrower["caller"].at = "no"
      BY <2>2 DEF Offline!Calm, Offline!Quiet, OffPublished
    <3> HIDE DEF Offline!SourceStart
    <3> QED
      BY <3>1, OfflineReportingFrame
  <2> QED
    BY <2>1, <2>2
<1> QED
  BY <1>1, <1>2

\* A stop that the start of the source forgot is made up for.
LEMMA OfflineStopAgainCounts ==
  ASSUME OffInv, OffCounted, OffReporting, Offline!StopAgain PROVE OffCounted' /\ OffReporting'
<1> USE DEF OffInv, Offline!StopAgain, Offline!pipeline, Offline!consume, Offline!input,
     Offline!counters, Offline!Requested, Offline!Cancel, Offline!SourceCancelled,
     Offline!Quiet
<1>1. OffCounted'
  <2>0. /\ worker1 = "again" /\ worker1' = "observe" /\ control # "start"
        /\ UNCHANGED <<filter, eof, todo, items, left, completed, ended, control, stopping>>
    BY DEF OffPublished
  <2>1. (OffFiltered' <=> OffFiltered) /\ (OffBalanced' <=> OffBalanced)
    BY <2>0 DEF OffFiltered, OffBalanced
  <2> HIDE DEF Offline!StopAgain, OffInv
  <2> QED
    BY <2>0, <2>1 DEF OffCounted
<1>2. OffReporting'
  <2>1. /\ UNCHANGED <<thrower, told, error1>>
        /\ worker1 \in {"clean", "final"} => worker1' \in {"clean", "final"} \/ thrower["worker"].at = "no"
        /\ control = "catch" => control' = "catch" \/ thrower["caller"].at = "no"
    BY DEF Offline!Calm, OffTyped, OffReporting
  <2> HIDE DEF Offline!StopAgain
  <2> QED
    BY <2>1, OfflineReportingFrame
<1> QED
  BY <1>1, <1>2

\* A round looks at the tracks that have not ended.
LEMMA OfflineObserveCounts ==
  ASSUME OffInv, OffCounted, OffReporting, Offline!Observe PROVE OffCounted' /\ OffReporting'
<1> USE DEF OffInv, Offline!Observe, Offline!pipeline, Offline!consume, Offline!input,
     Offline!counters, Offline!Quiet
<1>1. OffCounted'
  <2>0. /\ worker1 = "observe" /\ control # "start"
        /\ \/ stopping /\ worker1' = "clean" /\ todo' = {}
           \/ ~stopping /\ worker1' = "round" /\ todo' \subseteq Tracks /\ todo' \cap eof = {}
        /\ UNCHANGED <<filter, eof, items, left, completed, ended, control, stopping>>
    BY DEF OffPublished
  <2>1. (OffFiltered' <=> OffFiltered) /\ (OffBalanced' <=> OffBalanced)
    BY <2>0 DEF OffFiltered, OffBalanced
  <2> HIDE DEF Offline!Observe, OffInv
  <2> QED
    BY <2>0, <2>1 DEF OffCounted
<1>2. OffReporting'
  <2>1. /\ UNCHANGED <<thrower, told, error1>>
        /\ worker1 \in {"clean", "final"} => worker1' \in {"clean", "final"} \/ thrower["worker"].at = "no"
        /\ control = "catch" => control' = "catch" \/ thrower["caller"].at = "no"
    BY DEF Offline!Calm, OffTyped, OffReporting
  <2> HIDE DEF Offline!Observe
  <2> QED
    BY <2>1, OfflineReportingFrame
<1> QED
  BY <1>1, <1>2

\* The filter is reset when every track has ended.
LEMMA OfflineRoundDoneCounts ==
  ASSUME OffInv, OffCounted, OffReporting, Offline!RoundDone PROVE OffCounted' /\ OffReporting'
<1> USE DEF OffInv, Offline!RoundDone, Offline!pipeline, Offline!consume, Offline!input,
     Offline!counters, Offline!Quiet
<1>1. OffCounted'
  <2>0. /\ worker1 = "round" /\ control # "start"
        /\ worker1' \in {"clean", "reset", "observe", "wait"} /\ (worker1' = "reset" => eof = Tracks)
        /\ UNCHANGED <<filter, eof, todo, items, left, completed, ended, control, stopping>>
    BY DEF OffPublished
  <2>1. (OffFiltered' <=> OffFiltered) /\ (OffBalanced' <=> OffBalanced)
    BY <2>0 DEF OffFiltered, OffBalanced
  <2> HIDE DEF Offline!RoundDone, OffInv
  <2>2. OffBalanced
    BY <2>0 DEF OffCounted
  <2>3. eof = Tracks => OffFiltered
    <3>1. \A t \in Tracks : OffCount(filter, t) \in Nat
      BY OfflineCountType
    <3> QED
      BY <2>2, <3>1, OfflineHeldDiffer DEF OffBalanced, OffFiltered
  <2> QED
    BY <2>0, <2>1, <2>2, <2>3 DEF OffCounted
<1>2. OffReporting'
  <2>1. /\ UNCHANGED <<thrower, told, error1>>
        /\ worker1 \in {"clean", "final"} => worker1' \in {"clean", "final"} \/ thrower["worker"].at = "no"
        /\ control = "catch" => control' = "catch" \/ thrower["caller"].at = "no"
    BY DEF Offline!Calm, OffTyped, OffReporting
  <2> HIDE DEF Offline!RoundDone
  <2> QED
    BY <2>1, OfflineReportingFrame
<1> QED
  BY <1>1, <1>2

\* The worker is woken.
LEMMA OfflineWaitCounts ==
  ASSUME OffInv, OffCounted, OffReporting, Offline!Wait PROVE OffCounted' /\ OffReporting'
<1> USE DEF OffInv, Offline!Wait, Offline!pipeline, Offline!consume, Offline!input,
     Offline!counters, Offline!Quiet
<1>1. OffCounted'
  <2>0. /\ control # "start"
        /\ \/ worker1 = "wait" /\ worker1' = "observe"
           \/ worker1 = "endwait" /\ worker1' = "end"
        /\ UNCHANGED <<filter, eof, todo, items, left, completed, ended, control, stopping>>
    BY DEF OffPublished
  <2>1. (OffFiltered' <=> OffFiltered) /\ (OffBalanced' <=> OffBalanced)
    BY <2>0 DEF OffFiltered, OffBalanced
  <2> HIDE DEF Offline!Wait, OffInv
  <2> QED
    BY <2>0, <2>1 DEF OffCounted
<1>2. OffReporting'
  <2>1. /\ UNCHANGED <<thrower, told, error1>>
        /\ worker1 \in {"clean", "final"} => worker1' \in {"clean", "final"} \/ thrower["worker"].at = "no"
        /\ control = "catch" => control' = "catch" \/ thrower["caller"].at = "no"
    BY DEF Offline!Calm, OffTyped, OffReporting
  <2> HIDE DEF Offline!Wait
  <2> QED
    BY <2>1, OfflineReportingFrame
<1> QED
  BY <1>1, <1>2

\* A frame goes through the filter, or an EOF is noted.
LEMMA OfflineReadCounts ==
  ASSUME OffInv, OffCounted, OffReporting, NEW k \in Tracks, Offline!Read(k) PROVE OffCounted' /\ OffReporting'
<1> USE DEF OffInv, Offline!Read, Offline!pipeline, Offline!consume, Offline!input,
     Offline!counters, Offline!Throws, Offline!Fault, Offline!Quiet
<1>1. OffCounted'
  <2>0. /\ worker1 = "round" /\ control # "start" /\ k \in todo /\ todo' = todo \ {k}
        /\ UNCHANGED <<left, completed, ended, control, stopping>>
    BY DEF OffPublished
  <2>1. /\ OffBalanced /\ OffCount(filter, "reset") = 0 /\ OffCount(filter, "stop") = 0 /\ k \notin eof
        /\ items \in [Tracks -> OffHeld] /\ left \in [Tracks -> Nat] /\ filter \in Seq(OffCalls) /\ eof \subseteq Tracks
        /\ todo \subseteq Tracks /\ todo \cap eof = {} /\ ~completed /\ ~ended
    BY <2>0 DEF OffCounted, OffPublished
  <2>2. \A w : OffCount(filter, w) \in Nat
    BY OfflineCountType
  <2>3. \/ UNCHANGED <<worker1, items, eof, filter>>
        \/ items[k] = <<"eof">> /\ items' = [items EXCEPT ![k] = <<>>] /\ eof' = eof \cup {k} /\ UNCHANGED <<worker1, filter>>
        \/ items[k] \notin {<<>>, <<"eof">>} /\ items' = [items EXCEPT ![k] = <<>>] /\ Offline!Called(k) /\ UNCHANGED <<worker1, eof>>
        \/ worker1' = "clean" /\ items' = [items EXCEPT ![k] = <<>>] /\ UNCHANGED <<eof, filter>>
    OBVIOUS
  <2> HIDE DEF Offline!Read, OffInv
  <2>4. CASE UNCHANGED <<worker1, items, eof, filter>>
    <3>1. OffBalanced' <=> OffBalanced
      BY <2>0, <2>4 DEF OffBalanced
    <3> QED
      BY <2>0, <2>1, <2>4, <3>1 DEF OffCounted
  <2>10. items' = [items EXCEPT ![k] = <<>>] => items' \in [Tracks -> OffHeld]
    BY <2>1 DEF OffHeld
  <2>5. CASE items[k] = <<"eof">> /\ items' = [items EXCEPT ![k] = <<>>] /\ eof' = eof \cup {k} /\ UNCHANGED <<worker1, filter>>
    <3>1. OffBalanced'
      <4> SUFFICES ASSUME NEW t \in Tracks
                   PROVE  /\ items'[t] = <<"frame">> => left[t] > 0
                          /\ items'[t] = <<"eof">> => left[t] = 0
                          /\ t \in eof' => left[t] = 0 /\ items'[t] = <<>>
                          /\ OffCount(filter, t) + (IF items'[t] = <<"frame">> THEN 1 ELSE 0)
                               + (IF left[t] = 0 THEN 0 ELSE left[t] - 1) = Frames
        BY <2>0, <2>5 DEF OffBalanced
      <4>1. items'[t] = IF t = k THEN <<>> ELSE items[t]
        BY <2>1, <2>5
      <4> QED
        BY <2>1, <2>2, <2>5, <4>1, OfflineHeldDiffer DEF OffBalanced
    <3> QED
      BY <2>0, <2>1, <2>5, <2>10, <3>1 DEF OffCounted
  <2>6. CASE items[k] \notin {<<>>, <<"eof">>} /\ items' = [items EXCEPT ![k] = <<>>] /\ Offline!Called(k) /\ UNCHANGED <<worker1, eof>>
    <3>1. k \in OffCalls /\ k \notin {"reset", "stop"} /\ items[k] = <<"frame">>
      BY <2>1, <2>6, TracksAssumption DEF OffCalls, OffHeld
    <3>2. /\ filter' \in Seq(OffCalls) /\ \A w : OffCount(filter', w) = OffCount(filter, w) + (IF k = w THEN 1 ELSE 0)
      BY <2>6, <3>1, OfflineCalling
    <3>3. OffBalanced'
      <4> SUFFICES ASSUME NEW t \in Tracks
                   PROVE  /\ items'[t] = <<"frame">> => left[t] > 0
                          /\ items'[t] = <<"eof">> => left[t] = 0
                          /\ t \in eof => left[t] = 0 /\ items'[t] = <<>>
                          /\ OffCount(filter', t) + (IF items'[t] = <<"frame">> THEN 1 ELSE 0)
                               + (IF left[t] = 0 THEN 0 ELSE left[t] - 1) = Frames
        BY <2>0, <2>6 DEF OffBalanced
      <4>1. items'[t] = IF t = k THEN <<>> ELSE items[t]
        BY <2>1, <2>6
      <4>2. OffCount(filter', t) = OffCount(filter, t) + (IF k = t THEN 1 ELSE 0)
        BY <3>2
      <4>3. CASE t = k
        BY <2>1, <2>2, <2>6, <3>1, <4>1, <4>2, <4>3, OfflineHeldDiffer DEF OffBalanced
      <4>4. CASE t # k
        BY <2>1, <2>2, <2>6, <4>1, <4>2, <4>4 DEF OffBalanced
      <4> QED
        BY <4>3, <4>4
    <3>4. OffCount(filter', "reset") = 0 /\ OffCount(filter', "stop") = 0
      BY <2>1, <3>1, <3>2
    <3> QED
      BY <2>0, <2>1, <2>6, <2>10, <3>2, <3>3, <3>4 DEF OffCounted
  <2>7. CASE worker1' = "clean" /\ items' = [items EXCEPT ![k] = <<>>] /\ UNCHANGED <<eof, filter>>
    BY <2>0, <2>1, <2>7, <2>10 DEF OffCounted
  <2> QED
    BY <2>3, <2>4, <2>5, <2>6, <2>7
<1>2. OffReporting'
  <2>1. CASE thrower' = [thrower EXCEPT !["worker"] = Offline!Failure("worker")]
    <3>1. thrower["worker"].at = "no"
      BY <2>1 DEF OffReporting, OffPublished, OffAnnouncing, Offline!Calm
    <3>3. thrower'["worker"].at = "fail"
      BY <2>1 DEF OffTyped, Offline!Threads, Offline!Failure
    <3>4. thrower' # thrower
      BY <3>1, <3>3
    <3>2. /\ OffTyped /\ UNCHANGED <<told, error1>> /\ "worker" \in Offline!Threads
          /\ ("worker" = "worker" \/ worker1' = worker1) /\ ("worker" = "caller" \/ control' = control)
          /\ ("worker" = "worker" => worker1' \in {"clean", "final"}) /\ ("worker" = "caller" => control' = "catch")
      BY <2>1, <3>4 DEF Offline!Threads, Offline!Quiet
    <3> HIDE DEF Offline!Read
    <3> QED
      BY <2>1, <3>1, <3>2, OfflineReportingFails
  <2>2. CASE UNCHANGED thrower
    <3>1. /\ UNCHANGED <<thrower, told, error1>>
          /\ worker1 \in {"clean", "final"} => worker1' \in {"clean", "final"} \/ thrower["worker"].at = "no"
          /\ control = "catch" => control' = "catch" \/ thrower["caller"].at = "no"
      BY <2>2 DEF Offline!Calm, Offline!Quiet, OffPublished
    <3> HIDE DEF Offline!Read
    <3> QED
      BY <3>1, OfflineReportingFrame
  <2> QED
    BY <2>1, <2>2
<1> QED
  BY <1>1, <1>2

\* The filter is reset once.
LEMMA OfflineFilterResetCounts ==
  ASSUME OffInv, OffCounted, OffReporting, Offline!FilterReset PROVE OffCounted' /\ OffReporting'
<1> USE DEF OffInv, Offline!FilterReset, Offline!pipeline, Offline!consume, Offline!input,
     Offline!counters, Offline!Throws, Offline!Fault, Offline!Quiet
<1>1. OffCounted'
  <2>0. /\ worker1 = "reset" /\ control # "start"
        /\ UNCHANGED <<eof, todo, items, left, completed, ended, control, stopping>>
    BY DEF OffPublished
  <2>1. OffFiltered /\ OffCount(filter, "reset") = 0 /\ OffCount(filter, "stop") = 0 /\ ~completed /\ ~ended
    BY <2>0 DEF OffCounted, OffPublished
  <2>2. CASE Offline!Called("reset") /\ worker1' = "end"
    <3> HIDE DEF Offline!FilterReset, OffInv
    <3>1. "reset" \in OffCalls
      BY DEF OffCalls
    <3>2. /\ filter' \in Seq(OffCalls) /\ \A w : OffCount(filter', w) = OffCount(filter, w) + (IF "reset" = w THEN 1 ELSE 0)
          /\ \A w : OffCount(filter, w) \in Nat
      BY <2>2, <3>1, OfflineCalling
    <3>3. OffFiltered' /\ OffCount(filter', "reset") = 1 /\ OffCount(filter', "stop") = 0
      BY <2>1, <3>2, TracksAssumption DEF OffFiltered
    <3> QED
      BY <2>0, <2>1, <2>2, <3>2, <3>3 DEF OffCounted
  <2>3. CASE UNCHANGED filter /\ worker1' = "clean"
    <3> HIDE DEF Offline!FilterReset, OffInv
    <3>1. OffFiltered' <=> OffFiltered
      BY <2>3 DEF OffFiltered
    <3> QED
      BY <2>0, <2>1, <2>3, <3>1 DEF OffCounted
  <2> QED
    BY <2>2, <2>3
<1>2. OffReporting'
  <2>1. CASE thrower' = [thrower EXCEPT !["worker"] = Offline!Failure("worker")]
    <3>1. thrower["worker"].at = "no"
      BY <2>1 DEF OffReporting, OffPublished, OffAnnouncing, Offline!Calm
    <3>3. thrower'["worker"].at = "fail"
      BY <2>1 DEF OffTyped, Offline!Threads, Offline!Failure
    <3>4. thrower' # thrower
      BY <3>1, <3>3
    <3>2. /\ OffTyped /\ UNCHANGED <<told, error1>> /\ "worker" \in Offline!Threads
          /\ ("worker" = "worker" \/ worker1' = worker1) /\ ("worker" = "caller" \/ control' = control)
          /\ ("worker" = "worker" => worker1' \in {"clean", "final"}) /\ ("worker" = "caller" => control' = "catch")
      BY <2>1, <3>4 DEF Offline!Threads, Offline!Quiet
    <3> HIDE DEF Offline!FilterReset
    <3> QED
      BY <2>1, <3>1, <3>2, OfflineReportingFails
  <2>2. CASE UNCHANGED thrower
    <3>1. /\ UNCHANGED <<thrower, told, error1>>
          /\ worker1 \in {"clean", "final"} => worker1' \in {"clean", "final"} \/ thrower["worker"].at = "no"
          /\ control = "catch" => control' = "catch" \/ thrower["caller"].at = "no"
      BY <2>2 DEF Offline!Calm, Offline!Quiet, OffPublished
    <3> HIDE DEF Offline!FilterReset
    <3> QED
      BY <3>1, OfflineReportingFrame
  <2> QED
    BY <2>1, <2>2
<1> QED
  BY <1>1, <1>2

\* Only a run whose filter was reset can be complete.
LEMMA OfflineAwaitEndCounts ==
  ASSUME OffInv, OffCounted, OffReporting, Offline!AwaitEnd PROVE OffCounted' /\ OffReporting'
<1> USE DEF OffInv, Offline!AwaitEnd, Offline!pipeline, Offline!consume, Offline!input,
     Offline!counters, Offline!Quiet
<1>1. OffCounted'
  <2>0. /\ worker1 = "end" /\ control # "start" /\ worker1' \in {"clean", "endwait"}
        /\ UNCHANGED <<filter, eof, todo, items, left, ended, control, stopping>> /\ ~ended
    BY DEF OffPublished
  <2>1. OffFiltered' <=> OffFiltered
    BY <2>0 DEF OffFiltered
  <2> HIDE DEF Offline!AwaitEnd, OffInv
  <2> QED
    BY <2>0, <2>1 DEF OffCounted
<1>2. OffReporting'
  <2>1. /\ UNCHANGED <<thrower, told, error1>>
        /\ worker1 \in {"clean", "final"} => worker1' \in {"clean", "final"} \/ thrower["worker"].at = "no"
        /\ control = "catch" => control' = "catch" \/ thrower["caller"].at = "no"
    BY DEF Offline!Calm, OffTyped, OffReporting
  <2> HIDE DEF Offline!AwaitEnd
  <2> QED
    BY <2>1, OfflineReportingFrame
<1> QED
  BY <1>1, <1>2

\* A filter that was started is stopped.
LEMMA OfflineCleanCounts ==
  ASSUME OffInv, OffCounted, OffReporting, Offline!Clean PROVE OffCounted' /\ OffReporting'
<1> USE DEF OffInv, Offline!Clean, Offline!pipeline, Offline!consume, Offline!input,
     Offline!counters, Offline!Fault, Offline!Quiet
<1>1. OffCounted'
  <2>0. /\ worker1 = "clean" /\ worker1' = "final" /\ control # "start" /\ ~ended
        /\ UNCHANGED <<eof, todo, items, left, completed, ended, control, stopping>>
        /\ filter' = IF filter = <<>> THEN filter ELSE Append(filter, "stop")
    BY DEF OffPublished, Offline!Called
  <2> HIDE DEF Offline!Clean, OffInv
  <2>1. CASE filter = <<>>
    <3>1. UNCHANGED filter /\ (OffFiltered' <=> OffFiltered)
      BY <2>0, <2>1 DEF OffFiltered
    <3> QED
      BY <2>0, <2>1, <3>1 DEF OffCounted
  <2>2. CASE filter # <<>>
    <3>1. "stop" \in OffCalls /\ Offline!Called("stop")
      BY <2>0, <2>2 DEF OffCalls, Offline!Called
    <3>2. /\ filter' \in Seq(OffCalls) /\ filter'[Len(filter')] = "stop"
          /\ \A w : OffCount(filter', w) = OffCount(filter, w) + (IF "stop" = w THEN 1 ELSE 0)
          /\ \A w : OffCount(filter, w) \in Nat
      BY <3>1, OfflineCalling
    <3>3. OffCount(filter, "stop") = 0
      BY <2>0 DEF OffCounted
    <3>4. OffCount(filter', "stop") = 1 /\ OffCount(filter', "reset") = OffCount(filter, "reset")
      BY <3>2, <3>3
    <3>5. OffFiltered' <=> OffFiltered
      BY <3>2, TracksAssumption DEF OffFiltered
    <3> QED
      BY <2>0, <3>2, <3>4, <3>5 DEF OffCounted
  <2> QED
    BY <2>1, <2>2
<1>2. OffReporting'
  <2>1. CASE thrower' = [thrower EXCEPT !["worker"] = Offline!Failure("worker")]
    <3>1. thrower["worker"].at = "no"
      BY <2>1 DEF OffReporting, OffPublished, OffAnnouncing, Offline!Calm
    <3>3. thrower'["worker"].at = "fail"
      BY <2>1 DEF OffTyped, Offline!Threads, Offline!Failure
    <3>4. thrower' # thrower
      BY <3>1, <3>3
    <3>2. /\ OffTyped /\ UNCHANGED <<told, error1>> /\ "worker" \in Offline!Threads
          /\ ("worker" = "worker" \/ worker1' = worker1) /\ ("worker" = "caller" \/ control' = control)
          /\ ("worker" = "worker" => worker1' \in {"clean", "final"}) /\ ("worker" = "caller" => control' = "catch")
      BY <2>1, <3>4 DEF Offline!Threads, Offline!Quiet
    <3> HIDE DEF Offline!Clean
    <3> QED
      BY <2>1, <3>1, <3>2, OfflineReportingFails
  <2>2. CASE UNCHANGED thrower
    <3>1. /\ UNCHANGED <<thrower, told, error1>>
          /\ worker1 \in {"clean", "final"} => worker1' \in {"clean", "final"} \/ thrower["worker"].at = "no"
          /\ control = "catch" => control' = "catch" \/ thrower["caller"].at = "no"
      BY <2>2 DEF Offline!Calm, Offline!Quiet, OffPublished
    <3> HIDE DEF Offline!Clean
    <3> QED
      BY <3>1, OfflineReportingFrame
  <2> QED
    BY <2>1, <2>2
<1> QED
  BY <1>1, <1>2

\* A run is ended only if it is complete.
LEMMA OfflineFinishCounts ==
  ASSUME OffInv, OffCounted, OffReporting, Offline!Finish PROVE OffCounted' /\ OffReporting'
<1> USE DEF OffInv, Offline!Finish, Offline!pipeline, Offline!consume, Offline!input,
     Offline!counters, Offline!Quiet
<1>1. OffCounted'
  <2>0. /\ worker1 = "final" /\ worker1' = "off" /\ control # "start" /\ (ended' => completed)
        /\ UNCHANGED <<filter, eof, todo, items, left, completed, control, stopping>>
    BY DEF OffPublished
  <2>1. OffFiltered' <=> OffFiltered
    BY <2>0 DEF OffFiltered
  <2> HIDE DEF Offline!Finish, OffInv
  <2> QED
    BY <2>0, <2>1 DEF OffCounted
<1>2. OffReporting'
  <2>1. /\ UNCHANGED <<thrower, told, error1>>
        /\ worker1 \in {"clean", "final"} => worker1' \in {"clean", "final"} \/ thrower["worker"].at = "no"
        /\ control = "catch" => control' = "catch" \/ thrower["caller"].at = "no"
    BY DEF Offline!Calm, OffTyped, OffReporting
  <2> HIDE DEF Offline!Finish
  <2> QED
    BY <2>1, OfflineReportingFrame
<1> QED
  BY <1>1, <1>2

\* Every step keeps the counts and the reports.
LEMMA OfflineStepCounts ==
  ASSUME OffInv, OffCounted, OffReporting, [Offline!Next]_(Offline!vars)
  PROVE  OffCounted' /\ OffReporting'
<1>1. CASE Offline!Start \/ Offline!Stop \/ Offline!CallerStep
  BY <1>1, OfflineStartCounts, OfflineStopCounts, OfflineStartWorkerCounts,
       OfflineStopRequestCounts, OfflineStopCancelCounts, OfflineStopDoneCounts
     DEF Offline!CallerStep
<1>2. CASE Offline!RequestStop \/ Offline!RequestCancel \/ Offline!FailStep
  BY <1>2, OfflineRequestStopCounts, OfflineRequestCancelCounts, OfflineFailLockCounts,
       OfflineFailRequestCounts, OfflineFailCancelCounts
     DEF Offline!FailStep
<1>3. CASE Offline!SourceProgress \/ Offline!Failed
  BY <1>3, OfflineOpenedCounts, OfflineDeliverCounts, OfflineDrainedCounts,
       OfflineEndedCounts, OfflineFailedCounts, OfflineAnnounceCounts
     DEF Offline!SourceProgress
<1>4. CASE Offline!WorkerStep
  BY <1>4, OfflineFilterStartCounts, OfflineSourceWantedCounts, OfflineSourceStartCounts,
       OfflineStopAgainCounts, OfflineObserveCounts,
     OfflineReadCounts, OfflineRoundDoneCounts, OfflineWaitCounts, OfflineFilterResetCounts, OfflineAwaitEndCounts, OfflineCleanCounts, OfflineFinishCounts
     DEF Offline!WorkerStep
<1>5. CASE UNCHANGED Offline!vars
  <2>1. /\ UNCHANGED <<filter, items, left, eof, todo, completed, worker1, thrower, told, error1>>
        /\ UNCHANGED <<stopping, ended, control>>
    BY <1>5 DEF Offline!vars, Offline!pipeline, Offline!consume, Offline!input, Offline!counters
  <2> QED
    BY <2>1, OfflineCountedFrame, OfflineReportingFrame
<1> QED
  BY <1>1, <1>2, <1>3, <1>4, <1>5 DEF Offline!Next

\* Nobody was called before the first session.
LEMMA OfflineInitCounts == Offline!Init => OffCounted /\ OffReporting
<1> SUFFICES ASSUME Offline!Init PROVE OffCounted /\ OffReporting
  OBVIOUS
<1>1. /\ filter = <<>> /\ eof = {} /\ todo = {} /\ ~completed /\ ~ended /\ worker1 = "off" /\ control = "idle"
      /\ items = [t \in Tracks |-> <<>>] /\ left = [t \in Tracks |-> 0]
  BY DEF Offline!Init
<1>2. OffCounted
  BY <1>1, OfflineCountEmpty DEF OffCounted, OffHeld
<1>3. (\A t \in Offline!Threads : thrower[t] = Offline!Calm) /\ told = 0 /\ error1 = None
  BY DEF Offline!Init
<1>4. OffReporting
  BY <1>3 DEF OffReporting, OffPast, Offline!Calm, Offline!Threads
<1> QED
  BY <1>2, <1>4

\* The offline pipeline counts with the same Cardinality.
LEMMA OfflineCardinality == ASSUME NEW S PROVE Offline!Cardinality(S) = Cardinality(S)
BY DEF Offline!Cardinality, Cardinality

\* The counts are those of a complete run.
LEMMA OfflineCountsComplete == OffInv /\ OffCounted /\ OffReporting => Offline!EndedComplete
<1> SUFFICES ASSUME OffInv, OffCounted, OffReporting PROVE Offline!EndedComplete
  OBVIOUS
<1>1. state1 = "ended" => error1 = None /\ ended /\ worker1 = "off" /\ source = "ended" /\ completed
  BY DEF OffInv, OffPublished, OffCompleted, OffCounted
<1>2. OffCount(filter, "reset") \in Nat
  BY OfflineCountType
<1>3. state1 = "ended" => OffCount(filter, "reset") = 1 /\ filter # <<>>
  BY <1>1, OfflineCountEmpty DEF OffCounted
<1>4. state1 = "ended" \/ OffCount(filter, "reset") > 0 => OffFiltered /\ OffCount(filter, "reset") = 1
  BY <1>2, <1>3 DEF OffCounted
<1>5. worker1 = "off" /\ filter # <<>> => OffCount(filter, "stop") = 1 /\ filter[Len(filter)] = "stop"
  BY DEF OffCounted
<1>6. told <= 1
  BY DEF OffReporting
<1>7. /\ (state1 = "ended" \/ OffCount(filter, "reset") > 0) =>
           /\ \A t \in Tracks : OffCount(filter, t) = Frames
           /\ OffCount(filter, "reset") = 1
      /\ state1 = "ended" => error1 = None /\ filter[Len(filter)] = "stop" /\ source = "ended"
      /\ (worker1 = "off" /\ filter # <<>>) => OffCount(filter, "stop") = 1
      /\ told <= 1
  BY <1>1, <1>3, <1>4, <1>5, <1>6 DEF OffFiltered
<1> QED
  BY <1>7, OfflineCardinality DEF Offline!EndedComplete, Offline!TimesCalled, OffCount

-----------------------------------------------------------------------------
(* The refinement of PipelineLifecycle.                                    *)

\* RequestStop is a Cancel or changes nothing.
LEMMA OfflineRequestedRefines ==
  OffInv /\ Offline!Requested => [Offline!LC!Next]_(Offline!LC!vars)
<1> SUFFICES ASSUME OffInv, Offline!Requested PROVE [Offline!LC!Next]_(Offline!LC!vars)
  OBVIOUS
<1>1. CASE started1 /\ error1 = None /\ ~ended
  <2>1. Offline!LC!Cancel
    BY <1>1 DEF Offline!Requested, Offline!LC!Cancel, OffInv, OffPublished
  <2> QED
    BY <2>1 DEF Offline!LC!Next
<1>2. CASE ~(started1 /\ error1 = None /\ ~ended)
  BY <1>2 DEF Offline!Requested, Offline!LC!vars
<1> QED
  BY <1>1, <1>2

\* Every step either leaves the published state alone or is the step of
\* PipelineLifecycle of the same meaning.
LEMMA OfflineStepRefines ==
  ASSUME None \notin Offline!Threads PROVE OffInv /\ [Offline!Next]_(Offline!vars) => [Offline!LC!Next]_(Offline!LC!vars)
<1> SUFFICES ASSUME OffInv, [Offline!Next]_(Offline!vars) PROVE [Offline!LC!Next]_(Offline!LC!vars)
  OBVIOUS
<1>1. CASE Offline!Start
  <2>1. Offline!LC!Begin
    BY <1>1 DEF Offline!Start, Offline!LC!Begin
  <2> QED
    BY <2>1 DEF Offline!LC!Next
<1>2. CASE Offline!StopRequest \/ Offline!RequestStop \/ (\E t \in Offline!Threads : Offline!FailRequest(t))
  BY <1>2, OfflineRequestedRefines DEF Offline!StopRequest, Offline!RequestStop,
       Offline!FailRequest
<1>3. CASE \E t \in Offline!Threads : Offline!FailLock(t)
  <2>1. PICK t \in Offline!Threads : Offline!FailLock(t)
    BY <1>3
  <2>2. CASE ~started1 \/ error1 # None
    BY <2>1, <2>2 DEF Offline!FailLock, Offline!LC!vars
  <2>3. CASE started1 /\ error1 = None
    <3>1. Offline!LC!Fail
      BY <2>1, <2>3 DEF Offline!FailLock, Offline!LC!Fail, OffInv, OffTyped
    <3> QED
      BY <3>1 DEF Offline!LC!Next
  <2> QED
    BY <2>2, <2>3
<1>4. CASE Offline!Announce
  <2>1. UNCHANGED <<started1, error1>>
    BY <1>4 DEF Offline!Announce
  <2>2. CASE state1' = state1
    BY <2>1, <2>2 DEF Offline!LC!vars
  <2>3. CASE state1' # state1
    <3>1. /\ started1 /\ ~stopping /\ error1 = None /\ announce # None
          /\ state1' \in {"running", "draining"}
      BY <1>4, <2>3 DEF Offline!Announce, Offline!AnnouncedState
    <3>2. state1 \in {"starting", "running", "draining"}
      BY <3>1 DEF OffInv, OffTyped, OffAnnouncing, OffPublished, OffBefore, OffDuring
    <3>3. Offline!LC!Advance
      BY <2>1, <3>1, <3>2 DEF Offline!LC!Advance, Offline!LC!Active
    <3> QED
      BY <3>3 DEF Offline!LC!Next
  <2> QED
    BY <2>2, <2>3
<1>5. CASE Offline!Finish
  <2>1. started1 /\ UNCHANGED <<started1, error1>>
    BY <1>5 DEF Offline!Finish, OffInv, OffPublished
  <2>2. CASE error1 # None
    BY <1>5, <2>1, <2>2 DEF Offline!Finish, OffInv, OffPublished, Offline!LC!vars
  <2>3. CASE error1 = None
    <3>1. ended' => state1 \in Offline!LC!Active
      BY <1>5, <2>3 DEF Offline!Finish, OffInv, OffPublished, Offline!LC!Active
    <3>2. state1' \in IF state1 \in Offline!LC!Active THEN {"ended", "stopped"} ELSE {"stopped"}
      BY <1>5, <2>3, <3>1 DEF Offline!Finish
    <3>3. Offline!LC!Complete
      BY <2>1, <2>3, <3>2 DEF Offline!LC!Complete
    <3> QED
      BY <3>3 DEF Offline!LC!Next
  <2> QED
    BY <2>2, <2>3
<1>6. CASE Offline!StopDone
  <2>1. error1 = None => (ended <=> state1 = "ended")
    BY DEF OffInv, OffPublished
  <2>2. Offline!LC!Close
    BY <1>6, <2>1 DEF Offline!StopDone, Offline!LC!Close
  <2> QED
    BY <2>2 DEF Offline!LC!Next
<1>7. CASE \/ Offline!StartWorker \/ Offline!Stop \/ Offline!StopCancel \/ Offline!RequestCancel
           \/ \E t \in Offline!Threads : Offline!FailCancel(t)
  BY <1>7 DEF Offline!StartWorker, Offline!Stop, Offline!StopCancel,
       Offline!RequestCancel, Offline!FailCancel, Offline!pipeline, Offline!LC!vars
<1>8. CASE Offline!Opened \/ (\E t \in Tracks : Offline!Deliver(t)) \/ Offline!Drained \/ Offline!Ended \/ Offline!Failed
  BY <1>8 DEF Offline!Opened, Offline!Deliver, Offline!Drained, Offline!Ended,
       Offline!Failed, Offline!SourceStep, Offline!pipeline, Offline!LC!vars
<1>9. CASE Offline!FilterStart \/ Offline!SourceWanted \/ Offline!SourceStart \/ Offline!StopAgain \/ Offline!Observe
  BY <1>9 DEF Offline!FilterStart, Offline!SourceWanted, Offline!SourceStart,
       Offline!StopAgain, Offline!Observe, Offline!Quiet, Offline!pipeline,
              Offline!LC!vars
<1>10. CASE \/ \E t \in Tracks : Offline!Read(t)
            \/ Offline!RoundDone \/ Offline!Wait \/ Offline!FilterReset \/ Offline!AwaitEnd \/ Offline!Clean
  BY <1>10 DEF Offline!Read, Offline!RoundDone, Offline!Wait, Offline!FilterReset,
       Offline!AwaitEnd, Offline!Clean, Offline!Quiet, Offline!pipeline, Offline!LC!vars
<1>11. CASE UNCHANGED Offline!vars
  BY <1>11 DEF Offline!vars, Offline!pipeline, Offline!LC!vars
<1> QED
  BY <1>1, <1>2, <1>3, <1>4, <1>5, <1>6, <1>7, <1>8, <1>9, <1>10, <1>11
     DEF Offline!Next, Offline!CallerStep, Offline!FailStep, Offline!SourceProgress,
          Offline!WorkerStep

RemCauses == {None, "caller", "worker", "input", "remuxer", "stopped", "timeout", "tracks", "output", "rejected"}

RemTaken == {"probe", "init", "close", "ensure", "open", "pace", "submit", "submitted"}
RemHandling == RemTaken \cup {"read", "look"}
RemEntered == RemHandling \cup {"caught", "drain", "leave", "eof", "eofsleeping", "eofsleep"}
RemStarting == {"start", "open input", "again"}
RemPlaces == RemEntered \cup RemStarting \cup {"off", "stopinput", "done", "retire"}

\* Who is where.
RemTyped ==
  /\ plan \in Plans
  /\ worker2 \in RemPlaces
  /\ control \in {"idle", "ensure", "catch", "stop", "cancel", "join", "reap"}
  /\ asker \in [at : {"no", "cancel"}, cause : {None}, output : Nat]
  /\ asker.at = "no" => asker = Remux!Calm
  /\ input \in {"off", "on", "cancelled", "failed", "ended"}
  /\ worker2 # "off" => started2 /\ control \notin {"ensure", "catch", "reap"}
  /\ control # "idle" => started2
  /\ worker2 \notin RemEntered \cup {"again", "stopinput"} => input = "off"
  /\ input = "off" => announce = None
  /\ announce = "failed" => input # "on"
  /\ mutex \in {None, "worker"}
  /\ mutex = "worker" <=> worker2 \in {"close", "ensure", "open"}

RemFailing ==
  /\ thrower \in [Remux!Threads -> [at : {"no", "fail", "request", "cancel"}, cause : RemCauses, output : Nat]]
  /\ thrower["worker"].at # "no" => worker2 = "caught"

RemPending ==
  \/ control = "cancel" \/ asker.at = "cancel"
  \/ \E t \in Remux!Threads : thrower[t].at = "cancel"
RemReached == stopping /\ worker2 \in RemEntered => RemPending \/ input # "on"

RemOutputs ==
  /\ output \in Seq({"new", "on", "drained", "closed", "failed"})
  /\ registration \subseteq plan.adds
  /\ served \in Seq(SUBSET plan.adds)
  /\ Len(served) = Len(output) /\ current \in 0..Len(output)
  /\ current # 0 /\ output[current] \in {"new", "on"} => served[current] = registration
  /\ worker2 = "open" => current # 0 /\ served[current] = registration

RemConsumed == read - Len(pending)
RemItemsOf == {delivered[i].item : i \in DOMAIN delivered}
RemPackets(n) == {m \in 1..n : Remux!Selected(m)}

RemBegun ==
  control = "ensure" \/ worker2 \in RemStarting =>
    /\ read = 0 /\ pending = <<>> /\ delivered = <<>> /\ conn = 0 /\ ~atEof
    /\ history = <<>> /\ retired = <<>> /\ retiring = 0 /\ ~live /\ ~ended
    /\ ~workerDone

RemReading ==
  /\ read \in 0..Len(plan.items) /\ hand \in 0..Len(plan.items)
  /\ pending \in Seq(Nat) /\ Len(pending) <= read
  /\ \A i \in 1..Len(pending) : pending[i] = RemConsumed + i
  /\ worker2 = "look" => hand \in {0, RemConsumed}
  /\ worker2 \in RemTaken => hand = RemConsumed /\ hand # 0 /\ Remux!Selected(hand)

RemDelivering ==
  /\ delivered \in Seq([item : Nat, session : Nat])
  /\ \A i \in DOMAIN delivered : delivered[i].item \in 1..Len(plan.items) /\ Remux!Selected(delivered[i].item)
  /\ \A i, j \in DOMAIN delivered : i < j => delivered[i].item < delivered[j].item
  /\ \A i \in RemItemsOf : RemPackets(i) \subseteq RemItemsOf
  /\ worker2 = "look" /\ hand # 0 => RemItemsOf = RemPackets(hand - 1)
  /\ worker2 \in RemTaken \ {"submitted"} => RemItemsOf = RemPackets(hand - 1)
  /\ worker2 = "submitted" => RemItemsOf = RemPackets(hand)
  /\ worker2 = "read" => RemItemsOf = RemPackets(RemConsumed)
  /\ atEof => worker2 \notin RemHandling \cup RemStarting /\ RemItemsOf = RemPackets(Len(plan.items))

RemLatest == delivered[Len(delivered)]
LastOf(S) == CHOOSE j \in S : \A k \in S : k <= j
RemDeliveries(p, d, n, track, session) ==
  {j \in 1..n : p.items[d[j].item].track = track /\ d[j].session = session}
RemJumps(p, d, n, m) ==
  LET S == RemDeliveries(p, d, n, p.items[m].track, d[n].session)
      step == p.items[m].dts - p.items[d[LastOf(S)].item].dts
  IN  S # {} /\ (step < 0 \/ step > MaxGap)
RemSplits(p, d, n, m) ==
  p.items[m].conn # p.items[d[n].item].conn \/ (p.flagged /\ RemJumps(p, d, n, m))
RemSeparated ==
  \A n \in 1..(Len(delivered) - 1) :
    delivered[n + 1].session # delivered[n].session <=> RemSplits(plan, delivered, n, delivered[n + 1].item)

RemForgotten == last = [t \in 1..2 |-> None]
RemTracked ==
  IF delivered = <<>> THEN conn = 0 /\ ~live
  ELSE /\ live /\ RemLatest.session = current /\ conn = Remux!Item(RemLatest.item).conn
       /\ \A t \in 1..2 :
            LET S == RemDeliveries(plan, delivered, Len(delivered), t, current) IN
            last[t] = IF S = {} THEN None ELSE Remux!Item(delivered[LastOf(S)].item).dts
RemUnused == current # 0 /\ \A i \in DOMAIN delivered : delivered[i].session # current
RemFollows == delivered # <<>> /\ RemTracked /\ ~Remux!NewSession(hand)
RemOpens ==
  /\ live /\ RemUnused /\ RemForgotten /\ conn = Remux!Item(hand).conn
  /\ delivered # <<>> => RemSplits(plan, delivered, Len(delivered), hand)

RemSessions ==
  /\ \A i \in DOMAIN delivered : delivered[i].session \in 1..Len(output)
  /\ last \in [1..2 -> Int \cup {None}] /\ conn \in Nat
  /\ worker2 \in {"read", "look", "submitted", "probe", "init"} => RemTracked
  /\ worker2 \in {"probe", "init", "close", "ensure", "open"} /\ delivered # <<>> =>
       RemSplits(plan, delivered, Len(delivered), hand)
  /\ worker2 = "ensure" /\ delivered # <<>> => current = 0
  /\ worker2 = "open" => RemUnused
  /\ worker2 = "submit" \/ (worker2 = "pace" /\ ~stopping) => RemFollows \/ RemOpens
  /\ RemSeparated

RemRng(s) == {s[i] : i \in DOMAIN s}
RemUsed == {delivered[i].session : i \in DOMAIN delivered}
RemClosed == RemRng(history) \cup RemRng(retired) \cup ({retiring} \ {0})
RemReaping ==
  /\ history \in Seq(Nat) /\ retired \in Seq(Nat \ {0}) /\ retiring \in Nat
  /\ reaper \in {"off", "wait", "stop"}
  /\ \A i, j \in DOMAIN history : i < j => history[i] < history[j]
  /\ \A i, j \in DOMAIN retired : i < j => retired[i] < retired[j]
  /\ \A i \in DOMAIN history, j \in DOMAIN retired : history[i] < retired[j]
  /\ retiring # 0 => (\A i \in DOMAIN history : history[i] < retiring)
                     /\ \A i \in DOMAIN retired : retiring < retired[i]
  /\ \A s \in RemClosed : s <= Len(output) /\ (current # 0 => s < current)
  /\ reaper # "stop" <=> retiring = 0
  /\ reaper = "off" => retired = <<>> /\ (workerDone \/ worker2 = "off")
  /\ ~started2 => reaper = "off"
  /\ workerDone => worker2 \in {"off", "retire"}
  /\ live => worker2 \in RemEntered \cup {"stopinput"} /\ current # 0

RemFiling ==
  /\ RemUsed \subseteq RemClosed \cup (IF live THEN {current} ELSE {})
  /\ worker2 \in RemHandling \/ atEof => RemClosed \subseteq RemUsed
  /\ worker2 \in {"read", "look", "probe", "init", "close", "submitted"} \/ atEof => (live => current \in RemUsed)

RemEnding ==
  /\ ended => atEof /\ retired = <<>> /\ retiring = 0 /\ worker2 = "off"
  /\ state2 = "ended" => ended /\ error2 = None
  /\ worker2 = "retire" => atEof

RemInv ==
  /\ RemTyped /\ RemFailing /\ RemReached /\ RemOutputs /\ RemBegun /\ RemReading /\ RemDelivering /\ RemSessions
  /\ RemReaping /\ RemFiling /\ RemEnding

RemLater == {"caught", "leave", "eof", "eofsleeping", "eofsleep", "stopinput"}
RemUndisturbed ==
  /\ UNCHANGED <<plan, atEof, read, hand, pending, delivered, last, conn, live, current,
                 retired, retiring, history, reaper>>
  /\ Len(output') = Len(output)
  /\ worker2' = worker2 \/ (worker2 \in RemEntered /\ worker2' \in RemLater)
  /\ stopping => stopping'
  /\ control' = "ensure" => control = "ensure"
  /\ ended' => ended
  /\ (workerDone => workerDone') /\ (workerDone' => workerDone \/ (worker2 = "off" /\ control' # "ensure"))
  /\ ~started2' => ~started2 \/ reaper = "off"

\* What the sessions rest on does not depend on the other variables.
LEMMA RemuxSessionFrame ==
  ASSUME UNCHANGED <<plan, delivered, last, conn, live, current>>
  PROVE  /\ RemTracked' <=> RemTracked
         /\ RemUnused' <=> RemUnused
         /\ RemForgotten' <=> RemForgotten
         /\ RemSeparated' <=> RemSeparated
<1>1. RemTracked' <=> RemTracked
  BY DEF RemTracked, Remux!Item, RemLatest
<1>2. RemSeparated' <=> RemSeparated
  BY DEF RemSeparated
<1> QED
  BY <1>1, <1>2 DEF RemUnused, RemForgotten

\* What the worker holds does not depend on the other variables.
LEMMA RemuxHandFrame ==
  ASSUME UNCHANGED <<plan, delivered, last, conn, live, current, hand>>
  PROVE  /\ RemFollows' <=> RemFollows
         /\ RemOpens' <=> RemOpens
         /\ RemSplits(plan', delivered', Len(delivered'), hand') <=> RemSplits(plan, delivered, Len(delivered), hand)
<1>2. Remux!NewSession(hand)' <=> Remux!NewSession(hand)
  BY DEF Remux!NewSession, Remux!Boundary, Remux!Discontinuous, Remux!Item
<1> QED
  BY <1>2, RemuxSessionFrame DEF RemFollows, RemOpens, Remux!Item

\* Neither does what the script owes and what became of it.
LEMMA RemuxDeliveryFrame ==
  ASSUME UNCHANGED <<plan, delivered>>
  PROVE  /\ RemItemsOf' = RemItemsOf /\ RemUsed' = RemUsed
         /\ \A n : RemPackets(n)' = RemPackets(n)
         /\ \A n : Remux!Selected(n)' <=> Remux!Selected(n)
BY DEF RemItemsOf, RemUsed, RemPackets, Remux!Selected, Remux!Item

\* A step that neither reads, delivers nor opens keeps all but the control.
LEMMA RemuxUndisturbedKeeps ==
  ASSUME RemInv, RemUndisturbed
  PROVE  RemBegun' /\ RemReading' /\ RemDelivering' /\ RemSessions' /\ RemReaping' /\ RemFiling'
<1> USE DEF RemInv, RemUndisturbed, RemLater, RemEntered, RemHandling, RemStarting, RemTaken
<1>1. RemBegun'
  BY DEF RemBegun
<1>2. RemReading'
  BY RemuxDeliveryFrame DEF RemReading, RemConsumed
<1>3. RemDelivering'
  BY RemuxDeliveryFrame DEF RemDelivering, RemConsumed
<1>4. RemSessions'
  BY RemuxSessionFrame, RemuxHandFrame DEF RemSessions
<1>5. RemReaping'
  BY DEF RemReaping, RemClosed, RemRng
<1>6. RemFiling'
  BY RemuxDeliveryFrame DEF RemFiling, RemClosed, RemRng
<1> QED
  BY <1>1, <1>2, <1>3, <1>4, <1>5, <1>6

\* Typed does not depend on the other variables.
LEMMA RemuxTypedFrame ==
  ASSUME RemTyped,
         UNCHANGED <<plan, control, asker, input, started2, mutex>>,
         announce' \in {announce, None},
         worker2' = worker2 \/ (worker2 = "eofsleep" /\ worker2' = "eof")
  PROVE  RemTyped'
<1>1. asker' \in [at : {"no", "cancel"}, cause : {None}, output : Nat] /\ (asker'.at = "no" => asker' = Remux!Calm)
  BY DEF RemTyped, Remux!Calm
<1>2. worker2' \in RemPlaces /\ (worker2' # "off" <=> worker2 # "off")
  BY DEF RemTyped, RemPlaces, RemEntered, RemHandling, RemTaken, RemStarting
<1>3. (announce' = "failed" => input' # "on") /\ (input' = "off" => announce' = None)
  BY PipelinesAssumption, PlansAssumption DEF RemTyped
<1>4. worker2' \notin RemEntered \cup {"again", "stopinput"} => input' = "off"
  BY DEF RemTyped, RemEntered, RemHandling, RemTaken
<1>5. mutex' = "worker" <=> worker2' \in {"close", "ensure", "open"}
  BY DEF RemTyped
<1> QED
  BY <1>1, <1>2, <1>3, <1>4, <1>5 DEF RemTyped

\* What a step may do to the input, to the caller's place and to the worker's, outside the
\* mutex, and leave everyone where RemTyped allows.
LEMMA RemuxTypedSteps ==
  ASSUME RemTyped, UNCHANGED <<plan, asker, started2, mutex>>,
         control' = control \/ ((control # "idle" \/ started2) /\ control' \in {"stop", "cancel", "join"}),
         input' = input \/ (input = "on" /\ input' \in {"cancelled", "failed", "ended"}),
         announce' \in {announce, None} \/ (input # "off" /\ (announce' # "failed" \/ input' # "on")),
         \/ worker2' = worker2
         \/ /\ worker2 \notin {"off", "close", "ensure", "open"}
            /\ worker2' \in RemEntered \ {"close", "ensure", "open"}
  PROVE  RemTyped'
<1>1. asker' \in [at : {"no", "cancel"}, cause : {None}, output : Nat] /\ (asker'.at = "no" => asker' = Remux!Calm)
  BY DEF RemTyped, Remux!Calm
<1>2. worker2 \in RemPlaces /\ (worker2 # "off" => started2 /\ control \notin {"ensure", "catch", "reap"})
  BY DEF RemTyped
<1>3. worker2' \in RemPlaces /\ (worker2' # "off" => worker2 # "off")
  BY <1>2 DEF RemPlaces
<1>4. worker2' # "off" => started2' /\ control' \notin {"ensure", "catch", "reap"}
  BY <1>2, <1>3
<1>5. control' \in {"idle", "ensure", "catch", "stop", "cancel", "join", "reap"} /\ (control' # "idle" => started2')
  BY DEF RemTyped
<1>6. input' \in {"off", "on", "cancelled", "failed", "ended"} /\ (input' = "off" <=> input = "off")
  BY DEF RemTyped
<1>7. input' = "off" => announce' = None
  BY <1>6 DEF RemTyped
<1>8. announce' = "failed" => input' # "on"
  <2>1. None # "failed"
    BY PipelinesAssumption, PlansAssumption
  <2> QED
    BY <2>1 DEF RemTyped
<1>9. worker2' \notin RemEntered \cup {"again", "stopinput"} => input' = "off"
  BY <1>6 DEF RemTyped
<1>10. mutex' \in {None, "worker"} /\ (mutex' = "worker" <=> worker2' \in {"close", "ensure", "open"})
  BY DEF RemTyped
<1>11. plan' \in Plans
  BY DEF RemTyped
<1> QED
  BY <1>1, <1>3, <1>4, <1>5, <1>6, <1>7, <1>8, <1>9, <1>10, <1>11 DEF RemTyped

\* The sessions filed do not depend on the other variables.
LEMMA RemuxFilingFrame ==
  ASSUME RemFiling, UNCHANGED <<plan, delivered, live, current, history, retired, retiring>>,
         atEof' => atEof,
         worker2' \in RemHandling => worker2 \in RemHandling,
         worker2' \in {"read", "look", "probe", "init", "close", "submitted"} =>
           worker2 \in {"read", "look", "probe", "init", "close", "submitted"}
  PROVE  RemFiling'
<1>1. RemUsed' = RemUsed
  BY RemuxDeliveryFrame
<1>2. RemClosed' = RemClosed
  BY DEF RemClosed, RemRng
<1> QED
  BY <1>1, <1>2 DEF RemFiling

\* A drained output refuses packets.
LEMMA RemuxDrainedOutputs ==
  ASSUME RemOutputs, NEW n, output' = Remux!Drained(n),
         UNCHANGED <<plan, served, registration, current>>,
         worker2' = "open" => worker2 = "open"
  PROVE  RemOutputs'
BY DEF RemOutputs, Remux!Drained

\* A call of Stop.
LEMMA RemuxStopKeeps == ASSUME RemInv, Remux!Stop PROVE RemInv'
<1> USE DEF RemInv, Remux!Stop, Remux!pipeline, Remux!running, Remux!source,
     Remux!remuxers, Remux!reaping, Remux!counters, Remux!Calm, Remux!Failure,
     Remux!FailWith
<1>0. RemFailing'
  BY DEF RemFailing, Remux!Threads, RemCauses
<1>1. RemTyped'
  BY RemuxTypedSteps DEF RemEntered, RemHandling, RemTaken
<1>2. RemReached'
  BY DEF RemTyped, RemFailing, RemReached, RemPending, RemEntered, RemHandling,
       RemStarting, RemTaken, Remux!Threads
<1>3. RemOutputs'
  BY DEF RemOutputs, Remux!Drained, RemTyped
<1>4. RemUndisturbed
  BY DEF RemUndisturbed, RemTyped, RemLater, RemEntered, RemHandling, RemTaken,
       Remux!Drained, RemOutputs, RemReaping
<1>5. RemBegun' /\ RemReading' /\ RemDelivering' /\ RemSessions' /\ RemReaping' /\ RemFiling'
  BY <1>4, RemuxUndisturbedKeeps
<1>6. RemEnding'
  BY DEF RemEnding, RemBegun, RemReaping, RemTyped, RemEntered, RemHandling
<1> QED
  BY <1>0, <1>1, <1>2, <1>3, <1>5, <1>6 DEF RemInv

\* Start failed: its Stop follows.
LEMMA RemuxStartCaughtKeeps == ASSUME RemInv, Remux!StartCaught PROVE RemInv'
<1> USE DEF RemInv, Remux!StartCaught, Remux!pipeline, Remux!running, Remux!source,
     Remux!remuxers, Remux!reaping, Remux!counters, Remux!Calm, Remux!Failure,
     Remux!FailWith
<1>0. RemFailing'
  BY DEF RemFailing, Remux!Threads, RemCauses
<1>1. RemTyped'
  BY RemuxTypedSteps DEF RemEntered, RemHandling, RemTaken
<1>2. RemReached'
  BY DEF RemTyped, RemFailing, RemReached, RemPending, RemEntered, RemHandling,
       RemStarting, RemTaken, Remux!Threads
<1>3. RemOutputs'
  BY DEF RemOutputs, Remux!Drained, RemTyped
<1>4. RemUndisturbed
  BY DEF RemUndisturbed, RemTyped, RemLater, RemEntered, RemHandling, RemTaken,
       Remux!Drained, RemOutputs, RemReaping
<1>5. RemBegun' /\ RemReading' /\ RemDelivering' /\ RemSessions' /\ RemReaping' /\ RemFiling'
  BY <1>4, RemuxUndisturbedKeeps
<1>6. RemEnding'
  BY DEF RemEnding, RemBegun, RemReaping, RemTyped, RemEntered, RemHandling
<1> QED
  BY <1>0, <1>1, <1>2, <1>3, <1>5, <1>6 DEF RemInv

\* Stop requests a stop.
LEMMA RemuxStopRequestKeeps == ASSUME RemInv, Remux!StopRequest PROVE RemInv'
<1> USE DEF RemInv, Remux!StopRequest, Remux!pipeline, Remux!running, Remux!source,
     Remux!remuxers, Remux!reaping, Remux!counters, Remux!Calm, Remux!Failure,
     Remux!FailWith, Remux!Requested, Remux!MutexFree
<1>0. RemFailing'
  <2>1. current \in Nat
    BY DEF RemOutputs
  <2> QED
    BY <2>1 DEF RemFailing, RemTyped, Remux!Threads, RemCauses
<1>1. RemTyped'
  BY RemuxTypedSteps DEF RemEntered, RemHandling, RemTaken
<1>2. RemReached'
  BY DEF RemTyped, RemFailing, RemReached, RemPending, RemEntered, RemHandling,
       RemStarting, RemTaken, Remux!Threads
<1>3. RemOutputs'
  BY DEF RemOutputs, Remux!Drained, RemTyped
<1>4. RemUndisturbed
  BY DEF RemUndisturbed, RemTyped, RemLater, RemEntered, RemHandling, RemTaken,
       Remux!Drained, RemOutputs, RemReaping
<1>5. RemBegun' /\ RemReading' /\ RemDelivering' /\ RemSessions' /\ RemReaping' /\ RemFiling'
  BY <1>4, RemuxUndisturbedKeeps
<1>6. RemEnding'
  BY DEF RemEnding, RemBegun, RemReaping, RemTyped, RemEntered, RemHandling
<1> QED
  BY <1>0, <1>1, <1>2, <1>3, <1>5, <1>6 DEF RemInv

\* Stop cancels the input and drains the output.
LEMMA RemuxStopCancelKeeps == ASSUME RemInv, Remux!StopCancel PROVE RemInv'
<1> USE DEF RemInv, Remux!StopCancel, Remux!pipeline, Remux!running, Remux!source,
     Remux!remuxers, Remux!reaping, Remux!counters, Remux!Calm, Remux!Failure,
     Remux!FailWith, Remux!Cancel
<1>0. RemFailing'
  BY DEF RemFailing, Remux!Threads, RemCauses
<1>1. RemTyped'
  BY RemuxTypedSteps DEF RemEntered, RemHandling, RemTaken
<1>2. RemReached'
  BY DEF RemTyped, RemFailing, RemReached, RemPending, RemEntered, RemHandling,
       RemStarting, RemTaken, Remux!Threads
<1>3. RemOutputs'
  <2>1. output' = Remux!Drained(thrower["caller"].output) /\ UNCHANGED <<plan, served, registration, current>>
    OBVIOUS
  <2>2. worker2' = "open" => worker2 = "open"
    OBVIOUS
  <2> QED
    BY <2>1, <2>2, RemuxDrainedOutputs
<1>4. RemUndisturbed
  BY DEF RemUndisturbed, RemTyped, RemLater, RemEntered, RemHandling, RemTaken,
       Remux!Drained, RemOutputs, RemReaping
<1>5. RemBegun' /\ RemReading' /\ RemDelivering' /\ RemSessions' /\ RemReaping' /\ RemFiling'
  BY <1>4, RemuxUndisturbedKeeps
<1>6. RemEnding'
  BY DEF RemEnding, RemBegun, RemReaping, RemTyped, RemEntered, RemHandling
<1> QED
  BY <1>0, <1>1, <1>2, <1>3, <1>5, <1>6 DEF RemInv

\* Stop returns.
LEMMA RemuxStopDoneKeeps == ASSUME RemInv, Remux!StopDone PROVE RemInv'
<1> USE DEF RemInv, Remux!StopDone, Remux!pipeline, Remux!running, Remux!source,
     Remux!remuxers, Remux!reaping, Remux!counters, Remux!Calm, Remux!Failure,
     Remux!FailWith
<1>0. RemFailing'
  BY DEF RemFailing, Remux!Threads, RemCauses
<1>1. RemTyped'
  BY DEF RemTyped, RemFailing, RemCauses, RemEntered, RemHandling, RemStarting, RemTaken,
       RemPlaces
<1>2. RemReached'
  BY DEF RemTyped, RemFailing, RemReached, RemPending, RemEntered, RemHandling,
       RemStarting, RemTaken, Remux!Threads
<1>3. RemOutputs'
  BY DEF RemOutputs, Remux!Drained, RemTyped
<1>4. RemUndisturbed
  BY DEF RemUndisturbed, RemTyped, RemLater, RemEntered, RemHandling, RemTaken,
       Remux!Drained, RemOutputs, RemReaping
<1>5. RemBegun' /\ RemReading' /\ RemDelivering' /\ RemSessions' /\ RemReaping' /\ RemFiling'
  BY <1>4, RemuxUndisturbedKeeps
<1>6. RemEnding'
  BY DEF RemEnding, RemBegun, RemReaping, RemTyped, RemEntered, RemHandling
<1> QED
  BY <1>0, <1>1, <1>2, <1>3, <1>5, <1>6 DEF RemInv

\* Another thread requests a stop.
LEMMA RemuxRequestStopKeeps == ASSUME RemInv, Remux!RequestStop PROVE RemInv'
<1> USE DEF RemInv, Remux!RequestStop, Remux!pipeline, Remux!running, Remux!source,
     Remux!remuxers, Remux!reaping, Remux!counters, Remux!Calm, Remux!Failure,
     Remux!FailWith, Remux!Requested, Remux!MutexFree
<1>0. RemFailing'
  BY DEF RemFailing, Remux!Threads, RemCauses
<1>1. RemTyped'
  <2>1. current \in Nat
    BY DEF RemOutputs
  <2>2. /\ UNCHANGED <<plan, control, input, announce, worker2, started2, mutex>>
        /\ asker' = [at |-> "cancel", cause |-> None, output |-> current]
    OBVIOUS
  <2>3. asker' \in [at : {"no", "cancel"}, cause : {None}, output : Nat] /\ asker'.at # "no"
    BY <2>1, <2>2
  <2> HIDE DEF Remux!RequestStop, Remux!Requested, RemInv
  <2>4. RemTyped
    BY DEF RemInv
  <2> QED
    BY <2>2, <2>3, <2>4 DEF RemTyped
<1>2. RemReached'
  BY DEF RemTyped, RemFailing, RemReached, RemPending, RemEntered, RemHandling,
       RemStarting, RemTaken, Remux!Threads
<1>3. RemOutputs'
  BY DEF RemOutputs, Remux!Drained, RemTyped
<1>4. RemUndisturbed
  BY DEF RemUndisturbed, RemTyped, RemLater, RemEntered, RemHandling, RemTaken,
       Remux!Drained, RemOutputs, RemReaping
<1>5. RemBegun' /\ RemReading' /\ RemDelivering' /\ RemSessions' /\ RemReaping' /\ RemFiling'
  BY <1>4, RemuxUndisturbedKeeps
<1>6. RemEnding'
  BY DEF RemEnding, RemBegun, RemReaping, RemTyped, RemEntered, RemHandling
<1> QED
  BY <1>0, <1>1, <1>2, <1>3, <1>5, <1>6 DEF RemInv

\* It cancels the input.
LEMMA RemuxRequestCancelKeeps == ASSUME RemInv, Remux!RequestCancel PROVE RemInv'
<1> USE DEF RemInv, Remux!RequestCancel, Remux!pipeline, Remux!running, Remux!source,
     Remux!remuxers, Remux!reaping, Remux!counters, Remux!Calm, Remux!Failure,
     Remux!FailWith, Remux!Cancel
<1>0. RemFailing'
  BY DEF RemFailing, Remux!Threads, RemCauses
<1>1. RemTyped'
  BY DEF RemTyped, RemFailing, RemCauses, RemEntered, RemHandling, RemStarting, RemTaken,
       RemPlaces
<1>2. RemReached'
  BY DEF RemTyped, RemFailing, RemReached, RemPending, RemEntered, RemHandling,
       RemStarting, RemTaken, Remux!Threads
<1>3. RemOutputs'
  BY DEF RemOutputs, Remux!Drained, RemTyped
<1>4. RemUndisturbed
  BY DEF RemUndisturbed, RemTyped, RemLater, RemEntered, RemHandling, RemTaken,
       Remux!Drained, RemOutputs, RemReaping
<1>5. RemBegun' /\ RemReading' /\ RemDelivering' /\ RemSessions' /\ RemReaping' /\ RemFiling'
  BY <1>4, RemuxUndisturbedKeeps
<1>6. RemEnding'
  BY DEF RemEnding, RemBegun, RemReaping, RemTyped, RemEntered, RemHandling
<1> QED
  BY <1>0, <1>1, <1>2, <1>3, <1>5, <1>6 DEF RemInv

\* Fail keeps the first error.
LEMMA RemuxFailLockKeeps ==
  ASSUME NEW t \in Remux!Threads, RemInv, Remux!FailLock(t) PROVE RemInv'
<1> USE DEF RemInv, Remux!FailLock, Remux!pipeline, Remux!running, Remux!source,
     Remux!remuxers, Remux!reaping, Remux!counters, Remux!Calm, Remux!Failure,
     Remux!FailWith, Remux!MutexFree
<1>0. RemFailing'
  BY DEF RemFailing, Remux!Threads, RemCauses
<1>1. RemTyped'
  <2>1. /\ UNCHANGED <<plan, control, asker, input, started2, mutex>>
        /\ announce' \in {announce, None}
        /\ worker2' = worker2 \/ (worker2 = "eofsleep" /\ worker2' = "eof")
    OBVIOUS
  <2> QED
    BY <2>1, RemuxTypedFrame
<1>2. RemReached'
  BY DEF RemTyped, RemFailing, RemReached, RemPending, RemEntered, RemHandling,
       RemStarting, RemTaken, Remux!Threads
<1>3. RemOutputs'
  BY DEF RemOutputs, Remux!Drained, RemTyped
<1>4. RemUndisturbed
  BY DEF RemUndisturbed, RemTyped, RemLater, RemEntered, RemHandling, RemTaken,
       Remux!Drained, RemOutputs, RemReaping
<1>5. RemBegun' /\ RemReading' /\ RemDelivering' /\ RemSessions' /\ RemReaping' /\ RemFiling'
  BY <1>4, RemuxUndisturbedKeeps
<1>6. RemEnding'
  BY DEF RemEnding, RemBegun, RemReaping, RemTyped, RemEntered, RemHandling
<1> QED
  BY <1>0, <1>1, <1>2, <1>3, <1>5, <1>6 DEF RemInv

\* Fail requests a stop.
LEMMA RemuxFailRequestKeeps ==
  ASSUME NEW t \in Remux!Threads, RemInv, Remux!FailRequest(t) PROVE RemInv'
<1> USE DEF RemInv, Remux!FailRequest, Remux!pipeline, Remux!running, Remux!source,
     Remux!remuxers, Remux!reaping, Remux!counters, Remux!Calm, Remux!Failure,
     Remux!FailWith, Remux!Requested, Remux!MutexFree
<1>0. RemFailing'
  <2>1. current \in Nat
    BY DEF RemOutputs
  <2> QED
    BY <2>1 DEF RemFailing, RemTyped, Remux!Threads, RemCauses
<1>1. RemTyped'
  <2>1. /\ UNCHANGED <<plan, control, asker, input, started2, mutex>>
        /\ announce' \in {announce, None}
        /\ worker2' = worker2 \/ (worker2 = "eofsleep" /\ worker2' = "eof")
    OBVIOUS
  <2> QED
    BY <2>1, RemuxTypedFrame
<1>2. RemReached'
  BY DEF RemTyped, RemFailing, RemReached, RemPending, RemEntered, RemHandling,
       RemStarting, RemTaken, Remux!Threads
<1>3. RemOutputs'
  BY DEF RemOutputs, Remux!Drained, RemTyped
<1>4. RemUndisturbed
  BY DEF RemUndisturbed, RemTyped, RemLater, RemEntered, RemHandling, RemTaken,
       Remux!Drained, RemOutputs, RemReaping
<1>5. RemBegun' /\ RemReading' /\ RemDelivering' /\ RemSessions' /\ RemReaping' /\ RemFiling'
  BY <1>4, RemuxUndisturbedKeeps
<1>6. RemEnding'
  BY DEF RemEnding, RemBegun, RemReaping, RemTyped, RemEntered, RemHandling
<1> QED
  BY <1>0, <1>1, <1>2, <1>3, <1>5, <1>6 DEF RemInv

\* Fail cancels the input.
LEMMA RemuxFailCancelKeeps ==
  ASSUME NEW t \in Remux!Threads, RemInv, Remux!FailCancel(t) PROVE RemInv'
<1> USE DEF RemInv, Remux!FailCancel, Remux!pipeline, Remux!running, Remux!source,
     Remux!remuxers, Remux!reaping, Remux!counters, Remux!Calm, Remux!Failure,
     Remux!FailWith, Remux!Cancel
<1>0. RemFailing'
  BY DEF RemFailing, Remux!Threads, RemCauses
<1>1. RemTyped'
  BY RemuxTypedSteps DEF RemEntered, RemHandling, RemTaken
<1>2. RemReached'
  BY DEF RemTyped, RemFailing, RemReached, RemPending, RemEntered, RemHandling,
       RemStarting, RemTaken, Remux!Threads
<1>3. RemOutputs'
  <2>1. output' = Remux!Drained(thrower[t].output) /\ UNCHANGED <<plan, served, registration, current>>
    OBVIOUS
  <2>2. worker2' = "open" => worker2 = "open"
    OBVIOUS
  <2> QED
    BY <2>1, <2>2, RemuxDrainedOutputs
<1>4. RemUndisturbed
  BY DEF RemUndisturbed, RemTyped, RemLater, RemEntered, RemHandling, RemTaken,
       Remux!Drained, RemOutputs, RemReaping
<1>5. RemBegun' /\ RemReading' /\ RemDelivering' /\ RemSessions' /\ RemReaping' /\ RemFiling'
  BY <1>4, RemuxUndisturbedKeeps
<1>6. RemEnding'
  BY DEF RemEnding, RemBegun, RemReaping, RemTyped, RemEntered, RemHandling
<1> QED
  BY <1>0, <1>1, <1>2, <1>3, <1>5, <1>6 DEF RemInv

\* The input fails.
LEMMA RemuxInputFailsKeeps == ASSUME RemInv, Remux!InputFails PROVE RemInv'
<1> USE DEF RemInv, Remux!InputFails, Remux!pipeline, Remux!running, Remux!source,
     Remux!remuxers, Remux!reaping, Remux!counters, Remux!Calm, Remux!Failure,
     Remux!FailWith, Remux!Fault
<1>0. RemFailing'
  BY DEF RemFailing, Remux!Threads, RemCauses
<1>1. RemTyped'
  BY RemuxTypedSteps DEF RemEntered, RemHandling, RemTaken
<1>2. RemReached'
  BY DEF RemTyped, RemFailing, RemReached, RemPending, RemEntered, RemHandling,
       RemStarting, RemTaken, Remux!Threads
<1>3. RemOutputs'
  BY DEF RemOutputs, Remux!Drained, RemTyped
<1>4. RemUndisturbed
  BY DEF RemUndisturbed, RemTyped, RemLater, RemEntered, RemHandling, RemTaken,
       Remux!Drained, RemOutputs, RemReaping
<1>5. RemBegun' /\ RemReading' /\ RemDelivering' /\ RemSessions' /\ RemReaping' /\ RemFiling'
  BY <1>4, RemuxUndisturbedKeeps
<1>6. RemEnding'
  BY DEF RemEnding, RemBegun, RemReaping, RemTyped, RemEntered, RemHandling
<1> QED
  BY <1>0, <1>1, <1>2, <1>3, <1>5, <1>6 DEF RemInv

\* The input publishes its end.
LEMMA RemuxInputEndsKeeps == ASSUME RemInv, Remux!InputEnds PROVE RemInv'
<1> USE DEF RemInv, Remux!InputEnds, Remux!pipeline, Remux!running, Remux!source,
     Remux!remuxers, Remux!reaping, Remux!counters, Remux!Calm, Remux!Failure,
     Remux!FailWith
<1>0. RemFailing'
  BY DEF RemFailing, Remux!Threads, RemCauses
<1>1. RemTyped'
  BY RemuxTypedSteps DEF RemEntered, RemHandling, RemTaken
<1>2. RemReached'
  BY DEF RemTyped, RemFailing, RemReached, RemPending, RemEntered, RemHandling,
       RemStarting, RemTaken, Remux!Threads
<1>3. RemOutputs'
  BY DEF RemOutputs, Remux!Drained, RemTyped
<1>4. RemUndisturbed
  BY DEF RemUndisturbed, RemTyped, RemLater, RemEntered, RemHandling, RemTaken,
       Remux!Drained, RemOutputs, RemReaping
<1>5. RemBegun' /\ RemReading' /\ RemDelivering' /\ RemSessions' /\ RemReaping' /\ RemFiling'
  BY <1>4, RemuxUndisturbedKeeps
<1>6. RemEnding'
  BY DEF RemEnding, RemBegun, RemReaping, RemTyped, RemEntered, RemHandling
<1> QED
  BY <1>0, <1>1, <1>2, <1>3, <1>5, <1>6 DEF RemInv

\* The input retries.
LEMMA RemuxInputRetriesKeeps == ASSUME RemInv, Remux!InputRetries PROVE RemInv'
<1> USE DEF RemInv, Remux!InputRetries, Remux!pipeline, Remux!running, Remux!source,
     Remux!remuxers, Remux!reaping, Remux!counters, Remux!Calm, Remux!Failure,
     Remux!FailWith
<1>0. RemFailing'
  BY DEF RemFailing, Remux!Threads, RemCauses
<1>1. RemTyped'
  BY RemuxTypedSteps DEF RemEntered, RemHandling, RemTaken
<1>2. RemReached'
  BY DEF RemTyped, RemFailing, RemReached, RemPending, RemEntered, RemHandling,
       RemStarting, RemTaken, Remux!Threads
<1>3. RemOutputs'
  BY DEF RemOutputs, Remux!Drained, RemTyped
<1>4. RemUndisturbed
  BY DEF RemUndisturbed, RemTyped, RemLater, RemEntered, RemHandling, RemTaken,
       Remux!Drained, RemOutputs, RemReaping
<1>5. RemBegun' /\ RemReading' /\ RemDelivering' /\ RemSessions' /\ RemReaping' /\ RemFiling'
  BY <1>4, RemuxUndisturbedKeeps
<1>6. RemEnding'
  BY DEF RemEnding, RemBegun, RemReaping, RemTyped, RemEntered, RemHandling
<1> QED
  BY <1>0, <1>1, <1>2, <1>3, <1>5, <1>6 DEF RemInv

\* The callback of the input.
LEMMA RemuxAnnounceKeeps == ASSUME RemInv, Remux!Announce PROVE RemInv'
<1> USE DEF RemInv, Remux!Announce, Remux!pipeline, Remux!running, Remux!source,
     Remux!remuxers, Remux!reaping, Remux!counters, Remux!Calm, Remux!Failure,
     Remux!FailWith, Remux!MutexFree
<1>0. RemFailing'
  BY DEF RemFailing, Remux!Threads, RemCauses
<1>1. RemTyped'
  <2>1. /\ UNCHANGED <<plan, control, asker, input, started2, mutex>>
        /\ announce' \in {announce, None}
        /\ worker2' = worker2 \/ (worker2 = "eofsleep" /\ worker2' = "eof")
    OBVIOUS
  <2> QED
    BY <2>1, RemuxTypedFrame
<1>2. RemReached'
  <2>1. input # "on" \/ \A t \in Remux!Threads : thrower'[t].at = "cancel" <=> thrower[t].at = "cancel"
    BY DEF RemTyped, RemFailing, Remux!Threads
  <2>2. worker2' = worker2 \/ (worker2 = "eofsleep" /\ worker2' = "eof")
    OBVIOUS
  <2> QED
    BY <2>1, <2>2 DEF RemReached, RemPending, RemEntered, RemHandling, RemTaken
<1>3. RemOutputs'
  BY DEF RemOutputs, Remux!Drained, RemTyped
<1>4. RemUndisturbed
  BY DEF RemUndisturbed, RemTyped, RemLater, RemEntered, RemHandling, RemTaken,
       Remux!Drained, RemOutputs, RemReaping
<1>5. RemBegun' /\ RemReading' /\ RemDelivering' /\ RemSessions' /\ RemReaping' /\ RemFiling'
  BY <1>4, RemuxUndisturbedKeeps
<1>6. RemEnding'
  BY DEF RemEnding, RemBegun, RemReaping, RemTyped, RemEntered, RemHandling
<1> QED
  BY <1>0, <1>1, <1>2, <1>3, <1>5, <1>6 DEF RemInv

\* A remuxer fails.
LEMMA RemuxRemuxerFailsKeeps == ASSUME RemInv, Remux!RemuxerFails PROVE RemInv'
<1> USE DEF RemInv, Remux!RemuxerFails, Remux!pipeline, Remux!running, Remux!source,
     Remux!remuxers, Remux!reaping, Remux!counters, Remux!Calm, Remux!Failure,
     Remux!FailWith, Remux!Fault
<1>0. RemFailing'
  BY DEF RemFailing, Remux!Threads, RemCauses
<1>1. RemTyped'
  <2>1. /\ UNCHANGED <<plan, control, asker, input, started2, mutex>>
        /\ announce' \in {announce, None}
        /\ worker2' = worker2 \/ (worker2 = "eofsleep" /\ worker2' = "eof")
    OBVIOUS
  <2> QED
    BY <2>1, RemuxTypedFrame
<1>2. RemReached'
  BY DEF RemTyped, RemFailing, RemReached, RemPending, RemEntered, RemHandling,
       RemStarting, RemTaken, Remux!Threads
<1>3. RemOutputs'
  BY DEF RemOutputs, Remux!Drained, RemTyped
<1>4. RemUndisturbed
  BY DEF RemUndisturbed, RemTyped, RemLater, RemEntered, RemHandling, RemTaken,
       Remux!Drained, RemOutputs, RemReaping
<1>5. RemBegun' /\ RemReading' /\ RemDelivering' /\ RemSessions' /\ RemReaping' /\ RemFiling'
  BY <1>4, RemuxUndisturbedKeeps
<1>6. RemEnding'
  BY DEF RemEnding, RemBegun, RemReaping, RemTyped, RemEntered, RemHandling
<1> QED
  BY <1>0, <1>1, <1>2, <1>3, <1>5, <1>6 DEF RemInv

\* The timer of the probe expires.
LEMMA RemuxProbeExpiresKeeps == ASSUME RemInv, Remux!ProbeExpires PROVE RemInv'
<1> USE DEF RemInv, Remux!ProbeExpires, Remux!pipeline, Remux!running, Remux!source,
     Remux!remuxers, Remux!reaping, Remux!counters, Remux!Calm, Remux!Failure,
     Remux!FailWith, Remux!Fault
<1>0. RemFailing'
  BY DEF RemFailing, Remux!Threads, RemCauses
<1>1. RemTyped'
  BY RemuxTypedSteps DEF RemEntered, RemHandling, RemTaken
<1>2. RemReached'
  BY DEF RemTyped, RemFailing, RemReached, RemPending, RemEntered, RemHandling,
       RemStarting, RemTaken, Remux!Threads
<1>3. RemOutputs'
  BY DEF RemOutputs, Remux!Drained, RemTyped
<1>4. RemUndisturbed
  BY DEF RemUndisturbed, RemTyped, RemLater, RemEntered, RemHandling, RemTaken,
       Remux!Drained, RemOutputs, RemReaping
<1>5. RemBegun' /\ RemReading' /\ RemDelivering' /\ RemSessions' /\ RemReaping' /\ RemFiling'
  BY <1>4, RemuxUndisturbedKeeps
<1>6. RemEnding'
  BY DEF RemEnding, RemBegun, RemReaping, RemTyped, RemEntered, RemHandling
<1> QED
  BY <1>0, <1>1, <1>2, <1>3, <1>5, <1>6 DEF RemInv

\* The worker leaves after a failure.
LEMMA RemuxRunCaughtKeeps == ASSUME RemInv, Remux!RunCaught PROVE RemInv'
<1> USE DEF RemInv, Remux!RunCaught, Remux!pipeline, Remux!running, Remux!source,
     Remux!remuxers, Remux!reaping, Remux!counters, Remux!Calm, Remux!Failure,
     Remux!FailWith, Remux!Quiet, Remux!Goto, Remux!Throw, Remux!NoOutput,
     Remux!NoReading, Remux!Fault
<1>0. RemFailing'
  BY DEF RemFailing, Remux!Threads, RemCauses
<1>1. RemTyped'
  BY RemuxTypedSteps DEF RemEntered, RemHandling, RemTaken
<1>2. RemReached'
  BY DEF RemTyped, RemFailing, RemReached, RemPending, RemEntered, RemHandling,
       RemStarting, RemTaken, Remux!Threads
<1>3. RemOutputs'
  BY DEF RemOutputs, Remux!Drained, RemTyped
<1>4. RemUndisturbed
  BY DEF RemUndisturbed, RemTyped, RemLater, RemEntered, RemHandling, RemTaken,
       Remux!Drained, RemOutputs, RemReaping
<1>5. RemBegun' /\ RemReading' /\ RemDelivering' /\ RemSessions' /\ RemReaping' /\ RemFiling'
  BY <1>4, RemuxUndisturbedKeeps
<1>6. RemEnding'
  BY DEF RemEnding, RemBegun, RemReaping, RemTyped, RemEntered, RemHandling
<1> QED
  BY <1>0, <1>1, <1>2, <1>3, <1>5, <1>6 DEF RemInv

\* The pipeline drains after the EOF, unless a stop came first.
LEMMA RemuxEofDrainKeeps == ASSUME RemInv, Remux!EofDrain PROVE RemInv'
<1> USE DEF RemInv, Remux!EofDrain, Remux!pipeline, Remux!running, Remux!source,
     Remux!remuxers, Remux!reaping, Remux!counters, Remux!Calm, Remux!Failure,
     Remux!FailWith, Remux!Quiet, Remux!Goto, Remux!Throw, Remux!NoOutput,
     Remux!NoReading, Remux!Fault
<1>0. RemFailing'
  BY DEF RemFailing, Remux!Threads, RemCauses
<1>1. RemTyped'
  BY RemuxTypedSteps DEF RemEntered, RemHandling, RemTaken
<1>2. RemReached'
  BY DEF RemTyped, RemFailing, RemReached, RemPending, RemEntered, RemHandling,
       RemStarting, RemTaken, Remux!Threads
<1>3. RemOutputs'
  BY DEF RemOutputs, Remux!Drained, RemTyped
<1>4. RemUndisturbed
  BY DEF RemUndisturbed, RemTyped, RemLater, RemEntered, RemHandling, RemTaken,
       Remux!Drained, RemOutputs, RemReaping
<1>5. RemBegun' /\ RemReading' /\ RemDelivering' /\ RemSessions' /\ RemReaping' /\ RemFiling'
  BY <1>4, RemuxUndisturbedKeeps
<1>6. RemEnding'
  BY DEF RemEnding, RemBegun, RemReaping, RemTyped, RemEntered, RemHandling
<1> QED
  BY <1>0, <1>1, <1>2, <1>3, <1>5, <1>6 DEF RemInv

\* The worker looks at the end of the input.
LEMMA RemuxLeaveKeeps == ASSUME RemInv, Remux!Leave PROVE RemInv'
<1> USE DEF RemInv, Remux!Leave, Remux!pipeline, Remux!running, Remux!source,
     Remux!remuxers, Remux!reaping, Remux!counters, Remux!Calm, Remux!Failure,
     Remux!FailWith, Remux!Quiet, Remux!Goto, Remux!Throw, Remux!NoOutput,
     Remux!NoReading, Remux!Fault
<1>0. RemFailing'
  BY DEF RemFailing, Remux!Threads, RemCauses
<1>1. RemTyped'
  BY DEF RemTyped, RemFailing, RemCauses, RemEntered, RemHandling, RemStarting, RemTaken,
       RemPlaces
<1>2. RemReached'
  BY DEF RemTyped, RemFailing, RemReached, RemPending, RemEntered, RemHandling,
       RemStarting, RemTaken, Remux!Threads
<1>3. RemOutputs'
  BY DEF RemOutputs, Remux!Drained, RemTyped
<1>4. RemUndisturbed
  BY DEF RemUndisturbed, RemTyped, RemLater, RemEntered, RemHandling, RemTaken,
       Remux!Drained, RemOutputs, RemReaping
<1>5. RemBegun' /\ RemReading' /\ RemDelivering' /\ RemSessions' /\ RemReaping' /\ RemFiling'
  BY <1>4, RemuxUndisturbedKeeps
<1>6. RemEnding'
  BY DEF RemEnding, RemBegun, RemReaping, RemTyped, RemEntered, RemHandling
<1> QED
  BY <1>0, <1>1, <1>2, <1>3, <1>5, <1>6 DEF RemInv

\* The worker falls asleep.
LEMMA RemuxEofSleepKeeps == ASSUME RemInv, Remux!EofSleep PROVE RemInv'
<1> USE DEF RemInv, Remux!EofSleep, Remux!pipeline, Remux!running, Remux!source,
     Remux!remuxers, Remux!reaping, Remux!counters, Remux!Calm, Remux!Failure,
     Remux!FailWith, Remux!Quiet, Remux!Goto, Remux!Throw, Remux!NoOutput,
     Remux!NoReading, Remux!Fault
<1>0. RemFailing'
  BY DEF RemFailing, Remux!Threads, RemCauses
<1>1. RemTyped'
  BY RemuxTypedSteps DEF RemEntered, RemHandling, RemTaken
<1>2. RemReached'
  BY DEF RemTyped, RemFailing, RemReached, RemPending, RemEntered, RemHandling,
       RemStarting, RemTaken, Remux!Threads
<1>3. RemOutputs'
  BY DEF RemOutputs, Remux!Drained, RemTyped
<1>4. RemUndisturbed
  BY DEF RemUndisturbed, RemTyped, RemLater, RemEntered, RemHandling, RemTaken,
       Remux!Drained, RemOutputs, RemReaping
<1>5. RemBegun' /\ RemReading' /\ RemDelivering' /\ RemSessions' /\ RemReaping' /\ RemFiling'
  BY <1>4, RemuxUndisturbedKeeps
<1>6. RemEnding'
  BY DEF RemEnding, RemBegun, RemReaping, RemTyped, RemEntered, RemHandling
<1> QED
  BY <1>0, <1>1, <1>2, <1>3, <1>5, <1>6 DEF RemInv

\* Nothing was read.
LEMMA RemuxNothingRead ==
  (read = 0 /\ pending = <<>> => RemConsumed = 0) /\ (read' = 0 /\ pending' = <<>> => RemConsumed' = 0)
<1>1. Len(<<>>) = 0 /\ 0 - 0 = 0
  OBVIOUS
<1> QED
  BY <1>1 DEF RemConsumed

\* The empty sequence has no element.
LEMMA RemuxEmptyFacts == RemRng(<<>>) = {} /\ Len(<<>>) = 0
BY DEF RemRng

\* The session's facts that only the delivered packets decide.
LEMMA RemuxSeparatedFrame ==
  ASSUME UNCHANGED <<plan, delivered>>
  PROVE  /\ RemSeparated' <=> RemSeparated
         /\ \A m : RemSplits(plan', delivered', Len(delivered'), m) <=> RemSplits(plan, delivered, Len(delivered), m)
BY DEF RemSeparated

\* A session number that was given to a packet is one of an output.
LEMMA RemuxTrackedCurrent ==
  ASSUME RemInv, RemTracked, delivered # <<>>
  PROVE  current \in 1..Len(output) /\ live /\ current \in RemUsed
<1>1. delivered \in Seq([item : Nat, session : Nat])
  BY DEF RemInv, RemDelivering
<1>2. Len(delivered) \in DOMAIN delivered
  BY <1>1
<1>3. current = delivered[Len(delivered)].session /\ live
  BY DEF RemTracked, RemLatest
<1> QED
  BY <1>2, <1>3 DEF RemInv, RemSessions, RemUsed

\* Nothing was read, taken or delivered.
LEMMA RemuxDeliveringFrame ==
  ASSUME RemDelivering, UNCHANGED <<plan, delivered, hand, read, pending, atEof>>,
         worker2' = worker2 \/ worker2' \notin RemHandling \cup RemStarting
         \/ (worker2' \notin RemHandling /\ ~atEof)
         \/ (worker2 \in RemTaken \ {"submitted"} /\ worker2' \in RemTaken \ {"submitted"} /\ ~atEof)
  PROVE  RemDelivering'
BY RemuxDeliveryFrame DEF RemDelivering, RemConsumed, RemHandling, RemStarting, RemTaken

\* Moving a packet along, or dropping it, keeps what is known of reading.
LEMMA RemuxReadingFrame ==
  ASSUME RemReading, UNCHANGED <<plan, read, hand, pending>>,
         worker2' = worker2 \/ worker2' \notin RemTaken \cup {"look"} \/ (worker2 \in RemTaken /\ worker2' \in RemTaken)
  PROVE  RemReading'
BY RemuxDeliveryFrame DEF RemReading, RemConsumed, RemTaken, Remux!Selected, Remux!Item

\* EnsureRemuxer leaves a current output that has all that is registered.
LEMMA RemuxEnsureOutputs ==
  ASSUME RemInv, NEW regs \in SUBSET plan.adds, Remux!EnsureRemuxer(regs)
  PROVE  /\ output' \in Seq({"new", "on", "drained", "closed", "failed"})
         /\ served' \in Seq(SUBSET plan.adds) /\ Len(served') = Len(output')
         /\ current' \in 1..Len(output') /\ served'[current'] = regs
         /\ Len(output') \in Nat /\ Len(output) \in Nat /\ current \in Nat
         /\ \/ current # 0 /\ current' = current /\ Len(output') = Len(output)
            \/ current = 0 /\ current' = Len(output) + 1 /\ Len(output') = Len(output) + 1
<1> DEFINE Outs == {"new", "on", "drained", "closed", "failed"}
<1> DEFINE Regs == SUBSET plan.adds
<1>1. /\ output \in Seq(Outs) /\ served \in Seq(Regs) /\ Len(served) = Len(output)
      /\ current \in 0..Len(output) /\ regs \in Regs /\ "new" \in Outs
  BY DEF RemInv, RemOutputs
<1> HIDE DEF Outs, Regs
<1>2. CASE current # 0
  <2>1. /\ served' = [served EXCEPT ![current] = regs] /\ current' = current /\ output' = output
    BY <1>2 DEF Remux!EnsureRemuxer
  <2>2. current \in 1..Len(served) /\ Len(output) \in Nat
    BY <1>1, <1>2
  <2>3. served' \in Seq(Regs) /\ Len(served') = Len(served) /\ served'[current] = regs
    BY <1>1, <2>1, <2>2
  <2> QED
    BY <1>1, <1>2, <2>1, <2>2, <2>3 DEF Outs, Regs
<1>3. CASE current = 0
  <2>1. /\ current' = Len(output) + 1
        /\ output' = Append(output, "new") /\ served' = Append(served, regs)
    BY <1>3 DEF Remux!EnsureRemuxer
  <2>2. /\ output' \in Seq(Outs) /\ served' \in Seq(Regs)
        /\ Len(output') = Len(output) + 1 /\ Len(served') = Len(served) + 1
        /\ served'[Len(served) + 1] = regs
    BY <1>1, <2>1
  <2> QED
    BY <1>1, <1>3, <2>1, <2>2 DEF Outs, Regs
<1> QED
  BY <1>2, <1>3

\* A new output is one that was never closed.
LEMMA RemuxEnsureReaping ==
  ASSUME RemInv, NEW regs \in SUBSET plan.adds, Remux!EnsureRemuxer(regs),
         UNCHANGED <<live, retired, retiring, history, delivered>>
  PROVE  /\ \A s \in RemClosed' : s <= Len(output') /\ s < current'
         /\ RemClosed' = RemClosed /\ RemUsed' = RemUsed
         /\ live => current' = current
         /\ \A s \in RemClosed : s \in Nat
<1>1. RemClosed' = RemClosed /\ RemUsed' = RemUsed
  BY DEF RemClosed, RemRng, RemUsed
<1>2. \A s \in RemClosed : s \in Nat /\ s <= Len(output) /\ (current # 0 => s < current)
  BY DEF RemInv, RemReaping, RemClosed, RemRng
<1>3. live => current # 0
  BY DEF RemInv, RemReaping
<1> HIDE DEF RemClosed, RemUsed
<1> QED
  BY <1>1, <1>2, <1>3, RemuxEnsureOutputs

\* Outside Initialize the output in use does not change under the worker.
LEMMA RemuxEnsureSessions ==
  ASSUME RemInv, NEW regs \in SUBSET plan.adds, Remux!EnsureRemuxer(regs), worker2' = worker2,
         worker2 \notin {"ensure", "open"}, stopping' = stopping,
         UNCHANGED <<plan, delivered, last, conn, live, hand>>
  PROVE  RemSessions'
<1>1. \A i \in DOMAIN delivered : delivered[i].session \in 1..Len(output')
  BY RemuxEnsureOutputs DEF RemInv, RemSessions
<1>2. CASE current # 0
  <2>1. current' = current
    BY <1>2 DEF Remux!EnsureRemuxer
  <2> QED
    BY <1>1, <2>1, RemuxSessionFrame, RemuxHandFrame DEF RemInv, RemSessions
<1>3. CASE current = 0
  <2>1. RemTracked => delivered = <<>> /\ RemTracked'
    BY <1>3, RemuxTrackedCurrent DEF RemTracked
  <2>2. ~RemFollows /\ ~RemOpens
    BY <1>3, <2>1 DEF RemFollows, RemOpens, RemUnused
  <2>3. (RemSeparated' <=> RemSeparated)
        /\ (RemSplits(plan', delivered', Len(delivered'), hand') <=> RemSplits(plan, delivered, Len(delivered), hand))
    BY RemuxSeparatedFrame, RemuxHandFrame
  <2> QED
    BY <1>1, <2>1, <2>2, <2>3 DEF RemInv, RemSessions
<1> QED
  BY <1>2, <1>3

\* CloseCurrent leaves no current output and hands a live one to Reap.
LEMMA RemuxCloseFacts ==
  ASSUME RemInv, Remux!CloseCurrent, UNCHANGED <<history, retiring>>
  PROVE  /\ current' = 0 /\ ~live' /\ Len(output') = Len(output)
         /\ output' \in Seq({"new", "on", "drained", "closed", "failed"})
         /\ RemClosed' = RemClosed \cup (IF live THEN {current} ELSE {})
         /\ IF live THEN retired' = Append(retired, current) ELSE retired' = retired
<1>1. output \in Seq({"new", "on", "drained", "closed", "failed"}) /\ current \in 0..Len(output)
  BY DEF RemInv, RemOutputs
<1>2. retired \in Seq(Nat \ {0}) /\ (live => current # 0)
  BY DEF RemInv, RemReaping
<1>3. IF live THEN retired' = Append(retired, current) ELSE retired' = retired
  BY <1>2 DEF Remux!CloseCurrent, Remux!RetireCurrent
<1>4. current' = 0 /\ ~live'
  BY <1>2 DEF Remux!CloseCurrent
<1>5. /\ Len(output') = Len(output)
      /\ output' \in Seq({"new", "on", "drained", "closed", "failed"})
  BY <1>1 DEF Remux!CloseCurrent
<1>6. RemClosed' = RemClosed \cup (IF live THEN {current} ELSE {})
  <2>1. CASE live
    <3>1. RemRng(retired') = RemRng(retired) \cup {current}
      <4>1. /\ DOMAIN retired' = DOMAIN retired \cup {Len(retired) + 1}
            /\ retired'[Len(retired) + 1] = current /\ Len(retired) + 1 \notin DOMAIN retired
            /\ \A i \in DOMAIN retired : retired'[i] = retired[i]
        <5>1. retired \in Seq(Nat \ {0}) /\ current \in Nat \ {0} /\ retired' = Append(retired, current)
          BY <1>1, <1>2, <1>3, <2>1
        <5> HIDE DEF Remux!CloseCurrent
        <5> QED
          BY <5>1
      <4> QED
        BY <4>1 DEF RemRng
    <3> QED
      BY <2>1, <3>1 DEF RemClosed, RemRng
  <2>2. CASE ~live
    BY <1>3, <2>2 DEF RemClosed, RemRng
  <2> QED
    BY <2>1, <2>2
<1> QED
  BY <1>3, <1>4, <1>5, <1>6

\* The session that ends is retired behind the ones before it.
LEMMA RemuxCloseReaping ==
  ASSUME RemInv, Remux!CloseCurrent, UNCHANGED <<history, retiring, reaper, started2>>,
         workerDone => workerDone', workerDone' => workerDone \/ worker2 = "off", worker2' = "off" \/ worker2 # "off",
         workerDone => worker2' \in {"off", "retire"}, worker2 = "off" => worker2' = "off"
  PROVE  RemReaping'
<1>1. /\ current' = 0 /\ ~live' /\ Len(output') = Len(output)
      /\ RemClosed' = RemClosed \cup (IF live THEN {current} ELSE {})
      /\ IF live THEN retired' = Append(retired, current) ELSE retired' = retired
  BY RemuxCloseFacts
<1>2. current \in 0..Len(output) /\ Len(output) \in Nat
  BY DEF RemInv, RemOutputs
<1>3. \A s \in RemClosed' : s <= Len(output')
  BY <1>1, <1>2 DEF RemInv, RemReaping
<1>4. CASE ~live
  BY <1>1, <1>3, <1>4 DEF RemInv, RemReaping
<1>5. CASE live
  <2>1. retired' = Append(retired, current) /\ retired \in Seq(Nat \ {0}) /\ current \in Nat \ {0}
        /\ worker2 # "off" /\ ~workerDone /\ reaper # "off"
    BY <1>1, <1>2, <1>5 DEF RemInv, RemReaping, RemEntered, RemHandling, RemTaken
  <2>2. /\ \A i \in DOMAIN history : history[i] < current
        /\ \A i \in DOMAIN retired : retired[i] < current
        /\ retiring # 0 => retiring < current
    BY <1>5 DEF RemInv, RemReaping, RemClosed, RemRng
  <2>3. /\ retired' \in Seq(Nat \ {0}) /\ DOMAIN retired' = 1..(Len(retired) + 1)
        /\ retired'[Len(retired) + 1] = current
        /\ \A i \in DOMAIN retired : retired'[i] = retired[i]
        /\ DOMAIN retired = 1..Len(retired) /\ Len(retired) \in Nat
    BY <2>1
  <2>10. /\ \A i, j \in DOMAIN retired : i < j => retired[i] < retired[j]
         /\ \A i \in DOMAIN history, j \in DOMAIN retired : history[i] < retired[j]
         /\ retiring # 0 => \A i \in DOMAIN retired : retiring < retired[i]
    BY DEF RemInv, RemReaping
  <2>4. \A i, j \in DOMAIN retired' : i < j => retired'[i] < retired'[j]
    BY <2>2, <2>3, <2>10
  <2>5. \A i \in DOMAIN history, j \in DOMAIN retired' : history[i] < retired'[j]
    BY <2>2, <2>3, <2>10
  <2>6. retiring # 0 => \A i \in DOMAIN retired' : retiring < retired'[i]
    BY <2>2, <2>3, <2>10
  <2> QED
    BY <1>1, <1>3, <2>1, <2>3, <2>4, <2>5, <2>6 DEF RemInv, RemReaping
<1> QED
  BY <1>4, <1>5

\* The files of the session that ends are accounted for by its retirement.
LEMMA RemuxCloseFiling ==
  ASSUME RemInv, Remux!CloseCurrent, UNCHANGED <<history, retiring, delivered, atEof>>,
         worker2' \in RemHandling => worker2 \in {"read", "look", "probe", "init", "close", "submitted"}
  PROVE  RemFiling'
<1>1. /\ ~live' /\ RemClosed' = RemClosed \cup (IF live THEN {current} ELSE {})
  BY RemuxCloseFacts
<1>2. RemUsed' = RemUsed
  BY DEF RemUsed
<1>3. worker2' \in RemHandling => worker2 \in RemHandling
  BY DEF RemHandling, RemTaken
<1> HIDE DEF RemClosed, RemUsed, RemHandling
<1> QED
  BY <1>1, <1>2, <1>3 DEF RemInv, RemFiling

\* The retirement thread takes a session, keeps what became of it, or ends.
LEMMA RemuxReapReaping ==
  ASSUME RemInv, Remux!Reap
  PROVE  RemReaping' /\ RemClosed' = RemClosed
<1>1. /\ history \in Seq(Nat) /\ retired \in Seq(Nat \ {0}) /\ retiring \in Nat
      /\ \A i, j \in DOMAIN history : i < j => history[i] < history[j]
      /\ \A i, j \in DOMAIN retired : i < j => retired[i] < retired[j]
      /\ \A i \in DOMAIN history, j \in DOMAIN retired : history[i] < retired[j]
      /\ retiring # 0 => (\A i \in DOMAIN history : history[i] < retiring)
                         /\ \A i \in DOMAIN retired : retiring < retired[i]
      /\ reaper # "stop" <=> retiring = 0
  BY DEF RemInv, RemReaping
<1>2. UNCHANGED <<output, current, workerDone, worker2, started2, live>>
  BY DEF Remux!Reap, Remux!remuxers, Remux!pipeline
<1>3. CASE reaper = "wait" /\ retired # <<>> /\ retiring' = Head(retired) /\ retired' = Tail(retired)
           /\ reaper' = "stop" /\ UNCHANGED history
  <2>1. /\ retired' \in Seq(Nat \ {0}) /\ DOMAIN retired = 1..Len(retired) /\ Len(retired) \in Nat \ {0}
        /\ DOMAIN retired' = 1..(Len(retired) - 1)
        /\ \A i \in DOMAIN retired' : retired'[i] = retired[i + 1]
        /\ retiring' = retired[1] /\ retiring' \in Nat \ {0}
    BY <1>1, <1>3
  <2>2. RemRng(retired) = RemRng(retired') \cup {retiring'}
    <3>1. \A i \in DOMAIN retired : i = 1 \/ (i - 1 \in DOMAIN retired' /\ retired'[i - 1] = retired[i])
      BY <2>1
    <3>2. \A i \in DOMAIN retired' : i + 1 \in DOMAIN retired
      BY <2>1
    <3>3. 1 \in DOMAIN retired
      BY <2>1
    <3> QED
      BY <2>1, <3>1, <3>2, <3>3 DEF RemRng
  <2>3. RemClosed' = RemClosed
    <3>1. retiring = 0 /\ ({retiring} \ {0}) = {} /\ ({retiring'} \ {0}) = {retiring'}
      BY <1>1, <1>3, <2>1
    <3>2. RemRng(history)' = RemRng(history) /\ RemRng(retired)' = RemRng(retired')
      BY <1>3 DEF RemRng
    <3> QED
      BY <2>2, <3>1, <3>2 DEF RemClosed
  <2>10. 1 \in DOMAIN retired /\ \A i \in DOMAIN retired' : i \in Nat \ {0} /\ i + 1 \in DOMAIN retired
    BY <2>1
  <2>11. \A i, j \in DOMAIN retired' : i < j => i + 1 < j + 1
    BY <2>1
  <2>4. \A i, j \in DOMAIN retired' : i < j => retired'[i] < retired'[j]
    BY <1>1, <2>1, <2>10, <2>11
  <2>5. \A i \in DOMAIN history, j \in DOMAIN retired' : history[i] < retired'[j]
    BY <1>1, <2>1, <2>10
  <2>6. /\ \A i \in DOMAIN history : history[i] < retiring'
        /\ \A i \in DOMAIN retired' : retiring' < retired'[i]
    <3>1. \A i \in DOMAIN retired' : 1 < i + 1
      BY <2>10
    <3> QED
      BY <1>1, <2>1, <2>10, <3>1
  <2>7. /\ \A i, j \in DOMAIN history' : i < j => history'[i] < history'[j]
        /\ \A i \in DOMAIN history', j \in DOMAIN retired' : history'[i] < retired'[j]
        /\ \A i \in DOMAIN history' : history'[i] < retiring'
        /\ history' \in Seq(Nat)
    BY <1>1, <1>3, <2>5, <2>6
  <2>8. /\ \A s \in RemClosed' : s <= Len(output') /\ (current' # 0 => s < current')
        /\ ~started2' => FALSE
        /\ workerDone' => worker2' \in {"off", "retire"}
        /\ live' => worker2' \in RemEntered \cup {"stopinput"} /\ current' # 0
    BY <1>2, <1>3, <2>3 DEF RemInv, RemReaping
  <2> QED
    BY <1>3, <2>1, <2>3, <2>4, <2>6, <2>7, <2>8 DEF RemReaping
<1>4. CASE reaper = "stop" /\ history' = Append(history, retiring) /\ retiring' = 0
           /\ reaper' = "wait" /\ UNCHANGED retired
  <2>1. /\ history' \in Seq(Nat) /\ DOMAIN history' = DOMAIN history \cup {Len(history) + 1}
        /\ DOMAIN history = 1..Len(history) /\ Len(history) \in Nat
        /\ history'[Len(history) + 1] = retiring /\ retiring # 0
        /\ \A i \in DOMAIN history : history'[i] = history[i]
    BY <1>1, <1>4
  <2>2. RemRng(history') = RemRng(history) \cup {retiring}
    BY <2>1 DEF RemRng
  <2>3. RemClosed' = RemClosed
    BY <1>4, <2>1, <2>2 DEF RemClosed, RemRng
  <2>4. /\ \A i, j \in DOMAIN history' : i < j => history'[i] < history'[j]
        /\ \A i \in DOMAIN history', j \in DOMAIN retired : history'[i] < retired[j]
    BY <1>1, <2>1
  <2>5. /\ \A s \in RemClosed' : s <= Len(output') /\ (current' # 0 => s < current')
        /\ ~started2' => FALSE
        /\ workerDone' => worker2' \in {"off", "retire"}
        /\ live' => worker2' \in RemEntered \cup {"stopinput"} /\ current' # 0
    BY <1>2, <1>4, <2>3 DEF RemInv, RemReaping
  <2> QED
    BY <1>1, <1>4, <2>1, <2>3, <2>4, <2>5 DEF RemReaping
<1>5. CASE reaper = "wait" /\ retired = <<>> /\ workerDone /\ reaper' = "off"
           /\ UNCHANGED <<retired, retiring, history>>
  <2>1. RemClosed' = RemClosed
    BY <1>5 DEF RemClosed, RemRng
  <2>2. /\ \A s \in RemClosed' : s <= Len(output') /\ (current' # 0 => s < current')
        /\ workerDone' => worker2' \in {"off", "retire"}
        /\ live' => worker2' \in RemEntered \cup {"stopinput"} /\ current' # 0
    BY <1>2, <2>1 DEF RemInv, RemReaping
  <2> QED
    BY <1>1, <1>2, <1>5, <2>1, <2>2 DEF RemReaping
<1> QED
  BY <1>3, <1>4, <1>5 DEF Remux!Reap

\* A set of naturals has a least element.
LEMMA NatLeast ==
  ASSUME NEW T, T \subseteq Nat, T # {}
  PROVE  \E x \in T : \A y \in T : x <= y
<1>1. PICK x \in T : \A y \in T : ~(<<y, x>> \in OpToRel(<, Nat))
  BY WFMin, NatLessThanWellFounded
<1>2. \A y \in T : y \in Nat
  OBVIOUS
<1>3. \A y \in T : ~(y < x)
  BY <1>1, <1>2 DEF OpToRel
<1> QED
  BY <1>2, <1>3

\* A set of positions has a last one.
LEMMA LastIs ==
  ASSUME NEW n \in Nat, NEW S \in SUBSET (1..n), S # {}
  PROVE  LastOf(S) \in S /\ \A k \in S : k <= LastOf(S)
<1> DEFINE T == {y \in Nat : n - y \in S}
<1>1. \A k \in S : n - k \in T
  <2> TAKE k \in S
  <2>1. k \in 1..n
    OBVIOUS
  <2>2. n - k \in Nat /\ n - (n - k) = k
    BY <2>1
  <2> QED
    BY <2>2
<1>2. PICK x \in T : \A y \in T : x <= y
  BY <1>1, NatLeast
<1>3. \A k \in S : k <= n - x
  <2> TAKE k \in S
  <2>1. k \in 1..n /\ x <= n - k /\ x \in Nat
    BY <1>1, <1>2
  <2> QED
    BY <2>1
<1> QED
  BY <1>2, <1>3 DEF LastOf

\* An element no other exceeds is the last one.
LEMMA LastUnique ==
  ASSUME NEW S, S \subseteq Nat, NEW m \in S, \A k \in S : k <= m
  PROVE  LastOf(S) = m
<1>1. LastOf(S) \in S /\ \A k \in S : k <= LastOf(S)
  BY DEF LastOf
<1>2. LastOf(S) <= m /\ m <= LastOf(S) /\ LastOf(S) \in Nat /\ m \in Nat
  BY <1>1
<1> QED
  BY <1>2

\* What the script of the input consists of.
LEMMA RemuxItemType ==
  ASSUME RemInv, NEW n \in 1..Len(plan.items)
  PROVE  /\ Remux!Item(n).conn \in Nat \ {0} /\ Remux!Item(n).dts \in Int
         /\ Remux!Selected(n) => Remux!Item(n).track \in 1..2 /\ ~Remux!IsEof(n)
         /\ Remux!IsEof(n) /\ ~plan.loop => n = Len(plan.items)
         /\ Len(plan.items) \in Nat
<1>1. plan \in Plans
  BY DEF RemInv, RemTyped
<1>2. plan.items \in Seq([conn : Nat \ {0}, track : 0..3, dts : Int])
      /\ (~plan.loop => \A k \in DOMAIN plan.items : plan.items[k].track = 0 => k = Len(plan.items))
  BY <1>1, PipelinesAssumption, PlansAssumption
<1> DEFINE s == plan.items
           R == [conn : Nat \ {0}, track : 0..3, dts : Int]
<1> HIDE DEF s, R
<1>4. s \in Seq(R) /\ n \in 1..Len(s)
  BY <1>2 DEF s, R
<1>5. s[n] \in R /\ n \in DOMAIN s
  BY <1>4
<1>3. plan.items[n] \in [conn : Nat \ {0}, track : 0..3, dts : Int] /\ n \in DOMAIN plan.items
  BY <1>5 DEF s, R
<1> QED
  BY <1>2, <1>3 DEF Remux!Item, Remux!IsEof, Remux!Selected

\* The times of the packets that were delivered.
LEMMA RemuxDeliveriesType ==
  ASSUME RemInv, NEW n \in 0..Len(delivered), NEW t, NEW s
  PROVE  /\ RemDeliveries(plan, delivered, n, t, s) \in SUBSET (1..n) /\ n \in Nat
         /\ \A j \in RemDeliveries(plan, delivered, n, t, s) : Remux!Item(delivered[j].item).dts \in Int
<1>1. delivered \in Seq([item : Nat, session : Nat])
      /\ \A i \in DOMAIN delivered : delivered[i].item \in 1..Len(plan.items)
  BY DEF RemInv, RemDelivering
<1>2. \A j \in 1..n : j \in DOMAIN delivered
  BY <1>1
<1>3. n \in Nat
  BY <1>1
<1> QED
  BY <1>1, <1>2, <1>3, RemuxItemType DEF RemDeliveries

\* Look sees what SessionsSeparated asks for.
LEMMA RemuxTrackedSplits ==
  ASSUME RemInv, RemTracked, delivered # <<>>, NEW m \in 1..Len(plan.items), Remux!Selected(m)
  PROVE  RemSplits(plan, delivered, Len(delivered), m) <=> Remux!NewSession(m)
<1> DEFINE n == Len(delivered)
           t == Remux!Item(m).track
           S == RemDeliveries(plan, delivered, n, t, current)
<1>1. n \in 0..Len(delivered) /\ n \in Nat
  BY DEF RemInv, RemDelivering
<1>2. /\ S \in SUBSET (1..n) /\ \A j \in S : Remux!Item(delivered[j].item).dts \in Int
  BY <1>1, RemuxDeliveriesType
<1>3. t \in 1..2 /\ Remux!Item(m).dts \in Int
  BY RemuxItemType
<1>4. /\ delivered[n].session = current /\ conn = Remux!Item(delivered[n].item).conn
      /\ last[t] = IF S = {} THEN None ELSE Remux!Item(delivered[LastOf(S)].item).dts
  BY <1>3 DEF RemTracked, RemLatest
<1>5. S # {} => LastOf(S) \in S
  BY <1>1, <1>2, LastIs
<1>6. RemJumps(plan, delivered, n, m) <=> Remux!Discontinuous(m)
  <2> DEFINE p == Remux!Item(delivered[LastOf(S)].item).dts
             q == Remux!Item(m).dts
  <2>1. CASE S = {}
    BY <1>4, <2>1 DEF RemJumps, Remux!Discontinuous, Remux!Item
  <2>2. CASE S # {}
    <3>1. p \in Int /\ q \in Int /\ last[t] = p /\ p # None
      BY <1>2, <1>3, <1>4, <1>5, <2>2, PipelinesAssumption, PlansAssumption
    <3>2. RemJumps(plan, delivered, n, m) <=> (q - p < 0 \/ q - p > MaxGap)
      BY <1>4, <2>2 DEF RemJumps, Remux!Item
    <3>3. Remux!Discontinuous(m) <=> (q < p \/ q - p > MaxGap)
      BY <3>1 DEF Remux!Discontinuous
    <3> HIDE DEF p, q
    <3>4. q - p < 0 <=> q < p
      BY <3>1
    <3> QED
      BY <3>2, <3>3, <3>4
  <2> QED
    BY <2>1, <2>2
<1> QED
  BY <1>4, <1>6 DEF RemSplits, Remux!NewSession, Remux!Boundary, Remux!Item

\* Read takes the next item, or there is none.
LEMMA RemuxReadTakes ==
  ASSUME RemInv, worker2 = "read", Remux!Next1, UNCHANGED plan
  PROVE  /\ hand' \in {0, RemConsumed + 1} /\ (hand' # 0 => RemConsumed' = RemConsumed + 1)
         /\ hand' \in 0..Len(plan.items) /\ read' \in 0..Len(plan.items)
         /\ pending' \in Seq(Nat) /\ Len(pending') <= read' /\ RemConsumed \in Nat
         /\ \A i \in 1..Len(pending') : pending'[i] = RemConsumed' + i
<1>1. /\ read \in 0..Len(plan.items) /\ pending \in Seq(Nat) /\ Len(pending) <= read
      /\ \A i \in 1..Len(pending) : pending[i] = RemConsumed + i
  BY DEF RemInv, RemReading
<1>2. Len(plan.items) \in Nat /\ Len(pending) \in Nat /\ RemConsumed \in Nat
  BY <1>1, PipelinesAssumption, PlansAssumption DEF RemInv, RemTyped, RemConsumed
<1>3. CASE pending # <<>>
  <2>1. hand' = pending[1] /\ pending' = Tail(pending) /\ read' = read
    BY <1>1, <1>3 DEF Remux!Next1
  <2>2. /\ pending' \in Seq(Nat) /\ Len(pending') = Len(pending) - 1 /\ Len(pending) >= 1
        /\ \A i \in 1..Len(pending') : pending'[i] = pending[i + 1]
    BY <1>1, <1>3, <2>1
  <2>3. RemConsumed' = RemConsumed + 1
    BY <1>1, <1>2, <2>1, <2>2 DEF RemConsumed
  <2>4. \A i \in 1..Len(pending') : i + 1 \in 1..Len(pending)
    BY <1>2, <2>2
  <2>5. RemConsumed + 1 <= Len(plan.items)
    BY <1>1, <1>2, <2>2 DEF RemConsumed
  <2>6. \A i \in 1..Len(pending') : pending'[i] = RemConsumed' + i
    BY <1>1, <1>2, <2>2, <2>3, <2>4
  <2>7. hand' = RemConsumed + 1
    BY <1>1, <1>2, <2>1, <2>2
  <2> QED
    BY <1>1, <1>2, <2>1, <2>2, <2>3, <2>5, <2>6, <2>7
<1>4. CASE pending = <<>>
  <2>1. pending' = pending /\ Len(pending) = 0 /\ RemConsumed = read /\ RemConsumed' = read'
    BY <1>1, <1>4 DEF Remux!Next1, RemConsumed
  <2>2. \/ read < Len(plan.items) /\ read' = read + 1 /\ hand' = read + 1
        \/ hand' = 0 /\ read' = read
    BY <1>4 DEF Remux!Next1
  <2> QED
    BY <1>1, <1>2, <1>4, <2>1, <2>2
<1> QED
  BY <1>3, <1>4

\* The packet in hand follows those that were delivered.
LEMMA RemuxSubmitDelivers ==
  ASSUME RemInv, worker2 = "submit", UNCHANGED <<plan, hand, read, pending, atEof>>,
         worker2' = "submitted",
         delivered' = Append(delivered, [item |-> hand, session |-> current])
  PROVE  RemDelivering'
<1>1. /\ delivered \in Seq([item : Nat, session : Nat]) /\ RemItemsOf = RemPackets(hand - 1) /\ ~atEof
      /\ \A i \in DOMAIN delivered : delivered[i].item \in 1..Len(plan.items) /\ Remux!Selected(delivered[i].item)
      /\ \A i, j \in DOMAIN delivered : i < j => delivered[i].item < delivered[j].item
      /\ \A i \in RemItemsOf : RemPackets(i) \subseteq RemItemsOf
  BY DEF RemInv, RemDelivering, RemHandling, RemTaken
<1>2. hand \in 1..Len(plan.items) /\ Remux!Selected(hand) /\ Len(plan.items) \in Nat /\ hand \in Nat \ {0}
  <2>1. Len(plan.items) \in Nat
    BY PipelinesAssumption, PlansAssumption DEF RemInv, RemTyped
  <2> QED
    BY <2>1 DEF RemInv, RemReading, RemTaken
<1>3. current \in Nat
  BY DEF RemInv, RemOutputs
<1> DEFINE n == Len(delivered)
           x == [item |-> hand, session |-> current]
<1>4. /\ delivered' \in Seq([item : Nat, session : Nat]) /\ n \in Nat
      /\ DOMAIN delivered = 1..n /\ DOMAIN delivered' = 1..(n + 1)
      /\ delivered'[n + 1] = x /\ x.item = hand
      /\ \A i \in 1..n : delivered'[i] = delivered[i]
  BY <1>1, <1>2, <1>3
<1> HIDE DEF n, x
<1>5. \A i \in 1..n : delivered[i].item \in RemItemsOf
  BY <1>4 DEF RemItemsOf
<1>6. \A i \in 1..n : delivered[i].item < hand
  BY <1>1, <1>2, <1>5 DEF RemPackets
<1>7. \A i \in 1..(n + 1) : i \in 1..n \/ i = n + 1
  BY <1>4
<1>8. \A k : Remux!Selected(k)' <=> Remux!Selected(k)
  BY DEF Remux!Selected, Remux!Item
<1>9. \A i \in 1..(n + 1) : delivered'[i].item \in 1..Len(plan.items) /\ Remux!Selected(delivered'[i].item)
  BY <1>1, <1>2, <1>4, <1>7
<1>10. \A i, j \in 1..(n + 1) : i < j => delivered'[i].item < delivered'[j].item
  <2> TAKE i, j \in 1..(n + 1)
  <2> HAVE i < j
  <2>1. i \in 1..n /\ (j \in 1..n \/ j = n + 1)
    BY <1>4
  <2>2. CASE j \in 1..n
    BY <1>1, <1>4, <2>1, <2>2
  <2>3. CASE j = n + 1
    BY <1>4, <1>6, <2>1, <2>3
  <2> QED
    BY <2>1, <2>2, <2>3
<1>11. RemItemsOf' = RemItemsOf \cup {hand}
  <2>1. RemItemsOf' = {delivered'[i].item : i \in 1..(n + 1)} /\ RemItemsOf = {delivered[i].item : i \in 1..n}
    BY <1>4 DEF RemItemsOf
  <2>2. n + 1 \in 1..(n + 1) /\ \A i \in 1..n : i \in 1..(n + 1)
    BY <1>4
  <2> QED
    BY <1>4, <1>7, <2>1, <2>2
<1>12. RemItemsOf' = RemPackets(hand) /\ Remux!Selected(hand)
  <2>1. \A k : k \in 1..hand <=> k \in 1..(hand - 1) \/ k = hand
    BY <1>2
  <2> QED
    BY <1>1, <1>2, <1>11, <2>1 DEF RemPackets
<1>13. \A k : RemPackets(k)' = RemPackets(k)
  BY <1>8 DEF RemPackets
<1>14. \A i \in RemItemsOf' : RemPackets(i) \subseteq RemItemsOf'
  BY <1>1, <1>11, <1>12
<1> QED
  BY <1>1, <1>4, <1>8, <1>9, <1>10, <1>12, <1>13, <1>14 DEF RemDelivering, RemHandling,
       RemTaken, RemStarting

\* Nor do the sessions and times of the packets before it change.
LEMMA RemuxSubmitFacts ==
  ASSUME RemInv, UNCHANGED plan, current \in Nat, hand \in Nat,
         delivered' = Append(delivered, [item |-> hand, session |-> current])
  PROVE  /\ Len(delivered) \in Nat /\ Len(delivered') = Len(delivered) + 1
         /\ DOMAIN delivered = 1..Len(delivered) /\ DOMAIN delivered' = 1..Len(delivered')
         /\ delivered'[Len(delivered')].item = hand /\ delivered'[Len(delivered')].session = current
         /\ \A i \in 1..Len(delivered) : delivered'[i] = delivered[i]
         /\ \A k : Remux!Item(k)' = Remux!Item(k)
<1>1. delivered \in Seq([item : Nat, session : Nat])
  BY DEF RemInv, RemDelivering
<1> DEFINE x == [item |-> hand, session |-> current]
<1>2. x.item = hand /\ x.session = current /\ x \in [item : Nat, session : Nat]
  OBVIOUS
<1>3. delivered' = Append(delivered, x)
  OBVIOUS
<1> HIDE DEF x
<1>4. /\ Len(delivered) \in Nat /\ Len(delivered') = Len(delivered) + 1
      /\ DOMAIN delivered = 1..Len(delivered) /\ DOMAIN delivered' = 1..Len(delivered')
      /\ delivered'[Len(delivered')] = x
      /\ \A i \in 1..Len(delivered) : delivered'[i] = delivered[i]
  BY <1>1, <1>2, <1>3
<1>5. \A k : Remux!Item(k)' = Remux!Item(k)
  BY DEF Remux!Item
<1> QED
  BY <1>2, <1>4, <1>5

\* What separates a packet from those before it stays as it is.
LEMMA RemuxPrefixSplits ==
  ASSUME NEW p, NEW d, NEW e, NEW k \in Nat \ {0}, \A j \in 1..k : e[j] = d[j], NEW m
  PROVE  RemSplits(p, e, k, m) <=> RemSplits(p, d, k, m)
<1> DEFINE t == p.items[m].track
           S == RemDeliveries(p, d, k, t, d[k].session)
<1>1. e[k] = d[k]
  OBVIOUS
<1>2. RemDeliveries(p, e, k, t, e[k].session) = S
  BY <1>1 DEF RemDeliveries
<1>3. S \in SUBSET (1..k)
  BY DEF RemDeliveries
<1>4. S # {} => e[LastOf(S)] = d[LastOf(S)]
  BY <1>3, LastIs
<1>5. RemJumps(p, e, k, m) <=> RemJumps(p, d, k, m)
  BY <1>1, <1>2, <1>4 DEF RemJumps
<1> QED
  BY <1>1, <1>5 DEF RemSplits

\* The session of the packet in hand is the right one, and the times follow.
LEMMA RemuxSubmitSeparates ==
  ASSUME RemInv, worker2 = "submit", RemFollows \/ RemOpens, worker2' = "submitted",
         UNCHANGED <<plan, hand, conn, live, current, output>>,
         delivered' = Append(delivered, [item |-> hand, session |-> current]),
         last' = [last EXCEPT ![Remux!Item(hand).track] = Remux!Item(hand).dts]
  PROVE  RemSessions' /\ live /\ RemUsed' = RemUsed \cup {current}
<1> DEFINE n == Len(delivered)
           t == Remux!Item(hand).track
<1>1. /\ hand \in 1..Len(plan.items) /\ Remux!Selected(hand) /\ t \in 1..2 /\ Remux!Item(hand).dts \in Int
      /\ hand \in Nat /\ Remux!Item(hand).conn \in Nat
  <2>1. hand \in 1..Len(plan.items) /\ Remux!Selected(hand)
    BY DEF RemInv, RemReading, RemTaken
  <2> QED
    BY <2>1, RemuxItemType DEF RemInv, RemReading
<1>2. /\ \A i \in DOMAIN delivered : delivered[i].session \in 1..Len(output)
      /\ last \in [1..2 -> Int \cup {None}] /\ conn \in Nat /\ RemSeparated
  BY DEF RemInv, RemSessions
<1>3. /\ current \in 1..Len(output) /\ live /\ conn = Remux!Item(hand).conn /\ Len(output) \in Nat
      /\ RemFollows => ~Remux!NewSession(hand) /\ delivered # <<>> /\ RemTracked
  <2>1. CASE RemFollows
    BY <2>1, RemuxTrackedCurrent DEF RemFollows, Remux!NewSession, Remux!Boundary, RemInv,
         RemOutputs
  <2>2. CASE RemOpens
    <3>1. current \in 0..Len(output) /\ current # 0 /\ Len(output) \in Nat /\ live /\ conn = Remux!Item(hand).conn
      BY <2>2 DEF RemOpens, RemUnused, RemInv, RemOutputs
    <3>2. RemFollows => ~Remux!NewSession(hand) /\ delivered # <<>> /\ RemTracked
      BY DEF RemFollows
    <3> QED
      BY <3>1, <3>2
  <2> QED
    BY <2>1, <2>2
<1>4. /\ n \in Nat /\ Len(delivered') = n + 1
      /\ DOMAIN delivered = 1..n /\ DOMAIN delivered' = 1..(n + 1)
      /\ delivered'[n + 1].item = hand /\ delivered'[n + 1].session = current
      /\ \A i \in 1..n : delivered'[i] = delivered[i]
      /\ \A k : Remux!Item(k)' = Remux!Item(k)
  BY <1>1, <1>3, RemuxSubmitFacts
<1>5. n + 1 \in 1..(n + 1) /\ (\A i \in 1..(n + 1) : i \in 1..n \/ i = n + 1) /\ \A i \in 1..n : i \in 1..(n + 1)
  BY <1>4
<1>6. delivered # <<>> => n \in 1..n
  BY <1>4
<1>7. RemUsed' = RemUsed \cup {current}
  <2>1. RemUsed' = {delivered'[i].session : i \in 1..(n + 1)} /\ RemUsed = {delivered[i].session : i \in 1..n}
    BY <1>4 DEF RemUsed
  <2> HIDE DEF n
  <2> QED
    BY <1>4, <1>5, <2>1
<1>8. \A i \in DOMAIN delivered' : delivered'[i].session \in 1..Len(output')
  BY <1>2, <1>3, <1>4, <1>5
<1>9. delivered # <<>> =>
        (current # delivered[n].session <=> RemSplits(plan, delivered, n, hand))
  <2> SUFFICES ASSUME delivered # <<>> PROVE current # delivered[n].session <=> RemSplits(plan, delivered, n, hand)
    OBVIOUS
  <2>1. CASE RemFollows
    <3>1. ~RemSplits(plan, delivered, n, hand)
      BY <1>1, <1>3, <2>1, RemuxTrackedSplits
    <3>2. current = delivered[n].session
      BY <1>3, <2>1 DEF RemTracked, RemLatest
    <3> QED
      BY <3>1, <3>2
  <2>2. CASE RemOpens
    <3>1. RemSplits(plan, delivered, n, hand)
      BY <2>2 DEF RemOpens
    <3>2. current # delivered[n].session
      BY <1>4, <1>6, <2>2 DEF RemOpens, RemUnused
    <3> QED
      BY <3>1, <3>2
  <2> QED
    BY <2>1, <2>2
<1>10. RemSeparated'
  <2> SUFFICES ASSUME NEW k \in 1..n
               PROVE  delivered'[k + 1].session # delivered'[k].session
                        <=> RemSplits(plan, delivered', k, delivered'[k + 1].item)
    BY <1>4 DEF RemSeparated
  <2> HIDE DEF n, t
  <2>0. k \in Nat \ {0} /\ \A j \in 1..k : j \in 1..n
    BY <1>4
  <2>5. \A j \in 1..k : delivered'[j] = delivered[j]
    BY <1>4, <2>0
  <2>1. \A m : RemSplits(plan, delivered', k, m) <=> RemSplits(plan, delivered, k, m)
    BY <2>0, <2>5, RemuxPrefixSplits
  <2>2. CASE k = n
    <3>1. delivered # <<>> /\ k + 1 = n + 1
      BY <1>4, <2>2 DEF n
    <3>2. /\ delivered'[k + 1].item = hand /\ delivered'[k + 1].session = current
          /\ delivered'[k] = delivered[n]
      BY <1>4, <2>2
    <3> QED
      BY <1>9, <2>1, <2>2, <3>1, <3>2 DEF n
  <2>3. CASE k # n
    <3>1. k \in 1..(n - 1) /\ k + 1 \in 1..n
      BY <1>4, <2>3
    <3>2. delivered'[k + 1] = delivered[k + 1] /\ delivered'[k] = delivered[k]
      BY <1>4, <3>1
    <3> QED
      BY <1>2, <2>1, <3>1, <3>2 DEF RemSeparated, n
  <2> QED
    BY <2>2, <2>3
<1> DEFINE D(u) == {j \in 1..(n + 1) : Remux!Item(delivered'[j].item).track = u
                                        /\ delivered'[j].session = current}
<1>11. \A u \in 1..2 :
         last'[u] = IF D(u) = {} THEN None ELSE Remux!Item(delivered'[LastOf(D(u))].item).dts
  <2> SUFFICES ASSUME NEW u \in 1..2
               PROVE  last'[u] = IF D(u) = {} THEN None ELSE Remux!Item(delivered'[LastOf(D(u))].item).dts
    OBVIOUS
  <2> DEFINE S == D(u)
             B == RemDeliveries(plan, delivered, n, u, current)
  <2>1. S = {j \in 1..(n + 1) : Remux!Item(delivered'[j].item).track = u /\ delivered'[j].session = current}
    OBVIOUS
  <2>2. B = {j \in 1..n : Remux!Item(delivered[j].item).track = u /\ delivered[j].session = current}
    BY DEF RemDeliveries, Remux!Item
  <2> HIDE DEF S, B, n
  <2>3. CASE u = t
    <3>1. n + 1 \in S /\ S \subseteq 1..(n + 1)
      BY <1>4, <1>5, <2>1, <2>3
    <3>2. S \subseteq Nat /\ \A k \in S : k <= n + 1
      BY <1>4, <3>1
    <3>3. LastOf(S) = n + 1
      BY <3>1, <3>2, LastUnique
    <3>4. last'[u] = Remux!Item(hand).dts
      BY <1>1, <1>2, <2>3
    <3> QED
      BY <1>4, <3>1, <3>3, <3>4 DEF S
  <2>4. CASE u # t
    <3>1. S = B
      BY <1>4, <1>5, <2>1, <2>2, <2>4
    <3>2. last'[u] = last[u]
      BY <1>1, <1>2, <2>4
    <3>3. last[u] = IF B = {} THEN None ELSE Remux!Item(delivered[LastOf(B)].item).dts
      <4>1. CASE RemFollows
        BY <1>3, <4>1 DEF RemTracked, B, n
      <4>2. CASE RemOpens
        <5>1. B = {}
          BY <1>4, <2>2, <4>2 DEF RemOpens, RemUnused
        <5> QED
          BY <4>2, <5>1 DEF RemOpens, RemForgotten
      <4> QED
        BY <4>1, <4>2
    <3>4. B # {} => LastOf(B) \in 1..n
      <4>1. B \in SUBSET (1..n)
        BY <2>2
      <4> QED
        BY <1>4, <4>1, LastIs
    <3>5. B # {} => delivered'[LastOf(B)] = delivered[LastOf(B)]
      BY <1>4, <3>4
    <3> QED
      BY <3>1, <3>2, <3>3, <3>5 DEF S
  <2> QED
    BY <2>3, <2>4
<1>12. RemTracked'
  <2>1. delivered' # <<>>
    BY <1>4
  <2>2. RemLatest' = delivered'[n + 1]
    BY <1>4 DEF RemLatest
  <2>3. live' /\ RemLatest'.session = current'
    BY <1>3, <1>4, <2>2
  <2>4. \A u : RemDeliveries(plan, delivered', Len(delivered'), u, current) = D(u)
    BY <1>4 DEF RemDeliveries, Remux!Item
  <2>8. current' = current
    OBVIOUS
  <2> HIDE DEF D, n, t
  <2>5. \A u \in 1..2 : last'[u] = IF D(u) = {} THEN None ELSE plan.items[delivered'[LastOf(D(u))].item].dts
    BY <1>11 DEF Remux!Item
  <2>6. conn' = plan.items[RemLatest'.item].conn /\ plan' = plan
    BY <1>3, <1>4, <2>2 DEF Remux!Item
  <2>9. \A u \in 1..2 :
          LET S == RemDeliveries(plan', delivered', Len(delivered'), u, current') IN
          last'[u] = IF S = {} THEN None ELSE plan'.items[delivered'[LastOf(S)].item].dts
    <3> TAKE u \in 1..2
    <3> DEFINE S == RemDeliveries(plan', delivered', Len(delivered'), u, current')
    <3>1. S = D(u)
      BY <2>4, <2>6, <2>8
    <3>2. last'[u] = IF D(u) = {} THEN None ELSE plan.items[delivered'[LastOf(D(u))].item].dts
      BY <2>5
    <3> HIDE DEF S
    <3>3. last'[u] = IF S = {} THEN None ELSE plan.items[delivered'[LastOf(S)].item].dts
      BY <3>1, <3>2
    <3> QED
      BY <2>6, <3>3 DEF S
  <2> QED
    BY <2>1, <2>3, <2>6, <2>9 DEF RemTracked, Remux!Item
<1>13. last' \in [1..2 -> Int \cup {None}] /\ conn' \in Nat
  BY <1>1, <1>2
<1> QED
  BY <1>3, <1>7, <1>8, <1>10, <1>12, <1>13 DEF RemSessions

\* An output is added.
LEMMA RemuxAddKeeps == ASSUME NEW o \in plan.adds, RemInv, Remux!Add(o) PROVE RemInv'
<1> USE DEF RemInv, Remux!Add, Remux!pipeline, Remux!running, Remux!source,
     Remux!remuxers, Remux!reaping, Remux!counters, Remux!Calm, Remux!Failure,
     Remux!FailWith, Remux!MutexFree
<1>a. registration' \in SUBSET plan.adds /\ Remux!EnsureRemuxer(registration')
  BY DEF RemOutputs
<1>b. worker2 \notin {"close", "ensure", "open"}
  BY PipelinesAssumption, PlansAssumption DEF RemTyped
<1>1. RemTyped'
  BY RemuxTypedSteps DEF RemEntered, RemHandling, RemTaken
<1>2. RemFailing'
  BY DEF RemFailing, RemTyped, Remux!Threads, RemCauses
<1>3. RemReached'
  BY DEF RemReached, RemPending, RemTyped, RemFailing, Remux!Threads, RemEntered,
       RemHandling, RemTaken, RemStarting, RemPlaces
<1>4. RemOutputs'
  BY <1>a, <1>b, RemuxEnsureOutputs DEF RemOutputs
<1>5. RemBegun'
  BY DEF RemBegun, RemTyped, RemEntered, RemHandling, RemTaken, RemStarting, RemPlaces
<1>6. RemReading'
  BY RemuxReadingFrame DEF RemTaken
<1>7. RemDelivering'
  BY RemuxDeliveringFrame DEF RemHandling, RemStarting, RemTaken
<1>8. RemSessions'
  BY <1>a, <1>b, RemuxEnsureSessions
<1>9. RemReaping'
  BY <1>a, RemuxEnsureReaping DEF RemReaping
<1>10. RemFiling'
  BY <1>a, RemuxEnsureReaping DEF RemFiling
<1>11. RemEnding'
  BY DEF RemEnding, RemBegun, RemReaping, RemTyped, RemDelivering, RemEntered,
       RemHandling, RemTaken, RemStarting, RemPlaces
<1> QED
  BY <1>1, <1>2, <1>3, <1>4, <1>5, <1>6, <1>7, <1>8, <1>9, <1>10, <1>11 DEF RemInv

\* Start: nothing of the last session is left.
LEMMA RemuxStartKeeps == ASSUME RemInv, Remux!Start PROVE RemInv'
<1> USE DEF RemInv, Remux!Start, Remux!pipeline, Remux!running, Remux!source,
     Remux!remuxers, Remux!reaping, Remux!counters, Remux!Calm, Remux!Failure,
     Remux!FailWith
<1>a. worker2 = "off" /\ ~live /\ reaper = "off" /\ retired = <<>> /\ retiring = 0
  BY DEF RemTyped, RemReaping, RemEntered, RemHandling, RemTaken
<1>b. Len(plan.items) \in Nat
  BY PipelinesAssumption, PlansAssumption DEF RemTyped
<1>1. RemTyped'
  BY DEF RemTyped, RemEntered, RemHandling, RemTaken, RemStarting, RemPlaces
<1>2. RemFailing'
  BY DEF RemFailing, RemTyped, Remux!Threads, RemCauses
<1>3. RemReached'
  BY DEF RemReached, RemPending, RemTyped, RemFailing, Remux!Threads, RemEntered,
       RemHandling, RemTaken, RemStarting, RemPlaces
<1>4. RemOutputs'
  BY DEF RemOutputs, RemTyped
<1>5. RemBegun'
  BY <1>a DEF RemBegun
<1>6. RemReading'
  BY <1>a, <1>b DEF RemReading, RemConsumed, RemTaken
<1>7. RemDelivering'
  BY <1>a DEF RemDelivering, RemItemsOf, RemHandling, RemTaken, RemStarting
<1>8. RemSessions'
  BY <1>a DEF RemSessions, RemSeparated
<1>9. RemReaping'
  BY <1>a DEF RemReaping, RemClosed, RemRng
<1>10. RemFiling'
  BY <1>a DEF RemFiling, RemUsed, RemClosed, RemRng, RemHandling, RemTaken
<1>11. RemEnding'
  BY DEF RemEnding, RemBegun, RemReaping, RemTyped, RemDelivering, RemEntered,
       RemHandling, RemTaken, RemStarting, RemPlaces
<1> QED
  BY <1>1, <1>2, <1>3, <1>4, <1>5, <1>6, <1>7, <1>8, <1>9, <1>10, <1>11 DEF RemInv

\* The threads are created, or Start fails.
LEMMA RemuxStartThreadsKeeps == ASSUME RemInv, Remux!StartThreads PROVE RemInv'
<1> USE DEF RemInv, Remux!StartThreads, Remux!pipeline, Remux!running, Remux!source,
     Remux!remuxers, Remux!reaping, Remux!counters, Remux!Calm, Remux!Failure,
     Remux!FailWith, Remux!Fault
<1>a. registration \in SUBSET plan.adds /\ Remux!EnsureRemuxer(registration)
  BY DEF RemOutputs
<1>b. worker2 = "off" /\ worker2' \in {"off", "start"} /\ delivered = <<>> /\ ~live /\ ~atEof
  BY DEF RemTyped, RemBegun
<1>c. history = <<>> /\ retired = <<>> /\ retiring = 0 /\ started2 /\ ~workerDone /\ reaper' \in {"off", "wait"}
      /\ (reaper' = "off" => worker2' = "off")
  BY DEF RemTyped, RemBegun
<1>d. RemClosed = {}
  BY <1>c DEF RemClosed, RemRng
<1>1. RemTyped'
  BY DEF RemTyped, RemEntered, RemHandling, RemTaken, RemStarting, RemPlaces
<1>2. RemFailing'
  BY DEF RemFailing, RemTyped, Remux!Threads, RemCauses
<1>3. RemReached'
  BY DEF RemReached, RemPending, RemTyped, RemFailing, Remux!Threads, RemEntered,
       RemHandling, RemTaken, RemStarting, RemPlaces
<1>4. RemOutputs'
  BY <1>a, <1>b, RemuxEnsureOutputs DEF RemOutputs
<1>5. RemBegun'
  BY DEF RemBegun, RemTyped, RemEntered, RemHandling, RemTaken, RemStarting, RemPlaces
<1>6. RemReading'
  BY <1>b, RemuxReadingFrame DEF RemTaken
<1>7. RemDelivering'
  BY <1>b, RemuxDeliveringFrame DEF RemHandling, RemTaken
<1>8. RemSessions'
  BY <1>a, <1>b DEF RemSessions, RemSeparated
<1>9. RemReaping'
  BY <1>a, <1>b, <1>c, <1>d, RemuxEnsureReaping DEF RemReaping
<1>10. RemFiling'
  BY <1>a, <1>b, RemuxEnsureReaping DEF RemFiling, RemBegun, RemHandling, RemTaken
<1>11. RemEnding'
  BY DEF RemEnding, RemBegun, RemReaping, RemTyped, RemDelivering, RemEntered,
       RemHandling, RemTaken, RemStarting, RemPlaces
<1> QED
  BY <1>1, <1>2, <1>3, <1>4, <1>5, <1>6, <1>7, <1>8, <1>9, <1>10, <1>11 DEF RemInv

\* Stop closes the last output.
LEMMA RemuxStopCloseKeeps == ASSUME RemInv, Remux!StopClose PROVE RemInv'
<1> USE DEF RemInv, Remux!StopClose, Remux!pipeline, Remux!running, Remux!source,
     Remux!remuxers, Remux!reaping, Remux!counters, Remux!Calm, Remux!Failure,
     Remux!FailWith
<1>a. worker2 = "off" /\ UNCHANGED served
  BY DEF RemTyped
<1>b. current' = 0 /\ Len(output') = Len(output) /\ output' \in Seq({"new", "on", "drained", "closed", "failed"})
  BY RemuxCloseFacts
<1>c. ~live /\ retired' = retired
  BY <1>a, RemuxCloseFacts DEF RemReaping, RemEntered, RemHandling, RemTaken
<1>1. RemTyped'
  BY DEF RemTyped, RemEntered, RemHandling, RemTaken, RemStarting, RemPlaces
<1>2. RemFailing'
  BY DEF RemFailing, RemTyped, Remux!Threads, RemCauses
<1>3. RemReached'
  BY DEF RemReached, RemPending, RemTyped, RemFailing, Remux!Threads, RemEntered,
       RemHandling, RemTaken, RemStarting, RemPlaces
<1>4. RemOutputs'
  BY <1>a, <1>b DEF RemOutputs
<1>5. RemBegun'
  BY DEF RemBegun, RemTyped, RemEntered, RemHandling, RemTaken, RemStarting, RemPlaces
<1>6. RemReading'
  BY RemuxReadingFrame DEF RemTaken
<1>7. RemDelivering'
  BY <1>a, RemuxDeliveringFrame
<1>8. RemSessions'
  BY <1>a, <1>b, RemuxSeparatedFrame DEF RemSessions
<1>9. RemReaping'
  BY <1>a, RemuxCloseReaping
<1>10. RemFiling'
  BY <1>a, RemuxCloseFiling DEF RemHandling, RemTaken
<1>11. RemEnding'
  BY <1>a, <1>c DEF RemEnding
<1> QED
  BY <1>1, <1>2, <1>3, <1>4, <1>5, <1>6, <1>7, <1>8, <1>9, <1>10, <1>11 DEF RemInv

\* The retirement thread.
LEMMA RemuxReapKeeps == ASSUME RemInv, Remux!Reap PROVE RemInv'
<1> USE DEF RemInv, Remux!Reap, Remux!pipeline, Remux!running, Remux!source,
     Remux!remuxers, Remux!reaping, Remux!counters, Remux!Calm, Remux!Failure,
     Remux!FailWith, Remux!MutexFree
<1>a. (control # "ensure" /\ worker2 \notin RemStarting)
       \/ (history = <<>> /\ retired = <<>> /\ retiring = 0 /\ reaper # "stop")
  BY DEF RemBegun, RemReaping
<1>b. retired = <<>> /\ retiring = 0 => retired' = <<>> /\ retiring' = 0 /\ history' = history
  BY DEF RemReaping
<1>1. RemTyped'
  BY RemuxTypedSteps DEF RemEntered, RemHandling, RemTaken
<1>2. RemFailing'
  BY DEF RemFailing, RemTyped, Remux!Threads, RemCauses
<1>3. RemReached'
  BY DEF RemReached, RemPending, RemTyped, RemFailing, Remux!Threads, RemEntered,
       RemHandling, RemTaken, RemStarting, RemPlaces
<1>4. RemOutputs'
  BY DEF RemOutputs, RemTyped
<1>5. RemBegun'
  BY <1>b DEF RemBegun
<1>6. RemReading'
  BY RemuxReadingFrame DEF RemTaken
<1>7. RemDelivering'
  BY RemuxDeliveringFrame DEF RemHandling, RemStarting, RemTaken
<1>8. RemSessions'
  BY RemuxSessionFrame, RemuxHandFrame DEF RemSessions, RemBegun, RemEntered, RemHandling,
       RemTaken, RemStarting, RemPlaces
<1>9. RemReaping'
  BY RemuxReapReaping
<1>10. RemFiling'
  BY RemuxReapReaping DEF RemFiling, RemUsed
<1>11. RemEnding'
  BY <1>b DEF RemEnding
<1> QED
  BY <1>1, <1>2, <1>3, <1>4, <1>5, <1>6, <1>7, <1>8, <1>9, <1>10, <1>11 DEF RemInv

\* The worker looks at stopping_ before it starts the input.
LEMMA RemuxInputWantedKeeps == ASSUME RemInv, Remux!InputWanted PROVE RemInv'
<1> USE DEF RemInv, Remux!InputWanted, Remux!pipeline, Remux!running, Remux!source,
     Remux!remuxers, Remux!reaping, Remux!counters, Remux!Calm, Remux!Failure,
     Remux!FailWith, Remux!Quiet, Remux!Goto, Remux!Throw, Remux!NoOutput,
     Remux!NoReading, Remux!Fault
<1>1. RemTyped'
  BY DEF RemTyped, RemEntered, RemHandling, RemTaken, RemStarting, RemPlaces
<1>2. RemFailing'
  BY DEF RemFailing, RemTyped, Remux!Threads, RemCauses
<1>3. RemReached'
  BY DEF RemReached, RemPending, RemTyped, RemFailing, Remux!Threads, RemEntered,
       RemHandling, RemTaken, RemStarting, RemPlaces
<1>4. RemOutputs'
  BY DEF RemOutputs, RemTyped
<1>5. RemBegun'
  BY DEF RemBegun, RemTyped, RemEntered, RemHandling, RemTaken, RemStarting, RemPlaces
<1>6. RemReading'
  BY RemuxDeliveryFrame DEF RemReading, RemBegun, RemConsumed, RemEntered, RemHandling,
       RemTaken, RemStarting, RemPlaces
<1>7. RemDelivering'
  BY RemuxDeliveryFrame DEF RemDelivering, RemReading, RemBegun, RemConsumed, RemEntered,
       RemHandling, RemTaken, RemStarting, RemPlaces
<1>8. RemSessions'
  BY RemuxSessionFrame, RemuxHandFrame DEF RemSessions, RemBegun, RemEntered, RemHandling,
       RemTaken, RemStarting, RemPlaces
<1>9. RemReaping'
  BY DEF RemReaping, RemTyped, RemBegun, RemClosed, RemRng, RemEntered, RemHandling,
       RemTaken, RemStarting, RemPlaces
<1>10. RemFiling'
  BY RemuxFilingFrame DEF RemHandling, RemTaken
<1>11. RemEnding'
  BY DEF RemEnding, RemBegun, RemReaping, RemTyped, RemDelivering, RemEntered,
       RemHandling, RemTaken, RemStarting, RemPlaces
<1> QED
  BY <1>1, <1>2, <1>3, <1>4, <1>5, <1>6, <1>7, <1>8, <1>9, <1>10, <1>11 DEF RemInv

\* The input starts, or fails to.
LEMMA RemuxRunStartKeeps == ASSUME RemInv, Remux!RunStart PROVE RemInv'
<1> USE DEF RemInv, Remux!RunStart, Remux!pipeline, Remux!running, Remux!source,
     Remux!remuxers, Remux!reaping, Remux!counters, Remux!Calm, Remux!Failure,
     Remux!FailWith, Remux!Quiet, Remux!Goto, Remux!Throw, Remux!NoOutput,
     Remux!NoReading, Remux!Fault
<1>a. \/ input' = "on" /\ worker2' = "again" /\ UNCHANGED thrower
      \/ UNCHANGED input /\ worker2' = "caught" /\ thrower' = [thrower EXCEPT !["worker"] = Remux!Failure("input")]
  OBVIOUS
<1>d. ~atEof /\ history = <<>> /\ retired = <<>> /\ retiring = 0 /\ ~live /\ worker2 = "open input"
  BY DEF RemBegun, RemStarting
<1>b. input = "off" /\ announce = None /\ ~atEof /\ RemClosed = {} /\ ~live
  <2>1. RemClosed = {}
    BY <1>d, RemuxEmptyFacts DEF RemClosed
  <2>2. input = "off" /\ announce = None
    BY <1>d DEF RemTyped, RemEntered, RemHandling, RemTaken
  <2> QED
    BY <1>d, <2>1, <2>2
<1>c. RemClosed' = RemClosed
  BY DEF RemClosed, RemRng
<1>1. RemTyped'
  <2>1. UNCHANGED <<plan, control, asker, started2, mutex, announce>> /\ worker2 = "open input"
    OBVIOUS
  <2>2. announce' # "failed"
    BY <1>b, <2>1, PipelinesAssumption, PlansAssumption
  <2> HIDE DEF Remux!RunStart
  <2> QED
    BY <1>a, <1>b, <2>1, <2>2 DEF RemTyped, RemEntered, RemHandling, RemTaken,
         RemStarting, RemPlaces, Remux!Calm
<1>2. RemFailing'
  <2> HIDE DEF Remux!RunStart
  <2> QED
    <3>1. thrower' \in [Remux!Threads -> [at : {"no", "fail", "request", "cancel"}, cause : RemCauses, output : Nat]]
      BY <1>a DEF RemFailing, Remux!Threads, RemCauses
    <3>2. thrower["worker"].at = "no"
      BY <1>d DEF RemFailing
    <3>3. thrower'["worker"].at # "no" => worker2' = "caught"
      BY <1>a, <3>2
    <3> QED
      BY <3>1, <3>3 DEF RemFailing
<1>3. RemReached'
  BY DEF RemReached, RemPending, RemTyped, RemFailing, Remux!Threads, RemEntered,
       RemHandling, RemTaken, RemStarting, RemPlaces
<1>4. RemOutputs'
  BY DEF RemOutputs, RemTyped
<1>5. RemBegun'
  BY DEF RemBegun, RemTyped, RemEntered, RemHandling, RemTaken, RemStarting, RemPlaces
<1>6. RemReading'
  BY RemuxDeliveryFrame DEF RemReading, RemBegun, RemConsumed, RemEntered, RemHandling,
       RemTaken, RemStarting, RemPlaces
<1>7. RemDelivering'
  BY <1>a, <1>b, RemuxDeliveringFrame DEF RemHandling, RemTaken
<1>8. RemSessions'
  BY RemuxSessionFrame, RemuxHandFrame DEF RemSessions, RemBegun, RemEntered, RemHandling,
       RemTaken, RemStarting, RemPlaces
<1>9. RemReaping'
  BY DEF RemReaping, RemTyped, RemBegun, RemClosed, RemRng, RemEntered, RemHandling,
       RemTaken, RemStarting, RemPlaces
<1>10. RemFiling'
  BY <1>a, <1>b, <1>c DEF RemFiling, RemHandling, RemTaken, RemUsed, RemBegun
<1>11. RemEnding'
  BY DEF RemEnding, RemBegun, RemReaping, RemTyped, RemDelivering, RemEntered,
       RemHandling, RemTaken, RemStarting, RemPlaces
<1> QED
  BY <1>1, <1>2, <1>3, <1>4, <1>5, <1>6, <1>7, <1>8, <1>9, <1>10, <1>11 DEF RemInv

\* Run cancels an input that a stop did not find.
LEMMA RemuxStopAgainKeeps == ASSUME RemInv, Remux!StopAgain PROVE RemInv'
<1> USE DEF RemInv, Remux!StopAgain, Remux!pipeline, Remux!running, Remux!source,
     Remux!remuxers, Remux!reaping, Remux!counters, Remux!Calm, Remux!Failure,
     Remux!FailWith, Remux!Quiet, Remux!Goto, Remux!Throw, Remux!NoOutput,
     Remux!NoReading, Remux!Fault
<1>a. read = 0 /\ pending = <<>> /\ delivered = <<>> /\ conn = 0 /\ ~atEof /\ ~live
  BY DEF RemBegun, RemStarting
<1>1. RemTyped'
  BY RemuxTypedSteps DEF RemEntered, RemHandling, RemTaken
<1>2. RemFailing'
  BY DEF RemFailing, RemTyped, Remux!Threads, RemCauses
<1>3. RemReached'
  BY DEF RemReached, RemPending, RemTyped, RemFailing, Remux!Threads, RemEntered,
       RemHandling, RemTaken, RemStarting, RemPlaces
<1>4. RemOutputs'
  BY DEF RemOutputs, RemTyped
<1>5. RemBegun'
  BY DEF RemBegun, RemTyped, RemEntered, RemHandling, RemTaken, RemStarting, RemPlaces
<1>6. RemReading'
  BY RemuxDeliveryFrame DEF RemReading, RemBegun, RemConsumed, RemEntered, RemHandling,
       RemTaken, RemStarting, RemPlaces
<1>7. RemDelivering'
  <2>1. RemItemsOf = {} /\ RemConsumed' = 0 /\ RemPackets(0) = {}
    <3>1. read' = 0 /\ pending' = <<>>
      BY <1>a
    <3>2. RemItemsOf = {}
      BY <1>a DEF RemItemsOf
    <3> QED
      <4>1. RemConsumed' = 0
        BY <3>1, RemuxNothingRead
      <4>2. RemPackets(0) = {}
        BY DEF RemPackets
      <4> QED
        BY <3>2, <4>1, <4>2
  <2> QED
    BY <1>a, <2>1, RemuxDeliveryFrame DEF RemDelivering, RemHandling, RemTaken
<1>8. RemSessions'
  BY <1>a, RemuxSessionFrame DEF RemSessions, RemTracked
<1>9. RemReaping'
  BY DEF RemReaping, RemTyped, RemBegun, RemClosed, RemRng, RemEntered, RemHandling,
       RemTaken, RemStarting, RemPlaces
<1>10. RemFiling'
  BY RemuxDeliveryFrame DEF RemFiling, RemBegun, RemReaping, RemClosed, RemRng,
       RemEntered, RemHandling, RemTaken, RemStarting, RemPlaces
<1>11. RemEnding'
  BY DEF RemEnding, RemBegun, RemReaping, RemTyped, RemDelivering, RemEntered,
       RemHandling, RemTaken, RemStarting, RemPlaces
<1> QED
  BY <1>1, <1>2, <1>3, <1>4, <1>5, <1>6, <1>7, <1>8, <1>9, <1>10, <1>11 DEF RemInv

\* ReadPacket returns an item, or nothing.
LEMMA RemuxReadKeeps == ASSUME RemInv, Remux!Read PROVE RemInv'
<1> USE DEF RemInv, Remux!Read, Remux!pipeline, Remux!running, Remux!source,
     Remux!remuxers, Remux!reaping, Remux!counters, Remux!Calm, Remux!Failure,
     Remux!FailWith, Remux!Quiet, Remux!Goto, Remux!Throw, Remux!NoOutput,
     Remux!NoReading, Remux!Fault
<1>a. (stopping /\ worker2' = "leave" /\ UNCHANGED <<hand, pending, read>>) \/ (worker2' = "look" /\ Remux!Next1)
  OBVIOUS
<1>b. worker2 = "read" /\ UNCHANGED <<plan, delivered, atEof>>
  OBVIOUS
<1>1. RemTyped'
  BY RemuxTypedSteps DEF RemEntered, RemHandling, RemTaken
<1>2. RemFailing'
  BY DEF RemFailing, RemTyped, Remux!Threads, RemCauses
<1>3. RemReached'
  BY DEF RemReached, RemPending, RemTyped, RemFailing, Remux!Threads, RemEntered,
       RemHandling, RemTaken, RemStarting, RemPlaces
<1>4. RemOutputs'
  BY DEF RemOutputs, RemTyped
<1>5. RemBegun'
  BY DEF RemBegun, RemTyped, RemEntered, RemHandling, RemTaken, RemStarting, RemPlaces
<1>6. RemReading'
  <2>1. CASE worker2' = "leave" /\ UNCHANGED <<hand, pending, read>>
    BY <1>b, <2>1, RemuxReadingFrame DEF RemTaken
  <2>2. CASE worker2' = "look" /\ Remux!Next1
    BY <1>b, <2>2, RemuxReadTakes DEF RemReading, RemTaken
  <2> QED
    BY <1>a, <2>1, <2>2
<1>7. RemDelivering'
  <2>1. CASE worker2' = "leave" /\ UNCHANGED <<hand, pending, read>>
    BY <1>b, <2>1, RemuxDeliveringFrame DEF RemHandling, RemStarting, RemTaken
  <2>2. CASE worker2' = "look" /\ Remux!Next1
    <3>1. hand' \in {0, RemConsumed + 1} /\ RemConsumed \in Nat
      BY <1>b, <2>2, RemuxReadTakes
    <3>2. hand' # 0 => hand' - 1 = RemConsumed
      <4> HIDE DEF Remux!Read, Remux!Next1, RemInv
      <4>1. \A c \in Nat : (c + 1) - 1 = c
        OBVIOUS
      <4> QED
        BY <3>1, <4>1
    <3>3. RemItemsOf' = RemItemsOf /\ (\A n : RemPackets(n)' = RemPackets(n)) /\ \A n : Remux!Selected(n)' <=> Remux!Selected(n)
      BY <1>b, RemuxDeliveryFrame
    <3>4. RemItemsOf = RemPackets(RemConsumed) /\ ~atEof
      BY <1>b DEF RemDelivering, RemHandling
    <3> QED
      BY <1>b, <2>2, <3>2, <3>3, <3>4 DEF RemDelivering, RemHandling, RemTaken, RemStarting
  <2> QED
    BY <1>a, <2>1, <2>2
<1>8. RemSessions'
  BY RemuxSessionFrame, RemuxHandFrame DEF RemSessions, RemBegun, RemEntered, RemHandling,
       RemTaken, RemStarting, RemPlaces
<1>9. RemReaping'
  BY DEF RemReaping, RemTyped, RemBegun, RemClosed, RemRng, RemEntered, RemHandling,
       RemTaken, RemStarting, RemPlaces
<1>10. RemFiling'
  BY RemuxFilingFrame DEF RemHandling, RemTaken
<1>11. RemEnding'
  BY DEF RemEnding, RemBegun, RemReaping, RemTyped, RemDelivering, RemEntered,
       RemHandling, RemTaken, RemStarting, RemPlaces
<1> QED
  BY <1>1, <1>2, <1>3, <1>4, <1>5, <1>6, <1>7, <1>8, <1>9, <1>10, <1>11 DEF RemInv

\* What Run does with an item: a stop, nothing, EOF, or a packet.
LEMMA RemuxLookKeeps == ASSUME RemInv, Remux!Look PROVE RemInv'
<1> USE DEF RemInv, Remux!Look, Remux!pipeline, Remux!running, Remux!source,
     Remux!remuxers, Remux!reaping, Remux!counters, Remux!Calm, Remux!Failure,
     Remux!FailWith, Remux!Quiet, Remux!Goto, Remux!Throw, Remux!NoOutput,
     Remux!NoReading, Remux!Fault
<1>a. /\ worker2 = "look" /\ UNCHANGED <<plan, delivered, hand, read, pending, last, conn, live, current>>
      /\ Len(plan.items) \in Nat /\ ~atEof
  BY PipelinesAssumption, PlansAssumption DEF RemTyped, RemDelivering, RemHandling
<1>b. \/ worker2' \in {"leave", "caught"} /\ UNCHANGED atEof
      \/ hand # 0 /\ ~Remux!Selected(hand) /\ worker2' = "read" /\ UNCHANGED atEof
      \/ hand # 0 /\ Remux!IsEof(hand) /\ ~plan.loop /\ worker2' = "drain" /\ atEof'
      \/ hand # 0 /\ Remux!Selected(hand) /\ UNCHANGED atEof
         /\ \/ Remux!Boundary(hand) /\ worker2' = "probe"
            \/ Remux!NewSession(hand) /\ worker2' = "init"
            \/ ~Remux!NewSession(hand) /\ worker2' = "pace"
  BY DEF Remux!NewSession
<1>e. Remux!IsEof(hand) => ~Remux!Selected(hand)
  BY DEF Remux!IsEof, Remux!Selected
<1>c. hand # 0 => hand = RemConsumed /\ hand \in 1..Len(plan.items) /\ RemItemsOf = RemPackets(hand - 1)
  BY <1>a DEF RemReading, RemDelivering
<1>d. RemTracked
  BY <1>a DEF RemSessions
<1>1. RemTyped'
  BY RemuxTypedSteps DEF RemEntered, RemHandling, RemTaken
<1>2. RemFailing'
  BY DEF RemFailing, RemTyped, Remux!Threads, RemCauses
<1>3. RemReached'
  BY DEF RemReached, RemPending, RemTyped, RemFailing, Remux!Threads, RemEntered,
       RemHandling, RemTaken, RemStarting, RemPlaces
<1>4. RemOutputs'
  BY DEF RemOutputs, RemTyped
<1>5. RemBegun'
  BY DEF RemBegun, RemTyped, RemEntered, RemHandling, RemTaken, RemStarting, RemPlaces
<1>6. RemReading'
  BY RemuxDeliveryFrame DEF RemReading, RemBegun, RemConsumed, RemEntered, RemHandling,
       RemTaken, RemStarting, RemPlaces
<1>7. RemDelivering'
  <2>1. CASE worker2' \in {"leave", "caught"} /\ UNCHANGED atEof
    BY <1>a, <2>1, RemuxDeliveringFrame DEF RemHandling, RemStarting, RemTaken
  <2>2. CASE hand # 0 /\ ~Remux!Selected(hand)
    <3>1. RemPackets(hand) = RemPackets(hand - 1)
      BY <1>c, <2>2 DEF RemPackets
    <3>2. RemItemsOf = RemPackets(RemConsumed) /\ RemConsumed' = RemConsumed
      BY <1>a, <1>c, <2>2, <3>1 DEF RemConsumed
    <3>3. CASE worker2' = "read" /\ UNCHANGED atEof
      BY <1>a, <3>2, <3>3, RemuxDeliveryFrame DEF RemDelivering, RemTaken, RemHandling
    <3>4. CASE Remux!IsEof(hand) /\ ~plan.loop /\ worker2' = "drain" /\ atEof'
      <4>1. hand = Len(plan.items)
        BY <1>c, <3>4, RemuxItemType
      <4>2. RemItemsOf = RemPackets(Len(plan.items))
        BY <1>c, <2>2, <3>2, <4>1
      <4> QED
        BY <1>a, <3>4, <4>2, RemuxDeliveryFrame DEF RemDelivering, RemTaken, RemHandling,
             RemStarting
    <3> QED
      BY <1>b, <2>1, <2>2, <3>3, <3>4
  <2>3. CASE hand # 0 /\ Remux!Selected(hand) /\ worker2' \in {"probe", "init", "pace"} /\ UNCHANGED atEof
    BY <1>a, <1>c, <2>3, RemuxDeliveryFrame DEF RemDelivering, RemTaken, RemHandling,
         RemStarting
  <2> QED
    BY <1>b, <1>e, <2>1, <2>2, <2>3
<1>8. RemSessions'
  <2>1. CASE worker2' \in {"leave", "drain", "caught", "read"}
    BY <1>a, <1>d, <2>1, RemuxSessionFrame, RemuxHandFrame DEF RemSessions
  <2>2. CASE hand # 0 /\ Remux!Selected(hand) /\ worker2' \in {"probe", "init"}
    <3>1. Remux!NewSession(hand)
      BY <1>b, <2>2 DEF Remux!NewSession
    <3>2. delivered # <<>> => RemSplits(plan, delivered, Len(delivered), hand)
      BY <1>c, <1>d, <2>2, <3>1, RemuxTrackedSplits
    <3> QED
      BY <1>a, <1>d, <2>2, <3>2, RemuxSessionFrame, RemuxHandFrame DEF RemSessions
  <2>3. CASE hand # 0 /\ Remux!Selected(hand) /\ worker2' = "pace"
    <3>1. ~Remux!NewSession(hand)
      BY <1>b, <2>3
    <3>2. delivered # <<>>
      <4> SUFFICES ASSUME delivered = <<>> PROVE FALSE
        OBVIOUS
      <4>1. conn = 0 /\ Remux!Item(hand).conn # 0
        BY <1>c, <1>d, <2>3, RemuxItemType DEF RemTracked
      <4> QED
        BY <3>1, <4>1 DEF Remux!NewSession, Remux!Boundary
    <3>3. RemFollows
      BY <1>d, <3>1, <3>2 DEF RemFollows
    <3> QED
      BY <1>a, <2>3, <3>3, RemuxSessionFrame, RemuxHandFrame DEF RemSessions
  <2> QED
    BY <1>b, <1>e, <2>1, <2>2, <2>3
<1>9. RemReaping'
  BY DEF RemReaping, RemTyped, RemBegun, RemClosed, RemRng, RemEntered, RemHandling,
       RemTaken, RemStarting, RemPlaces
<1>10. RemFiling'
  BY RemuxDeliveryFrame DEF RemFiling, RemBegun, RemReaping, RemClosed, RemRng,
       RemEntered, RemHandling, RemTaken, RemStarting, RemPlaces
<1>11. RemEnding'
  BY DEF RemEnding, RemBegun, RemReaping, RemTyped, RemDelivering, RemEntered,
       RemHandling, RemTaken, RemStarting, RemPlaces
<1> QED
  BY <1>1, <1>2, <1>3, <1>4, <1>5, <1>6, <1>7, <1>8, <1>9, <1>10, <1>11 DEF RemInv

\* The probe reads an item ahead, or is done, or there is none.
LEMMA RemuxProbeKeeps == ASSUME RemInv, Remux!Probe PROVE RemInv'
<1> USE DEF RemInv, Remux!Probe, Remux!pipeline, Remux!running, Remux!source,
     Remux!remuxers, Remux!reaping, Remux!counters, Remux!Calm, Remux!Failure,
     Remux!FailWith, Remux!Quiet, Remux!Goto, Remux!Throw, Remux!NoOutput,
     Remux!NoReading, Remux!Fault, Remux!Keep
<1>a. /\ worker2 = "probe" /\ UNCHANGED <<plan, hand>> /\ hand = RemConsumed /\ hand # 0 /\ Remux!Selected(hand)
  BY DEF RemReading, RemTaken
<1>1. RemTyped'
  BY RemuxTypedSteps DEF RemEntered, RemHandling, RemTaken
<1>2. RemFailing'
  BY DEF RemFailing, RemTyped, Remux!Threads, RemCauses
<1>3. RemReached'
  BY DEF RemReached, RemPending, RemTyped, RemFailing, Remux!Threads, RemEntered,
       RemHandling, RemTaken, RemStarting, RemPlaces
<1>4. RemOutputs'
  BY DEF RemOutputs, RemTyped
<1>5. RemBegun'
  BY DEF RemBegun, RemTyped, RemEntered, RemHandling, RemTaken, RemStarting, RemPlaces
<1>6. RemReading'
  <2>1. CASE read < Len(plan.items) /\ read' = read + 1 /\ pending' = Append(pending, read + 1) /\ worker2' = "probe"
    <3>1. /\ read \in 0..Len(plan.items) /\ hand \in 0..Len(plan.items)
          /\ pending \in Seq(Nat) /\ Len(pending) <= read /\ Len(plan.items) \in Nat
          /\ \A i \in 1..Len(pending) : pending[i] = RemConsumed + i
      BY PipelinesAssumption, PlansAssumption DEF RemReading, RemTyped
    <3> HIDE DEF Remux!Probe, RemInv
    <3>2. /\ pending' \in Seq(Nat) /\ Len(pending') = Len(pending) + 1 /\ Len(pending) \in Nat
          /\ \A i \in 1..Len(pending) : pending'[i] = pending[i]
          /\ pending'[Len(pending) + 1] = read + 1
      BY <2>1, <3>1
    <3>3. RemConsumed' = RemConsumed /\ RemConsumed + (Len(pending) + 1) = read + 1
      BY <2>1, <3>1, <3>2 DEF RemConsumed
    <3>4. \A i \in 1..Len(pending') : i \in 1..Len(pending) \/ i = Len(pending) + 1
      BY <3>2
    <3>5. \A i \in 1..Len(pending') : pending'[i] = RemConsumed' + i
      BY <3>1, <3>2, <3>3, <3>4
    <3>6. read' \in 0..Len(plan.items) /\ Len(pending') <= read'
      BY <2>1, <3>1, <3>2
    <3> QED
      BY <1>a, <2>1, <3>1, <3>2, <3>3, <3>5, <3>6, RemuxDeliveryFrame DEF RemReading,
           RemTaken, Remux!Selected, Remux!Item
  <2>2. CASE UNCHANGED <<read, pending>> /\ worker2' \in {"probe", "init", "caught"}
    BY <1>a, <2>2, RemuxReadingFrame DEF RemTaken
  <2> QED
    BY <2>1, <2>2
<1>7. RemDelivering'
  <2>1. /\ UNCHANGED <<plan, delivered, hand, atEof>> /\ worker2' \in {"probe", "init", "caught"}
        /\ RemDelivering
    OBVIOUS
  <2> HIDE DEF Remux!Probe, RemInv
  <2> QED
    BY <1>a, <2>1, RemuxDeliveryFrame DEF RemDelivering, RemHandling, RemTaken, RemStarting
<1>8. RemSessions'
  BY RemuxSessionFrame, RemuxHandFrame DEF RemSessions, RemBegun, RemEntered, RemHandling,
       RemTaken, RemStarting, RemPlaces
<1>9. RemReaping'
  BY DEF RemReaping, RemTyped, RemBegun, RemClosed, RemRng, RemEntered, RemHandling,
       RemTaken, RemStarting, RemPlaces
<1>10. RemFiling'
  BY RemuxFilingFrame DEF RemHandling, RemTaken
<1>11. RemEnding'
  BY DEF RemEnding, RemBegun, RemReaping, RemTyped, RemDelivering, RemEntered,
       RemHandling, RemTaken, RemStarting, RemPlaces
<1> QED
  BY <1>1, <1>2, <1>3, <1>4, <1>5, <1>6, <1>7, <1>8, <1>9, <1>10, <1>11 DEF RemInv

\* 
LEMMA RemuxProbeDoneKeeps == ASSUME RemInv, Remux!ProbeDone PROVE RemInv'
<1> USE DEF RemInv, Remux!ProbeDone, Remux!pipeline, Remux!running, Remux!source,
     Remux!remuxers, Remux!reaping, Remux!counters, Remux!Calm, Remux!Failure,
     Remux!FailWith, Remux!Quiet, Remux!Goto, Remux!Throw, Remux!NoOutput,
     Remux!NoReading, Remux!Fault
<1>1. RemTyped'
  BY RemuxTypedSteps DEF RemEntered, RemHandling, RemTaken
<1>2. RemFailing'
  BY DEF RemFailing, RemTyped, Remux!Threads, RemCauses
<1>3. RemReached'
  BY DEF RemReached, RemPending, RemTyped, RemFailing, Remux!Threads, RemEntered,
       RemHandling, RemTaken, RemStarting, RemPlaces
<1>4. RemOutputs'
  BY DEF RemOutputs, RemTyped
<1>5. RemBegun'
  BY DEF RemBegun, RemTyped, RemEntered, RemHandling, RemTaken, RemStarting, RemPlaces
<1>6. RemReading'
  BY RemuxDeliveryFrame DEF RemReading, RemBegun, RemConsumed, RemEntered, RemHandling,
       RemTaken, RemStarting, RemPlaces
<1>7. RemDelivering'
  BY RemuxDeliveryFrame DEF RemDelivering, RemReading, RemBegun, RemConsumed, RemEntered,
       RemHandling, RemTaken, RemStarting, RemPlaces
<1>8. RemSessions'
  BY RemuxSessionFrame, RemuxHandFrame DEF RemSessions, RemBegun, RemEntered, RemHandling,
       RemTaken, RemStarting, RemPlaces
<1>9. RemReaping'
  BY DEF RemReaping, RemTyped, RemBegun, RemClosed, RemRng, RemEntered, RemHandling,
       RemTaken, RemStarting, RemPlaces
<1>10. RemFiling'
  BY RemuxFilingFrame DEF RemHandling, RemTaken
<1>11. RemEnding'
  BY DEF RemEnding, RemBegun, RemReaping, RemTyped, RemDelivering, RemEntered,
       RemHandling, RemTaken, RemStarting, RemPlaces
<1> QED
  BY <1>1, <1>2, <1>3, <1>4, <1>5, <1>6, <1>7, <1>8, <1>9, <1>10, <1>11 DEF RemInv

\* Initialize takes control_ and closes a session that is open.
LEMMA RemuxInitBeginKeeps == ASSUME RemInv, Remux!InitBegin PROVE RemInv'
<1> USE DEF RemInv, Remux!InitBegin, Remux!pipeline, Remux!running, Remux!source,
     Remux!remuxers, Remux!reaping, Remux!counters, Remux!Calm, Remux!Failure,
     Remux!FailWith, Remux!Quiet, Remux!Goto, Remux!Throw, Remux!NoOutput,
     Remux!NoReading, Remux!Fault
<1>a. /\ worker2 = "init" /\ UNCHANGED <<plan, delivered, hand, read, pending, last, conn, live, current, atEof>>
      /\ worker2' \in {"leave", "close", "ensure", "caught"} /\ (worker2' = "ensure" => ~live)
      /\ ~atEof
  BY DEF RemDelivering, RemHandling, RemTaken
<1>1. RemTyped'
  BY DEF RemTyped, RemEntered, RemHandling, RemTaken, RemStarting, RemPlaces
<1>2. RemFailing'
  BY DEF RemFailing, RemTyped, Remux!Threads, RemCauses
<1>3. RemReached'
  BY DEF RemReached, RemPending, RemTyped, RemFailing, Remux!Threads, RemEntered,
       RemHandling, RemTaken, RemStarting, RemPlaces
<1>4. RemOutputs'
  BY DEF RemOutputs, RemTyped
<1>5. RemBegun'
  BY DEF RemBegun, RemTyped, RemEntered, RemHandling, RemTaken, RemStarting, RemPlaces
<1>6. RemReading'
  BY RemuxDeliveryFrame DEF RemReading, RemBegun, RemConsumed, RemEntered, RemHandling,
       RemTaken, RemStarting, RemPlaces
<1>7. RemDelivering'
  BY <1>a, RemuxDeliveringFrame DEF RemHandling, RemStarting, RemTaken
<1>8. RemSessions'
  <2>1. RemTracked /\ (delivered # <<>> => RemSplits(plan, delivered, Len(delivered), hand))
    BY <1>a DEF RemSessions
  <2>2. worker2' = "ensure" => delivered = <<>>
    BY <1>a, <2>1 DEF RemTracked
  <2> QED
    BY <1>a, <2>1, <2>2, RemuxSessionFrame, RemuxHandFrame DEF RemSessions
<1>9. RemReaping'
  BY DEF RemReaping, RemTyped, RemBegun, RemClosed, RemRng, RemEntered, RemHandling,
       RemTaken, RemStarting, RemPlaces
<1>10. RemFiling'
  BY RemuxFilingFrame DEF RemHandling, RemTaken
<1>11. RemEnding'
  BY DEF RemEnding, RemBegun, RemReaping, RemTyped, RemDelivering, RemEntered,
       RemHandling, RemTaken, RemStarting, RemPlaces
<1> QED
  BY <1>1, <1>2, <1>3, <1>4, <1>5, <1>6, <1>7, <1>8, <1>9, <1>10, <1>11 DEF RemInv

\* The session before is closed.
LEMMA RemuxInitCloseKeeps == ASSUME RemInv, Remux!InitClose PROVE RemInv'
<1> USE DEF RemInv, Remux!InitClose, Remux!pipeline, Remux!running, Remux!source,
     Remux!remuxers, Remux!reaping, Remux!counters, Remux!Calm, Remux!Failure,
     Remux!FailWith, Remux!Quiet, Remux!Goto, Remux!Throw, Remux!NoOutput,
     Remux!NoReading, Remux!Fault
<1>a. worker2 = "close" /\ worker2' = "ensure" /\ UNCHANGED <<plan, delivered, hand, last, conn>>
  OBVIOUS
<1>b. current' = 0 /\ Len(output') = Len(output) /\ output' \in Seq({"new", "on", "drained", "closed", "failed"})
  BY RemuxCloseFacts
<1>c. ~workerDone
  BY <1>a DEF RemReaping
<1>1. RemTyped'
  BY DEF RemTyped, RemEntered, RemHandling, RemTaken, RemStarting, RemPlaces
<1>2. RemFailing'
  BY DEF RemFailing, RemTyped, Remux!Threads, RemCauses
<1>3. RemReached'
  BY DEF RemReached, RemPending, RemTyped, RemFailing, Remux!Threads, RemEntered,
       RemHandling, RemTaken, RemStarting, RemPlaces
<1>4. RemOutputs'
  BY <1>a, <1>b DEF RemOutputs
<1>5. RemBegun'
  BY DEF RemBegun, RemTyped, RemEntered, RemHandling, RemTaken, RemStarting, RemPlaces
<1>6. RemReading'
  BY RemuxDeliveryFrame DEF RemReading, RemBegun, RemConsumed, RemEntered, RemHandling,
       RemTaken, RemStarting, RemPlaces
<1>7. RemDelivering'
  BY RemuxDeliveryFrame DEF RemDelivering, RemReading, RemBegun, RemConsumed, RemEntered,
       RemHandling, RemTaken, RemStarting, RemPlaces
<1>8. RemSessions'
  <2>1. (RemSplits(plan', delivered', Len(delivered'), hand') <=> RemSplits(plan, delivered, Len(delivered), hand)) /\ (RemSeparated' <=> RemSeparated)
    BY <1>a, RemuxSeparatedFrame
  <2> QED
    BY <1>a, <1>b, <2>1 DEF RemSessions
<1>9. RemReaping'
  BY <1>a, <1>c, RemuxCloseReaping
<1>10. RemFiling'
  BY <1>a, RemuxCloseFiling DEF RemHandling, RemTaken
<1>11. RemEnding'
  BY DEF RemEnding, RemBegun, RemReaping, RemTyped, RemDelivering, RemEntered,
       RemHandling, RemTaken, RemStarting, RemPlaces
<1> QED
  BY <1>1, <1>2, <1>3, <1>4, <1>5, <1>6, <1>7, <1>8, <1>9, <1>10, <1>11 DEF RemInv

\* A stop skips the session; otherwise it has a remuxer with every output.
LEMMA RemuxInitOutputKeeps == ASSUME RemInv, Remux!InitOutput PROVE RemInv'
<1> USE DEF RemInv, Remux!InitOutput, Remux!pipeline, Remux!running, Remux!source,
     Remux!remuxers, Remux!reaping, Remux!counters, Remux!Calm, Remux!Failure,
     Remux!FailWith, Remux!Quiet, Remux!Goto, Remux!Throw, Remux!NoOutput,
     Remux!NoReading, Remux!Fault
<1>a. /\ worker2 = "ensure" /\ UNCHANGED <<plan, delivered, hand, read, pending, last, live, atEof, registration>>
      /\ \/ stopping /\ mutex' = None /\ worker2' = "pace" /\ conn' = Remux!Item(hand).conn
            /\ UNCHANGED <<current, output, served>>
         \/ Remux!EnsureRemuxer(registration) /\ worker2' = "open" /\ UNCHANGED <<conn, mutex>>
  BY DEF Remux!EnsureRemuxer
<1>b. registration \in SUBSET plan.adds /\ ~atEof
  BY <1>a DEF RemOutputs, RemDelivering, RemHandling, RemTaken
<1>c. hand \in 1..Len(plan.items)
  BY <1>a DEF RemReading, RemTaken
<1>1. RemTyped'
  <2>1. UNCHANGED <<plan, control, asker, started2, announce, input>> /\ worker2 = "ensure"
         /\ \/ worker2' = "pace" /\ mutex' = None
            \/ worker2' = "open" /\ mutex' = mutex
    BY <1>a
  <2> HIDE DEF Remux!InitOutput
  <2> QED
    BY <2>1, PipelinesAssumption, PlansAssumption DEF RemTyped, RemEntered, RemHandling,
         RemTaken, RemStarting, RemPlaces, Remux!Calm
<1>2. RemFailing'
  BY DEF RemFailing, RemTyped, Remux!Threads, RemCauses
<1>3. RemReached'
  BY DEF RemReached, RemPending, RemTyped, RemFailing, Remux!Threads, RemEntered,
       RemHandling, RemTaken, RemStarting, RemPlaces
<1>4. RemOutputs'
  <2>1. CASE worker2' = "pace" /\ UNCHANGED <<current, output, served>>
    BY <1>a, <2>1 DEF RemOutputs
  <2>2. CASE worker2' = "open" /\ Remux!EnsureRemuxer(registration)
    BY <1>a, <1>b, <2>2, RemuxEnsureOutputs DEF RemOutputs
  <2> QED
    BY <1>a, <2>1, <2>2
<1>5. RemBegun'
  BY DEF RemBegun, RemTyped, RemEntered, RemHandling, RemTaken, RemStarting, RemPlaces
<1>6. RemReading'
  BY RemuxDeliveryFrame DEF RemReading, RemBegun, RemConsumed, RemEntered, RemHandling,
       RemTaken, RemStarting, RemPlaces
<1>7. RemDelivering'
  BY <1>a, <1>b, RemuxDeliveringFrame DEF RemHandling, RemStarting, RemTaken
<1>8. RemSessions'
  <2>1. (RemSplits(plan', delivered', Len(delivered'), hand') <=> RemSplits(plan, delivered, Len(delivered), hand)) /\ (RemSeparated' <=> RemSeparated)
    BY <1>a, RemuxSeparatedFrame
  <2>2. CASE stopping /\ worker2' = "pace" /\ conn' = Remux!Item(hand).conn /\ UNCHANGED <<current, output>>
    <3>1. conn' \in Nat
      BY <1>c, <2>2, RemuxItemType
    <3> QED
      BY <1>a, <2>1, <2>2, <3>1 DEF RemSessions
  <2>3. CASE worker2' = "open" /\ Remux!EnsureRemuxer(registration) /\ UNCHANGED conn
    <3>1. current' \in 1..Len(output') /\ Len(output) \in Nat /\ Len(output') \in Nat
          /\ \/ Len(output') = Len(output)
             \/ current = 0 /\ current' = Len(output) + 1 /\ Len(output') = Len(output) + 1
      BY <1>b, <2>3, RemuxEnsureOutputs
    <3>2. \A i \in DOMAIN delivered : delivered[i].session \in 1..Len(output) /\ current = 0
      <4>1. delivered # <<>> => current = 0
        BY <1>a DEF RemSessions
      <4>2. delivered = <<>> => DOMAIN delivered = {}
        OBVIOUS
      <4> QED
        BY <4>1, <4>2 DEF RemSessions
    <3>3. \A i \in DOMAIN delivered : delivered[i].session \in 1..Len(output')
                                       /\ delivered[i].session # current'
      <4> TAKE i \in DOMAIN delivered
      <4> DEFINE s == delivered[i].session
      <4>1. s \in 1..Len(output) /\ current = 0
        BY <3>2
      <4> HIDE DEF s
      <4>2. s \in 1..Len(output') /\ (current' = Len(output) + 1 => s # current')
        BY <3>1, <4>1
      <4>3. current' = Len(output) + 1
        BY <2>3, <4>1 DEF Remux!EnsureRemuxer
      <4> QED
        BY <4>2, <4>3 DEF s
    <3>4. RemUnused' /\ UNCHANGED last
      BY <1>a, <3>1, <3>3 DEF RemUnused
    <3> QED
      BY <1>a, <2>1, <2>3, <3>3, <3>4 DEF RemSessions
  <2> QED
    BY <1>a, <2>2, <2>3
<1>9. RemReaping'
  <2>1. CASE worker2' = "pace" /\ UNCHANGED <<current, output, served>>
    BY <2>1 DEF RemReaping, RemClosed, RemRng, RemEntered, RemHandling, RemTaken
  <2>2. CASE worker2' = "open" /\ Remux!EnsureRemuxer(registration)
    BY <1>b, <2>2, RemuxEnsureReaping, RemuxEnsureOutputs DEF RemReaping, RemEntered,
         RemHandling, RemTaken
  <2> QED
    BY <1>a, <2>1, <2>2
<1>10. RemFiling'
  <2>1. UNCHANGED <<retired, retiring, history>>
    OBVIOUS
  <2>2. RemClosed' = RemClosed /\ RemUsed' = RemUsed
    BY <1>a, <2>1 DEF RemClosed, RemRng, RemUsed
  <2>3. live => current' = current
    BY <1>a DEF Remux!EnsureRemuxer, RemReaping
  <2> QED
    BY <1>a, <1>b, <2>2, <2>3 DEF RemFiling, RemHandling, RemTaken
<1>11. RemEnding'
  BY DEF RemEnding, RemBegun, RemReaping, RemTyped, RemDelivering, RemEntered,
       RemHandling, RemTaken, RemStarting, RemPlaces
<1> QED
  BY <1>1, <1>2, <1>3, <1>4, <1>5, <1>6, <1>7, <1>8, <1>9, <1>10, <1>11 DEF RemInv

\* The session is open, or its files cannot be.
LEMMA RemuxInitCommitKeeps == ASSUME RemInv, Remux!InitCommit PROVE RemInv'
<1> USE DEF RemInv, Remux!InitCommit, Remux!pipeline, Remux!running, Remux!source,
     Remux!remuxers, Remux!reaping, Remux!counters, Remux!Calm, Remux!Failure,
     Remux!FailWith, Remux!Quiet, Remux!Goto, Remux!Throw, Remux!NoOutput,
     Remux!NoReading, Remux!Fault
<1>a. /\ worker2 = "open" /\ mutex' = None /\ UNCHANGED <<plan, delivered, hand, read, pending, atEof, current, served, registration, retired, retiring, history, reaper, workerDone, started2, announce, control, asker, input>>
      /\ \/ /\ output' = [output EXCEPT ![current] = "on"] /\ live' = TRUE /\ RemForgotten' /\ conn' = Remux!Item(hand).conn
            /\ worker2' = "pace"
         \/ worker2' = "caught" /\ UNCHANGED <<output, live, last, conn>>
  BY DEF Remux!SessionForgetsTimes, RemForgotten
<1>b. ~atEof /\ hand \in 1..Len(plan.items)
  BY <1>a DEF RemReading, RemDelivering, RemHandling, RemTaken
<1>c. RemUnused /\ current # 0 /\ (delivered # <<>> => RemSplits(plan, delivered, Len(delivered), hand))
  BY <1>a DEF RemSessions, RemUnused
<1>d. ~workerDone /\ RemClosed' = RemClosed /\ RemUsed' = RemUsed
  BY <1>a DEF RemReaping, RemClosed, RemRng, RemUsed
<1>1. RemTyped'
  <2> HIDE DEF Remux!InitCommit
  <2> QED
    BY <1>a, PipelinesAssumption, PlansAssumption DEF RemTyped, RemEntered, RemHandling,
         RemTaken, RemStarting, RemPlaces, Remux!Calm
<1>2. RemFailing'
  BY DEF RemFailing, RemTyped, Remux!Threads, RemCauses
<1>3. RemReached'
  BY DEF RemReached, RemPending, RemTyped, RemFailing, Remux!Threads, RemEntered,
       RemHandling, RemTaken, RemStarting, RemPlaces
<1>4. RemOutputs'
  <2>1. CASE output' = [output EXCEPT ![current] = "on"] /\ worker2' = "pace"
    <3>1. /\ output \in Seq({"new", "on", "drained", "closed", "failed"}) /\ current \in 1..Len(output)
          /\ served[current] = registration
      BY <1>a, <1>c DEF RemOutputs
    <3>2. output' \in Seq({"new", "on", "drained", "closed", "failed"}) /\ Len(output') = Len(output)
      BY <2>1, <3>1
    <3> HIDE DEF Remux!InitCommit
    <3> QED
      BY <1>a, <2>1, <3>1, <3>2 DEF RemOutputs
  <2>2. CASE worker2' = "caught" /\ UNCHANGED output
    <3> HIDE DEF Remux!InitCommit
    <3> QED
      BY <1>a, <2>2 DEF RemOutputs
  <2> QED
    BY <1>a, <2>1, <2>2
<1>5. RemBegun'
  BY DEF RemBegun, RemTyped, RemEntered, RemHandling, RemTaken, RemStarting, RemPlaces
<1>6. RemReading'
  BY RemuxDeliveryFrame DEF RemReading, RemBegun, RemConsumed, RemEntered, RemHandling,
       RemTaken, RemStarting, RemPlaces
<1>7. RemDelivering'
  BY <1>a, <1>b, RemuxDeliveringFrame DEF RemHandling, RemStarting, RemTaken
<1>8. RemSessions'
  <2>1. Len(output') = Len(output)
    BY <1>a DEF RemOutputs
  <2>2. (RemSplits(plan', delivered', Len(delivered'), hand') <=> RemSplits(plan, delivered, Len(delivered), hand)) /\ (RemSeparated' <=> RemSeparated)
    BY <1>a, RemuxSeparatedFrame
  <2>3. CASE live' = TRUE /\ RemForgotten' /\ conn' = Remux!Item(hand).conn /\ worker2' = "pace"
    <3>1. conn' \in Nat /\ last' \in [1..2 -> Int \cup {None}]
      BY <1>b, <2>3, RemuxItemType DEF RemForgotten
    <3>2. RemOpens'
      BY <1>a, <1>c, <2>2, <2>3 DEF RemOpens, RemUnused, Remux!Item
    <3> QED
      BY <1>a, <2>1, <2>2, <2>3, <3>1, <3>2 DEF RemSessions
  <2>4. CASE worker2' = "caught" /\ UNCHANGED <<live, last, conn>>
    BY <1>a, <2>1, <2>2, <2>4 DEF RemSessions
  <2> QED
    BY <1>a, <2>3, <2>4
<1>9. RemReaping'
  <2>1. Len(output') = Len(output)
    BY <1>a DEF RemOutputs
  <2> QED
    BY <1>a, <1>c, <1>d, <2>1 DEF RemReaping, RemEntered, RemHandling, RemTaken
<1>10. RemFiling'
  <2>1. CASE live' = TRUE /\ worker2' = "pace"
    BY <1>a, <1>b, <1>d, <2>1 DEF RemFiling, RemHandling, RemTaken
  <2>2. CASE UNCHANGED live
    BY <1>a, <1>b, <1>d, <2>2 DEF RemFiling, RemHandling, RemTaken
  <2> QED
    BY <1>a, <2>1, <2>2
<1>11. RemEnding'
  BY DEF RemEnding, RemBegun, RemReaping, RemTyped, RemDelivering, RemEntered,
       RemHandling, RemTaken, RemStarting, RemPlaces
<1> QED
  BY <1>1, <1>2, <1>3, <1>4, <1>5, <1>6, <1>7, <1>8, <1>9, <1>10, <1>11 DEF RemInv

\* 
LEMMA RemuxPaceKeeps == ASSUME RemInv, Remux!Pace PROVE RemInv'
<1> USE DEF RemInv, Remux!Pace, Remux!pipeline, Remux!running, Remux!source,
     Remux!remuxers, Remux!reaping, Remux!counters, Remux!Calm, Remux!Failure,
     Remux!FailWith, Remux!Quiet, Remux!Goto, Remux!Throw, Remux!NoOutput,
     Remux!NoReading, Remux!Fault
<1>1. RemTyped'
  BY RemuxTypedSteps DEF RemEntered, RemHandling, RemTaken
<1>2. RemFailing'
  BY DEF RemFailing, RemTyped, Remux!Threads, RemCauses
<1>3. RemReached'
  BY DEF RemReached, RemPending, RemTyped, RemFailing, Remux!Threads, RemEntered,
       RemHandling, RemTaken, RemStarting, RemPlaces
<1>4. RemOutputs'
  BY DEF RemOutputs, RemTyped
<1>5. RemBegun'
  BY DEF RemBegun, RemTyped, RemEntered, RemHandling, RemTaken, RemStarting, RemPlaces
<1>6. RemReading'
  BY RemuxDeliveryFrame DEF RemReading, RemBegun, RemConsumed, RemEntered, RemHandling,
       RemTaken, RemStarting, RemPlaces
<1>7. RemDelivering'
  BY RemuxDeliveryFrame DEF RemDelivering, RemReading, RemBegun, RemConsumed, RemEntered,
       RemHandling, RemTaken, RemStarting, RemPlaces
<1>8. RemSessions'
  BY RemuxSessionFrame, RemuxHandFrame DEF RemSessions, RemBegun, RemEntered, RemHandling,
       RemTaken, RemStarting, RemPlaces
<1>9. RemReaping'
  BY DEF RemReaping, RemTyped, RemBegun, RemClosed, RemRng, RemEntered, RemHandling,
       RemTaken, RemStarting, RemPlaces
<1>10. RemFiling'
  BY RemuxFilingFrame DEF RemHandling, RemTaken
<1>11. RemEnding'
  BY DEF RemEnding, RemBegun, RemReaping, RemTyped, RemDelivering, RemEntered,
       RemHandling, RemTaken, RemStarting, RemPlaces
<1> QED
  BY <1>1, <1>2, <1>3, <1>4, <1>5, <1>6, <1>7, <1>8, <1>9, <1>10, <1>11 DEF RemInv

\* The packet is submitted, or refused.
LEMMA RemuxSubmitKeeps == ASSUME RemInv, Remux!Submit PROVE RemInv'
<1> USE DEF RemInv, Remux!Submit, Remux!pipeline, Remux!running, Remux!source,
     Remux!remuxers, Remux!reaping, Remux!counters, Remux!Calm, Remux!Failure,
     Remux!FailWith, Remux!Quiet, Remux!Goto, Remux!Throw, Remux!NoOutput,
     Remux!NoReading, Remux!Fault
<1>a. /\ worker2 = "submit" /\ UNCHANGED <<plan, hand, read, pending, atEof, conn, live, current, output, retired, retiring, history>>
      /\ \/ /\ delivered' = Append(delivered, [item |-> hand, session |-> current])
            /\ last' = [last EXCEPT ![Remux!Item(hand).track] = Remux!Item(hand).dts]
            /\ worker2' = "submitted"
         \/ worker2' \in {"leave", "caught"} /\ UNCHANGED <<delivered, last>>
  OBVIOUS
<1>b. RemFollows \/ RemOpens
  BY <1>a DEF RemSessions
<1>1. RemTyped'
  BY RemuxTypedSteps DEF RemEntered, RemHandling, RemTaken
<1>2. RemFailing'
  BY DEF RemFailing, RemTyped, Remux!Threads, RemCauses
<1>3. RemReached'
  BY DEF RemReached, RemPending, RemTyped, RemFailing, Remux!Threads, RemEntered,
       RemHandling, RemTaken, RemStarting, RemPlaces
<1>4. RemOutputs'
  BY DEF RemOutputs, RemTyped
<1>5. RemBegun'
  BY DEF RemBegun, RemTyped, RemEntered, RemHandling, RemTaken, RemStarting, RemPlaces
<1>6. RemReading'
  BY <1>a, RemuxReadingFrame DEF RemTaken
<1>7. RemDelivering'
  <2> HIDE DEF Remux!Submit
  <2>1. CASE worker2' = "submitted" /\ delivered' = Append(delivered, [item |-> hand, session |-> current])
    BY <1>a, <2>1, RemuxSubmitDelivers
  <2>2. CASE worker2' \in {"leave", "caught"} /\ UNCHANGED delivered
    BY <1>a, <2>2, RemuxDeliveringFrame DEF RemHandling, RemStarting, RemTaken
  <2> QED
    BY <1>a, <2>1, <2>2
<1>8. RemSessions'
  <2>1. CASE worker2' = "submitted"
    BY <1>a, <1>b, <2>1, RemuxSubmitSeparates
  <2>2. CASE worker2' \in {"leave", "caught"} /\ UNCHANGED <<delivered, last>>
    BY <1>a, <2>2, RemuxSessionFrame, RemuxHandFrame DEF RemSessions
  <2> QED
    BY <1>a, <2>1, <2>2
<1>9. RemReaping'
  BY DEF RemReaping, RemTyped, RemBegun, RemClosed, RemRng, RemEntered, RemHandling,
       RemTaken, RemStarting, RemPlaces
<1>10. RemFiling'
  <2>1. RemClosed' = RemClosed
    BY <1>a DEF RemClosed, RemRng
  <2>2. CASE worker2' = "submitted"
    <3>1. live /\ RemUsed' = RemUsed \cup {current}
      BY <1>a, <1>b, <2>2, RemuxSubmitSeparates
    <3> QED
      BY <1>a, <2>1, <2>2, <3>1 DEF RemFiling, RemHandling, RemTaken
  <2>3. CASE worker2' \in {"leave", "caught"} /\ UNCHANGED delivered
    BY <1>a, <2>1, <2>3, RemuxDeliveryFrame DEF RemFiling, RemHandling, RemTaken
  <2> QED
    BY <1>a, <2>2, <2>3
<1>11. RemEnding'
  BY DEF RemEnding, RemBegun, RemReaping, RemTyped, RemDelivering, RemEntered,
       RemHandling, RemTaken, RemStarting, RemPlaces
<1> QED
  BY <1>1, <1>2, <1>3, <1>4, <1>5, <1>6, <1>7, <1>8, <1>9, <1>10, <1>11 DEF RemInv

\* 
LEMMA RemuxSubmittedKeeps == ASSUME RemInv, Remux!Submitted PROVE RemInv'
<1> USE DEF RemInv, Remux!Submitted, Remux!pipeline, Remux!running, Remux!source,
     Remux!remuxers, Remux!reaping, Remux!counters, Remux!Calm, Remux!Failure,
     Remux!FailWith, Remux!Quiet, Remux!Goto, Remux!Throw, Remux!NoOutput,
     Remux!NoReading, Remux!Fault
<1>1. RemTyped'
  BY RemuxTypedSteps DEF RemEntered, RemHandling, RemTaken
<1>2. RemFailing'
  BY DEF RemFailing, RemTyped, Remux!Threads, RemCauses
<1>3. RemReached'
  BY DEF RemReached, RemPending, RemTyped, RemFailing, Remux!Threads, RemEntered,
       RemHandling, RemTaken, RemStarting, RemPlaces
<1>4. RemOutputs'
  BY DEF RemOutputs, RemTyped
<1>5. RemBegun'
  BY DEF RemBegun, RemTyped, RemEntered, RemHandling, RemTaken, RemStarting, RemPlaces
<1>6. RemReading'
  BY RemuxDeliveryFrame DEF RemReading, RemBegun, RemConsumed, RemEntered, RemHandling,
       RemTaken, RemStarting, RemPlaces
<1>7. RemDelivering'
  BY RemuxDeliveryFrame DEF RemDelivering, RemReading, RemBegun, RemConsumed, RemEntered,
       RemHandling, RemTaken, RemStarting, RemPlaces
<1>8. RemSessions'
  BY RemuxSessionFrame, RemuxHandFrame DEF RemSessions, RemBegun, RemEntered, RemHandling,
       RemTaken, RemStarting, RemPlaces
<1>9. RemReaping'
  BY DEF RemReaping, RemTyped, RemBegun, RemClosed, RemRng, RemEntered, RemHandling,
       RemTaken, RemStarting, RemPlaces
<1>10. RemFiling'
  BY RemuxFilingFrame DEF RemHandling, RemTaken
<1>11. RemEnding'
  BY DEF RemEnding, RemBegun, RemReaping, RemTyped, RemDelivering, RemEntered,
       RemHandling, RemTaken, RemStarting, RemPlaces
<1> QED
  BY <1>1, <1>2, <1>3, <1>4, <1>5, <1>6, <1>7, <1>8, <1>9, <1>10, <1>11 DEF RemInv

\* Run stops the input and closes the session.
LEMMA RemuxRunCloseKeeps == ASSUME RemInv, Remux!RunClose PROVE RemInv'
<1> USE DEF RemInv, Remux!RunClose, Remux!pipeline, Remux!running, Remux!source,
     Remux!remuxers, Remux!reaping, Remux!counters, Remux!Calm, Remux!Failure,
     Remux!FailWith, Remux!Quiet, Remux!Goto, Remux!Throw, Remux!NoOutput,
     Remux!NoReading, Remux!Fault
<1>a. worker2 = "stopinput" /\ worker2' = "done" /\ UNCHANGED <<plan, delivered, hand, last, conn, atEof>>
  OBVIOUS
<1>b. current' = 0 /\ Len(output') = Len(output) /\ output' \in Seq({"new", "on", "drained", "closed", "failed"})
  BY RemuxCloseFacts
<1>c. ~workerDone
  BY <1>a DEF RemReaping
<1>1. RemTyped'
  BY DEF RemTyped, RemEntered, RemHandling, RemTaken, RemStarting, RemPlaces
<1>2. RemFailing'
  BY DEF RemFailing, RemTyped, Remux!Threads, RemCauses
<1>3. RemReached'
  BY DEF RemReached, RemPending, RemTyped, RemFailing, Remux!Threads, RemEntered,
       RemHandling, RemTaken, RemStarting, RemPlaces
<1>4. RemOutputs'
  BY <1>a, <1>b DEF RemOutputs
<1>5. RemBegun'
  BY DEF RemBegun, RemTyped, RemEntered, RemHandling, RemTaken, RemStarting, RemPlaces
<1>6. RemReading'
  BY RemuxDeliveryFrame DEF RemReading, RemBegun, RemConsumed, RemEntered, RemHandling,
       RemTaken, RemStarting, RemPlaces
<1>7. RemDelivering'
  BY RemuxDeliveryFrame DEF RemDelivering, RemReading, RemBegun, RemConsumed, RemEntered,
       RemHandling, RemTaken, RemStarting, RemPlaces
<1>8. RemSessions'
  BY <1>a, <1>b, RemuxSeparatedFrame DEF RemSessions
<1>9. RemReaping'
  BY <1>a, <1>c, RemuxCloseReaping
<1>10. RemFiling'
  BY <1>a, RemuxCloseFiling DEF RemHandling, RemTaken
<1>11. RemEnding'
  BY DEF RemEnding, RemBegun, RemReaping, RemTyped, RemDelivering, RemEntered,
       RemHandling, RemTaken, RemStarting, RemPlaces
<1> QED
  BY <1>1, <1>2, <1>3, <1>4, <1>5, <1>6, <1>7, <1>8, <1>9, <1>10, <1>11 DEF RemInv

\* 
LEMMA RemuxRunDoneKeeps == ASSUME RemInv, Remux!RunDone PROVE RemInv'
<1> USE DEF RemInv, Remux!RunDone, Remux!pipeline, Remux!running, Remux!source,
     Remux!remuxers, Remux!reaping, Remux!counters, Remux!Calm, Remux!Failure,
     Remux!FailWith, Remux!Quiet, Remux!Goto, Remux!Throw, Remux!NoOutput,
     Remux!NoReading, Remux!Fault
<1>1. RemTyped'
  BY DEF RemTyped, RemEntered, RemHandling, RemTaken, RemStarting, RemPlaces
<1>2. RemFailing'
  BY DEF RemFailing, RemTyped, Remux!Threads, RemCauses
<1>3. RemReached'
  BY DEF RemReached, RemPending, RemTyped, RemFailing, Remux!Threads, RemEntered,
       RemHandling, RemTaken, RemStarting, RemPlaces
<1>4. RemOutputs'
  BY DEF RemOutputs, RemTyped
<1>5. RemBegun'
  BY DEF RemBegun, RemTyped, RemEntered, RemHandling, RemTaken, RemStarting, RemPlaces
<1>6. RemReading'
  BY RemuxDeliveryFrame DEF RemReading, RemBegun, RemConsumed, RemEntered, RemHandling,
       RemTaken, RemStarting, RemPlaces
<1>7. RemDelivering'
  BY RemuxDeliveryFrame DEF RemDelivering, RemReading, RemBegun, RemConsumed, RemEntered,
       RemHandling, RemTaken, RemStarting, RemPlaces
<1>8. RemSessions'
  BY RemuxSessionFrame, RemuxHandFrame DEF RemSessions, RemBegun, RemEntered, RemHandling,
       RemTaken, RemStarting, RemPlaces
<1>9. RemReaping'
  BY DEF RemReaping, RemTyped, RemBegun, RemClosed, RemRng, RemEntered, RemHandling,
       RemTaken, RemStarting, RemPlaces
<1>10. RemFiling'
  BY RemuxFilingFrame DEF RemHandling, RemTaken
<1>11. RemEnding'
  BY DEF RemEnding, RemBegun, RemReaping, RemTyped, RemDelivering, RemEntered,
       RemHandling, RemTaken, RemStarting, RemPlaces
<1> QED
  BY <1>1, <1>2, <1>3, <1>4, <1>5, <1>6, <1>7, <1>8, <1>9, <1>10, <1>11 DEF RemInv

\* 
LEMMA RemuxRunEndKeeps == ASSUME RemInv, Remux!RunEnd PROVE RemInv'
<1> USE DEF RemInv, Remux!RunEnd, Remux!pipeline, Remux!running, Remux!source,
     Remux!remuxers, Remux!reaping, Remux!counters, Remux!Calm, Remux!Failure,
     Remux!FailWith, Remux!Quiet, Remux!Goto, Remux!Throw, Remux!NoOutput,
     Remux!NoReading, Remux!Fault
<1>1. RemTyped'
  BY DEF RemTyped, RemEntered, RemHandling, RemTaken, RemStarting, RemPlaces
<1>2. RemFailing'
  BY DEF RemFailing, RemTyped, Remux!Threads, RemCauses
<1>3. RemReached'
  BY DEF RemReached, RemPending, RemTyped, RemFailing, Remux!Threads, RemEntered,
       RemHandling, RemTaken, RemStarting, RemPlaces
<1>4. RemOutputs'
  BY DEF RemOutputs, RemTyped
<1>5. RemBegun'
  BY DEF RemBegun, RemTyped, RemEntered, RemHandling, RemTaken, RemStarting, RemPlaces
<1>6. RemReading'
  BY RemuxDeliveryFrame DEF RemReading, RemBegun, RemConsumed, RemEntered, RemHandling,
       RemTaken, RemStarting, RemPlaces
<1>7. RemDelivering'
  BY RemuxDeliveryFrame DEF RemDelivering, RemReading, RemBegun, RemConsumed, RemEntered,
       RemHandling, RemTaken, RemStarting, RemPlaces
<1>8. RemSessions'
  BY RemuxSessionFrame, RemuxHandFrame DEF RemSessions, RemBegun, RemEntered, RemHandling,
       RemTaken, RemStarting, RemPlaces
<1>9. RemReaping'
  BY DEF RemReaping, RemTyped, RemBegun, RemClosed, RemRng, RemEntered, RemHandling,
       RemTaken, RemStarting, RemPlaces
<1>10. RemFiling'
  BY RemuxFilingFrame DEF RemHandling, RemTaken
<1>11. RemEnding'
  BY DEF RemEnding, RemBegun, RemReaping, RemTyped, RemDelivering, RemEntered,
       RemHandling, RemTaken, RemStarting, RemPlaces
<1> QED
  BY <1>1, <1>2, <1>3, <1>4, <1>5, <1>6, <1>7, <1>8, <1>9, <1>10, <1>11 DEF RemInv

\* The invariant holds before the first session.
LEMMA RemuxInitInv == Remux!Init => RemInv
<1> SUFFICES ASSUME Remux!Init PROVE RemInv
  OBVIOUS
<1> USE DEF Remux!Init
<1>1. RemTyped /\ RemFailing /\ RemReached
  <2>1. asker = Remux!Calm /\ asker \in [at : {"no", "cancel"}, cause : {None}, output : Nat]
    BY DEF Remux!Calm
  <2>2. RemTyped
    BY <2>1, PipelinesAssumption, PlansAssumption DEF RemTyped, RemPlaces, RemEntered,
         RemHandling, RemTaken, RemStarting
  <2>3. Remux!Calm \in [at : {"no", "fail", "request", "cancel"}, cause : RemCauses, output : Nat]
    BY DEF Remux!Calm, RemCauses
  <2>4. thrower["worker"].at = "no" /\ RemFailing
    BY <2>3 DEF RemFailing, Remux!Calm, Remux!Threads
  <2> QED
    BY <2>2, <2>4 DEF RemReached
<1>2. RemOutputs
  <2>1. output = <<"new">> /\ served = <<{}>> /\ registration = {} /\ current = 1 /\ worker2 = "off"
    OBVIOUS
  <2> QED
    BY <2>1 DEF RemOutputs
<1>3. plan \in Plans /\ worker2 = "off" /\ control = "idle"
  OBVIOUS
<1>4. Len(plan.items) \in Nat
  BY <1>3, PipelinesAssumption, PlansAssumption
<1>5. RemBegun /\ RemReading
  BY <1>3, <1>4 DEF RemBegun, RemReading, RemConsumed, RemTaken, RemStarting
<1>6. RemDelivering
  <2>1. delivered = <<>> /\ ~atEof /\ worker2 = "off"
    OBVIOUS
  <2> QED
    BY <2>1 DEF RemDelivering, RemItemsOf, RemHandling, RemTaken
<1>7. RemSessions
  <2>1. delivered = <<>> /\ worker2 = "off" /\ conn = 0 /\ last = [t \in 1..2 |-> None]
    OBVIOUS
  <2> QED
    BY <2>1 DEF RemSessions, RemSeparated
<1>8. RemReaping /\ RemFiling
  <2>1. /\ delivered = <<>> /\ history = <<>> /\ retired = <<>> /\ retiring = 0 /\ reaper = "off"
        /\ ~started2 /\ ~live /\ worker2 = "off" /\ ~atEof /\ ~workerDone
    OBVIOUS
  <2> QED
    BY <2>1 DEF RemReaping, RemFiling, RemClosed, RemRng, RemUsed, RemHandling, RemTaken
<1>9. RemEnding
  BY DEF RemEnding
<1> QED
  BY <1>1, <1>2, <1>5, <1>6, <1>7, <1>8, <1>9 DEF RemInv

\* Every step keeps it.
LEMMA RemuxStepInv == RemInv /\ [Remux!Next]_(Remux!vars) => RemInv'
<1> SUFFICES ASSUME RemInv, [Remux!Next]_(Remux!vars) PROVE RemInv'
  OBVIOUS
<1>1. CASE Remux!Stop \/ Remux!Start \/ \E o \in plan.adds : Remux!Add(o)
  BY <1>1, RemuxStopKeeps, RemuxStartKeeps, RemuxAddKeeps
<1>2. CASE Remux!CallerStep
  BY <1>2, RemuxStartThreadsKeeps, RemuxStartCaughtKeeps, RemuxStopRequestKeeps,
       RemuxStopCancelKeeps, RemuxStopCloseKeeps,
     RemuxStopDoneKeeps DEF Remux!CallerStep
<1>3. CASE Remux!FailStep
  BY <1>3, RemuxFailLockKeeps, RemuxFailRequestKeeps, RemuxFailCancelKeeps DEF Remux!FailStep
<1>4. CASE Remux!RequestStop \/ Remux!RequestCancel \/ Remux!InputFails \/ Remux!InputEnds \/ Remux!InputRetries \/ Remux!Announce
  BY <1>4, RemuxRequestStopKeeps, RemuxRequestCancelKeeps, RemuxInputFailsKeeps,
       RemuxInputEndsKeeps, RemuxInputRetriesKeeps,
     RemuxAnnounceKeeps
<1>5. CASE Remux!RemuxerFails \/ Remux!ProbeExpires \/ Remux!Reap
  BY <1>5, RemuxRemuxerFailsKeeps, RemuxProbeExpiresKeeps, RemuxReapKeeps
<1>6. CASE Remux!InputWanted \/ Remux!RunStart \/ Remux!StopAgain \/ Remux!Read \/ Remux!Look \/ Remux!EofDrain \/ Remux!Probe \/ Remux!ProbeDone \/ Remux!InitBegin
  BY <1>6, RemuxInputWantedKeeps, RemuxRunStartKeeps, RemuxStopAgainKeeps, RemuxReadKeeps,
       RemuxLookKeeps, RemuxEofDrainKeeps, RemuxProbeKeeps,
     RemuxProbeDoneKeeps, RemuxInitBeginKeeps
<1>7. CASE Remux!InitClose \/ Remux!InitOutput \/ Remux!InitCommit \/ Remux!Pace \/ Remux!Submit \/ Remux!Submitted
  BY <1>7, RemuxInitCloseKeeps, RemuxInitOutputKeeps, RemuxInitCommitKeeps,
       RemuxPaceKeeps, RemuxSubmitKeeps, RemuxSubmittedKeeps
<1>8. CASE Remux!RunCaught \/ Remux!Leave \/ Remux!EofSleep \/ Remux!RunClose \/ Remux!RunDone \/ Remux!RunEnd
  BY <1>8, RemuxRunCaughtKeeps, RemuxLeaveKeeps, RemuxEofSleepKeeps, RemuxRunCloseKeeps,
       RemuxRunDoneKeeps, RemuxRunEndKeeps
<1>9. CASE UNCHANGED Remux!vars
  <2> USE <1>9 DEF Remux!vars, Remux!pipeline, Remux!running, Remux!source, Remux!remuxers, Remux!reaping, Remux!counters, RemInv
  <2>1. RemTyped' /\ RemFailing' /\ RemOutputs' /\ RemEnding'
    BY DEF RemTyped, RemFailing, RemOutputs, RemEnding, Remux!Calm
  <2>2. RemReached'
    BY DEF RemReached, RemPending
  <2>3. RemUndisturbed
    BY DEF RemUndisturbed
  <2> QED
    BY <2>1, <2>2, <2>3, RemuxUndisturbedKeeps
<1> QED
  BY <1>1, <1>2, <1>3, <1>4, <1>5, <1>6, <1>7, <1>8, <1>9 DEF Remux!Next, Remux!WorkerStep

\* The invariant implies the properties.
LEMMA RemuxInvReaches == RemInv => Remux!StopReachesInput
<1> SUFFICES ASSUME RemInv, stopping, worker2 \in {"read", "look", "drain", "probe", "pace", "leave", "eof"},
                    asker = Remux!Calm, control \in {"idle", "join"}, \A t \in Remux!Threads : thrower[t].at = "no"
             PROVE  input # "on"
  BY DEF Remux!StopReachesInput
<1>1. ~RemPending
  BY DEF RemPending, Remux!Calm
<1>2. worker2 \in RemEntered
  BY DEF RemEntered, RemHandling, RemTaken
<1> QED
  BY <1>1, <1>2 DEF RemInv, RemReached

\* The session in use has every output that was registered when it began.
LEMMA RemuxInvTemplates == RemInv => Remux!TemplatesKept
BY DEF RemInv, RemOutputs, Remux!TemplatesKept

\* Two packets are in different sessions exactly where the source splits them.
LEMMA RemuxInvSeparates == RemInv => Remux!SessionsSeparated
<1> SUFFICES ASSUME RemInv PROVE Remux!SessionsSeparated
  OBVIOUS
<1>1. Len(delivered) \in Nat /\ RemSeparated
  BY DEF RemInv, RemDelivering, RemSessions
<1> SUFFICES ASSUME NEW i \in 2..Len(delivered)
             PROVE  delivered[i].session # delivered[i - 1].session
                      <=> RemSplits(plan, delivered, i - 1, delivered[i].item)
  BY DEF Remux!SessionsSeparated, RemSplits, RemJumps, RemDeliveries, LastOf, Remux!Item
<1>2. i - 1 \in 1..(Len(delivered) - 1) /\ (i - 1) + 1 = i
  BY <1>1
<1> QED
  BY <1>1, <1>2 DEF RemSeparated

\* An input that ended was delivered whole, and every session is filed.
LEMMA RemuxInvEnds == RemInv => Remux!EndedComplete
<1> SUFFICES ASSUME RemInv PROVE Remux!EndedComplete
  OBVIOUS
<1> DEFINE packets == {n \in DOMAIN plan.items : Remux!Selected(n)}
<1>1. plan \in Plans /\ Len(plan.items) \in Nat /\ DOMAIN plan.items = 1..Len(plan.items)
  BY PipelinesAssumption, PlansAssumption DEF RemInv, RemTyped
<1>2. packets = RemPackets(Len(plan.items))
  BY <1>1 DEF RemPackets
<1>3. RemItemsOf \subseteq packets
  BY <1>1 DEF RemItemsOf, RemInv, RemDelivering
<1>4. \A i \in RemItemsOf : {n \in packets : n < i} \subseteq RemItemsOf
  <2> TAKE i \in RemItemsOf
  <2>1. i \in 1..Len(plan.items) /\ RemPackets(i) \subseteq RemItemsOf
    BY <1>1, <1>3 DEF RemInv, RemDelivering
  <2>2. \A n \in packets : n < i => n \in RemPackets(i)
    BY <1>1, <2>1 DEF RemPackets
  <2> QED
    BY <2>1, <2>2
<1>5. state2 = "ended" => RemItemsOf = packets /\ error2 = None
  BY <1>2 DEF RemInv, RemEnding, RemDelivering
<1>6. (ended \/ (worker2 = "off" /\ reaper = "off")) /\ ~live => RemUsed \subseteq RemRng(history)
  BY DEF RemInv, RemEnding, RemFiling, RemClosed, RemReaping, RemRng
<1>7. ended => ~live /\ RemClosed = RemRng(history) /\ RemClosed \subseteq RemUsed
  BY DEF RemInv, RemEnding, RemFiling, RemClosed, RemReaping, RemRng, RemEntered,
       RemHandling, RemTaken
<1>8. ~started2 => RemUsed \subseteq RemRng(history)
  BY <1>6 DEF RemInv, RemTyped, RemReaping, RemEntered, RemHandling, RemTaken
<1>9. state2 = "ended" => RemRng(history) = RemUsed
  BY <1>6, <1>7 DEF RemInv, RemEnding
<1> QED
  BY <1>3, <1>4, <1>5, <1>8, <1>9 DEF Remux!EndedComplete, RemItemsOf, RemUsed, RemRng,
       RemInv, RemDelivering, RemReaping

-----------------------------------------------------------------------------
(* The three pipelines, of which each behaviour runs one.                  *)

all == <<which, vars, shared, offlineOnly, remuxOnly>>

MCInv ==
  /\ which \in {"live", "offline", "remux"} /\ IInv
  /\ which # "remux" => OffInv /\ OffCounted /\ OffReporting
  /\ which = "remux" => RemInv /\ OfflineUnused

\* No thread of the offline pipeline is called None.
LEMMA OfflineNames == None \notin Offline!Threads
BY PipelinesAssumption DEF Offline!Threads

\* A step of the composition is a step of the pipeline that runs, and leaves
\* the others alone.
LEMMA StepOfOne ==
  ASSUME which \in {"live", "offline", "remux"}, [MCNext]_all
  PROVE  /\ which' = which /\ [Next]_vars
         /\ which # "remux" => [Offline!Next]_(Offline!vars)
         /\ which = "remux" => [Remux!Next]_(Remux!vars) /\ UNCHANGED offlineOnly
<1> USE DEF all, shared, offlineOnly, remuxOnly
<1>1. CASE MCNext
  <2>1. CASE which = "live"
    <3>1. UNCHANGED <<shared, offlineOnly>> => UNCHANGED Offline!vars
      BY DEF Offline!vars, Offline!pipeline, Offline!consume, Offline!input, Offline!counters
    <3> QED
      BY <1>1, <2>1, <3>1 DEF MCNext
  <2>2. CASE which = "offline"
    BY <1>1, <2>2 DEF MCNext
  <2>3. CASE which = "remux"
    BY <1>1, <2>3 DEF MCNext
  <2> QED
    BY <2>1, <2>2, <2>3
<1>2. CASE UNCHANGED all
  BY <1>2 DEF Offline!vars, Offline!pipeline, Offline!consume, Offline!input, Offline!counters,
     Remux!vars, Remux!pipeline, Remux!running, Remux!source, Remux!remuxers, Remux!reaping,
     Remux!counters
<1> QED
  BY <1>1, <1>2

\* The invariant of the pipeline that runs holds in every reachable state.
LEMMA MCInvariance == MCSpec => []MCInv
<1>1. MCInit => MCInv
  BY InitInv, OfflineInitKeeps, OfflineInitCounts, RemuxInitInv DEF MCInit, MCInv
<1>2. MCInv /\ [MCNext]_all => MCInv'
  <2> SUFFICES ASSUME MCInv, [MCNext]_all PROVE MCInv'
    OBVIOUS
  <2>1. /\ which' = which /\ [Next]_vars
        /\ which # "remux" => [Offline!Next]_(Offline!vars)
        /\ which = "remux" => [Remux!Next]_(Remux!vars) /\ UNCHANGED offlineOnly
    BY StepOfOne DEF MCInv
  <2>2. IInv'
    BY <2>1, StepInv DEF MCInv
  <2>3. which' # "remux" => OffInv' /\ OffCounted' /\ OffReporting'
    BY <2>1, OfflineNames, OfflineStepKeeps, OfflineStepCounts DEF MCInv
  <2>4. which' = "remux" => RemInv'
    BY <2>1, RemuxStepInv DEF MCInv
  <2>5. which' = "remux" => OfflineUnused'
    BY <2>1 DEF MCInv, OfflineUnused, offlineOnly
  <2> QED
    BY <2>1, <2>2, <2>3, <2>4, <2>5 DEF MCInv
<1> QED
  BY <1>1, <1>2, PTL DEF MCSpec, all

\* A stop or a failure at any moment, also while Start or the worker starts a
\* component whose Start forgets a cancellation, reaches it, in the live, the
\* offline and the remuxing pipeline (RequestStop, Fail, Start, Run).
THEOREM StopAlwaysReaches == MCSpec => []StopReaches
<1>1. MCInv => StopReaches
  BY InvReaches, OfflineInvReaches, RemuxInvReaches DEF MCInv, StopReaches
<1> QED
  BY <1>1, MCInvariance, PTL

\* A run that is published as ended is complete: every frame of a file went
\* through the filter, which was reset once and stopped; every packet of an
\* input went into a session, in order and once, and every session's files are
\* finished (Consume, Run, PrepareStreams, Reap).
THEOREM EndsComplete == MCSpec => []EndedComplete
<1>1. MCInv => EndedComplete
  BY OfflineCountsComplete, RemuxInvEnds DEF MCInv, EndedComplete
<1> QED
  BY <1>1, MCInvariance, PTL

\* The sessions of the remuxing pipeline change exactly where the connection
\* does or a flagged source jumps, and each has every output that was added
\* (Run, Initialize, EnsureRemuxer, OnPacket).
THEOREM EverySessionServed == MCSpec => []SessionsServed
<1>1. MCInv => SessionsServed
  BY RemuxInvSeparates, RemuxInvTemplates DEF MCInv, SessionsServed
<1> QED
  BY <1>1, MCInvariance, PTL

\* The published state of an offline pipeline keeps the promises of every
\* pipeline (Start, the callback of the source, Fail, RequestStop, Run, Stop).
THEOREM OfflineLifecycleImplemented == MCSpec => OfflineImplements
<1>1. MCInit => Offline!LC!Init
  BY DEF MCInit, Offline!Init, OfflineUnused, Offline!LC!Init
<1>2. MCInv /\ [MCNext]_all => [Offline!LC!Next]_(Offline!LC!vars)
  <2> SUFFICES ASSUME MCInv, [MCNext]_all PROVE [Offline!LC!Next]_(Offline!LC!vars)
    OBVIOUS
  <2>1. CASE which # "remux"
    BY <2>1, StepOfOne, OfflineNames, OfflineStepRefines DEF MCInv
  <2>2. CASE which = "remux"
    BY <2>2, StepOfOne DEF MCInv, offlineOnly, Offline!LC!vars
  <2> QED
    BY <2>1, <2>2
<1> QED
  BY <1>1, <1>2, MCInvariance, PTL DEF MCSpec, all, OfflineImplements, Offline!Implements,
       Offline!LC!Spec
====
