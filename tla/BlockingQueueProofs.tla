------------------------- MODULE BlockingQueueProofs -------------------------
(***************************************************************************)
(* Proofs about BlockingQueue, for any number of threads, any capacity and *)
(* any number of items and exceptions: type correctness, FIFO delivery     *)
(* without loss, and that no condition variable wakeup is lost.            *)
(***************************************************************************)
EXTENDS BlockingQueue, FiniteSetTheorems, TLAPS

-----------------------------------------------------------------------------
(* Type correctness.                                                       *)

\* pc stays typed whatever waiter notify_one or notify_all picks.
LEMMA NotifyType ==
  ASSUME TypeOK, NEW t \in Threads, NEW next \in Locations, NEW side
  PROVE  /\ NotifyOne(t, side, next) => pc' \in [Threads -> Locations]
         /\ NotifyAll(t, side, next) => pc' \in [Threads -> Locations]
  BY DEF TypeOK, NotifyOne, NotifyAll, Waiting, Locations

\* Every variable of the queue keeps its type: TypeOK is an invariant of Spec.
THEOREM TypeCorrect == Spec => []TypeOK
<1>1. Init => TypeOK
  <2> SUFFICES ASSUME Init PROVE TypeOK
    OBVIOUS
  <2>1. queue \in Seq(Items) /\ Len(queue) <= Capacity
    BY CapacityAssumption DEF Init
  <2>2. closed \in BOOLEAN
    BY Zenon DEF Init
  <2>3. /\ registered \in SUBSET Signals
        /\ revision \in [Signals -> Nat]
        /\ pc \in [Threads -> Locations]
        /\ held \in [Threads -> SUBSET Signals]
        /\ observed \in [EventLoops -> Nat]
    BY DEF Init, Locations
  <2>4. /\ pushed \in [Producers -> Nat]
        /\ popped \in [Producers -> Nat]
        /\ faults \in Nat
    BY DEF Init
  <2> QED
    BY <2>1, <2>2, <2>3, <2>4 DEF TypeOK
<1>2. TypeOK /\ [Next]_vars => TypeOK'
  <2> SUFFICES ASSUME TypeOK, [Next]_vars PROVE TypeOK'
    OBVIOUS
  <2> USE DEF TypeOK, Locations
  <2>1. ASSUME NEW p \in Producers, PushClosed(p) PROVE TypeOK'
    BY <2>1 DEF PushClosed
  <2>2. ASSUME NEW p \in Producers, PushWait(p) PROVE TypeOK'
    BY <2>2 DEF PushWait
  <2>3. ASSUME NEW p \in Producers, PushItem(p) PROVE TypeOK'
    <3>1. <<p, pushed[p] + 1>> \in Items
      BY DEF Items
    <3>2. queue' \in Seq(Items) /\ pushed' \in [Producers -> Nat]
      BY <2>3, <3>1 DEF PushItem
    <3>6. Len(queue') <= Capacity
      BY <2>3, <3>1, CapacityAssumption DEF PushItem
    <3>3. held' \in [Threads -> SUBSET Signals]
      BY <2>3 DEF PushItem
    <3>4. pc' \in [Threads -> Locations]
      BY <2>3 DEF PushItem
    <3>5. /\ closed' = closed /\ registered' = registered
          /\ revision' = revision /\ observed' = observed
          /\ popped' = popped /\ faults' = faults
      BY <2>3 DEF PushItem
    <3> QED
      BY <3>2, <3>3, <3>4, <3>5, <3>6, Zenon
  <2>4. ASSUME NEW p \in Producers, PushThrow(p) PROVE TypeOK'
    <3>1. faults' \in Nat
      BY <2>4 DEF PushThrow
    <3>2. closed' \in BOOLEAN
      BY <2>4, Zenon DEF PushThrow
    <3> QED
      BY <2>4, <3>1, <3>2 DEF PushThrow
  <2>5. ASSUME NEW p \in Producers, Timeout(p) PROVE TypeOK'
    BY <2>5 DEF Timeout
  <2>6. ASSUME NEW c \in Poppers, PopWait(c) PROVE TypeOK'
    BY <2>6 DEF PopWait
  <2>7. ASSUME NEW c \in Poppers, PopClosed(c) PROVE TypeOK'
    BY <2>7 DEF PopClosed
  <2>8. ASSUME NEW c \in Poppers, PopItem(c) PROVE TypeOK'
    <3>1. Head(queue) \in Items /\ queue' \in Seq(Items)
      BY <2>8 DEF PopItem
    <3>7. Len(queue') <= Capacity
      BY <2>8, CapacityAssumption DEF PopItem
    <3>2. Head(queue)[2] \in Nat
      BY <3>1 DEF Items
    <3>3. popped' \in [Producers -> Nat]
      BY <2>8, <3>2 DEF PopItem
    <3>4. held' \in [Threads -> SUBSET Signals]
      BY <2>8 DEF PopItem
    <3>5. pc' \in [Threads -> Locations]
      BY <2>8 DEF PopItem
    <3>6. /\ closed' = closed /\ registered' = registered
          /\ revision' = revision /\ observed' = observed
          /\ pushed' = pushed /\ faults' = faults
      BY <2>8 DEF PopItem
    <3> QED
      BY <3>1, <3>3, <3>4, <3>5, <3>6, <3>7, Zenon
  <2>9. ASSUME NEW c \in Poppers, PopThrow(c) PROVE TypeOK'
    <3>1. faults' \in Nat
      BY <2>9 DEF PopThrow
    <3>2. closed' \in BOOLEAN
      BY <2>9, Zenon DEF PopThrow
    <3> QED
      BY <2>9, <3>1, <3>2 DEF PopThrow
  <2>10. ASSUME NEW t \in Threads, NotifyPeer(t) PROVE TypeOK'
    <3>1. AfterNotify(t) \in Locations
      BY DEF AfterNotify
    <3> QED
      BY <2>10, <3>1, NotifyType DEF NotifyPeer
  <2>11. ASSUME NEW t \in Threads, NotifyOwn(t) PROVE TypeOK'
    <3>1. "idle" \in Locations
      OBVIOUS
    <3> QED
      BY <2>11, <3>1, NotifyType DEF NotifyOwn
  <2>12. ASSUME NEW t \in Threads, Signal(t) PROVE TypeOK'
    BY <2>12 DEF Signal, Signals
  <2>13. ASSUME NEW t \in EventLoops, Observe(t) PROVE TypeOK'
    BY <2>13 DEF Observe, SignalOf, Signals
  <2>14. ASSUME NEW t \in EventLoops, Wake(t) PROVE TypeOK'
    BY <2>14 DEF Wake
  <2>15. ASSUME NEW t \in Producers \cup Consumers, SpuriousWake(t) PROVE TypeOK'
    BY <2>15 DEF SpuriousWake
  <2>16. ASSUME NEW s \in Signals, SetSignal(s) PROVE TypeOK'
    BY <2>16 DEF SetSignal
  <2>17. CASE Close
    BY <2>17 DEF Close
  <2>18. CASE CloseNotify
    <3>1. /\ Owner \in Threads
          /\ "closing2" \in Locations
          /\ AfterNotify(Owner) \in Locations
      BY DEF AfterNotify, Threads
    <3> QED
      BY <2>18, <3>1, NotifyType DEF CloseNotify
  <2>19. CASE UNCHANGED vars
    BY <2>19 DEF vars
  <2> QED
    BY <2>1, <2>2, <2>3, <2>4, <2>5, <2>6, <2>7, <2>8, <2>9, <2>10, <2>11,
       <2>12, <2>13, <2>14, <2>15, <2>16, <2>17, <2>18, <2>19
       DEF Next, Push, Pop, After
<1> QED
  BY <1>1, <1>2, PTL DEF Spec

-----------------------------------------------------------------------------
(* Lost wakeups.  The two NoLost invariants count the threads that owe or  *)
(* own a wakeup, so every step is compared by what it does to that set.    *)

\* How the cardinality of a finite set S bounds that of T, when T contains S
\* with one element more, one less, or one exchanged.
LEMMA CardinalitySteps ==
  ASSUME NEW S, NEW T, IsFiniteSet(S), IsFiniteSet(T)
  PROVE  /\ Cardinality(S) \in Nat /\ Cardinality(T) \in Nat
         /\ S \subseteq T => Cardinality(S) <= Cardinality(T)
         /\ \A x \in T \ S : S \subseteq T => Cardinality(S) + 1 <= Cardinality(T)
         /\ \A x : S \ {x} \subseteq T => Cardinality(S) - 1 <= Cardinality(T)
         /\ \A x : \A y \in T \ S :
              S \ {x} \subseteq T => Cardinality(S) <= Cardinality(T)
<1>1. Cardinality(S) \in Nat /\ Cardinality(T) \in Nat
  BY FS_CardinalityType
<1>2. S \subseteq T => Cardinality(S) <= Cardinality(T)
  BY FS_Subset
<1>3. ASSUME NEW x \in T \ S, S \subseteq T
      PROVE  Cardinality(S) + 1 <= Cardinality(T)
  <2>1. S \subseteq T \ {x}
    BY <1>3
  <2>2. /\ IsFiniteSet(T \ {x})
        /\ Cardinality(T \ {x}) = Cardinality(T) - 1
    BY <1>3, FS_RemoveElement
  <2>3. Cardinality(S) <= Cardinality(T \ {x})
    BY <2>1, <2>2, FS_Subset
  <2> QED
    BY <1>1, <2>2, <2>3
<1>4. ASSUME NEW x, S \ {x} \subseteq T
      PROVE  Cardinality(S) - 1 <= Cardinality(T)
  <2>1. /\ IsFiniteSet(S \ {x})
        /\ Cardinality(S \ {x}) =
             IF x \in S THEN Cardinality(S) - 1 ELSE Cardinality(S)
    BY FS_RemoveElement
  <2>2. Cardinality(S \ {x}) <= Cardinality(T)
    BY <1>4, FS_Subset
  <2> QED
    BY <1>1, <2>1, <2>2
<1>5. ASSUME NEW x, NEW y \in T \ S, S \ {x} \subseteq T
      PROVE  Cardinality(S) <= Cardinality(T)
  <2>1. /\ IsFiniteSet(S \ {x})
        /\ Cardinality(S \ {x}) =
             IF x \in S THEN Cardinality(S) - 1 ELSE Cardinality(S)
    BY FS_RemoveElement
  <2>2. /\ IsFiniteSet(T \ {y})
        /\ Cardinality(T \ {y}) = Cardinality(T) - 1
    BY <1>5, FS_RemoveElement
  <2>3. S \ {x} \subseteq T \ {y}
    BY <1>5
  <2>4. Cardinality(S \ {x}) <= Cardinality(T \ {y})
    BY <2>2, <2>3, FS_Subset
  <2> QED
    BY <1>1, <2>1, <2>2, <2>4
<1> QED
  BY <1>1, <1>2, <1>3, <1>4, <1>5

\* The threads that still owe a notification are finitely many.
LEMMA OwesFinite ==
  /\ IsFiniteSet(OwesPop) /\ IsFiniteSet(OwesPop')
  /\ IsFiniteSet(OwesPush) /\ IsFiniteSet(OwesPush')
<1>1. IsFiniteSet(Threads)
  BY ThreadsAssumption, FS_Union, FS_Singleton DEF Threads, Poppers
<1>2. /\ OwesPop \subseteq Threads /\ OwesPop' \subseteq Threads
      /\ OwesPush \subseteq Threads /\ OwesPush' \subseteq Threads
  BY DEF OwesPop, OwesPush
<1> QED
  BY <1>1, <1>2, FS_Subset

\* A step keeps NoLostPopWakeup if it starts no new wait, leaves Close's debt
\* alone and adds no more items than threads that owe a wakeup.
LEMMA PopWakeKept ==
  ASSUME TypeOK, TypeOK', NoLostPopWakeup,
         Waiting(Consumers)' # {} => Waiting(Consumers) # {},
         closed' = closed,
         pc[Owner] = "closing" => pc'[Owner] = "closing",
         Len(queue') - Len(queue) <= Cardinality(OwesPop') - Cardinality(OwesPop)
  PROVE  NoLostPopWakeup'
<1>1. /\ Cardinality(OwesPop) \in Nat /\ Cardinality(OwesPop') \in Nat
      /\ Len(queue) \in Nat /\ Len(queue') \in Nat
  BY OwesFinite, FS_CardinalityType DEF TypeOK
<1>2. ASSUME Waiting(Consumers)' # {}, closed'
      PROVE  pc'[Owner] = "closing"
  BY <1>2, Zenon DEF NoLostPopWakeup
<1>3. ASSUME Waiting(Consumers)' # {}, ~closed'
      PROVE  Len(queue') <= Cardinality(OwesPop')
  <2>1. Len(queue) <= Cardinality(OwesPop)
    BY <1>3, Zenon DEF NoLostPopWakeup
  <2> QED
    BY <1>1, <2>1
<1> QED
  BY <1>2, <1>3, Zenon DEF NoLostPopWakeup

\* The same for blocked producers and free slots.
LEMMA PushWakeKept ==
  ASSUME TypeOK, TypeOK', NoLostPushWakeup,
         Waiting(Producers)' # {} => Waiting(Producers) # {},
         closed' = closed,
         pc[Owner] \in {"closing", "closing2"} =>
           pc'[Owner] \in {"closing", "closing2"},
         Len(queue) - Len(queue') <= Cardinality(OwesPush') - Cardinality(OwesPush)
  PROVE  NoLostPushWakeup'
<1>1. /\ Cardinality(OwesPush) \in Nat /\ Cardinality(OwesPush') \in Nat
      /\ Len(queue) \in Nat /\ Len(queue') \in Nat
  BY OwesFinite, FS_CardinalityType DEF TypeOK
<1>2. ASSUME Waiting(Producers)' # {}, closed'
      PROVE  pc'[Owner] \in {"closing", "closing2"}
  BY <1>2, Zenon DEF NoLostPushWakeup
<1>3. ASSUME Waiting(Producers)' # {}, ~closed'
      PROVE  Capacity - Len(queue') <= Cardinality(OwesPush')
  <2>1. Capacity - Len(queue) <= Cardinality(OwesPush)
    BY <1>3, Zenon DEF NoLostPushWakeup
  <2> QED
    BY <1>1, <2>1, CapacityAssumption
<1> QED
  BY <1>2, <1>3, Zenon DEF NoLostPushWakeup

\* A step of one thread t that moves no item: both counts are kept when t's
\* debts are kept, and no wait starts.
LEMMA LocalStep ==
  ASSUME TypeOK, TypeOK', NoLostPopWakeup, NoLostPushWakeup,
         NEW t \in Threads, NEW next \in Locations,
         pc' = [pc EXCEPT ![t] = next],
         queue' = queue, closed' = closed,
         next # "waiting",
         pc[t] \notin {"closing", "closing2"},
         t \in OwesPop => t \in OwesPop',
         t \in OwesPush => t \in OwesPush'
  PROVE  NoLostPopWakeup' /\ NoLostPushWakeup'
<1>1. OwesPop \subseteq OwesPop' /\ OwesPush \subseteq OwesPush'
  BY DEF OwesPop, OwesPush, TypeOK
<1>2. /\ Cardinality(OwesPop) <= Cardinality(OwesPop')
      /\ Cardinality(OwesPop) \in Nat /\ Cardinality(OwesPop') \in Nat
  BY <1>1, OwesFinite, CardinalitySteps
<1>3. /\ Cardinality(OwesPush) <= Cardinality(OwesPush')
      /\ Cardinality(OwesPush) \in Nat /\ Cardinality(OwesPush') \in Nat
  BY <1>1, OwesFinite, CardinalitySteps
<1>4. /\ Waiting(Consumers)' # {} => Waiting(Consumers) # {}
      /\ Waiting(Producers)' # {} => Waiting(Producers) # {}
  BY DEF Waiting, TypeOK, Threads, Poppers
<1>5. /\ pc[Owner] = "closing" => pc'[Owner] = "closing"
      /\ pc[Owner] \in {"closing", "closing2"} =>
           pc'[Owner] \in {"closing", "closing2"}
  BY DEF TypeOK, Threads
<1>6. Len(queue) \in Nat /\ Len(queue') = Len(queue)
  BY DEF TypeOK
<1>7. NoLostPopWakeup'
  <2>1. Len(queue') - Len(queue) <= Cardinality(OwesPop') - Cardinality(OwesPop)
    BY <1>2, <1>6
  <2> QED
    BY <1>4, <1>5, <2>1, PopWakeKept
<1>8. NoLostPushWakeup'
  <2>1. Len(queue) - Len(queue') <= Cardinality(OwesPush') - Cardinality(OwesPush)
    BY <1>3, <1>6
  <2> QED
    BY <1>4, <1>5, <2>1, PushWakeKept
<1> QED
  BY <1>7, <1>8

\* What notify_one does to pc: the notifier moves on and at most one waiter of
\* that side becomes awake.
LEMMA NotifyEffect ==
  ASSUME TypeOK, NEW t \in Threads, NEW side \in SUBSET Threads, NEW next,
         NotifyOne(t, side, next), pc[t] # "waiting"
  PROVE  /\ pc'[t] = next
         /\ \A u \in Threads \ {t} :
              \/ pc'[u] = pc[u]
              \/ u \in side /\ pc[u] = "waiting" /\ pc'[u] = "awake"
<1>1. CASE Waiting(side) = {}
  BY <1>1 DEF NotifyOne, TypeOK
<1>2. CASE Waiting(side) # {}
  <2>1. PICK w \in side : pc[w] = "waiting" /\
                          pc' = [pc EXCEPT ![t] = next, ![w] = "awake"]
    BY <1>2 DEF NotifyOne, Waiting
  <2> QED
    BY <2>1 DEF TypeOK
<1> QED
  BY <1>1, <1>2

\* notify_one on the pop side hands the notifier's debt to the waiter it
\* wakes; if nobody waits there is nothing to lose.
LEMMA NotifyConsumers ==
  ASSUME TypeOK, TypeOK', NoLostPopWakeup, NoLostPushWakeup,
         NEW t \in Threads, NEW next \in {"idle", "signal"},
         NotifyOne(t, Consumers, next),
         pc[t] \in {"notify", "retry"},
         t \notin OwesPush,
         queue' = queue, closed' = closed
  PROVE  NoLostPopWakeup' /\ NoLostPushWakeup'
<1>0. /\ pc'[t] = next
      /\ \A u \in Threads \ {t} :
           \/ pc'[u] = pc[u]
           \/ u \in Consumers /\ pc[u] = "waiting" /\ pc'[u] = "awake"
  <2>1. Consumers \in SUBSET Threads
    BY DEF Threads, Poppers
  <2> QED
    BY <2>1, NotifyEffect
<1>1. OwesPush \subseteq OwesPush'
  BY <1>0, ThreadsAssumption DEF OwesPush, Threads, Poppers
<1>2. /\ Cardinality(OwesPush) <= Cardinality(OwesPush')
      /\ Cardinality(OwesPush) \in Nat /\ Cardinality(OwesPush') \in Nat
  BY <1>1, OwesFinite, CardinalitySteps
<1>3. /\ Waiting(Consumers)' # {} => Waiting(Consumers) # {}
      /\ Waiting(Producers)' # {} => Waiting(Producers) # {}
  BY <1>0 DEF Waiting, Threads, Poppers
<1>4. pc'[Owner] = pc[Owner] \/ (pc[Owner] \in {"notify", "retry"})
  BY <1>0, ThreadsAssumption DEF Threads, Poppers
<1>5. Len(queue) \in Nat /\ Len(queue') = Len(queue)
  BY DEF TypeOK
<1>6. NoLostPushWakeup'
  <2>1. /\ Len(queue') - Len(queue) <= Cardinality(OwesPush') - Cardinality(OwesPush)
        /\ Len(queue) - Len(queue') <= Cardinality(OwesPush') - Cardinality(OwesPush)
    BY <1>2, <1>5
  <2> QED
    BY <1>3, <1>4, <2>1, PushWakeKept
<1>7. NoLostPopWakeup'
  <2>1. CASE Waiting(Consumers) = {}
    BY <1>3, <2>1 DEF NoLostPopWakeup
  <2>2. CASE Waiting(Consumers) # {}
    <3>1. PICK w \in Waiting(Consumers) :
            pc' = [pc EXCEPT ![t] = next, ![w] = "awake"]
      BY <2>2 DEF NotifyOne
    <3>2. w \in OwesPop' \ OwesPop
      BY <3>1, ThreadsAssumption DEF Waiting, OwesPop, TypeOK, Threads, Poppers
    <3>3. OwesPop \ {t} \subseteq OwesPop'
      BY <1>0 DEF OwesPop
    <3>4. /\ Cardinality(OwesPop) <= Cardinality(OwesPop')
          /\ Cardinality(OwesPop) \in Nat /\ Cardinality(OwesPop') \in Nat
      BY <3>2, <3>3, OwesFinite, CardinalitySteps
    <3>5. /\ Len(queue') - Len(queue) <= Cardinality(OwesPop') - Cardinality(OwesPop)
          /\ Len(queue) - Len(queue') <= Cardinality(OwesPop') - Cardinality(OwesPop)
      BY <1>5, <3>4
    <3> QED
      BY <1>3, <1>4, <3>5, PopWakeKept
  <2> QED
    BY <2>1, <2>2
<1> QED
  BY <1>6, <1>7

\* notify_one on the push side hands the notifier's debt to the waiter it
\* wakes; if nobody waits there is nothing to lose.
LEMMA NotifyProducers ==
  ASSUME TypeOK, TypeOK', NoLostPopWakeup, NoLostPushWakeup,
         NEW t \in Threads, NEW next \in {"idle", "signal"},
         NotifyOne(t, Producers, next),
         pc[t] \in {"notify", "retry"},
         t \notin OwesPop,
         queue' = queue, closed' = closed
  PROVE  NoLostPopWakeup' /\ NoLostPushWakeup'
<1>0. /\ pc'[t] = next
      /\ \A u \in Threads \ {t} :
           \/ pc'[u] = pc[u]
           \/ u \in Producers /\ pc[u] = "waiting" /\ pc'[u] = "awake"
  <2>1. Producers \in SUBSET Threads
    BY DEF Threads, Poppers
  <2> QED
    BY <2>1, NotifyEffect
<1>1. OwesPop \subseteq OwesPop'
  BY <1>0, ThreadsAssumption DEF OwesPop, Threads, Poppers
<1>2. /\ Cardinality(OwesPop) <= Cardinality(OwesPop')
      /\ Cardinality(OwesPop) \in Nat /\ Cardinality(OwesPop') \in Nat
  BY <1>1, OwesFinite, CardinalitySteps
<1>3. /\ Waiting(Producers)' # {} => Waiting(Producers) # {}
      /\ Waiting(Consumers)' # {} => Waiting(Consumers) # {}
  BY <1>0 DEF Waiting, Threads, Poppers
<1>4. pc'[Owner] = pc[Owner] \/ (pc[Owner] \in {"notify", "retry"})
  BY <1>0, ThreadsAssumption DEF Threads, Poppers
<1>5. Len(queue) \in Nat /\ Len(queue') = Len(queue)
  BY DEF TypeOK
<1>6. NoLostPopWakeup'
  <2>1. /\ Len(queue') - Len(queue) <= Cardinality(OwesPop') - Cardinality(OwesPop)
        /\ Len(queue) - Len(queue') <= Cardinality(OwesPop') - Cardinality(OwesPop)
    BY <1>2, <1>5
  <2> QED
    BY <1>3, <1>4, <2>1, PopWakeKept
<1>7. NoLostPushWakeup'
  <2>1. CASE Waiting(Producers) = {}
    BY <1>3, <2>1 DEF NoLostPushWakeup
  <2>2. CASE Waiting(Producers) # {}
    <3>1. PICK w \in Waiting(Producers) :
            pc' = [pc EXCEPT ![t] = next, ![w] = "awake"]
      BY <2>2 DEF NotifyOne
    <3>2. w \in OwesPush' \ OwesPush
      BY <3>1, ThreadsAssumption DEF Waiting, OwesPush, TypeOK, Threads, Poppers
    <3>3. OwesPush \ {t} \subseteq OwesPush'
      BY <1>0 DEF OwesPush
    <3>4. /\ Cardinality(OwesPush) <= Cardinality(OwesPush')
          /\ Cardinality(OwesPush) \in Nat /\ Cardinality(OwesPush') \in Nat
      BY <3>2, <3>3, OwesFinite, CardinalitySteps
    <3>5. /\ Len(queue') - Len(queue) <= Cardinality(OwesPush') - Cardinality(OwesPush)
          /\ Len(queue) - Len(queue') <= Cardinality(OwesPush') - Cardinality(OwesPush)
      BY <1>5, <3>4
    <3> QED
      BY <1>3, <1>4, <3>5, PushWakeKept
  <2> QED
    BY <2>1, <2>2
<1> QED
  BY <1>6, <1>7

\* After Close only notify_all matters: a step that starts no wait and is not
\* one of Close's keeps both invariants.
LEMMA ClosedStep ==
  ASSUME TypeOK, NoLostPopWakeup, NoLostPushWakeup, closed, closed' = closed,
         NEW t \in Threads,
         pc' = [pc EXCEPT ![t] = "idle"],
         pc[t] \notin {"closing", "closing2"}
  PROVE  NoLostPopWakeup' /\ NoLostPushWakeup'
<1>1. /\ Waiting(Consumers)' # {} => Waiting(Consumers) # {}
      /\ Waiting(Producers)' # {} => Waiting(Producers) # {}
  BY DEF Waiting, TypeOK, Threads, Poppers
<1>2. /\ pc[Owner] = "closing" => pc'[Owner] = "closing"
      /\ pc[Owner] \in {"closing", "closing2"} =>
           pc'[Owner] \in {"closing", "closing2"}
  BY DEF TypeOK, Threads
<1> QED
  BY <1>1, <1>2, Zenon DEF NoLostPopWakeup, NoLostPushWakeup

\* Both counting invariants survive every step.
LEMMA WakeStep ==
  ASSUME TypeOK, TypeOK', NoLostPopWakeup, NoLostPushWakeup, Next
  PROVE  NoLostPopWakeup' /\ NoLostPushWakeup'
<1> USE DEF Locations
<1>0. /\ Producers \subseteq Threads /\ Poppers \subseteq Threads
      /\ EventLoops \subseteq Threads /\ Owner \in Threads
      /\ Producers \cap Poppers = {}
      /\ Len(queue) \in Nat /\ Len(queue') \in Nat
  BY ThreadsAssumption DEF Threads, Poppers, EventLoops, TypeOK
<1>c. /\ Cardinality(OwesPop) \in Nat /\ Cardinality(OwesPop') \in Nat
      /\ Cardinality(OwesPush) \in Nat /\ Cardinality(OwesPush') \in Nat
  BY OwesFinite, FS_CardinalityType
<1>1. ASSUME NEW p \in Producers, PushClosed(p)
      PROVE  NoLostPopWakeup' /\ NoLostPushWakeup'
  <2>1. /\ closed /\ closed' = closed
        /\ pc' = [pc EXCEPT ![p] = "idle"]
    BY <1>1, Zenon DEF PushClosed
  <2>2. pc[p] \notin {"closing", "closing2"}
    BY <1>1 DEF PushClosed, InPush
  <2> QED
    BY <1>0, <2>1, <2>2, ClosedStep
<1>2. ASSUME NEW p \in Producers, PushWait(p)
      PROVE  NoLostPopWakeup' /\ NoLostPushWakeup'
  <2>1. /\ ~closed /\ Len(queue) >= Capacity
        /\ queue' = queue /\ closed' = closed
        /\ pc[p] \notin {"closing", "closing2", "notify", "retry"}
    BY <1>2 DEF PushWait, InPush
  <2>2. PICK l \in {"waiting", "sleep", "idle"} : pc' = [pc EXCEPT ![p] = l]
    BY <1>2 DEF PushWait
  <2>3. OwesPop \subseteq OwesPop'
    BY <1>0, <2>1, <2>2 DEF OwesPop, TypeOK
  <2>4. Len(queue') - Len(queue) <= Cardinality(OwesPop') - Cardinality(OwesPop)
    BY <1>0, <1>c, <2>1, <2>3, OwesFinite, CardinalitySteps
  <2>5. Waiting(Consumers)' # {} => Waiting(Consumers) # {}
    BY <1>0, <2>2 DEF Waiting, TypeOK, Poppers
  <2>6. pc[Owner] = "closing" => pc'[Owner] = "closing"
    BY <1>0, <2>1, <2>2 DEF TypeOK
  <2>7. NoLostPopWakeup'
    BY <2>1, <2>4, <2>5, <2>6, PopWakeKept
  <2>8. Capacity - Len(queue') <= Cardinality(OwesPush')
    BY <1>0, <1>c, <2>1, CapacityAssumption
  <2>9. ~closed'
    BY <2>1, Zenon
  <2>10. NoLostPushWakeup'
    BY <2>8, <2>9, Zenon DEF NoLostPushWakeup
  <2> QED
    BY <2>7, <2>10
<1>3. ASSUME NEW p \in Producers, PushItem(p)
      PROVE  NoLostPopWakeup' /\ NoLostPushWakeup'
  <2>1. /\ pc' = [pc EXCEPT ![p] = "notify"]
        /\ closed' = closed
        /\ pc[p] \notin {"closing", "closing2", "notify", "retry"}
    BY <1>3 DEF PushItem, InPush
  <2>2. Len(queue') = Len(queue) + 1
    BY <1>3 DEF PushItem, TypeOK
  <2>3. OwesPop \subseteq OwesPop' /\ p \in OwesPop' \ OwesPop
    BY <1>0, <2>1 DEF OwesPop, TypeOK
  <2>4. OwesPush \ {p} \subseteq OwesPush'
    BY <1>0, <2>1 DEF OwesPush, TypeOK
  <2>5. Cardinality(OwesPop) + 1 <= Cardinality(OwesPop')
    BY <2>3, OwesFinite, CardinalitySteps
  <2>6. Cardinality(OwesPush) - 1 <= Cardinality(OwesPush')
    BY <2>4, OwesFinite, CardinalitySteps
  <2>7. /\ Waiting(Consumers)' # {} => Waiting(Consumers) # {}
        /\ Waiting(Producers)' # {} => Waiting(Producers) # {}
    BY <1>0, <2>1 DEF Waiting, TypeOK, Poppers
  <2>8. /\ pc[Owner] = "closing" => pc'[Owner] = "closing"
        /\ pc[Owner] \in {"closing", "closing2"} =>
             pc'[Owner] \in {"closing", "closing2"}
    BY <1>0, <2>1 DEF TypeOK
  <2>9. Len(queue') - Len(queue) <= Cardinality(OwesPop') - Cardinality(OwesPop)
    BY <1>0, <1>c, <2>2, <2>5
  <2>10. Len(queue) - Len(queue') <= Cardinality(OwesPush') - Cardinality(OwesPush)
    BY <1>0, <1>c, <2>2, <2>6
  <2> QED
    BY <2>1, <2>7, <2>8, <2>9, <2>10, PopWakeKept, PushWakeKept
<1>4. ASSUME NEW p \in Producers, PushThrow(p)
      PROVE  NoLostPopWakeup' /\ NoLostPushWakeup'
  <2>1. /\ pc' = [pc EXCEPT ![p] = "retry"]
        /\ queue' = queue /\ closed' = closed
        /\ pc[p] \notin {"closing", "closing2", "notify", "retry"}
    BY <1>4 DEF PushThrow, InPush
  <2>2. p \notin OwesPop /\ p \in OwesPush'
    BY <1>0, <2>1 DEF OwesPop, OwesPush, TypeOK
  <2> QED
    BY <1>0, <2>1, <2>2, LocalStep
<1>5. ASSUME NEW p \in Producers, Timeout(p)
      PROVE  NoLostPopWakeup' /\ NoLostPushWakeup'
  <2>1. /\ pc' = [pc EXCEPT ![p] = "expired"]
        /\ queue' = queue /\ closed' = closed
        /\ pc[p] = "waiting"
    BY <1>5 DEF Timeout
  <2>2. p \notin OwesPop /\ p \notin OwesPush
    BY <2>1 DEF OwesPop, OwesPush
  <2> QED
    BY <1>0, <2>1, <2>2, LocalStep
<1>6. ASSUME NEW c \in Poppers, PopWait(c)
      PROVE  NoLostPopWakeup' /\ NoLostPushWakeup'
  <2>1. /\ ~closed /\ queue = <<>>
        /\ queue' = queue /\ closed' = closed
        /\ pc[c] \notin {"closing", "closing2", "notify", "retry"}
    BY <1>6 DEF PopWait, InPop
  <2>2. PICK l \in {"waiting", "sleep"} : pc' = [pc EXCEPT ![c] = l]
    BY <1>6 DEF PopWait
  <2>3. OwesPush \subseteq OwesPush'
    BY <1>0, <2>1, <2>2 DEF OwesPush, TypeOK
  <2>4. Len(queue) - Len(queue') <= Cardinality(OwesPush') - Cardinality(OwesPush)
    BY <1>0, <1>c, <2>1, <2>3, OwesFinite, CardinalitySteps
  <2>5. Waiting(Producers)' # {} => Waiting(Producers) # {}
    BY <1>0, <2>2 DEF Waiting, TypeOK
  <2>6. pc[Owner] \in {"closing", "closing2"} =>
          pc'[Owner] \in {"closing", "closing2"}
    BY <1>0, <2>1, <2>2 DEF TypeOK
  <2>7. NoLostPushWakeup'
    BY <2>1, <2>4, <2>5, <2>6, PushWakeKept
  <2>8. Len(queue') <= Cardinality(OwesPop')
    BY <1>0, <1>c, <2>1
  <2>9. ~closed'
    BY <2>1, Zenon
  <2>10. NoLostPopWakeup'
    BY <2>8, <2>9, Zenon DEF NoLostPopWakeup
  <2> QED
    BY <2>7, <2>10
<1>7. ASSUME NEW c \in Poppers, PopClosed(c)
      PROVE  NoLostPopWakeup' /\ NoLostPushWakeup'
  <2>1. /\ closed /\ closed' = closed
        /\ pc' = [pc EXCEPT ![c] = "idle"]
    BY <1>7, Zenon DEF PopClosed
  <2>2. pc[c] \notin {"closing", "closing2"}
    BY <1>7 DEF PopClosed, InPop
  <2> QED
    BY <1>0, <2>1, <2>2, ClosedStep
<1>8. ASSUME NEW c \in Poppers, PopItem(c)
      PROVE  NoLostPopWakeup' /\ NoLostPushWakeup'
  <2>1. /\ pc' = [pc EXCEPT ![c] = "notify"]
        /\ closed' = closed
        /\ pc[c] \notin {"closing", "closing2", "notify", "retry"}
    BY <1>8 DEF PopItem, InPop
  <2>2. Len(queue') = Len(queue) - 1
    BY <1>8 DEF PopItem, TypeOK
  <2>3. OwesPush \subseteq OwesPush' /\ c \in OwesPush' \ OwesPush
    BY <1>0, <2>1 DEF OwesPush, TypeOK
  <2>4. OwesPop \ {c} \subseteq OwesPop'
    BY <1>0, <2>1 DEF OwesPop, TypeOK
  <2>5. Cardinality(OwesPush) + 1 <= Cardinality(OwesPush')
    BY <2>3, OwesFinite, CardinalitySteps
  <2>6. Cardinality(OwesPop) - 1 <= Cardinality(OwesPop')
    BY <2>4, OwesFinite, CardinalitySteps
  <2>7. /\ Waiting(Consumers)' # {} => Waiting(Consumers) # {}
        /\ Waiting(Producers)' # {} => Waiting(Producers) # {}
    BY <1>0, <2>1 DEF Waiting, TypeOK, Poppers
  <2>8. /\ pc[Owner] = "closing" => pc'[Owner] = "closing"
        /\ pc[Owner] \in {"closing", "closing2"} =>
             pc'[Owner] \in {"closing", "closing2"}
    BY <1>0, <2>1 DEF TypeOK
  <2>9. Len(queue') - Len(queue) <= Cardinality(OwesPop') - Cardinality(OwesPop)
    BY <1>0, <1>c, <2>2, <2>6
  <2>10. Len(queue) - Len(queue') <= Cardinality(OwesPush') - Cardinality(OwesPush)
    BY <1>0, <1>c, <2>2, <2>5
  <2> QED
    BY <2>1, <2>7, <2>8, <2>9, <2>10, PopWakeKept, PushWakeKept
<1>9. ASSUME NEW c \in Poppers, PopThrow(c)
      PROVE  NoLostPopWakeup' /\ NoLostPushWakeup'
  <2>1. /\ pc' = [pc EXCEPT ![c] = "retry"]
        /\ queue' = queue /\ closed' = closed
        /\ pc[c] \notin {"closing", "closing2", "notify", "retry"}
    BY <1>9 DEF PopThrow, InPop
  <2>2. c \in OwesPop' /\ c \notin OwesPush
    BY <1>0, <2>1 DEF OwesPop, OwesPush, TypeOK
  <2> QED
    BY <1>0, <2>1, <2>2, LocalStep
<1>10. ASSUME NEW t \in Threads, NotifyPeer(t)
       PROVE  NoLostPopWakeup' /\ NoLostPushWakeup'
  <2>1. /\ pc[t] = "notify" /\ queue' = queue /\ closed' = closed
        /\ AfterNotify(t) \in {"idle", "signal"}
    BY <1>10 DEF NotifyPeer, AfterNotify
  <2>2. CASE t \in Producers
    <3>1. NotifyOne(t, Consumers, AfterNotify(t)) /\ t \notin OwesPush
      BY <1>0, <1>10, <2>1, <2>2 DEF NotifyPeer, OwesPush
    <3> QED
      BY <2>1, <3>1, NotifyConsumers
  <2>3. CASE t \notin Producers
    <3>1. NotifyOne(t, Producers, AfterNotify(t)) /\ t \notin OwesPop
      BY <1>10, <2>1, <2>3 DEF NotifyPeer, OwesPop
    <3> QED
      BY <2>1, <3>1, NotifyProducers
  <2> QED
    BY <2>2, <2>3
<1>11. ASSUME NEW t \in Threads, NotifyOwn(t)
       PROVE  NoLostPopWakeup' /\ NoLostPushWakeup'
  <2>1. pc[t] = "retry" /\ queue' = queue /\ closed' = closed
    BY <1>11 DEF NotifyOwn
  <2>2. CASE t \in Producers
    <3>1. NotifyOne(t, Producers, "idle") /\ t \notin OwesPop
      BY <1>0, <1>11, <2>1, <2>2 DEF NotifyOwn, OwesPop
    <3> QED
      BY <2>1, <3>1, NotifyProducers
  <2>3. CASE t \notin Producers
    <3>1. NotifyOne(t, Consumers, "idle") /\ t \notin OwesPush
      BY <1>11, <2>1, <2>3 DEF NotifyOwn, OwesPush
    <3> QED
      BY <2>1, <3>1, NotifyConsumers
  <2> QED
    BY <2>2, <2>3
<1>12. ASSUME NEW t \in Threads, Signal(t)
       PROVE  NoLostPopWakeup' /\ NoLostPushWakeup'
  <2>1. pc[t] = "signal" /\ queue' = queue /\ closed' = closed
    BY <1>12 DEF Signal
  <2>2. PICK l \in {"idle", "signal"} : pc' = [pc EXCEPT ![t] = l]
    BY <1>12 DEF Signal
  <2>3. t \notin OwesPop /\ t \notin OwesPush
    BY <2>1 DEF OwesPop, OwesPush
  <2> QED
    BY <2>1, <2>2, <2>3, LocalStep
<1>13. ASSUME NEW t \in EventLoops, Observe(t) \/ Wake(t)
       PROVE  NoLostPopWakeup' /\ NoLostPushWakeup'
  <2>1. pc[t] \in {"idle", "sleep"} /\ queue' = queue /\ closed' = closed
    BY <1>13 DEF Observe, Wake
  <2>2. PICK l \in {"idle", "look"} : pc' = [pc EXCEPT ![t] = l]
    BY <1>13 DEF Observe, Wake
  <2>3. t \notin OwesPop /\ t \notin OwesPush
    BY <2>1 DEF OwesPop, OwesPush
  <2> QED
    BY <1>0, <2>1, <2>2, <2>3, LocalStep
<1>14. ASSUME NEW t \in Producers \cup Consumers, SpuriousWake(t)
       PROVE  NoLostPopWakeup' /\ NoLostPushWakeup'
  <2>1. /\ pc' = [pc EXCEPT ![t] = "awake"]
        /\ queue' = queue /\ closed' = closed
        /\ pc[t] = "waiting"
    BY <1>14 DEF SpuriousWake
  <2>2. t \notin OwesPop /\ t \notin OwesPush /\ t \in Threads
    BY <2>1 DEF OwesPop, OwesPush, Threads, Poppers
  <2> QED
    BY <2>1, <2>2, LocalStep
<1>15. ASSUME NEW s \in Signals, SetSignal(s)
       PROVE  NoLostPopWakeup' /\ NoLostPushWakeup'
  <2>1. pc[Owner] = "idle" /\ queue' = queue /\ closed' = closed
    BY <1>15 DEF SetSignal
  <2>2. PICK l \in {"idle", "signal"} : pc' = [pc EXCEPT ![Owner] = l]
    BY <1>15 DEF SetSignal
  <2>3. Owner \notin OwesPop /\ Owner \notin OwesPush
    BY <2>1 DEF OwesPop, OwesPush
  <2> QED
    BY <1>0, <2>1, <2>2, <2>3, LocalStep
<1>16. CASE Close
  <2>1. closed' /\ pc'[Owner] = "closing"
    BY <1>0, <1>16 DEF Close, TypeOK
  <2> QED
    BY <2>1 DEF NoLostPopWakeup, NoLostPushWakeup
<1>17. CASE CloseNotify
  <2>1. closed' = closed
    BY <1>17 DEF CloseNotify
  <2>2. CASE pc[Owner] = "closing" /\ NotifyAll(Owner, Consumers, "closing2")
    <3>1. Waiting(Consumers)' = {} /\ pc'[Owner] = "closing2"
      BY <1>0, <2>2 DEF NotifyAll, Waiting, Threads, Poppers
    <3>2. Waiting(Producers)' # {} => Waiting(Producers) # {}
      BY <1>0, <2>2 DEF NotifyAll, Waiting
    <3>3. OwesPush \subseteq OwesPush'
      BY <1>0, <2>2, ThreadsAssumption DEF NotifyAll, Waiting, OwesPush, Poppers
    <3>4. Len(queue) - Len(queue') <= Cardinality(OwesPush') - Cardinality(OwesPush)
      BY <1>0, <1>c, <1>17, <3>3, OwesFinite, CardinalitySteps DEF CloseNotify
    <3>5. NoLostPushWakeup'
      BY <2>1, <3>1, <3>2, <3>4, PushWakeKept
    <3> QED
      BY <3>1, <3>5 DEF NoLostPopWakeup
  <2>3. CASE pc[Owner] = "closing2" /\ NotifyAll(Owner, Producers, AfterNotify(Owner))
    <3>1. Waiting(Producers)' = {}
      BY <1>0, <2>3 DEF NotifyAll, Waiting, Threads, AfterNotify
    <3>2. Waiting(Consumers)' # {} => Waiting(Consumers) # {}
      BY <1>0, <2>3 DEF NotifyAll, Waiting, Poppers, AfterNotify
    <3>3. OwesPop \subseteq OwesPop'
      BY <1>0, <2>3, ThreadsAssumption DEF NotifyAll, Waiting, OwesPop, Poppers
    <3>4. Len(queue') - Len(queue) <= Cardinality(OwesPop') - Cardinality(OwesPop)
      BY <1>0, <1>c, <1>17, <3>3, OwesFinite, CardinalitySteps DEF CloseNotify
    <3>5. NoLostPopWakeup'
      BY <2>1, <2>3, <3>2, <3>4, PopWakeKept
    <3> QED
      BY <3>1, <3>5 DEF NoLostPushWakeup
  <2> QED
    BY <1>17, <2>2, <2>3 DEF CloseNotify
<1> QED
  BY <1>1, <1>2, <1>3, <1>4, <1>5, <1>6, <1>7, <1>8, <1>9, <1>10, <1>11, <1>12,
     <1>13, <1>14, <1>15, <1>16, <1>17 DEF Next, Push, Pop, After

\* No condition variable wakeup of the queue is lost: while a Pop (a Push) is
\* blocked, the queued items (the free slots) never outnumber the threads that
\* still have to notify or were already woken, and after Close every blocked
\* caller is still to be woken by its notify_all.
THEOREM NoLostWakeups == Spec => []NoLostWakeup
<1>1. Init => NoLostPopWakeup /\ NoLostPushWakeup
  <2> SUFFICES ASSUME Init PROVE NoLostPopWakeup /\ NoLostPushWakeup
    OBVIOUS
  <2>1. Waiting(Consumers) = {} /\ Waiting(Producers) = {}
    BY DEF Init, Waiting, Threads, Poppers
  <2> QED
    BY <2>1 DEF NoLostPopWakeup, NoLostPushWakeup
<1>2. /\ TypeOK /\ TypeOK' /\ NoLostPopWakeup /\ NoLostPushWakeup
      /\ [Next]_vars
      => NoLostPopWakeup' /\ NoLostPushWakeup'
  <2> SUFFICES ASSUME TypeOK, TypeOK', NoLostPopWakeup, NoLostPushWakeup,
                      [Next]_vars
               PROVE  NoLostPopWakeup' /\ NoLostPushWakeup'
    OBVIOUS
  <2>1. CASE Next
    BY <2>1, WakeStep
  <2>2. CASE UNCHANGED vars
    BY <2>2 DEF vars, NoLostPopWakeup, NoLostPushWakeup, Waiting, OwesPop, OwesPush
  <2> QED
    BY <2>1, <2>2
<1>3. NoLostPopWakeup /\ NoLostPushWakeup => NoLostWakeup
  BY DEF NoLostWakeup
<1> QED
  BY <1>1, <1>2, <1>3, TypeCorrect, PTL DEF Spec

-----------------------------------------------------------------------------
(* FIFO delivery.                                                          *)

\* Accepting an item: it is its producer's next one and stands last.
LEMMA FifoPush ==
  ASSUME TypeOK, TypeOK', FifoNoLoss, NEW p \in Producers, PushItem(p)
  PROVE  FifoNoLoss'
<1>1. /\ DOMAIN queue = 1..Len(queue) /\ DOMAIN queue' = 1..(Len(queue) + 1)
      /\ Len(queue) \in Nat
      /\ \A i \in 1..Len(queue) : queue'[i] = queue[i]
      /\ queue'[Len(queue) + 1] = <<p, pushed[p] + 1>>
      /\ popped' = popped /\ pushed' = [pushed EXCEPT ![p] = @ + 1]
  BY DEF PushItem, TypeOK
<1>2. \A i \in 1..Len(queue) :
        /\ queue[i][1] \in Producers
        /\ queue[i][2] \in (popped[queue[i][1]] + 1)..pushed[queue[i][1]]
  <2> SUFFICES ASSUME NEW i \in 1..Len(queue)
               PROVE  /\ queue[i][1] \in Producers
                      /\ queue[i][2] \in (popped[queue[i][1]] + 1)..pushed[queue[i][1]]
    OBVIOUS
  <2>1. queue[i] \in Items
    BY DEF TypeOK
  <2>2. queue[i][1] \in Producers
    BY <2>1 DEF Items
  <2> QED
    BY <1>1, <2>2 DEF FifoNoLoss
<1>3. ASSUME NEW i \in DOMAIN queue', NEW j \in DOMAIN queue', i < j,
             queue'[i][1] = queue'[j][1]
      PROVE  queue'[i][2] < queue'[j][2]
  <2>1. CASE j \in 1..Len(queue)
    BY <1>1, <1>3, <2>1 DEF FifoNoLoss
  <2>2. CASE j = Len(queue) + 1
    <3>1. i \in 1..Len(queue) /\ queue[i][1] = p
      BY <1>1, <1>3, <2>2
    <3>2. queue[i][2] \in (popped[p] + 1)..pushed[p]
      BY <1>2, <3>1
    <3>3. queue'[i][2] = queue[i][2] /\ queue'[j][2] = pushed[p] + 1
      BY <1>1, <2>2, <3>1
    <3>4. popped[p] \in Nat /\ pushed[p] \in Nat
      BY DEF TypeOK
    <3> QED
      BY <3>2, <3>3, <3>4
  <2> QED
    BY <1>1, <1>3, <2>1, <2>2
<1>4. ASSUME NEW r \in Producers
      PROVE  /\ popped'[r] <= pushed'[r]
             /\ {queue'[i][2] : i \in {k \in DOMAIN queue' : queue'[k][1] = r}}
                  = (popped'[r] + 1)..pushed'[r]
  <2>1. /\ popped[r] <= pushed[r]
        /\ {queue[i][2] : i \in {k \in DOMAIN queue : queue[k][1] = r}}
             = (popped[r] + 1)..pushed[r]
    BY DEF FifoNoLoss
  <2>0. popped[r] \in Nat /\ pushed[r] \in Nat
    BY DEF TypeOK
  <2>2. CASE r # p
    <3>1. {k \in DOMAIN queue' : queue'[k][1] = r}
            = {k \in DOMAIN queue : queue[k][1] = r}
      BY <1>1, <2>2
    <3>2. popped'[r] = popped[r] /\ pushed'[r] = pushed[r]
      BY <1>1, <2>2 DEF TypeOK
    <3> QED
      BY <1>1, <2>1, <3>1, <3>2
  <2>3. CASE r = p
    <3>1. {k \in DOMAIN queue' : queue'[k][1] = r}
            = {k \in DOMAIN queue : queue[k][1] = r} \cup {Len(queue) + 1}
      BY <1>1, <2>3
    <3>2. popped'[r] = popped[r] /\ pushed'[r] = pushed[r] + 1
      BY <1>1, <2>3 DEF TypeOK
    <3>3. {queue'[i][2] : i \in {k \in DOMAIN queue' : queue'[k][1] = r}}
            = {queue[i][2] : i \in {k \in DOMAIN queue : queue[k][1] = r}}
                \cup {pushed[r] + 1}
      BY <1>1, <2>3, <3>1
    <3> QED
      BY <2>0, <2>1, <3>2, <3>3
  <2> QED
    BY <2>2, <2>3
<1> QED
  BY <1>3, <1>4 DEF FifoNoLoss

\* Delivering an item: the head is its producer's oldest undelivered one.
LEMMA FifoPop ==
  ASSUME TypeOK, TypeOK', FifoNoLoss, NEW c \in Poppers, PopItem(c)
  PROVE  FifoNoLoss'
<1> DEFINE p == queue[1][1]
           n == queue[1][2]
<1>1. /\ DOMAIN queue = 1..Len(queue) /\ DOMAIN queue' = 1..(Len(queue) - 1)
      /\ Len(queue) \in Nat \ {0}
      /\ \A i \in 1..(Len(queue) - 1) : queue'[i] = queue[i + 1]
      /\ popped' = [popped EXCEPT ![p] = n] /\ pushed' = pushed
  <2>1. queue \in Seq(Items) /\ queue # <<>> /\ queue' = Tail(queue)
    BY DEF PopItem, TypeOK
  <2>2. /\ DOMAIN queue = 1..Len(queue) /\ Len(queue) \in Nat \ {0}
        /\ Head(queue) = queue[1]
    BY <2>1
  <2>3. /\ DOMAIN queue' = 1..(Len(queue) - 1)
        /\ \A i \in 1..(Len(queue) - 1) : queue'[i] = queue[i + 1]
    BY <2>1
  <2>4. popped' = [popped EXCEPT ![p] = n] /\ pushed' = pushed
    BY <2>2 DEF PopItem
  <2> QED
    BY <2>2, <2>3, <2>4
<1>2. \A i \in 1..Len(queue) :
        queue[i][1] \in Producers /\ queue[i][2] \in Nat
  <2>1. \A i \in 1..Len(queue) : queue[i] \in Items
    BY DEF TypeOK
  <2> QED
    BY <2>1 DEF Items
<1>3. \A r \in Producers :
        /\ popped[r] \in Nat /\ pushed[r] \in Nat
        /\ popped[r] <= pushed[r]
        /\ {queue[i][2] : i \in {k \in DOMAIN queue : queue[k][1] = r}}
             = (popped[r] + 1)..pushed[r]
  BY DEF FifoNoLoss, TypeOK
<1>4. \A i, j \in 1..Len(queue) :
        i < j /\ queue[i][1] = queue[j][1] => queue[i][2] < queue[j][2]
  BY <1>1 DEF FifoNoLoss
<1>5. p \in Producers /\ n = popped[p] + 1 /\ n <= pushed[p]
  <2>1. p \in Producers /\ n \in Nat
    BY <1>1, <1>2
  <2>2. n \in (popped[p] + 1)..pushed[p]
    BY <1>1, <1>3, <2>1
  <2>3. popped[p] + 1 \in (popped[p] + 1)..pushed[p]
    BY <1>3, <2>1, <2>2
  <2>3a. popped[p] + 1
          \in {queue[i][2] : i \in {k \in DOMAIN queue : queue[k][1] = p}}
    BY <1>3, <2>1, <2>3
  <2>4. PICK i \in 1..Len(queue) : queue[i][1] = p /\ queue[i][2] = popped[p] + 1
    BY <1>1, <2>3a
  <2>5. ~(1 < i)
    BY <1>1, <1>3, <1>4, <2>1, <2>2, <2>4
  <2> QED
    BY <1>1, <2>1, <2>2, <2>4, <2>5, <1>3
<1>6. ASSUME NEW i \in DOMAIN queue', NEW j \in DOMAIN queue', i < j,
             queue'[i][1] = queue'[j][1]
      PROVE  queue'[i][2] < queue'[j][2]
  BY <1>1, <1>4, <1>6
<1>7. ASSUME NEW r \in Producers
      PROVE  /\ popped'[r] <= pushed'[r]
             /\ {queue'[i][2] : i \in {k \in DOMAIN queue' : queue'[k][1] = r}}
                  = (popped'[r] + 1)..pushed'[r]
  <2> DEFINE old == {queue[i][2] : i \in {k \in DOMAIN queue : queue[k][1] = r}}
             new == {queue'[i][2] : i \in {k \in DOMAIN queue' : queue'[k][1] = r}}
  <2>1. \A x : x \in new <=>
          \E i \in 2..Len(queue) : queue[i][1] = r /\ queue[i][2] = x
    <3>1. \A i \in 1..(Len(queue) - 1) : i + 1 \in 2..Len(queue)
      BY <1>1
    <3>2. \A i \in 2..Len(queue) :
            i - 1 \in 1..(Len(queue) - 1) /\ queue'[i - 1] = queue[i]
      BY <1>1
    <3>3. ASSUME NEW i \in 1..(Len(queue) - 1), queue'[i][1] = r
          PROVE  \E j \in 2..Len(queue) :
                   queue[j][1] = r /\ queue[j][2] = queue'[i][2]
      BY <1>1, <3>1, <3>3
    <3>4. ASSUME NEW j \in 2..Len(queue), queue[j][1] = r
          PROVE  queue[j][2] \in new
      <4>1. j - 1 \in DOMAIN queue' /\ queue'[j - 1] = queue[j]
        BY <1>1, <3>2
      <4> QED
        BY <3>4, <4>1
    <3>5. ASSUME NEW x \in new
          PROVE  \E j \in 2..Len(queue) : queue[j][1] = r /\ queue[j][2] = x
      <4>1. PICK i \in DOMAIN queue' : queue'[i][1] = r /\ x = queue'[i][2]
        BY <3>5
      <4>2. i \in 1..(Len(queue) - 1)
        BY <1>1, <4>1
      <4> QED
        BY <3>3, <4>1, <4>2
    <3> HIDE DEF new
    <3> QED
      BY <3>4, <3>5
  <2>2. \A x : x \in old <=>
          \E i \in 1..Len(queue) : queue[i][1] = r /\ queue[i][2] = x
    BY <1>1
  <2>3. CASE r # p
    <3>0. \A i \in 1..Len(queue) : queue[i][1] = r => i \in 2..Len(queue)
      BY <1>1, <2>3
    <3>1. new = old
      <4> HIDE DEF new, old
      <4>1. \A x : x \in new <=> x \in old
        BY <1>1, <2>1, <2>2, <3>0
      <4> QED
        BY <4>1
    <3>2. popped'[r] = popped[r] /\ pushed'[r] = pushed[r]
      BY <1>1, <2>3 DEF TypeOK
    <3> QED
      BY <1>3, <3>1, <3>2
  <2>4. CASE r = p
    <3>1. popped'[r] = popped[r] + 1 /\ pushed'[r] = pushed[r]
      BY <1>1, <1>5, <2>4 DEF TypeOK
    <3>2. \A i \in 2..Len(queue) : queue[i][1] = r => queue[i][2] # n
      <4> SUFFICES ASSUME NEW i \in 2..Len(queue), queue[i][1] = r
                   PROVE  queue[i][2] # n
        OBVIOUS
      <4>1. n < queue[i][2]
        BY <1>1, <1>4, <2>4
      <4> QED
        BY <1>1, <1>2, <4>1
    <3>3. new = old \ {n}
      <4>1. \A i \in 1..Len(queue) : i = 1 \/ i \in 2..Len(queue)
        BY <1>1
      <4>2. queue[1][1] = r /\ queue[1][2] = n
        BY <2>4
      <4> HIDE DEF new, old, n, p
      <4>3. \A x : x \in new <=> (x \in old /\ x # n)
        BY <1>1, <2>1, <2>2, <3>2, <4>1, <4>2
      <4> QED
        BY <4>3
    <3>4. old = (popped[r] + 1)..pushed[r]
      BY <1>3
    <3>5. (popped[r] + 1)..pushed[r] \ {popped[r] + 1} = (popped[r] + 2)..pushed[r]
      BY <1>3
    <3> HIDE DEF n, old, new
    <3>6. new = (popped[r] + 2)..pushed[r]
      BY <1>5, <2>4, <3>3, <3>4, <3>5
    <3>7. popped[r] + 1 + 1 = popped[r] + 2
      BY <1>3
    <3>8. popped'[r] <= pushed'[r]
      BY <1>5, <2>4, <3>1
    <3>9. new = (popped'[r] + 1)..pushed'[r]
      BY <3>1, <3>6, <3>7
    <3> QED
      BY <3>8, <3>9 DEF new
  <2> QED
    BY <2>3, <2>4
<1> QED
  BY <1>6, <1>7 DEF FifoNoLoss

\* What PushImpl and PopImpl promise about the items: under any interleaving,
\* timeout or exception, the queue holds exactly the accepted and undelivered
\* items of every producer in their order.
THEOREM FifoDelivery == Spec => []FifoNoLoss
<1>1. Init => FifoNoLoss
  <2> SUFFICES ASSUME Init PROVE FifoNoLoss
    OBVIOUS
  <2>1. DOMAIN queue = {}
    BY DEF Init
  <2>2. \A p \in Producers : popped[p] = 0 /\ pushed[p] = 0
    BY DEF Init
  <2> QED
    BY <2>1, <2>2 DEF FifoNoLoss
<1>2. TypeOK /\ TypeOK' /\ FifoNoLoss /\ [Next]_vars => FifoNoLoss'
  <2> SUFFICES ASSUME TypeOK, TypeOK', FifoNoLoss, [Next]_vars
               PROVE  FifoNoLoss'
    OBVIOUS
  <2>1. ASSUME NEW p \in Producers, PushItem(p) PROVE FifoNoLoss'
    BY <2>1, FifoPush
  <2>2. ASSUME NEW c \in Poppers, PopItem(c) PROVE FifoNoLoss'
    BY <2>2, FifoPop
  <2>3. CASE UNCHANGED <<queue, pushed, popped>>
    BY <2>3 DEF FifoNoLoss
  <2>4. \/ \E p \in Producers : PushItem(p)
        \/ \E c \in Poppers : PopItem(c)
        \/ UNCHANGED <<queue, pushed, popped>>
    BY DEF Next, vars, Push, Pop, After, PushClosed, PushWait, PushThrow, Timeout,
       PopWait, PopClosed, PopThrow, NotifyPeer, NotifyOwn, Signal, Observe, Wake,
       SpuriousWake, SetSignal, Close, CloseNotify
  <2> QED
    BY <2>1, <2>2, <2>3, <2>4
<1> QED
  BY <1>1, <1>2, TypeCorrect, PTL DEF Spec

-----------------------------------------------------------------------------
(* Event loops.  NoLostSignal needs to know who can hold a signal and that *)
(* revisions only grow.                                                    *)

\* A thread that locked a signal has not finished notifying.
HeldInv ==
  \A t \in Threads :
    held[t] # {} => pc[t] \in {"notify", "signal", "closing", "closing2"}

ObservedInv ==
  \A t \in EventLoops : observed[t] <= revision[SignalOf(t)]

SignalInv == HeldInv /\ ObservedInv /\ NoLostSignal

\* A step that touches neither the queue nor the signals, and puts an event
\* loop to sleep only when its condition does not hold, keeps SignalInv.
LEMMA QuietStep ==
  ASSUME TypeOK, TypeOK', SignalInv,
         UNCHANGED <<queue, closed, registered, revision, held, observed>>,
         \A t \in EventLoops :
           pc'[t] = "sleep" => pc[t] = "sleep" \/ ~Ready(SignalOf(t)),
         \A t \in Threads :
           pc[t] \in {"notify", "signal", "closing", "closing2"} /\ held[t] # {}
             => pc'[t] \in {"notify", "signal", "closing", "closing2"}
  PROVE  SignalInv'
<1>1. HeldInv'
  BY DEF SignalInv, HeldInv
<1>2. ObservedInv'
  BY DEF SignalInv, ObservedInv
<1>3. \A s : Ready(s)' <=> Ready(s)
  BY DEF Ready
<1>4. NoLostSignal'
  BY <1>3 DEF SignalInv, NoLostSignal
<1> QED
  BY <1>1, <1>2, <1>4 DEF SignalInv

\* Every step keeps what an event loop relies on.
LEMMA SignalStep ==
  ASSUME TypeOK, TypeOK', SignalInv, Next
  PROVE  SignalInv'
<1>0. /\ Producers \subseteq Threads /\ Poppers \subseteq Threads
      /\ EventLoops \subseteq Threads /\ Owner \in Threads
      /\ Owner \notin EventLoops
      /\ \A t \in EventLoops : SignalOf(t) \in Signals
  BY ThreadsAssumption DEF Threads, Poppers, EventLoops, SignalOf, Signals
<1>1. ASSUME NEW p \in Producers, PushClosed(p) \/ PushWait(p) \/ PushThrow(p)
                                  \/ Timeout(p)
      PROVE  SignalInv'
  <2>1. /\ UNCHANGED <<queue, closed, registered, revision, held, observed>>
        /\ pc[p] \notin {"notify", "signal", "closing", "closing2"}
    BY <1>1 DEF PushClosed, PushWait, PushThrow, Timeout, InPush
  <2>2. \A t \in Threads : t # p => pc'[t] = pc[t]
    BY <1>1 DEF PushClosed, PushWait, PushThrow, Timeout, TypeOK
  <2>3. pc'[p] = "sleep" => p \in Pollers /\ ~Ready("write")
    BY <1>0, <1>1, CapacityAssumption
       DEF PushClosed, PushWait, PushThrow, Timeout, TypeOK, Ready
  <2>4. p \in Pollers => SignalOf(p) = "write"
    BY ThreadsAssumption DEF SignalOf
  <2> QED
    BY <1>0, <2>1, <2>2, <2>3, <2>4, QuietStep
<1>2. ASSUME NEW c \in Poppers, PopWait(c) \/ PopClosed(c) \/ PopThrow(c)
      PROVE  SignalInv'
  <2>1. /\ UNCHANGED <<queue, closed, registered, revision, held, observed>>
        /\ pc[c] \notin {"notify", "signal", "closing", "closing2"}
    BY <1>2 DEF PopClosed, PopWait, PopThrow, InPop
  <2>2. \A t \in Threads : t # c => pc'[t] = pc[t]
    BY <1>2 DEF PopClosed, PopWait, PopThrow, TypeOK
  <2>3. pc'[c] = "sleep" => c \in Selectors /\ ~Ready("read")
    BY <1>0, <1>2 DEF PopClosed, PopWait, PopThrow, TypeOK, Ready
  <2>4. c \in Selectors => SignalOf(c) = "read"
    BY DEF SignalOf
  <2> QED
    BY <1>0, <2>1, <2>2, <2>3, <2>4, QuietStep
<1>3. ASSUME NEW p \in Producers, PushItem(p)
      PROVE  SignalInv'
  <2>1. /\ closed' = closed /\ registered' = registered /\ revision' = revision
        /\ observed' = observed
        /\ pc' = [pc EXCEPT ![p] = "notify"]
        /\ held' = [held EXCEPT ![p] = registered \cap {"read"}]
        /\ pc[p] \notin {"notify", "signal", "closing", "closing2"}
    BY <1>3 DEF PushItem, InPush
  <2>2. held[p] = {}
    BY <1>0, <2>1 DEF SignalInv, HeldInv
  <2>3. HeldInv' /\ ObservedInv'
    BY <1>0, <2>1 DEF SignalInv, HeldInv, ObservedInv, TypeOK
  <2>4. ASSUME NEW t \in EventLoops, pc'[t] = "sleep",
               observed[t] = revision[SignalOf(t)], SignalOf(t) \in registered,
               Ready(SignalOf(t))'
        PROVE  \E u \in Threads : SignalOf(t) \in held'[u]
    <3>1. CASE SignalOf(t) = "read"
      BY <1>0, <2>1, <2>4, <3>1 DEF TypeOK
    <3>2. CASE SignalOf(t) = "write"
      <4>1. Ready("write")
        BY <1>3, <2>4, <3>2 DEF PushItem, Ready
      <4>2. pc[t] = "sleep"
        BY <1>0, <2>1, <2>4 DEF TypeOK
      <4>3. \E u \in Threads : SignalOf(t) \in held[u]
        BY <2>4, <3>2, <4>1, <4>2 DEF SignalInv, NoLostSignal
      <4> QED
        BY <2>1, <2>2, <4>3 DEF TypeOK
    <3> QED
      BY <1>0, <3>1, <3>2 DEF Signals
  <2>5. NoLostSignal'
    BY <2>1, <2>4 DEF NoLostSignal
  <2> QED
    BY <2>3, <2>5 DEF SignalInv
<1>4. ASSUME NEW c \in Poppers, PopItem(c)
      PROVE  SignalInv'
  <2>1. /\ closed' = closed /\ registered' = registered /\ revision' = revision
        /\ observed' = observed
        /\ pc' = [pc EXCEPT ![c] = "notify"]
        /\ held' = [held EXCEPT ![c] = registered \cap {"write"}]
        /\ pc[c] \notin {"notify", "signal", "closing", "closing2"}
    BY <1>4 DEF PopItem, InPop
  <2>2. held[c] = {}
    BY <1>0, <2>1 DEF SignalInv, HeldInv
  <2>3. HeldInv' /\ ObservedInv'
    BY <1>0, <2>1 DEF SignalInv, HeldInv, ObservedInv, TypeOK
  <2>4. ASSUME NEW t \in EventLoops, pc'[t] = "sleep",
               observed[t] = revision[SignalOf(t)], SignalOf(t) \in registered,
               Ready(SignalOf(t))'
        PROVE  \E u \in Threads : SignalOf(t) \in held'[u]
    <3>1. CASE SignalOf(t) = "write"
      BY <1>0, <2>1, <2>4, <3>1 DEF TypeOK
    <3>2. CASE SignalOf(t) = "read"
      <4>1. Ready("read")
        BY <1>4 DEF PopItem, Ready
      <4>2. pc[t] = "sleep"
        BY <1>0, <2>1, <2>4 DEF TypeOK
      <4>3. \E u \in Threads : SignalOf(t) \in held[u]
        BY <2>4, <3>2, <4>1, <4>2 DEF SignalInv, NoLostSignal
      <4> QED
        BY <2>1, <2>2, <4>3 DEF TypeOK
    <3> QED
      BY <1>0, <3>1, <3>2 DEF Signals
  <2>5. NoLostSignal'
    BY <2>1, <2>4 DEF NoLostSignal
  <2> QED
    BY <2>3, <2>5 DEF SignalInv
<1>5. ASSUME NEW t \in Threads, NotifyPeer(t) \/ NotifyOwn(t)
      PROVE  SignalInv'
  <2>1. UNCHANGED <<queue, closed, registered, revision, held, observed>>
    BY <1>5 DEF NotifyPeer, NotifyOwn
  <2>2. PICK side \in SUBSET Threads, next \in {"idle", "signal"} :
          /\ NotifyOne(t, side, next)
          /\ pc[t] \in {"notify", "retry"}
          /\ pc[t] = "notify" /\ held[t] # {} => next = "signal"
    BY <1>0, <1>5 DEF NotifyPeer, NotifyOwn, AfterNotify, Threads, Poppers
  <2>3. /\ pc'[t] = next
        /\ \A u \in Threads \ {t} :
             \/ pc'[u] = pc[u]
             \/ u \in side /\ pc[u] = "waiting" /\ pc'[u] = "awake"
    BY <2>2, NotifyEffect
  <2> QED
    BY <1>0, <2>1, <2>2, <2>3, QuietStep
<1>6. ASSUME NEW t \in Threads, Signal(t)
      PROVE  SignalInv'
  <2>1. PICK s \in Signals :
          /\ pc[t] = "signal"
          /\ revision' = [revision EXCEPT ![s] = @ + 1]
          /\ held' = [held EXCEPT ![t] = @ \ {s}]
          /\ pc' = [pc EXCEPT ![t] = IF held[t] = {s} THEN "idle" ELSE "signal"]
          /\ queue' = queue /\ closed' = closed /\ registered' = registered
          /\ observed' = observed
    BY <1>6 DEF Signal, Signals
  <2>2. HeldInv'
    BY <2>1 DEF SignalInv, HeldInv, TypeOK
  <2>3. \A e \in EventLoops :
          /\ observed[e] \in Nat /\ revision[SignalOf(e)] \in Nat
          /\ observed[e] <= revision[SignalOf(e)]
          /\ revision'[SignalOf(e)] =
               IF SignalOf(e) = s THEN revision[s] + 1 ELSE revision[SignalOf(e)]
    BY <1>0, <2>1 DEF SignalInv, ObservedInv, TypeOK
  <2>4. ObservedInv'
    BY <1>0, <2>1, <2>3 DEF ObservedInv
  <2>5. ASSUME NEW e \in EventLoops, pc'[e] = "sleep",
               observed'[e] = revision'[SignalOf(e)], SignalOf(e) \in registered,
               Ready(SignalOf(e))
        PROVE  \E u \in Threads : SignalOf(e) \in held'[u]
    <3>1. SignalOf(e) # s /\ observed[e] = revision[SignalOf(e)]
      BY <2>1, <2>3, <2>5
    <3>2. pc[e] = "sleep"
      BY <1>0, <2>1, <2>5 DEF TypeOK
    <3>3. PICK u \in Threads : SignalOf(e) \in held[u]
      BY <2>5, <3>1, <3>2 DEF SignalInv, NoLostSignal
    <3> QED
      BY <2>1, <3>1, <3>3 DEF TypeOK
  <2>6. \A x : Ready(x)' <=> Ready(x)
    BY <2>1 DEF Ready
  <2>7. NoLostSignal'
    BY <2>1, <2>5, <2>6 DEF NoLostSignal
  <2> QED
    BY <2>2, <2>4, <2>7 DEF SignalInv
<1>7. ASSUME NEW t \in EventLoops, Observe(t)
      PROVE  SignalInv'
  <2>1. /\ queue' = queue /\ closed' = closed /\ registered' = registered
        /\ revision' = revision /\ held' = held
        /\ pc[t] = "idle" /\ pc' = [pc EXCEPT ![t] = "look"]
        /\ observed' = [observed EXCEPT ![t] = revision[SignalOf(t)]]
    BY <1>7 DEF Observe
  <2>2. HeldInv'
    BY <1>0, <2>1 DEF SignalInv, HeldInv, TypeOK
  <2>3. \A e \in EventLoops : revision[SignalOf(e)] \in Nat
    BY <1>0 DEF TypeOK
  <2>4. ObservedInv'
    BY <1>0, <2>1, <2>3 DEF SignalInv, ObservedInv, TypeOK
  <2>5. \A x : Ready(x)' <=> Ready(x)
    BY <2>1 DEF Ready
  <2>6. \A e \in EventLoops : pc'[e] = "sleep" =>
          pc[e] = "sleep" /\ observed'[e] = observed[e]
    BY <1>0, <2>1 DEF TypeOK
  <2>7. NoLostSignal'
    BY <2>1, <2>5, <2>6 DEF SignalInv, NoLostSignal
  <2> QED
    BY <2>2, <2>4, <2>7 DEF SignalInv
<1>8. ASSUME NEW t \in Threads, Wake(t) \/ SpuriousWake(t)
      PROVE  SignalInv'
  <2>1. /\ UNCHANGED <<queue, closed, registered, revision, held, observed>>
        /\ pc[t] \in {"sleep", "waiting"} /\ pc'[t] \in {"idle", "awake"}
        /\ \A u \in Threads : u # t => pc'[u] = pc[u]
    BY <1>8 DEF Wake, SpuriousWake, TypeOK
  <2> QED
    BY <1>0, <2>1, QuietStep
<1>9. ASSUME NEW s \in Signals, SetSignal(s)
      PROVE  SignalInv'
  <2>1. /\ queue' = queue /\ closed' = closed /\ revision' = revision
        /\ observed' = observed
        /\ registered' = registered \cup {s}
        /\ pc[Owner] = "idle"
        /\ held' = [held EXCEPT ![Owner] = IF Ready(s) THEN {s} ELSE {}]
        /\ pc' = [pc EXCEPT ![Owner] = IF Ready(s) THEN "signal" ELSE "idle"]
    BY <1>9 DEF SetSignal
  <2>2. held[Owner] = {}
    BY <1>0, <2>1 DEF SignalInv, HeldInv
  <2>3. HeldInv' /\ ObservedInv'
    BY <1>0, <2>1 DEF SignalInv, HeldInv, ObservedInv, TypeOK
  <2>4. \A x : Ready(x)' <=> Ready(x)
    BY <2>1 DEF Ready
  <2>5. ASSUME NEW e \in EventLoops, pc'[e] = "sleep",
               observed[e] = revision[SignalOf(e)], SignalOf(e) \in registered',
               Ready(SignalOf(e))
        PROVE  \E u \in Threads : SignalOf(e) \in held'[u]
    <3>1. CASE SignalOf(e) = s
      BY <1>0, <2>1, <2>5, <3>1 DEF TypeOK
    <3>2. CASE SignalOf(e) # s
      <4>1. SignalOf(e) \in registered /\ pc[e] = "sleep"
        BY <1>0, <2>1, <2>5, <3>2 DEF TypeOK
      <4>2. PICK u \in Threads : SignalOf(e) \in held[u]
        BY <2>5, <4>1 DEF SignalInv, NoLostSignal
      <4> QED
        BY <2>1, <2>2, <4>2 DEF TypeOK
    <3> QED
      BY <3>1, <3>2
  <2>6. NoLostSignal'
    BY <2>1, <2>4, <2>5 DEF NoLostSignal
  <2> QED
    BY <2>3, <2>6 DEF SignalInv
<1>10. CASE Close
  <2>1. /\ revision' = revision /\ observed' = observed
        /\ registered' = registered
        /\ pc[Owner] = "idle"
        /\ held' = [held EXCEPT ![Owner] = registered]
        /\ pc' = [pc EXCEPT ![Owner] = "closing"]
    BY <1>10 DEF Close
  <2>2. HeldInv' /\ ObservedInv'
    BY <1>0, <2>1 DEF SignalInv, HeldInv, ObservedInv, TypeOK
  <2>3. held'[Owner] = registered
    BY <1>0, <2>1 DEF TypeOK
  <2>4. NoLostSignal'
    BY <1>0, <2>1, <2>3 DEF NoLostSignal
  <2> QED
    BY <2>2, <2>4 DEF SignalInv
<1>11. CASE CloseNotify
  <2>1. UNCHANGED <<queue, closed, registered, revision, held, observed>>
    BY <1>11 DEF CloseNotify
  <2>2. /\ pc[Owner] \in {"closing", "closing2"}
        /\ pc'[Owner] \in {"closing2", "idle", "signal"}
        /\ held[Owner] # {} => pc'[Owner] # "idle"
        /\ \A u \in Threads : u # Owner =>
             \/ pc'[u] = pc[u]
             \/ pc[u] = "waiting" /\ pc'[u] = "awake"
    BY <1>0, <1>11 DEF CloseNotify, AfterNotify, NotifyAll, Waiting
  <2> QED
    BY <1>0, <2>1, <2>2, QuietStep
<1> QED
  BY <1>0, <1>1, <1>2, <1>3, <1>4, <1>5, <1>6, <1>7, <1>8, <1>9, <1>10, <1>11
     DEF Next, Push, Pop, After, Poppers

\* An event loop that recorded its signal's revision before it looked at the
\* queue never sleeps through readiness, whenever SetReadSignal or
\* SetWriteSignal installed the signal.
THEOREM NoLostSignals == Spec => []NoLostSignal
<1>1. Init => SignalInv
  <2> SUFFICES ASSUME Init PROVE SignalInv
    OBVIOUS
  <2>1. HeldInv /\ NoLostSignal
    BY DEF Init, HeldInv, NoLostSignal
  <2>2. ObservedInv
    BY DEF Init, ObservedInv, SignalOf, Signals
  <2> QED
    BY <2>1, <2>2 DEF SignalInv
<1>2. TypeOK /\ TypeOK' /\ SignalInv /\ [Next]_vars => SignalInv'
  <2> SUFFICES ASSUME TypeOK, TypeOK', SignalInv, [Next]_vars
               PROVE  SignalInv'
    OBVIOUS
  <2>1. CASE Next
    BY <2>1, SignalStep
  <2>2. CASE UNCHANGED vars
    BY <2>2, QuietStep DEF vars
  <2> QED
    BY <2>1, <2>2
<1>3. SignalInv => NoLostSignal
  BY DEF SignalInv
<1> QED
  BY <1>1, <1>2, <1>3, TypeCorrect, PTL DEF Spec
=============================================================================
