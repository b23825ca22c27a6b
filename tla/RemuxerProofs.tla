--------------------------- MODULE RemuxerProofs ----------------------------
(***************************************************************************)
(* The remuxer for any tracks and packets, any outputs and recordings, any *)
(* number of sessions and of failures of ZLMediaKit.  The invariant says   *)
(* which tasks can wait for the poller at each point of Start, Stop and    *)
(* the Add calls (Sessions), where the packets accepted on a track are and *)
(* in which order the interleaver and the outputs have them (PacketInv),   *)
(* that an attached output has been given what was released since it came  *)
(* (OutputInv), and what a failed session failed for (Blamed).             *)
(***************************************************************************)
EXTENDS Remuxer, FiniteSetTheorems, SequenceTheorems, WellFoundedInduction, TLAPS

-----------------------------------------------------------------------------
(* The poller's tasks.                                                     *)

Names == {"start", "attach", "process", "finish", "stopped"}
In(q, S) == \E i \in DOMAIN q : q[i] \in S
Once(q, S) == \A i, j \in DOMAIN q : q[i] \in S /\ q[j] \in S => i = j

\* The last two tasks of a session.
Ends == {"finish", "stopped"}

Typed ==
  /\ tasks \in Seq(Names)
  /\ running \in BOOLEAN /\ accepting \in BOOLEAN /\ draining \in BOOLEAN
  /\ closing \in BOOLEAN /\ closed \in BOOLEAN
  /\ poller \in {"idle", "output", "throw", "close", "flush"}

\* What the running task knows of the session: a task that throws or closes, or
\* that has packets in hand, belongs to a session that is not closing yet.
Phases ==
  /\ poller \in {"output", "throw", "close"} => ~closing
  /\ poller = "flush" => running /\ closing /\ ~In(tasks, Ends)
  /\ poller \in {"throw", "close"} => running
  /\ poller = "output" /\ ~running => batch = <<>> /\ ~finish
  /\ poller # "output" => batch = <<>> /\ feeds = {}

\* Packets are admitted while accepting_ is set, and none is left afterwards.
Gate ==
  /\ closed = ~accepting
  /\ accepting => running /\ ~closing /\ ~draining
  /\ draining => running \/ closing
  /\ ~running => slot = <<>> /\ queue = <<>>

\* A task of the holder of control_ is queued once, while it waits for it; the
\* two last tasks of a session come once, and the path is given back before.
Errands ==
  /\ In(tasks, {"start"}) => control = "starting"
  /\ In(tasks, {"attach"}) => control = "attaching"
  /\ Once(tasks, {"start"}) /\ Once(tasks, {"attach"}) /\ Once(tasks, Ends)
  /\ In(tasks, Ends) => running /\ closing
  /\ In(tasks, {"stopped"}) => ~path
  /\ path => running

\* Start runs between two sessions; an Add call works on one output.
Calls ==
  /\ control \in {"join", "starting"} => ~running /\ ~error
  /\ pending \subseteq Outputs
  /\ control \in {"record", "attaching"} =>
       \E o \in Outputs : pending = {o} /\ (control = "record" <=> o \in Files)

Sessions == Typed /\ Phases /\ Gate /\ Errands /\ Calls

-----------------------------------------------------------------------------
(* Outputs.                                                                *)

\* The session takes packets and has not failed.
Serving == running /\ ~closing /\ poller \notin {"throw", "close"}

\* An attached output was given what was released since it came; a recording
\* that came while packets were in hand is not to get those.
Supplied(o) ==
  /\ fed[o] = SubSeq(out, since[o] + 1, Len(out))
  /\ IF poller = "output" /\ o \in Files \ feeds
     THEN since[o] = Len(out) + Len(batch) ELSE since[o] <= Len(out)

\* An Add call attaches an output that is not attached yet.
Joining ==
  /\ running => attached \subseteq registration \cup (IF control = "register" THEN pending ELSE {})
  /\ control \in {"record", "attaching"} => pending \cap registration = {}
  /\ feeds \subseteq attached

Outlets ==
  /\ registration \subseteq Outputs /\ attached \subseteq Outputs
  /\ since \in [Outputs -> Nat] /\ DOMAIN fed = Outputs
  /\ recordOnly => attached \subseteq Files
  /\ Serving => /\ registration \subseteq attached
                /\ control = "register" => pending \subseteq attached
                /\ \A o \in attached : Supplied(o)

-----------------------------------------------------------------------------
(* Packets.                                                                *)

Parcels == [track : Tracks, dts : Int, pts : Int]
Packet(t, k) == [track |-> t, dts |-> plan.media[t][k].dts, pts |-> plan.media[t][k].pts]

Carried ==
  /\ plan \in Plans
  /\ slot \in Seq(Parcels) /\ Len(slot) <= 1
  /\ queue \in Seq(Parcels) /\ batch \in Seq(Parcels) /\ out \in Seq(Parcels)
  /\ highest \in [Tracks -> Seq(Int)] /\ shift \in Seq(Int)
  /\ accepted \in [Tracks -> Seq(Parcels)] /\ next \in [Tracks -> Nat]
  /\ captured \in [Tracks -> Nat] /\ session \in Nat
  /\ DOMAIN producer = Tracks

\* A packet of the current session waits for the slot.
Coming(t) == IF producer[t] = "push" /\ captured[t] = session THEN 1 ELSE 0

\* A track's packets were accepted one after another, from the first.
Admitted ==
  \A t \in Tracks :
    /\ next[t] <= Len(plan.media[t]) /\ Len(accepted[t]) <= Len(plan.media[t])
    /\ \A k \in DOMAIN accepted[t] : accepted[t][k] = Packet(t, k)
    /\ captured[t] <= session
    /\ ~closed => next[t] = Len(accepted[t]) + Coming(t)

\* How many of them the interleaver has seen.
InSlot(t) == slot # <<>> /\ slot[1].track = t
Seen(t) == Len(accepted[t]) - (IF InSlot(t) THEN 1 ELSE 0)

Marked ==
  Serving => \A t \in Tracks :
    /\ InSlot(t) => accepted[t] # <<>> /\ slot[1] = accepted[t][Len(accepted[t])]
    /\ highest[t] = IF Seen(t) = 0 THEN <<>> ELSE <<accepted[t][Seen(t)].dts>>

Known(p) == \E k \in DOMAIN accepted[p.track] : accepted[p.track][k] = p
Sorted(q) == \A i, j \in DOMAIN q : i <= j => Before(q[i], q[j])

Queued ==
  /\ Sorted(queue)
  /\ \A i \in DOMAIN queue : Known(queue[i])
  /\ \A i \in DOMAIN slot : Known(slot[i])
  /\ \A i \in DOMAIN queue :
       highest[queue[i].track] # <<>> /\ queue[i].dts <= highest[queue[i].track][1]

\* The common shift makes every packet convertible that was released, is
\* queued, or can still come.
Shifted ==
  /\ \A i \in DOMAIN batch : shift # <<>> /\ Milliseconds(batch[i].dts) + shift[1] >= 0
  /\ Serving /\ initialized => draining \/ \A t \in Tracks : highest[t] # <<>>
  /\ Serving /\ shift # <<>> =>
       /\ \A i \in DOMAIN queue : Milliseconds(queue[i].dts) + shift[1] >= 0
       /\ \A t \in Tracks :
            IF highest[t] = <<>> THEN closed /\ slot = <<>>
            ELSE Milliseconds(highest[t][1]) + shift[1] >= 0
  /\ Serving /\ shift = <<>> =>
       \A t \in Tracks : highest[t] # <<>> =>
         \E i \in DOMAIN queue : queue[i].track = t /\ queue[i].dts <= highest[t][1]

\* The first packet of a track opens q for it: the shift is made from it, and
\* from the first packet of each other track that has come by then.
Opens(q, t) ==
  \E i \in DOMAIN q : q[i] = accepted[t][1] /\ \A j \in 1..(i - 1) : q[j].track # t

Covered ==
  /\ \A i \in DOMAIN batch : Known(batch[i])
  /\ Serving /\ shift = <<>> => \A t \in Tracks : highest[t] # <<>> => Opens(queue, t)
  /\ Serving /\ shift # <<>> =>
       /\ shift[1] >= 0
       /\ \A t \in Tracks : accepted[t] # <<>> =>
            /\ Milliseconds(accepted[t][1].dts) + shift[1] >= 0
            /\ Milliseconds(accepted[t][1].pts) + shift[1] >= 0

Excused(p) == \E t \in Tracks : \E k \in DOMAIN accepted[t] : accepted[t][k].dts > p.dts + Delta

\* Nothing that is older than a released packet can still come, unless the
\* packet was released because of Delta.
Settled(p) ==
  \/ Excused(p)
  \/ /\ \A i \in DOMAIN queue : p.dts <= queue[i].dts
     /\ \/ closed /\ slot = <<>>
        \/ \A t \in Tracks : highest[t] # <<>> /\ p.dts <= highest[t][1]

Ordered(s) ==
  \A i, j \in DOMAIN s : i < j => s[i].dts <= s[j].dts \/ Excused(s[i])

Released ==
  /\ Ordered(out \o batch)
  /\ \A i \in DOMAIN (out \o batch) : Settled((out \o batch)[i])

-----------------------------------------------------------------------------
(* Errors.                                                                 *)

\* No track can still begin after a packet was found too early.
Begun == \A t \in Tracks : accepted[t] # <<>> \/ closed
Cause == WentBack \/ StartedLate \/ (PresentedEarly /\ Begun)

\* A failure has a cause from the moment the task throws, and after a failure
\* no task looks at a packet of the session again.
Blamed ==
  /\ faults \in Nat
  /\ errors = 0 \/ (errors = 1 /\ errorReported)
  /\ (error \/ poller = "throw") /\ faults = 0 => Cause
  /\ error /\ running /\ faults = 0 => closing \/ poller = "close"

\* A set of naturals has a least element.
LEMMA NatLeast ==
  ASSUME NEW T, T \subseteq Nat, T # {}
  PROVE  \E x \in T : \A y \in T : x <= y
<1>1. PICK x \in T : \A y \in T : ~(<<y, x>> \in OpToRel(<, Nat))
  BY WFMin, NatLessThanWellFounded
<1>2. \A y \in T : y \in Nat
  OBVIOUS
<1>3. \A y \in T : ~(y < x)
  BY <1>1, <1>2 DEF OpToRel
<1> QED
  BY <1>2, <1>3


-----------------------------------------------------------------------------
(* The interleaver's queue.                                                *)

Stamps == [track : Int, dts : Int, pts : Int]

\* The order of the interleaver, by DTS and then by track, is total.
LEMMA BeforeOrders ==
  ASSUME NEW p \in Stamps, NEW q \in Stamps
  PROVE  /\ Before(p, p) /\ (Before(p, q) \/ Before(q, p))
         /\ Before(p, q) => p.dts <= q.dts
         /\ \A r \in Stamps : Before(p, q) /\ Before(q, r) => Before(p, r)
BY DEF Before, Stamps

\* q with p behind the first k packets.
Splice(q, k, p) == SubSeq(q, 1, k) \o <<p>> \o SubSeq(q, k + 1, Len(q))

\* Where a packet is put: behind all that come before it.
LEMMA InsertedAt ==
  ASSUME NEW P, P \subseteq Stamps, NEW q \in Seq(P), NEW p \in P, Sorted(q)
  PROVE  \E k \in 0..Len(q) :
           /\ Inserted(q, p) = Splice(q, k, p)
           /\ \A i \in 1..k : Before(q[i], p)
           /\ \A i \in (k + 1)..Len(q) : Before(p, q[i]) /\ ~Before(q[i], p)
<1> DEFINE B == {i \in DOMAIN q : Before(q[i], p)}
           T == {i \in Nat : i + 1 \in 1..(Len(q) + 1) /\ i + 1 \notin B}
<1>1. DOMAIN q = 1..Len(q) /\ Len(q) \in Nat /\ \A i \in 1..Len(q) : q[i] \in Stamps
  BY LenProperties, ElementOfSeq
<1>2. PICK k \in T : \A j \in T : k <= j
  <2>1. Len(q) \in T
    BY <1>1
  <2> QED
    BY <2>1, NatLeast
<1>3. k \in 0..Len(q) /\ k + 1 \notin B
  BY <1>1, <1>2
<1>4. \A i \in 1..k : i \in B
  <2>1. ASSUME NEW i \in 1..k, i \notin B PROVE FALSE
    <3>1. i - 1 \in Nat /\ (i - 1) + 1 = i /\ i \in 1..(Len(q) + 1)
      BY <1>1, <1>3
    <3>2. i - 1 \in T
      BY <2>1, <3>1
    <3> QED
      BY <1>2, <1>3, <3>2
  <2> QED
    BY <2>1
<1>5. ASSUME NEW i \in (k + 1)..Len(q) PROVE i \notin B /\ Before(p, q[i])
  <2>1. k + 1 \in 1..Len(q) /\ i \in 1..Len(q) /\ k + 1 <= i
    BY <1>1, <1>3
  <2>2. Before(q[k + 1], q[i]) /\ ~Before(q[k + 1], p) /\ p \in Stamps
    BY <1>1, <1>3, <2>1 DEF Sorted
  <2>3. ~Before(q[i], p)
    BY <1>1, <2>1, <2>2, BeforeOrders
  <2> QED
    BY <1>1, <2>1, <2>2, <2>3, BeforeOrders
<1>6. B = 1..k
  BY <1>1, <1>3, <1>4, <1>5
<1>7. Cardinality(B) = k
  <2>1. Cardinality(1..k) = IF 1 > k THEN 0 ELSE k - 1 + 1
    BY <1>3, FS_Interval
  <2>2. Cardinality(1..k) = k
    BY <1>3, <2>1
  <2> HIDE DEF B
  <2> QED
    BY <1>6, <2>2
<1>8. Inserted(q, p) = Splice(q, k, p)
  BY <1>7 DEF Inserted, Splice
<1>9. \A i \in 1..k : Before(q[i], p)
  BY <1>4
<1>10. \A i \in (k + 1)..Len(q) : Before(p, q[i]) /\ ~Before(q[i], p)
  <2>1. \A i \in (k + 1)..Len(q) : i \in DOMAIN q
    BY <1>1, <1>3
  <2> QED
    BY <1>5, <2>1
<1> QED
  BY <1>3, <1>8, <1>9, <1>10

\* What a packet inserted at a position leaves at every other one.
LEMMA Spliced ==
  ASSUME NEW P, NEW q \in Seq(P), NEW p \in P, NEW k \in 0..Len(q), NEW r,
         r = Splice(q, k, p), NEW n \in Int
  PROVE  /\ r \in Seq(P) /\ Len(r) = Len(q) + 1
         /\ r[k + 1] = p
         /\ n \in 1..k => r[n] = q[n]
         /\ n \in (k + 2)..(Len(q) + 1) => r[n] = q[n - 1]
<1>0. Len(q) \in Nat /\ \A i \in 1..Len(q) : q[i] \in P
  BY LenProperties, ElementOfSeq
<1> DEFINE a == SubSeq(q, 1, k)
           c == SubSeq(q, k + 1, Len(q))
           m == <<p>>
           l == a \o m
<1>1. a \in Seq(P) /\ Len(a) = k /\ \A i \in 1..k : a[i] = q[i]
  BY <1>0, SubSeqProperties
<1>2. c \in Seq(P) /\ Len(c) = Len(q) - k /\ \A i \in 1..(Len(q) - k) : c[i] = q[k + i]
  BY <1>0, SubSeqProperties
<1>3. m \in Seq(P) /\ Len(m) = 1 /\ m[1] = p
  OBVIOUS
<1> HIDE DEF a, c, m
<1>4. l \in Seq(P) /\ Len(l) = k + 1 /\ l[k + 1] = p /\ \A i \in 1..k : l[i] = q[i]
  <2>1. /\ a \o m \in Seq(P) /\ Len(a \o m) = Len(a) + Len(m)
        /\ \A i \in 1..(Len(a) + Len(m)) :
             (a \o m)[i] = IF i <= Len(a) THEN a[i] ELSE m[i - Len(a)]
    BY <1>1, <1>3, ConcatProperties
  <2>2. /\ k + 1 \in 1..(k + 1) /\ ~(k + 1 <= k) /\ (k + 1) - k = 1
        /\ \A i \in 1..k : i \in 1..(k + 1) /\ i <= k
    BY <1>0
  <2> QED
    BY <1>1, <1>3, <2>1, <2>2
<1>5. r = l \o c
  BY DEF a, c, m, Splice
<1> HIDE DEF l
<1>6. /\ r \in Seq(P) /\ Len(r) = Len(q) + 1
      /\ \A i \in 1..(Len(q) + 1) : r[i] = IF i <= k + 1 THEN l[i] ELSE c[i - (k + 1)]
  <2>1. /\ l \o c \in Seq(P) /\ Len(l \o c) = Len(l) + Len(c)
        /\ \A i \in 1..(Len(l) + Len(c)) :
             (l \o c)[i] = IF i <= Len(l) THEN l[i] ELSE c[i - Len(l)]
    BY <1>2, <1>4, ConcatProperties
  <2>2. Len(l) + Len(c) = Len(q) + 1
    BY <1>0, <1>2, <1>4
  <2> QED
    BY <1>4, <1>5, <2>1, <2>2
<1>7. ASSUME NEW i \in (k + 2)..(Len(q) + 1) PROVE r[i] = q[i - 1]
  <2>1. i - (k + 1) \in 1..(Len(q) - k) /\ k + (i - (k + 1)) = i - 1 /\ ~(i <= k + 1)
        /\ i \in 1..(Len(q) + 1)
    BY <1>0
  <2> QED
    BY <1>2, <1>6, <2>1
<1>8. r[k + 1] = p /\ \A i \in 1..k : r[i] = q[i]
  <2>1. /\ k + 1 \in 1..(Len(q) + 1) /\ k + 1 <= k + 1
        /\ \A i \in 1..k : i \in 1..(Len(q) + 1) /\ i <= k + 1
    BY <1>0
  <2> QED
    BY <1>4, <1>6, <2>1
<1> QED
  BY <1>6, <1>7, <1>8

\* The packet and what comes before and behind it.
LEMMA InsertedWhere ==
  ASSUME NEW P, P \subseteq Stamps, NEW q \in Seq(P), NEW p \in P, Sorted(q)
  PROVE  \E k \in 0..Len(q) :
           /\ Inserted(q, p) \in Seq(P)
           /\ Len(Inserted(q, p)) = Len(q) + 1 /\ Inserted(q, p)[k + 1] = p
           /\ \A i \in 1..k : Inserted(q, p)[i] = q[i]
           /\ \A i \in (k + 2)..(Len(q) + 1) : Inserted(q, p)[i] = q[i - 1]
           /\ \A i \in 1..k : Before(q[i], p)
           /\ \A i \in (k + 1)..Len(q) : Before(p, q[i]) /\ ~Before(q[i], p)
<1>1. PICK k \in 0..Len(q) :
           /\ Inserted(q, p) = Splice(q, k, p)
           /\ \A i \in 1..k : Before(q[i], p)
           /\ \A i \in (k + 1)..Len(q) : Before(p, q[i]) /\ ~Before(q[i], p)
  BY InsertedAt
<1> DEFINE r == Inserted(q, p)
<1> HIDE DEF r
<1>2. r = Splice(q, k, p)
  BY <1>1 DEF r
<1>3. \A i \in 1..k : r[i] = q[i]
  BY <1>2, Spliced
<1>4. \A i \in (k + 2)..(Len(q) + 1) : r[i] = q[i - 1]
  BY <1>2, Spliced
<1>5. r \in Seq(P) /\ Len(r) = Len(q) + 1 /\ r[k + 1] = p
  BY <1>2, Spliced
<1> QED
  BY <1>1, <1>3, <1>4, <1>5 DEF r

\* r has the elements of q and p.
Grown(q, p, r) ==
  /\ \A i \in DOMAIN r : r[i] = p \/ \E j \in DOMAIN q : r[i] = q[j]
  /\ \A j \in DOMAIN q : \E i \in DOMAIN r : r[i] = q[j]
  /\ \E i \in DOMAIN r : r[i] = p

\* The queue stays sorted, and has one packet more.
LEMMA InsertedIs ==
  ASSUME NEW P, P \subseteq Stamps, NEW q \in Seq(P), NEW p \in P, Sorted(q)
  PROVE  /\ Inserted(q, p) \in Seq(P)
         /\ Sorted(Inserted(q, p))
         /\ Grown(q, p, Inserted(q, p))
<1> DEFINE r == Inserted(q, p)
<1>0. PICK k \in 0..Len(q) :
        /\ r \in Seq(P)
        /\ Len(r) = Len(q) + 1 /\ r[k + 1] = p
        /\ \A i \in 1..k : r[i] = q[i]
        /\ \A i \in (k + 2)..(Len(q) + 1) : r[i] = q[i - 1]
        /\ \A i \in 1..k : Before(q[i], p)
        /\ \A i \in (k + 1)..Len(q) : Before(p, q[i]) /\ ~Before(q[i], p)
  BY InsertedWhere
<1> HIDE DEF r
<1>1. /\ \A i \in 1..k : Before(q[i], p)
      /\ \A i \in (k + 1)..Len(q) : Before(p, q[i])
  BY <1>0
<1>2. /\ r \in Seq(P) /\ Len(r) = Len(q) + 1 /\ r[k + 1] = p
      /\ \A i \in 1..k : r[i] = q[i]
      /\ \A i \in (k + 2)..(Len(q) + 1) : r[i] = q[i - 1]
  BY <1>0
<1>3. DOMAIN q = 1..Len(q) /\ Len(q) \in Nat /\ DOMAIN r = 1..(Len(q) + 1)
      /\ \A i \in 1..Len(q) : q[i] \in Stamps
  BY <1>2, LenProperties, ElementOfSeq
<1>4. ASSUME NEW i \in DOMAIN r PROVE i \in 1..k \/ i = k + 1 \/ (i \in (k + 2)..(Len(q) + 1) /\ i - 1 \in (k + 1)..Len(q))
  BY <1>3
<1>5. \A i \in DOMAIN r : r[i] = p \/ \E j \in DOMAIN q : r[i] = q[j]
  <2>1. ASSUME NEW i \in DOMAIN r PROVE r[i] = p \/ \E j \in DOMAIN q : r[i] = q[j]
    <3>1. CASE i \in 1..k
      BY <1>2, <1>3, <3>1
    <3>2. CASE i = k + 1
      BY <1>2, <3>2
    <3>3. CASE i \in (k + 2)..(Len(q) + 1) /\ i - 1 \in (k + 1)..Len(q)
      <4>1. i - 1 \in DOMAIN q
        BY <1>3, <3>3
      <4> QED
        BY <1>2, <3>3, <4>1
    <3> QED
      BY <1>4, <3>1, <3>2, <3>3
  <2> QED
    BY <2>1
<1>6. ASSUME NEW j \in DOMAIN q PROVE \E i \in DOMAIN r : r[i] = q[j]
  <2>1. CASE j <= k
    BY <1>2, <1>3, <2>1
  <2>2. CASE j > k
    <3>1. j + 1 \in (k + 2)..(Len(q) + 1) /\ (j + 1) - 1 = j /\ j + 1 \in DOMAIN r
      BY <1>3, <2>2
    <3> QED
      BY <1>2, <3>1
  <2> QED
    BY <1>3, <2>1, <2>2
<1>7. \E i \in DOMAIN r : r[i] = p
  <2>1. k + 1 \in DOMAIN r
    BY <1>3
  <2> QED
    BY <1>2, <2>1
<1>8. ASSUME NEW i \in DOMAIN r, NEW j \in DOMAIN r, i <= j PROVE Before(r[i], r[j])
  <2>0. p \in Stamps
    OBVIOUS
  <2>1. CASE i \in 1..k
    <3>0. r[i] = q[i] /\ i \in 1..Len(q)
      BY <1>2, <1>3, <2>1
    <3>1. CASE j \in 1..k
      <4>1. j \in 1..Len(q) /\ r[j] = q[j]
        BY <1>2, <1>3, <3>1
      <4> QED
        BY <1>3, <1>8, <3>0, <4>1 DEF Sorted
    <3>2. CASE j = k + 1
      BY <1>1, <1>2, <2>1, <3>0, <3>2
    <3>3. CASE j \in (k + 2)..(Len(q) + 1)
      <4>1. j - 1 \in 1..Len(q) /\ i <= j - 1 /\ r[j] = q[j - 1]
        BY <1>2, <1>3, <2>1, <3>3
      <4> QED
        BY <1>3, <3>0, <4>1 DEF Sorted
    <3> QED
      BY <1>4, <3>1, <3>2, <3>3
  <2>2. CASE i = k + 1
    <3>1. CASE j = k + 1
      BY <1>2, <2>0, <2>2, <3>1, BeforeOrders
    <3>2. CASE j # k + 1
      <4>1. j \in (k + 2)..(Len(q) + 1) /\ j - 1 \in (k + 1)..Len(q)
        BY <1>3, <1>8, <2>2, <3>2
      <4> QED
        BY <1>1, <1>2, <2>2, <4>1
    <3> QED
      BY <3>1, <3>2
  <2>3. CASE i \in (k + 2)..(Len(q) + 1)
    <3>1. j \in (k + 2)..(Len(q) + 1) /\ j - 1 \in 1..Len(q) /\ i - 1 \in 1..Len(q) /\ i - 1 <= j - 1
      BY <1>3, <1>8, <2>3
    <3> QED
      BY <1>2, <1>3, <2>3, <3>1 DEF Sorted
  <2> QED
    BY <1>4, <2>1, <2>2, <2>3
<1>9. Sorted(r)
  BY <1>8 DEF Sorted
<1> QED
  BY <1>2, <1>5, <1>6, <1>7, <1>9 DEF r, Grown

\* PopReady releases the packet behind the first k.
Goes(q, flush, k) ==
  /\ k < Len(q)
  /\ \/ flush
     \/ AllTracksBuffered(SubSeq(q, k + 1, Len(q)))
     \/ ExceedsDelta(SubSeq(q, k + 1, Len(q)))

\* PopReady releases packets up to the first that may not go.
LEMMA ReleasableIs ==
  ASSUME NEW q, Len(q) \in Nat, NEW flush
  PROVE  /\ Releasable(q, flush) \in 0..Len(q)
         /\ ~Goes(q, flush, Releasable(q, flush))
         /\ \A j \in 0..(Releasable(q, flush) - 1) : Goes(q, flush, j)
<1> DEFINE T == {k \in Nat : k <= Len(q) /\ ~Goes(q, flush, k)}
<1>1. PICK k \in T : \A j \in T : k <= j
  <2>1. Len(q) \in T
    BY DEF Goes
  <2> QED
    BY <2>1, NatLeast
<1>2. k \in 0..Len(q) /\ ~Goes(q, flush, k) /\ \A j \in 0..(k - 1) : Goes(q, flush, j)
  BY <1>1
<1>3. Releasable(q, flush) =
        CHOOSE n \in 0..Len(q) : ~Goes(q, flush, n) /\ \A j \in 0..(n - 1) : Goes(q, flush, j)
  BY DEF Releasable, Goes
<1> QED
  BY <1>2, <1>3

\* A nonempty set of integers that is bounded below has a minimum.
LEMMA MinimumIs ==
  ASSUME NEW S, S \subseteq Int, S # {}, NEW b \in Int, \A x \in S : b <= x
  PROVE  Minimum(S) \in S /\ \A y \in S : Minimum(S) <= y
<1> DEFINE T == {n \in Nat : n + b \in S}
<1>1. T # {}
  <2>1. PICK x \in S : TRUE
    OBVIOUS
  <2>2. x - b \in Nat /\ (x - b) + b = x
    BY <2>1
  <2> QED
    BY <2>1, <2>2
<1>2. PICK k \in T : \A j \in T : k <= j
  BY <1>1, NatLeast
<1>3. k \in Nat /\ k + b \in S
  BY <1>2
<1>4. ASSUME NEW y \in S PROVE k + b <= y
  <2>1. y - b \in Nat /\ (y - b) + b = y /\ y \in Int
    BY <1>4
  <2>2. y - b \in T
    BY <1>4, <2>1
  <2>3. k <= y - b
    BY <1>2, <2>2
  <2> QED
    BY <1>3, <2>1, <2>3
<1>5. \E x \in S : \A y \in S : x <= y
  BY <1>3, <1>4
<1> QED
  BY <1>5 DEF Minimum

\* A packet keeps its order when its times are rounded to milliseconds.
LEMMA NearestIs ==
  ASSUME NEW n \in Nat
  PROVE  /\ Nearest(n) \in Nat
         /\ (2 * Unit) * Nearest(n) <= 2 * n + Unit
         /\ 2 * n + Unit < (2 * Unit) * Nearest(n) + 2 * Unit
<1>1. \A o \in Nat, b \in Nat \ {0} :
        o \div b \in Nat /\ b * (o \div b) <= o /\ o < b * (o \div b) + b
  BY SMTT(20)
<1>2. 2 * n + Unit \in Nat /\ 2 * Unit \in Nat \ {0}
  BY RemuxerAssumption
<1> QED
  BY <1>1, <1>2 DEF Nearest

LEMMA NearestOrder ==
  ASSUME NEW m \in Nat, NEW n \in Nat, m <= n
  PROVE  Nearest(m) <= Nearest(n)
<1> DEFINE b == 2 * Unit
           x == Nearest(m)
           y == Nearest(n)
<1>1. b \in Nat /\ Unit \in Nat
  BY RemuxerAssumption
<1>2. x \in Nat /\ y \in Nat /\ b * x <= 2 * m + Unit /\ 2 * n + Unit < b * y + b
  BY NearestIs
<1> HIDE DEF b, x, y
<1>3. ASSUME y + 1 <= x PROVE b * y + b <= b * x
  <2>1. PICK d \in Nat : x = y + 1 + d
    BY <1>2, <1>3
  <2>2. b * d \in Nat /\ b * (y + 1 + d) = b * y + b + b * d /\ b * y \in Nat
    BY <1>1, <1>2, SMTT(20)
  <2> QED
    BY <1>1, <2>1, <2>2
<1>4. b * x \in Nat /\ b * y \in Nat
  BY <1>1, <1>2, SMTT(20)
<1>5. ~(y + 1 <= x)
  BY <1>1, <1>2, <1>3, <1>4
<1>6. x <= y
  BY <1>2, <1>5
<1> QED
  BY <1>6 DEF x, y

LEMMA MillisecondsIs ==
  /\ \A a \in Int : Milliseconds(a) \in Int
  /\ \A a, b \in Int : a <= b => Milliseconds(a) <= Milliseconds(b)
<1>1. \A n \in Nat : Nearest(n) \in Nat
  BY NearestIs
<1>2. ASSUME NEW a \in Int PROVE Milliseconds(a) \in Int
  <2>1. a < 0 => -a \in Nat
    OBVIOUS
  <2>2. ~(a < 0) => a \in Nat
    OBVIOUS
  <2> QED
    BY <1>1, <2>1, <2>2 DEF Milliseconds
<1>3. ASSUME NEW a \in Int, NEW b \in Int, a <= b PROVE Milliseconds(a) <= Milliseconds(b)
  <2>1. CASE b < 0
    <3>1. a < 0 /\ -a \in Nat /\ -b \in Nat /\ -b <= -a
      BY <1>3, <2>1
    <3>2. Nearest(-b) <= Nearest(-a) /\ Nearest(-b) \in Nat /\ Nearest(-a) \in Nat
      BY <1>1, <3>1, NearestOrder
    <3> QED
      BY <2>1, <3>1, <3>2 DEF Milliseconds
  <2>2. CASE a < 0 /\ ~(b < 0)
    <3>1. Nearest(-a) \in Nat /\ Nearest(b) \in Nat
      BY <1>1, <2>2
    <3> QED
      BY <2>2, <3>1 DEF Milliseconds
  <2>3. CASE ~(a < 0)
    <3>1. a \in Nat /\ b \in Nat /\ ~(b < 0)
      BY <1>3, <2>3
    <3> QED
      BY <1>3, <2>3, <3>1, NearestOrder DEF Milliseconds
  <2> QED
    BY <2>1, <2>2, <2>3
<1> QED
  BY <1>2, <1>3

\* Finitely many numbers have a lower bound.
LEMMA BoundedBelow ==
  ASSUME NEW f, NEW n \in Nat, \A i \in 1..n : f[i] \in Int
  PROVE  \E b \in Int : \A i \in 1..n : b <= f[i]
<1> DEFINE T == {k \in Nat : k <= n /\ ~\E b \in Int : \A i \in 1..k : b <= f[i]}
<1>0. /\ T \subseteq Nat
      /\ \A k \in T : k <= n /\ \A b \in Int : ~\A i \in 1..k : b <= f[i]
      /\ \A k \in Nat : k <= n /\ k \notin T => \E b \in Int : \A i \in 1..k : b <= f[i]
  OBVIOUS
<1> HIDE DEF T
<1>1. ASSUME T # {} PROVE FALSE
  <2>1. PICK k \in T : \A j \in T : k <= j
    BY <1>0, <1>1, NatLeast
  <2>2. k \in Nat /\ k <= n /\ \A b \in Int : ~\A i \in 1..k : b <= f[i]
    BY <1>0
  <2>3. k # 0
    <3>1. ASSUME k = 0 PROVE FALSE
      <4>1. \A i \in 1..k : 0 <= f[i]
        BY <3>1
      <4> QED
        BY <2>2, <4>1
    <3> QED
      BY <3>1
  <2>4. k - 1 \in Nat /\ k - 1 <= n /\ k - 1 \notin T
    BY <2>1, <2>2, <2>3
  <2>5. PICK b \in Int : \A i \in 1..(k - 1) : b <= f[i]
    BY <1>0, <2>4
  <2>6. k \in 1..n /\ f[k] \in Int
    BY <2>2, <2>3
  <2>7. \A i \in 1..k : i \in 1..(k - 1) \/ i = k
    BY <2>2
  <2>8. CASE b <= f[k]
    <3>1. \A i \in 1..k : b <= f[i]
      BY <2>5, <2>7, <2>8
    <3> QED
      BY <2>2, <2>5, <3>1
  <2>9. CASE ~(b <= f[k])
    <3>1. ASSUME NEW i \in 1..k PROVE f[k] <= f[i]
      <4>1. CASE i = k
        BY <2>6, <4>1
      <4>2. CASE i \in 1..(k - 1)
        <5>1. i \in 1..n /\ f[i] \in Int /\ b <= f[i]
          BY <2>2, <2>5, <4>2
        <5> QED
          BY <2>6, <2>9, <5>1
      <4> QED
        BY <2>7, <4>1, <4>2
    <3> QED
      BY <2>2, <2>6, <3>1
  <2> QED
    BY <2>8, <2>9
<1>2. n \notin T
  BY <1>1
<1> QED
  BY <1>0, <1>2

\* The times the shift is made from.
Times(q) ==
  {0} \cup {Milliseconds(p.pts) : p \in FirstPackets(q)}
      \cup {Milliseconds(p.dts) : p \in FirstPackets(q)}

\* They have a minimum, and the shift is made from it.
LEMMA TimesIs ==
  ASSUME NEW P, P \subseteq Stamps, NEW q \in Seq(P)
  PROVE  /\ ShiftOf(q) = <<-Minimum(Times(q))>> /\ Minimum(Times(q)) \in Int
         /\ \A x \in Times(q) : x \in Int /\ Minimum(Times(q)) <= x
<1>1. Len(q) \in Nat /\ DOMAIN q = 1..Len(q)
      /\ \A i \in DOMAIN q : q[i].dts \in Int /\ q[i].pts \in Int
  <2>1. \A p \in Stamps : p.dts \in Int /\ p.pts \in Int
    BY DEF Stamps
  <2> QED
    BY <2>1, LenProperties, ElementOfSeq
<1> DEFINE f == [i \in 1..Len(q) |-> Milliseconds(q[i].dts)]
           g == [i \in 1..Len(q) |-> Milliseconds(q[i].pts)]
<1>2. /\ \A i \in 1..Len(q) : f[i] = Milliseconds(q[i].dts) /\ g[i] = Milliseconds(q[i].pts)
      /\ \A i \in 1..Len(q) : f[i] \in Int /\ g[i] \in Int
  BY <1>1, MillisecondsIs
<1> HIDE DEF f, g
<1>3. PICK b \in Int : \A i \in 1..Len(q) : b <= f[i]
  BY <1>1, <1>2, BoundedBelow
<1>4. PICK c \in Int : \A i \in 1..Len(q) : c <= g[i]
  BY <1>1, <1>2, BoundedBelow
<1> DEFINE d == IF b <= c THEN b ELSE c
           l == IF d <= 0 THEN d ELSE 0
<1>5. l \in Int /\ l <= 0 /\ l <= b /\ l <= c
  OBVIOUS
<1> HIDE DEF l
<1> DEFINE S == Times(q)
<1>6. ASSUME NEW x \in S PROVE x \in Int /\ l <= x
  <2>1. \A p \in FirstPackets(q) : \E i \in DOMAIN q : p = q[i]
    BY DEF FirstPackets
  <2>2. x = 0 \/ \E i \in 1..Len(q) : x = f[i] \/ x = g[i]
    BY <1>1, <1>2, <2>1 DEF Times
  <2>3. CASE x = 0
    BY <1>5, <2>3
  <2>4. ASSUME NEW i \in 1..Len(q), x = f[i] \/ x = g[i] PROVE x \in Int /\ l <= x
    <3>1. f[i] \in Int /\ g[i] \in Int /\ b <= f[i] /\ c <= g[i]
      BY <1>2, <1>3, <1>4
    <3> QED
      BY <1>5, <2>4, <3>1
  <2> QED
    BY <2>2, <2>3, <2>4
<1>7. 0 \in S
  BY DEF Times
<1>8. ShiftOf(q) = <<-Minimum(S)>>
  BY DEF ShiftOf, Times
<1> HIDE DEF S
<1>9. Minimum(S) \in S /\ \A y \in S : Minimum(S) <= y
  BY <1>5, <1>6, <1>7, MinimumIs
<1> QED
  BY <1>6, <1>8, <1>9 DEF S

\* The common shift lifts every packet of the queue to zero, and the first ones
\* also by their presentation times.
LEMMA ShiftIs ==
  ASSUME NEW P, P \subseteq Stamps, NEW q \in Seq(P), Sorted(q)
  PROVE  LET m == Minimum(Times(q)) IN
         /\ ShiftOf(q) = <<-m>> /\ m \in Int /\ m <= 0
         /\ \A i \in DOMAIN q : Milliseconds(q[i].dts) + (-m) >= 0
         /\ \A p \in FirstPackets(q) : /\ Milliseconds(p.dts) + (-m) >= 0
                                      /\ Milliseconds(p.pts) + (-m) >= 0
<1>1. Len(q) \in Nat /\ DOMAIN q = 1..Len(q)
      /\ \A i \in DOMAIN q : q[i] \in P /\ q[i] \in Stamps
  BY LenProperties, ElementOfSeq
<1>2. \A p \in Stamps : p.dts \in Int /\ p.pts \in Int
  BY DEF Stamps
<1> DEFINE S == Times(q)
           m == Minimum(S)
<1>3. ShiftOf(q) = <<-m>> /\ m \in Int /\ \A x \in S : x \in Int /\ m <= x
  BY TimesIs
<1>4. 0 \in S /\ \A p \in FirstPackets(q) : Milliseconds(p.dts) \in S /\ Milliseconds(p.pts) \in S
  BY DEF Times
<1> HIDE DEF S, m
<1>5. m <= 0 /\ \A x \in S : x + (-m) >= 0
  BY <1>3, <1>4
<1>6. ASSUME NEW i \in DOMAIN q PROVE \E x \in S : x <= Milliseconds(q[i].dts)
  <2> DEFINE T == {n \in Nat : n \in DOMAIN q /\ q[n].track = q[i].track}
  <2>1. i \in T
    BY <1>1
  <2>2. PICK j \in T : \A n \in T : j <= n
    BY <2>1, NatLeast
  <2>3. j \in DOMAIN q /\ q[j].track = q[i].track /\ j <= i
    BY <2>1, <2>2
  <2>4. \A n \in 1..(j - 1) : q[n].track # q[j].track
    <3>1. ASSUME NEW n \in 1..(j - 1), q[n].track = q[j].track PROVE FALSE
      <4>1. n \in Nat /\ n \in DOMAIN q /\ j \in Nat /\ n < j
        BY <1>1, <2>3
      <4>2. n \in T
        BY <2>3, <3>1, <4>1
      <4> QED
        BY <2>2, <4>1, <4>2
    <3> QED
      BY <3>1
  <2>5. q[j] \in FirstPackets(q)
    BY <2>3, <2>4 DEF FirstPackets
  <2>6. Milliseconds(q[j].dts) \in S
    BY <1>4, <2>5
  <2>7. q[j].dts <= q[i].dts /\ q[j].dts \in Int /\ q[i].dts \in Int
    <3>1. Before(q[j], q[i])
      BY <2>3 DEF Sorted
    <3> QED
      BY <1>1, <1>2, <2>3, <3>1, BeforeOrders
  <2> QED
    BY <2>6, <2>7, MillisecondsIs
<1>7. ASSUME NEW i \in DOMAIN q PROVE Milliseconds(q[i].dts) + (-m) >= 0
  <2>1. PICK x \in S : x <= Milliseconds(q[i].dts)
    BY <1>6
  <2>2. m <= x /\ x \in Int /\ Milliseconds(q[i].dts) \in Int
    BY <1>1, <1>2, <1>3, MillisecondsIs
  <2> QED
    BY <1>3, <2>1, <2>2
<1> QED
  BY <1>3, <1>4, <1>5, <1>7 DEF S, m

-----------------------------------------------------------------------------
(* Which tasks are queued.                                                 *)

\* r is queued after q: no errand came, and none is doubled.
Kept(q, r) ==
  /\ r \in Seq(Names)
  /\ \A S \in SUBSET (Names \ {"process"}) :
       (In(r, S) => In(q, S)) /\ (Once(q, S) => Once(r, S))

\* A task that is appended to the tasks of the poller.
LEMMA InAppend ==
  ASSUME NEW q \in Seq(Names), NEW n \in Names, NEW S
  PROVE  /\ Append(q, n) \in Seq(Names)
         /\ In(Append(q, n), S) <=> In(q, S) \/ n \in S
         /\ Once(q, S) /\ (In(q, S) => n \notin S) => Once(Append(q, n), S)
<1> DEFINE r == Append(q, n)
<1>1. /\ r \in Seq(Names) /\ Len(r) = Len(q) + 1 /\ r[Len(q) + 1] = n
      /\ \A i \in 1..Len(q) : r[i] = q[i]
  BY AppendProperties
<1>2. /\ DOMAIN q = 1..Len(q) /\ DOMAIN r = 1..(Len(q) + 1) /\ Len(q) \in Nat
      /\ \A i \in DOMAIN r : i \in DOMAIN q \/ i = Len(q) + 1
      /\ DOMAIN q \subseteq DOMAIN r /\ Len(q) + 1 \in DOMAIN r
      /\ Len(q) + 1 \notin DOMAIN q
  BY <1>1, LenProperties
<1> HIDE DEF r
<1>3. In(r, S) <=> In(q, S) \/ n \in S
  BY <1>1, <1>2 DEF In
<1>4. ASSUME Once(q, S), In(q, S) => n \notin S PROVE Once(r, S)
  BY <1>1, <1>2, <1>4 DEF In, Once
<1> QED
  BY <1>1, <1>3, <1>4 DEF r

\* A task that the poller takes.
LEMMA InTail ==
  ASSUME NEW q \in Seq(Names), q # <<>>, NEW S
  PROVE  /\ Tail(q) \in Seq(Names) /\ Head(q) \in Names
         /\ In(Tail(q), S) => In(q, S)
         /\ Head(q) \in S => In(q, S)
         /\ Once(q, S) => Once(Tail(q), S)
         /\ Once(q, S) /\ Head(q) \in S => ~In(Tail(q), S)
<1> DEFINE r == Tail(q)
<1>1. /\ r \in Seq(Names) /\ Len(r) = Len(q) - 1 /\ Head(q) = q[1] /\ Head(q) \in Names
      /\ \A i \in 1..Len(r) : r[i] = q[i + 1]
  BY HeadTailProperties
<1>2. /\ DOMAIN q = 1..Len(q) /\ DOMAIN r = 1..Len(r) /\ Len(q) \in Nat /\ Len(r) \in Nat
      /\ \A i \in DOMAIN r : i + 1 \in DOMAIN q /\ i + 1 # 1 /\ i \in Nat
      /\ 1 \in DOMAIN q
  BY <1>1, LenProperties, EmptySeq
<1> HIDE DEF r
<1>3. In(r, S) => In(q, S)
  BY <1>1, <1>2 DEF In
<1>4. Head(q) \in S => In(q, S)
  BY <1>1, <1>2 DEF In
<1>5. ASSUME Once(q, S) PROVE Once(r, S)
  BY <1>1, <1>2, <1>5 DEF Once
<1>6. ASSUME Once(q, S), Head(q) \in S PROVE ~In(r, S)
  BY <1>1, <1>2, <1>6 DEF Once, In
<1> QED
  BY <1>1, <1>3, <1>4, <1>5, <1>6 DEF r

\* The poller taking a task adds none.
LEMMA KeptTail ==
  ASSUME NEW q \in Seq(Names), q # <<>>
  PROVE  Kept(q, q) /\ Kept(q, Tail(q))
<1>1. Tail(q) \in Seq(Names)
  BY InTail
<1>2. \A S : (In(Tail(q), S) => In(q, S)) /\ (Once(q, S) => Once(Tail(q), S))
  BY InTail
<1> QED
  BY <1>1, <1>2 DEF Kept

\* Schedule queues only the next Process.
LEMMA Scheduled ==
  ASSUME NEW q \in Seq(Names), NEW c, Schedule(q, c)
  PROVE  Kept(q, tasks')
<1>1. CASE tasks' = q
  BY <1>1 DEF Kept
<1>2. CASE tasks' = Append(q, "process")
  <2>1. "process" \in Names
    BY DEF Names
  <2>2. Append(q, "process") \in Seq(Names)
    BY <2>1, InAppend
  <2>3. ASSUME NEW S \in SUBSET (Names \ {"process"})
        PROVE  (In(tasks', S) => In(q, S)) /\ (Once(q, S) => Once(tasks', S))
    <3>1. "process" \notin S
      OBVIOUS
    <3> QED
      BY <1>2, <2>1, <3>1, InAppend
  <2> QED
    BY <1>2, <2>2, <2>3 DEF Kept
<1> QED
  BY <1>1, <1>2 DEF Schedule

-----------------------------------------------------------------------------
(* The sessions.                                                           *)

\* The sets of tasks that the invariant counts.
LEMMA Errand ==
  /\ {"start"} \in SUBSET (Names \ {"process"}) /\ {"attach"} \in SUBSET (Names \ {"process"})
  /\ {"stopped"} \in SUBSET (Names \ {"process"}) /\ Ends \in SUBSET (Names \ {"process"})
  /\ "start" \in Names /\ "attach" \in Names /\ "finish" \in Names /\ "stopped" \in Names
  /\ "start" \notin Ends /\ "attach" \notin Ends
BY DEF Names, Ends

\* No errand came, and what the queued ones rely on is kept.
LEMMA ErrandsKept ==
  ASSUME Errands, Kept(tasks, tasks'),
         In(tasks', {"start"}) => control' = "starting",
         In(tasks', {"attach"}) => control' = "attaching",
         In(tasks', Ends) => running' /\ closing',
         path' => path /\ running'
  PROVE  Errands'
BY Errand DEF Errands, Kept

\* Start begins a session when none runs.
LEMMA SessionsStart ==
  ASSUME Sessions, Start PROVE Sessions'
<1> USE DEF Sessions, Start, media, task, submit, history
<1>1. Typed' /\ Phases' /\ Gate'
  BY DEF Typed, Phases, Gate
<1>2. Errands' /\ Calls'
  BY DEF Errands, Calls
<1> QED
  BY <1>1, <1>2

\* Start hands its setup to the poller and waits.
LEMMA SessionsStartSync ==
  ASSUME Sessions, StartSync PROVE Sessions'
<1> USE DEF Sessions, StartSync, media, task, submit, history, state
<1>1. tasks \in Seq(Names) /\ tasks' = Append(tasks, "start")
  BY DEF Typed
<1>2. /\ tasks' \in Seq(Names)
      /\ \A S : /\ In(tasks', S) <=> In(tasks, S) \/ "start" \in S
                /\ Once(tasks, S) /\ (In(tasks, S) => "start" \notin S) => Once(tasks', S)
  BY <1>1, Errand, InAppend
<1>3. Typed' /\ Phases' /\ Gate'
  BY <1>2, Errand DEF Typed, Phases, Gate
<1>4. Errands'
  BY <1>2, Errand DEF Errands
<1>5. Calls'
  BY DEF Calls
<1> QED
  BY <1>3, <1>4, <1>5

\* The setup opens the packets and answers Start, or fails.
LEMMA SessionsStartTask ==
  ASSUME Sessions, StartTask PROVE Sessions'
<1> USE DEF Sessions, StartTask, media, task, submit, history
<1>1. /\ tasks \in Seq(Names) /\ tasks # <<>> /\ tasks' = Tail(tasks)
      /\ Head(tasks) = "start" /\ poller = "idle" /\ poller' = poller
      /\ batch' = batch /\ feeds' = feeds
  BY DEF Typed
<1>2. /\ Kept(tasks, tasks') /\ ~In(tasks', {"start"}) /\ In(tasks, {"start"})
  BY <1>1, KeptTail, InTail DEF Errands
<1>3. control = "starting" /\ ~running /\ ~In(tasks', {"attach"}) /\ ~In(tasks', Ends)
      /\ ~path /\ ~In(tasks', {"stopped"})
  <2>1. \A S \in SUBSET (Names \ {"process"}) : In(tasks', S) => In(tasks, S)
    BY <1>2 DEF Kept
  <2>2. control = "starting" /\ ~running /\ ~path
    BY <1>2 DEF Errands, Calls
  <2>3. ~In(tasks, {"attach"}) /\ ~In(tasks, Ends) /\ ~In(tasks', {"attach"}) /\ ~In(tasks', Ends)
    BY <2>1, <2>2, Errand DEF Errands
  <2>4. In(tasks', {"stopped"}) => In(tasks', Ends)
    BY DEF In, Ends
  <2> QED
    BY <2>2, <2>3, <2>4
<1>4. Typed' /\ Phases'
  BY <1>1, <1>2 DEF Typed, Phases, Kept, Fresh
<1>5. Gate'
  <2>1. CASE running'
    <3>1. /\ closed' = FALSE /\ accepting' = TRUE /\ draining' = FALSE /\ closing' = FALSE
      BY <1>3, <2>1 DEF Fresh
    <3> QED
      BY <2>1, <3>1 DEF Gate
  <2>2. CASE ~running'
    <3>1. UNCHANGED <<running, accepting, draining, closing, closed, slot, queue>>
      BY <2>2
    <3> QED
      BY <3>1 DEF Gate
  <2> QED
    BY <2>1, <2>2
<1>6. Errands'
  BY <1>2, <1>3, Errand DEF Errands, Kept
<1>7. Calls'
  BY DEF Calls
<1> QED
  BY <1>4, <1>5, <1>6, <1>7

\* AddOutput checks the state and registers, or hands the attachment over.
LEMMA SessionsRegister ==
  ASSUME Sessions, NEW o \in Outputs, Register(o) PROVE Sessions'
<1> USE DEF Sessions, Register, media, task, submit, history, state
<1>1. tasks \in Seq(Names) /\ (tasks' = tasks \/ tasks' = Append(tasks, "attach"))
  BY DEF Typed
<1>2. /\ tasks' \in Seq(Names)
      /\ \A S : /\ In(tasks', S) => In(tasks, S) \/ (tasks' = Append(tasks, "attach") /\ "attach" \in S)
                /\ Once(tasks, S) /\ (In(tasks, S) => "attach" \notin S) => Once(tasks', S)
  <2>1. CASE tasks' = tasks
    BY <1>1, <2>1
  <2>2. CASE tasks' = Append(tasks, "attach")
    BY <1>1, <2>2, Errand, InAppend
  <2> QED
    BY <1>1, <2>1, <2>2
<1>3. Typed' /\ Phases' /\ Gate'
  BY <1>2, Errand DEF Typed, Phases, Gate, Ends
<1>4. ~In(tasks, {"start"}) /\ ~In(tasks, {"attach"})
  BY DEF Errands
<1>6. Calls'
  BY DEF Calls
<1>5. Errands'
  <2>1. Once(tasks', {"start"}) /\ Once(tasks', {"attach"}) /\ Once(tasks', Ends)
    BY <1>2, <1>4, Errand DEF Errands
  <2>2. ~In(tasks', {"start"}) /\ (In(tasks', Ends) => In(tasks, Ends))
        /\ (In(tasks', {"stopped"}) => In(tasks, {"stopped"}))
    BY <1>2, <1>4, Errand
  <2>3. In(tasks', {"attach"}) => control' = "attaching"
    <3>1. CASE tasks' = tasks
      BY <3>1, <1>4
    <3>2. CASE tasks' # tasks
      BY <3>2
    <3> QED
      BY <3>1, <3>2
  <2> QED
    BY <2>1, <2>2, <2>3 DEF Errands
<1> QED
  BY <1>3, <1>5, <1>6

\* A recording is attached by the caller itself.
LEMMA SessionsRegisterFile ==
  ASSUME Sessions, RegisterFile PROVE Sessions'
<1> USE DEF Sessions, RegisterFile, media, task, submit, history, state
<1>1. Typed' /\ Phases' /\ Gate' /\ Errands'
  BY DEF Typed, Phases, Gate, Errands
<1>2. Calls'
  BY DEF Calls
<1> QED
  BY <1>1, <1>2

\* The poller attaches an output and answers.
LEMMA SessionsAttachTask ==
  ASSUME Sessions, AttachTask PROVE Sessions'
<1> USE DEF Sessions, AttachTask, media, task, submit, history, state
<1>1. /\ tasks \in Seq(Names) /\ tasks # <<>> /\ tasks' = Tail(tasks)
      /\ Head(tasks) = "attach" /\ poller = "idle" /\ poller' = poller
      /\ batch' = batch /\ feeds' = feeds
  BY DEF Typed
<1>2. /\ Kept(tasks, tasks') /\ ~In(tasks', {"attach"}) /\ In(tasks, {"attach"})
  BY <1>1, KeptTail, InTail DEF Errands
<1>3. control = "attaching" /\ ~In(tasks', {"start"})
  BY <1>2, Errand DEF Errands, Calls, Kept
<1>4. Typed' /\ Phases'
  BY <1>1, <1>2 DEF Typed, Phases, Kept
<1>5. Gate'
  BY DEF Gate
<1>6. Errands'
  <2>1. In(tasks', Ends) => running' /\ closing'
    BY <1>2, Errand DEF Errands, Kept
  <2> QED
    BY <1>2, <1>3, <2>1, ErrandsKept DEF Errands, outputs
<1>7. Calls'
  BY DEF Calls
<1> QED
  BY <1>4, <1>5, <1>6, <1>7

\* The Add call puts its output into registration_.
LEMMA SessionsRegisterDone ==
  ASSUME Sessions, RegisterDone PROVE Sessions'
<1> USE DEF Sessions, RegisterDone, media, task, submit, history, state
<1>1. Typed' /\ Phases' /\ Gate' /\ Errands' /\ Calls'
  BY DEF Typed, Phases, Gate, Errands, Calls
<1> QED
  BY <1>1

\* The critical section of Drain closes the packets and asks for the rest once.
LEMMA DrainEffectKept ==
  ASSUME Sessions, DrainEffect, UNCHANGED <<running, closing, poller, batch, feeds, finish, slot, queue>>
  PROVE  Typed' /\ Phases' /\ Gate' /\ Kept(tasks, tasks')
<1>1. CASE ~running \/ closing
  <2>1. UNCHANGED <<accepting, closed, draining, scheduled, tasks>>
    BY <1>1 DEF DrainEffect
  <2> QED
    BY <2>1, KeptTail DEF Sessions, Typed, Phases, Gate, Kept
<1>2. CASE running /\ ~closing
  <2>1. accepting' = FALSE /\ closed' = TRUE /\ draining' = TRUE /\ Kept(tasks, tasks')
    BY <1>2, Scheduled DEF DrainEffect, Sessions, Typed
  <2> QED
    BY <1>2, <2>1 DEF Sessions, Typed, Phases, Gate, Kept
<1> QED
  BY <1>1, <1>2

\* Drain, and the drain at the beginning of Stop.
LEMMA SessionsDrain ==
  ASSUME Sessions, Drain \/ Stop PROVE Sessions'
<1> USE DEF Sessions, Drain, Stop, task, submit, history, outputs
<1>1. Typed' /\ Phases' /\ Gate' /\ Kept(tasks, tasks')
  BY DrainEffectKept
<1>2. Calls'
  BY DEF Calls
<1>3. Errands'
  <2>1. \A S \in SUBSET (Names \ {"process"}) : In(tasks', S) => In(tasks, S)
    BY <1>1 DEF Kept
  <2>2. /\ In(tasks', Ends) => running' /\ closing'
        /\ In(tasks', {"start"}) => control' = "starting"
        /\ In(tasks', {"attach"}) => control' = "attaching"
    BY <2>1, Errand DEF Errands
  <2> QED
    BY <1>1, <2>2, ErrandsKept DEF Errands
<1> QED
  BY <1>1, <1>2, <1>3

\* Stop returns when the session is over.
LEMMA SessionsStopDone ==
  ASSUME Sessions, StopDone PROVE Sessions'
<1> USE DEF Sessions, StopDone, media, task, submit, history
<1>1. Typed' /\ Phases' /\ Gate' /\ Errands' /\ Calls'
  BY DEF Typed, Phases, Gate, Errands, Calls
<1> QED
  BY <1>1

\* A submission admitted by accepting_, then pushed or refused.
LEMMA SessionsSubmit ==
  ASSUME Sessions, NEW t, Submit(t) \/ Push(t) PROVE Sessions'
<1> USE DEF Sessions, Submit, Push, Refused, media, task, outputs, history, state
<1>1. Typed' /\ Phases' /\ Errands' /\ Calls'
  BY DEF Typed, Phases, Errands, Calls
<1>2. Gate'
  <2>1. CASE slot' = slot
    BY <2>1 DEF Gate
  <2>2. CASE slot' # slot
    <3>1. closed = FALSE
      BY <2>2 DEF Typed
    <3>2. accepting /\ running
      BY <3>1 DEF Gate, Typed
    <3>3. UNCHANGED <<running, accepting, draining, closing, closed, queue>>
      OBVIOUS
    <3> QED
      BY <3>2, <3>3 DEF Gate
  <2> QED
    BY <2>1, <2>2
<1> QED
  BY <1>1, <1>2

\* A submission schedules a Process when none waits.
LEMMA SessionsSubmitSchedule ==
  ASSUME Sessions, NEW t, SubmitSchedule(t) PROVE Sessions'
<1> USE DEF Sessions, SubmitSchedule, media, task, outputs, history
<1>1. Kept(tasks, tasks')
  BY Scheduled, KeptTail DEF Typed, Kept
<1>2. Typed' /\ Phases' /\ Gate' /\ Calls'
  <2>1. In(tasks', Ends) => In(tasks, Ends)
    BY <1>1, Errand DEF Kept
  <2> QED
    BY <1>1, <2>1 DEF Typed, Phases, Gate, Calls, Kept
<1>3. Errands'
  <2>1. \A S \in SUBSET (Names \ {"process"}) : In(tasks', S) => In(tasks, S)
    BY <1>1 DEF Kept
  <2>2. /\ In(tasks', Ends) => running' /\ closing'
        /\ In(tasks', {"start"}) => control' = "starting"
        /\ In(tasks', {"attach"}) => control' = "attaching"
    BY <2>1, Errand DEF Errands
  <2> QED
    BY <1>1, <2>2, ErrandsKept DEF Errands
<1> QED
  BY <1>2, <1>3

\* The tasks of the poller besides the four above.
LEMMA SessionsProcessLate ==
  ASSUME Sessions, ProcessLate PROVE Sessions'
<1> USE DEF Sessions, ProcessLate, TakesTask, media, task, submit, history, outputs
<1>1. Kept(tasks, tasks')
  BY KeptTail DEF Typed
<1>2. Typed' /\ Phases' /\ Gate' /\ Calls'
  BY <1>1, Errand DEF Typed, Phases, Gate, Calls, Kept
<1>3. Errands'
  <2>1. \A S \in SUBSET (Names \ {"process"}) : In(tasks', S) => In(tasks, S)
    BY <1>1 DEF Kept
  <2>2. /\ In(tasks', Ends) => running' /\ closing'
        /\ In(tasks', {"start"}) => control' = "starting"
        /\ In(tasks', {"attach"}) => control' = "attaching"
    BY <2>1, Errand DEF Errands
  <2> QED
    BY <1>1, <2>2, ErrandsKept DEF Errands
<1> QED
  BY <1>2, <1>3

\* Outside a session there is nothing to take, and nothing to throw for.
LEMMA NothingToTake ==
  ASSUME Sessions, ~running
  PROVE  /\ ~ProcessThrow
         /\ ProcessTake => batch' = <<>> /\ queue' = <<>>
<1>1. slot = <<>> /\ queue = <<>> /\ Pushed = <<>> /\ Len(Pushed) = 0
  BY DEF Sessions, Gate, Pushed
<1>2. ~ProcessThrow
  BY <1>1 DEF ProcessThrow, ExceedsDelta
<1>3. ASSUME ProcessTake PROVE batch' = <<>> /\ queue' = <<>>
  <2> DEFINE n == IF Ready THEN Releasable(Pushed, draining) ELSE 0
  <2>1. n = 0
    <3>1. Releasable(Pushed, draining) \in 0..Len(Pushed)
      BY <1>1, ReleasableIs
    <3> QED
      BY <1>1, <3>1
  <2>2. queue' = SubSeq(Pushed, n + 1, Len(Pushed)) /\ batch' = SubSeq(Pushed, 1, n)
    BY <1>3 DEF ProcessTake
  <2> HIDE DEF n
  <2>3. SubSeq(<<>>, 1, 0) = <<>>
    OBVIOUS
  <2> QED
    BY <1>1, <2>1, <2>2, <2>3
<1> QED
  BY <1>2, <1>3

\* Process takes its task and lives in a session that is open.
LEMMA SessionsProcess ==
  ASSUME Sessions, ProcessThrow \/ ProcessTake PROVE Sessions'
<1> USE DEF Sessions, TakesTask
<1>1. Kept(tasks, tasks')
  BY KeptTail DEF Typed, ProcessThrow, ProcessTake
<1>2. UNCHANGED <<running, accepting, draining, closing, closed, control, path, pending, error>>
      /\ ~closing /\ slot' = <<>>
  BY DEF ProcessThrow, ProcessTake, state, outputs
<1>3. Typed' /\ Calls'
  BY <1>1, <1>2 DEF Typed, Calls, Kept, ProcessThrow, ProcessTake
<1>4. Errands'
  <2>1. \A S \in SUBSET (Names \ {"process"}) : In(tasks', S) => In(tasks, S)
    BY <1>1 DEF Kept
  <2>2. /\ In(tasks', Ends) => running' /\ closing'
        /\ In(tasks', {"start"}) => control' = "starting"
        /\ In(tasks', {"attach"}) => control' = "attaching"
    BY <1>2, <2>1, Errand DEF Errands
  <2> QED
    BY <1>1, <1>2, <2>2, ErrandsKept DEF Errands
<1>5. Phases' /\ Gate'
  <2>1. CASE ProcessThrow
    <3>0. running
      BY <2>1, NothingToTake DEF Typed
    <3>1. poller' = "throw" /\ running /\ batch' = batch /\ feeds' = feeds /\ poller = "idle"
      BY <2>1, <3>0 DEF ProcessThrow, task
    <3> QED
      BY <1>2, <3>1 DEF Phases, Gate
  <2>2. CASE ProcessTake
    <3>1. poller' = "output" /\ finish' = draining
      BY <2>2 DEF ProcessTake
    <3>2. ~running => batch' = <<>> /\ queue' = <<>>
      BY <2>2, NothingToTake
    <3>3. ~running => ~draining
      BY <1>2 DEF Gate
    <3> QED
      BY <1>2, <3>1, <3>2, <3>3 DEF Phases, Gate
  <2> QED
    BY <2>1, <2>2
<1> QED
  BY <1>3, <1>4, <1>5

\* Output of a batch, which ends the session when it was the last.
LEMMA SessionsProcessOutput ==
  ASSUME Sessions, ProcessOutput PROVE Sessions'
<1> USE DEF Sessions, ProcessOutput, media, outputs, submit, state
<1>1. UNCHANGED <<tasks, running, accepting, draining, closing, closed, slot, queue, control,
                  path, pending, error>>
      /\ batch' = <<>> /\ feeds' = {} /\ finish' = FALSE
      /\ poller' \in {"close", "idle", "throw"} /\ poller = "output"
  OBVIOUS
<1>2. poller' \in {"close", "throw"} => running
  <2>1. CASE running
    BY <2>1
  <2>2. CASE ~running
    <3>1. batch = <<>> /\ ~finish
      BY <1>1, <2>2 DEF Phases
    <3>2. DOMAIN batch = {}
      BY <3>1
    <3>3. poller' = "idle"
      BY <3>1, <3>2
    <3> QED
      BY <3>3
  <2> QED
    BY <2>1, <2>2
<1> HIDE DEF ProcessOutput
<1>3. Typed' /\ Phases' /\ Gate' /\ Errands' /\ Calls'
  BY <1>1, <1>2 DEF Typed, Phases, Gate, Errands, Calls
<1> QED
  BY <1>3

\* What Error leaves of the session's state.
LEMMA ErrorKept ==
  ASSUME Sessions, NEW q \in Seq(Names), Error(q)
  PROVE  /\ Kept(q, tasks')
         /\ \/ UNCHANGED <<accepting, closed, draining, error>>
            \/ running /\ accepting' = FALSE /\ closed' = TRUE /\ draining' = TRUE
<1>1. CASE ~running \/ errorReported
  BY <1>1, KeptTail DEF Error, Kept
<1>2. CASE ~(~running \/ errorReported)
  BY <1>2, Scheduled DEF Error
<1> QED
  BY <1>1, <1>2

\* SetError and the close that follows it.
LEMMA SessionsError ==
  ASSUME Sessions, Error(tasks), UNCHANGED <<running, closing, slot, queue, batch, feeds, outputs>>,
         \/ UNCHANGED <<poller, finish>>
         \/ poller = "throw" /\ poller' = "close" /\ running /\ finish' = finish
  PROVE  Sessions'
<1> USE DEF Sessions, outputs
<1>0. tasks \in Seq(Names)
  BY DEF Typed
<1>1. /\ Kept(tasks, tasks')
      /\ \/ UNCHANGED <<accepting, closed, draining, error>>
         \/ running /\ accepting' = FALSE /\ closed' = TRUE /\ draining' = TRUE
  BY <1>0, ErrorKept
<1>2. Typed' /\ Calls'
  <2>1. CASE UNCHANGED <<accepting, closed, draining, error>>
    BY <1>1, <2>1 DEF Typed, Calls, Kept
  <2>2. CASE running /\ accepting' = FALSE /\ closed' = TRUE /\ draining' = TRUE
    <3>1. Typed'
      BY <1>1, <2>2 DEF Typed, Kept
    <3>2. Calls'
      BY <2>2 DEF Calls
    <3> QED
      BY <3>1, <3>2
  <2> QED
    BY <1>1, <2>1, <2>2
<1>3. Errands'
  <2>1. \A S \in SUBSET (Names \ {"process"}) : In(tasks', S) => In(tasks, S)
    BY <1>1 DEF Kept
  <2>2. /\ In(tasks', Ends) => running' /\ closing'
        /\ In(tasks', {"start"}) => control' = "starting"
        /\ In(tasks', {"attach"}) => control' = "attaching"
    BY <2>1, Errand DEF Errands
  <2> QED
    BY <1>1, <2>2, ErrandsKept DEF Errands
<1>4. Gate'
  <2>1. CASE UNCHANGED <<accepting, closed, draining, error>>
    BY <2>1 DEF Gate
  <2>2. CASE running /\ accepting' = FALSE /\ closed' = TRUE /\ draining' = TRUE
    BY <2>2 DEF Gate
  <2> QED
    BY <1>1, <2>1, <2>2
<1>5. Phases'
  <2>1. In(tasks', Ends) => In(tasks, Ends)
    BY <1>1, Errand DEF Kept
  <2> QED
    BY <2>1 DEF Phases
<1> QED
  BY <1>2, <1>3, <1>4, <1>5

\* The catch of Process.
LEMMA SessionsProcessError ==
  ASSUME Sessions, ProcessError PROVE Sessions'
<1>1. running
  BY DEF Sessions, Phases, ProcessError
<1> QED
  BY <1>1, SessionsError DEF ProcessError

\* The callback of a push that was closed.
LEMMA SessionsPusherError ==
  ASSUME Sessions, PusherError PROVE Sessions'
BY SessionsError DEF PusherError, task

\* CloseSession shuts the door before it empties the packets.
LEMMA SessionsProcessClose ==
  ASSUME Sessions, ProcessClose PROVE Sessions'
<1> USE DEF Sessions, ProcessClose, history, outputs, submit
<1>1. /\ UNCHANGED <<tasks, running, draining, slot, queue, batch, feeds, control, path, pending, error>>
      /\ poller = "close" /\ poller' = "flush" /\ accepting' = FALSE /\ closed' = TRUE
      /\ closing' = TRUE
  OBVIOUS
<1>2. ~closing /\ running
  BY <1>1 DEF Phases
<1>3. ~In(tasks, Ends)
  BY <1>2 DEF Errands
<1> HIDE DEF ProcessClose
<1>4. Typed' /\ Phases' /\ Errands' /\ Calls'
  BY <1>1, <1>2, <1>3 DEF Typed, Phases, Errands, Calls
<1>5. Gate'
  BY <1>1, <1>2 DEF Gate
<1> QED
  BY <1>4, <1>5

\* CloseSession empties the packets and posts the two last tasks.
LEMMA SessionsProcessFlush ==
  ASSUME Sessions, ProcessFlush PROVE Sessions'
<1> USE DEF Sessions, history, outputs, submit
<1> DEFINE q == Append(tasks, "finish")
<1>1. /\ UNCHANGED <<running, closing, slot, queue, batch, feeds, control, path, pending>>
      /\ poller = "flush" /\ poller' = "idle"
      /\ \/ tasks' = q /\ UNCHANGED <<error, accepting, closed, draining>>
         \/ Error(q)
  BY DEF ProcessFlush
<1>2. running /\ closing /\ ~In(tasks, Ends) /\ tasks \in Seq(Names)
  BY <1>1 DEF Phases, Typed
<1>3. /\ q \in Seq(Names)
      /\ \A S : /\ In(q, S) <=> In(tasks, S) \/ "finish" \in S
                /\ Once(tasks, S) /\ (In(tasks, S) => "finish" \notin S) => Once(q, S)
  BY <1>2, Errand, InAppend
<1> HIDE DEF q
<1>4. /\ Kept(q, tasks')
      /\ \/ UNCHANGED <<accepting, closed, draining, error>>
         \/ running /\ accepting' = FALSE /\ closed' = TRUE /\ draining' = TRUE
  <2>1. CASE tasks' = q /\ UNCHANGED <<error, accepting, closed, draining>>
    BY <2>1, <1>3 DEF Kept
  <2>2. CASE Error(q)
    BY <2>2, <1>3, ErrorKept
  <2> QED
    BY <1>1, <2>1, <2>2
<1>5. Typed' /\ Calls' /\ Gate' /\ Phases'
  <2>1. Typed' /\ Calls'
    BY <1>1, <1>2, <1>4 DEF Typed, Calls, Kept
  <2>2. Phases'
    BY <1>1, <1>2, <1>4 DEF Phases
  <2>3. Gate'
    <3>1. CASE UNCHANGED <<accepting, closed, draining, error>>
      BY <1>1, <3>1 DEF Gate
    <3>2. CASE running /\ accepting' = FALSE /\ closed' = TRUE /\ draining' = TRUE
      BY <1>1, <3>2 DEF Gate
    <3> QED
      BY <1>4, <3>1, <3>2
  <2> QED
    BY <2>1, <2>2, <2>3
<1>6. Errands'
  <2>1. \A S \in SUBSET (Names \ {"process"}) :
          (In(tasks', S) => In(q, S)) /\ (Once(q, S) => Once(tasks', S))
    BY <1>4 DEF Kept
  <2>2. /\ Once(q, {"start"}) /\ Once(q, {"attach"}) /\ Once(q, Ends)
        /\ ~In(q, {"stopped"}) 
        /\ (In(q, {"start"}) => In(tasks, {"start"})) /\ (In(q, {"attach"}) => In(tasks, {"attach"}))
    <3>1. In(tasks, {"stopped"}) => In(tasks, Ends)
      BY DEF In, Ends
    <3> QED
      BY <1>2, <1>3, <3>1, Errand DEF Errands
  <2>3. /\ Once(tasks', {"start"}) /\ Once(tasks', {"attach"}) /\ Once(tasks', Ends)
        /\ ~In(tasks', {"stopped"})
        /\ (In(tasks', {"start"}) => In(tasks, {"start"}))
        /\ (In(tasks', {"attach"}) => In(tasks, {"attach"}))
    BY <2>1, <2>2, Errand
  <2> QED
    BY <1>1, <1>2, <2>3 DEF Errands
<1> QED
  BY <1>5, <1>6

\* The first of the two last tasks gives the path back.
LEMMA SessionsFinishTask ==
  ASSUME Sessions, FinishTask PROVE Sessions'
<1> USE DEF Sessions, FinishTask, TakesTask, history, state, task, submit
<1> DEFINE q == Tail(tasks)
<1>1. /\ tasks \in Seq(Names) /\ tasks # <<>> /\ tasks' = Append(q, "stopped")
      /\ Head(tasks) = "finish" /\ poller = "idle" /\ poller' = poller
      /\ batch' = batch /\ feeds' = feeds /\ path' = FALSE
      /\ UNCHANGED <<running, accepting, draining, closing, closed, slot, queue, control, pending, error>>
  BY DEF Typed
<1>2. /\ Kept(tasks, q) /\ ~In(q, Ends) /\ In(tasks, Ends)
  BY <1>1, KeptTail, InTail DEF Errands, Ends
<1>3. /\ q \in Seq(Names) /\ tasks' \in Seq(Names)
      /\ \A S : /\ In(tasks', S) <=> In(q, S) \/ "stopped" \in S
                /\ Once(q, S) /\ (In(q, S) => "stopped" \notin S) => Once(tasks', S)
  <2>1. q \in Seq(Names)
    BY <1>2 DEF Kept
  <2> HIDE DEF q, FinishTask
  <2> QED
    BY <1>1, <2>1, Errand, InAppend
<1> HIDE DEF q
<1>4. \A S \in SUBSET (Names \ {"process"}) :
          (In(q, S) => In(tasks, S)) /\ (Once(tasks, S) => Once(q, S))
  BY <1>2 DEF Kept
<1>5. running /\ closing
  BY <1>2 DEF Errands
<1> HIDE DEF FinishTask
<1>6. Typed' /\ Calls' /\ Gate' /\ Phases'
  BY <1>1, <1>3 DEF Typed, Calls, Gate, Phases
<1>7. Errands'
  <2>1. /\ Once(tasks', {"start"}) /\ Once(tasks', {"attach"}) /\ Once(tasks', Ends)
    BY <1>2, <1>3, <1>4, Errand DEF Errands
  <2>2. /\ (In(tasks', {"start"}) => In(tasks, {"start"}))
        /\ (In(tasks', {"attach"}) => In(tasks, {"attach"}))
    BY <1>3, <1>4, Errand
  <2> QED
    BY <1>1, <1>5, <2>1, <2>2 DEF Errands
<1> QED
  BY <1>6, <1>7

\* The second ends the session.
LEMMA SessionsStoppedTask ==
  ASSUME Sessions, StoppedTask PROVE Sessions'
<1> USE DEF Sessions, StoppedTask, TakesTask, history, outputs, task, submit
<1>1. /\ tasks \in Seq(Names) /\ tasks # <<>> /\ tasks' = Tail(tasks)
      /\ Head(tasks) = "stopped" /\ poller = "idle" /\ poller' = poller
      /\ batch' = batch /\ feeds' = feeds /\ running' = FALSE /\ slot' = <<>> /\ queue' = <<>>
      /\ UNCHANGED <<accepting, draining, closing, closed, path, control, pending, error>>
  BY DEF Typed
<1>2. /\ Kept(tasks, tasks') /\ ~In(tasks', Ends) /\ In(tasks, Ends) /\ In(tasks, {"stopped"})
  BY <1>1, KeptTail, InTail DEF Errands, Ends
<1>3. running /\ closing /\ ~path
  BY <1>2 DEF Errands
<1>4. control \notin {"join", "starting"}
  BY <1>3 DEF Calls
<1> HIDE DEF StoppedTask
<1>5. Typed' /\ Calls' /\ Gate' /\ Phases'
  BY <1>1, <1>2, <1>3, <1>4 DEF Typed, Calls, Gate, Phases, Kept
<1>6. Errands'
  <2>1. \A S \in SUBSET (Names \ {"process"}) : In(tasks', S) => In(tasks, S)
    BY <1>2 DEF Kept
  <2>2. /\ (In(tasks', {"start"}) => In(tasks, {"start"}))
        /\ (In(tasks', {"attach"}) => In(tasks, {"attach"}))
    BY <2>1, Errand
  <2> QED
    BY <1>1, <1>2, <1>3, <2>2, ErrandsKept DEF Errands
<1> QED
  BY <1>5, <1>6

-----------------------------------------------------------------------------
(* Steps that move no packet.                                              *)

\* They also admit nothing, and neither begin a session nor undo a Drain.
Quiet ==
  /\ UNCHANGED <<plan, session, slot, queue, highest, initialized, shift, batch, out, accepted,
                 next, captured>>
  /\ (Serving' => Serving) /\ (closed => closed') /\ (Serving' /\ draining => draining')
  /\ DOMAIN producer' = DOMAIN producer
  /\ ~closed' => \A t \in DOMAIN producer : Coming(t)' = Coming(t)

\* Start and the Add calls touch no packet.
LEMMA QuietControl ==
  ASSUME Sessions, Start \/ StartSync \/ (\E o \in Outputs : Register(o)) \/ RegisterFile
                   \/ AttachTask \/ RegisterDone
  PROVE  Quiet
BY DEF Quiet, Start, StartSync, Register, RegisterFile, AttachTask, RegisterDone, Serving,
       state, media, task, submit, history, outputs, Sessions, Calls, Coming

\* Drain and Stop close the packets and touch none.
LEMMA QuietDrain ==
  ASSUME Sessions, Drain \/ Stop PROVE Quiet
<1>1. closed' = closed \/ closed' = TRUE
  BY DEF Drain, Stop, DrainEffect
<1>2. draining' = draining \/ draining' = TRUE
  BY DEF Drain, Stop, DrainEffect
<1>3. UNCHANGED <<plan, session, slot, queue, highest, initialized, shift, batch, out, accepted,
                  next, captured, producer, running, closing, poller>>
  BY DEF Drain, Stop, task, submit, history, outputs
<1> QED
  BY <1>1, <1>2, <1>3 DEF Quiet, Serving, Coming

\* Nor does the end of Stop.
LEMMA QuietStopDone ==
  ASSUME Sessions, StopDone PROVE Quiet
BY DEF Quiet, StopDone, Serving, Coming, media, task, submit, history

\* Scheduling moves no packet.
LEMMA QuietSchedule ==
  ASSUME Sessions, Carried, NEW t, SubmitSchedule(t) PROVE Quiet
<1>1. UNCHANGED <<plan, session, slot, queue, highest, initialized, shift, batch, out, accepted,
                  next, captured, closed, draining, running, closing, poller>>
  BY DEF SubmitSchedule, media, task, outputs, history
<1>2. DOMAIN producer' = DOMAIN producer
      /\ \A u \in DOMAIN producer : producer'[u] = "push" <=> producer[u] = "push"
  BY DEF SubmitSchedule
<1> QED
  BY <1>1, <1>2 DEF Quiet, Serving, Coming

\* Nor does a Process that comes late, or the first half of a close.
LEMMA QuietLate ==
  ASSUME Sessions, ProcessLate \/ ProcessClose PROVE Quiet
BY DEF Quiet, ProcessLate, ProcessClose, Serving, Coming, media, task, submit, history, outputs

\* SetError moves no packet of a session that goes on.
LEMMA QuietError ==
  ASSUME NEW q, Error(q),
         UNCHANGED <<plan, session, slot, queue, highest, initialized, shift, batch, out, accepted,
                     next, captured, producer, running, closing>>,
         poller' = poller \/ closing \/ poller' = "close"
  PROVE  Quiet
<1>1. (closed => closed') /\ (draining => draining')
  <2>1. CASE ~running \/ errorReported
    BY <2>1 DEF Error
  <2>2. CASE ~(~running \/ errorReported)
    BY <2>2 DEF Error
  <2> QED
    BY <2>1, <2>2
<1> QED
  BY <1>1 DEF Quiet, Serving, Coming

\* The three places that report an error move none.
LEMMA QuietErrors ==
  ASSUME Sessions, ProcessError \/ PusherError \/ ProcessFlush PROVE Quiet
<1>1. CASE ProcessError
  BY <1>1, QuietError DEF ProcessError, submit
<1>2. CASE PusherError
  BY <1>2, QuietError DEF PusherError, submit, task
<1>3. CASE ProcessFlush
  <2>1. closing
    BY <1>3 DEF ProcessFlush, Sessions, Phases
  <2>2. CASE Error(Append(tasks, "finish"))
    BY <1>3, <2>1, <2>2, QuietError DEF ProcessFlush, submit
  <2>3. CASE ~Error(Append(tasks, "finish"))
    BY <1>3, <2>1, <2>3 DEF ProcessFlush, submit, Quiet, Serving, Coming
  <2> QED
    BY <2>2, <2>3
<1> QED
  BY <1>1, <1>2, <1>3

-----------------------------------------------------------------------------
(* Packets.                                                                *)

\* The packets of a plan and their types.
LEMMA PlanIs ==
  ASSUME plan \in Plans
  PROVE  /\ Tracks \subseteq Nat /\ Parcels \subseteq Stamps
         /\ \A t \in Tracks : /\ DOMAIN plan.media[t] = 1..Len(plan.media[t])
                              /\ Len(plan.media[t]) \in Nat
         /\ \A t \in Tracks : \A k \in 1..Len(plan.media[t]) : Packet(t, k) \in Parcels
<1> DEFINE M == [dts : Int, pts : Int]
<1>1. plan.media \in Seq(Seq(M))
  BY RemuxerAssumption
<1>2. Tracks = 1..Len(plan.media) /\ Len(plan.media) \in Nat
  BY <1>1, LenProperties DEF Tracks
<1>3. \A t \in Tracks : plan.media[t] \in Seq(M)
  BY <1>1, <1>2, ElementOfSeq
<1>4. \A t \in Tracks : DOMAIN plan.media[t] = 1..Len(plan.media[t]) /\ Len(plan.media[t]) \in Nat
  BY <1>3, LenProperties
<1>5. Tracks \subseteq Nat
  BY <1>2
<1>6. Parcels \subseteq Stamps
  <2>1. ASSUME NEW S, S \subseteq Int, NEW p \in [track : S, dts : Int, pts : Int] PROVE p \in Stamps
    BY <2>1 DEF Stamps
  <2>3. Tracks \subseteq Int
    BY <1>5
  <2>2. \A p \in Parcels : p \in [track : Tracks, dts : Int, pts : Int]
    BY DEF Parcels
  <2> QED
    BY <2>1, <2>2, <2>3
<1>7. ASSUME NEW t \in Tracks, NEW k \in 1..Len(plan.media[t]) PROVE Packet(t, k) \in Parcels
  <2>1. plan.media[t][k] \in M
    BY <1>3, ElementOfSeq
  <2> QED
    BY <2>1 DEF Parcels, Packet
<1> QED
  BY <1>4, <1>5, <1>6, <1>7

PacketInv == Carried /\ Admitted /\ Marked /\ Queued /\ Shifted /\ Covered /\ Released

\* A track that the interleaver has a mark of has begun.
LEMMA MarkedBegun ==
  ASSUME PacketInv, Serving, NEW t \in Tracks, highest[t] # <<>>
  PROVE  accepted[t] # <<>>
<1>1. /\ InSlot(t) => accepted[t] # <<>>
      /\ highest[t] = IF Seen(t) = 0 THEN <<>> ELSE <<accepted[t][Seen(t)].dts>>
  BY DEF PacketInv, Marked
<1>2. Seen(t) # 0
  BY <1>1
<1>3. ASSUME accepted[t] = <<>> PROVE FALSE
  <2>1. ~InSlot(t) /\ accepted[t] \in Seq(Parcels)
    BY <1>1, <1>3 DEF PacketInv, Carried
  <2>3. Len(accepted[t]) = 0
    BY <1>3, <2>1, EmptySeq
  <2> DEFINE l == Len(accepted[t])
             c == IF InSlot(t) THEN 1 ELSE 0
  <2>4. l = 0 /\ c = 0 /\ Seen(t) = l - c
    BY <2>1, <2>3 DEF Seen
  <2> HIDE DEF l, c
  <2>2. Seen(t) = 0
    BY <2>4
  <2> QED
    BY <1>2, <2>2
<1> QED
  BY <1>3

\* The first packets stay what they are while none is taken.
LEMMA CoveredKept ==
  ASSUME Covered, UNCHANGED <<plan, accepted>>, Serving' => Serving,
         batch' = batch \/ batch' = <<>>, ~Serving' \/ UNCHANGED <<queue, highest, shift>>
  PROVE  Covered'
<1>1. Tracks' = Tracks /\ \A p : Known(p)' = Known(p)
  BY DEF Tracks, Known
<1>2. \A i \in DOMAIN batch' : Known(batch'[i])
  BY DEF Covered
<1>3. CASE ~Serving'
  BY <1>1, <1>2, <1>3 DEF Covered
<1>4. CASE Serving' /\ UNCHANGED <<queue, highest, shift>>
  <2>1. \A t : Opens(queue, t)' = Opens(queue, t)
    BY <1>4 DEF Opens
  <2> QED
    BY <1>1, <1>2, <1>4, <2>1 DEF Covered
<1> QED
  BY <1>3, <1>4

\* A step that moves no packet keeps what is said of them.
LEMMA QuietPackets ==
  ASSUME PacketInv, Quiet PROVE PacketInv'
<1>1. UNCHANGED <<plan, session, slot, queue, highest, initialized, shift, batch, out, accepted,
                 next, captured>>
  BY DEF Quiet
<1>2. Tracks' = Tracks /\ Parcels' = Parcels
  BY <1>1 DEF Tracks, Parcels
<1>3. Carried'
  BY <1>1, <1>2 DEF PacketInv, Carried, Quiet
<1>4. Admitted'
  <2>1. (~closed' => ~closed)
    BY DEF Quiet
  <2>2. ~closed' => \A t \in Tracks : Coming(t)' = Coming(t)
    BY <1>1 DEF Quiet, PacketInv, Carried
  <2>3. \A t, k : Packet(t, k)' = Packet(t, k)
    BY <1>1 DEF Packet
  <2> QED
    BY <1>1, <1>2, <2>1, <2>2, <2>3 DEF PacketInv, Admitted
<1>5. Marked'
  <2>1. \A t : InSlot(t)' = InSlot(t) /\ Seen(t)' = Seen(t)
    BY <1>1 DEF InSlot, Seen
  <2>2. Serving' => Serving
    BY DEF Quiet
  <2> QED
    BY <1>1, <1>2, <2>1, <2>2 DEF PacketInv, Marked
<1>6. Queued'
  BY <1>1 DEF PacketInv, Queued, Known, Sorted, Before
<1>7. Shifted'
  BY <1>1, <1>2 DEF PacketInv, Shifted, Quiet
<1>9. Covered'
  BY <1>1, CoveredKept DEF PacketInv, Quiet
<1>8. Released'
  <2>1. \A p : Excused(p)' = Excused(p)
    BY <1>1, <1>2 DEF Excused
  <2>2. \A p : Settled(p) => Settled(p)'
    BY <1>1, <1>2, <2>1 DEF Settled, Quiet
  <2> QED
    BY <1>1, <2>1, <2>2 DEF PacketInv, Released, Ordered
<1> QED
  BY <1>3, <1>4, <1>5, <1>6, <1>7, <1>8, <1>9 DEF PacketInv

\* A new session has no packets.
LEMMA StartPackets ==
  ASSUME Sessions, PacketInv, StartTask PROVE PacketInv'
<1>1. CASE UNCHANGED <<running, accepting, draining, closing, scheduled,
                       errorReported, attached, recordOnly, session, media,
                       next, accepted, history>>
  <2>1. Quiet
    BY <1>1 DEF StartTask, Quiet, Serving, Coming, media, history, task
  <2> QED
    BY <2>1, QuietPackets
<1>2. CASE Fresh /\ session' = session + 1 /\ draining' = FALSE
  <2>1. /\ plan' = plan /\ slot' = <<>> /\ queue' = <<>> /\ highest' = [t \in Tracks |-> <<>>]
        /\ initialized' = FALSE /\ shift' = <<>> /\ out' = <<>> /\ batch' = batch
        /\ next' = [t \in Tracks |-> 0] /\ accepted' = [t \in Tracks |-> <<>>]
        /\ session' = session + 1 /\ captured' = captured /\ producer' = producer
    BY <1>2 DEF StartTask, Fresh, task
  <2>2. batch = <<>>
    BY DEF Sessions, Phases, StartTask
  <2>3. Tracks' = Tracks /\ Parcels' = Parcels
    BY <2>1 DEF Tracks, Parcels
  <2>4. Carried'
    BY <2>1, <2>2, <2>3 DEF PacketInv, Carried
  <2>5. Admitted'
    <3>1. ASSUME NEW t \in Tracks
          PROVE  /\ next'[t] = 0 /\ accepted'[t] = <<>> /\ captured'[t] <= session'
                 /\ Coming(t)' = 0 /\ Len(plan.media[t]) \in Nat
      BY <2>1, PlanIs DEF PacketInv, Carried, Admitted, Coming
    <3> QED
      BY <2>1, <2>3, <3>1 DEF Admitted
  <2>6. Marked'
    BY <2>1, <2>3 DEF Marked, InSlot, Seen
  <2>7. Queued'
    BY <2>1 DEF Queued, Sorted
  <2>8. Shifted' /\ Covered'
    BY <2>1, <2>2, <2>3 DEF Shifted, Covered
  <2>9. Released'
    <3>1. out' \o batch' = <<>>
      BY <2>1, <2>2
    <3> QED
      BY <3>1 DEF Released, Ordered
  <2> QED
    BY <2>4, <2>5, <2>6, <2>7, <2>8, <2>9 DEF PacketInv
<1> QED
  BY <1>1, <1>2 DEF StartTask

\* An admitted packet is in its submitter's hand.
LEMMA SubmitPackets ==
  ASSUME Sessions, PacketInv, NEW t \in Tracks, Submit(t) PROVE PacketInv'
<1>1. UNCHANGED <<plan, session, slot, queue, highest, initialized, shift, batch, out, accepted,
                  running, draining, closing, closed, accepting, poller>>
      /\ next' = [next EXCEPT ![t] = @ + 1] /\ captured' = [captured EXCEPT ![t] = session]
      /\ producer' = [producer EXCEPT ![t] = "push"] /\ producer[t] = "idle" /\ accepting
      /\ next[t] < Len(plan.media[t])
  BY DEF Submit, state, media, task, outputs, history
<1>2. Tracks' = Tracks /\ Parcels' = Parcels
  BY <1>1 DEF Tracks, Parcels
<1> HIDE DEF Submit
<1>3. next \in [Tracks -> Nat] /\ captured \in [Tracks -> Nat] /\ DOMAIN producer = Tracks
      /\ session \in Nat
  BY DEF PacketInv, Carried
<1>4. Carried'
  <2>1. next' \in [Tracks -> Nat] /\ captured' \in [Tracks -> Nat] /\ DOMAIN producer' = Tracks
    BY <1>1, <1>3
  <2> QED
    BY <1>1, <1>2, <2>1 DEF PacketInv, Carried
<1>5. Admitted'
  <2>1. ASSUME NEW u \in Tracks
        PROVE  /\ next'[u] <= Len(plan.media[u]) /\ captured'[u] <= session
               /\ ~closed => next'[u] = Len(accepted[u]) + Coming(u)'
    <3>0. /\ next[u] <= Len(plan.media[u]) /\ Len(accepted[u]) \in Nat
          /\ captured[u] <= session /\ next[u] \in Nat /\ Len(plan.media[u]) \in Nat
          /\ ~closed => next[u] = Len(accepted[u]) + Coming(u)
      BY <1>3, PlanIs, LenProperties DEF PacketInv, Carried, Admitted
    <3>1. CASE u = t
      <4>1. next'[u] = next[u] + 1 /\ captured'[u] = session /\ producer'[u] = "push"
            /\ producer[u] = "idle" /\ next[u] < Len(plan.media[u])
        BY <1>1, <1>3, <3>1
      <4>2. Coming(u)' = 1 /\ Coming(u) = 0
        BY <1>1, <4>1 DEF Coming
      <4>3. session <= session
        BY <1>3
      <4> QED
        BY <1>1, <3>0, <4>1, <4>2, <4>3
    <3>2. CASE u # t
      <4>1. next'[u] = next[u] /\ captured'[u] = captured[u] /\ producer'[u] = producer[u]
        BY <1>1, <1>3, <3>2
      <4>2. Coming(u)' = Coming(u)
        BY <1>1, <4>1 DEF Coming
      <4> QED
        BY <3>0, <4>1, <4>2
    <3> QED
      BY <3>1, <3>2
  <2>2. \A u, k : Packet(u, k)' = Packet(u, k)
    BY <1>1 DEF Packet
  <2> QED
    BY <1>1, <1>2, <2>1, <2>2 DEF PacketInv, Admitted
<1>6. Marked'
  <2>1. \A u : InSlot(u)' = InSlot(u) /\ Seen(u)' = Seen(u)
    BY <1>1 DEF InSlot, Seen
  <2>2. Serving' => Serving
    BY <1>1 DEF Serving
  <2> QED
    BY <1>1, <1>2, <2>1, <2>2 DEF PacketInv, Marked
<1>7. Queued'
  BY <1>1 DEF PacketInv, Queued, Known, Sorted, Before
<1>8. Shifted'
  BY <1>1, <1>2 DEF PacketInv, Shifted, Serving
<1>10. Covered'
  <2>1. Serving' => Serving
    BY <1>1 DEF Serving
  <2> QED
    BY <1>1, <2>1, CoveredKept DEF PacketInv
<1>9. Released'
  <2>1. \A p : Excused(p)' = Excused(p)
    BY <1>1, <1>2 DEF Excused
  <2>2. \A p : Settled(p) => Settled(p)'
    BY <1>1, <1>2, <2>1 DEF Settled
  <2> QED
    BY <1>1, <2>1, <2>2 DEF PacketInv, Released, Ordered
<1> QED
  BY <1>4, <1>5, <1>6, <1>7, <1>8, <1>9, <1>10 DEF PacketInv

\* Finish takes the shift away when nothing is left to convert.
LEMMA FinishPackets ==
  ASSUME Sessions, PacketInv, FinishTask \/ StoppedTask PROVE PacketInv'
<1>1. /\ UNCHANGED <<plan, session, highest, initialized, batch, out, accepted, next, captured,
                    producer, closed, closing, poller>>
      /\ batch = <<>> /\ poller = "idle"
      /\ (slot' = slot \/ slot' = <<>>) /\ (queue' = queue \/ queue' = <<>>)
      /\ (shift' = shift \/ shift' = <<>>)
  BY DEF FinishTask, StoppedTask, TakesTask, Sessions, Phases, state, media, task, submit,
         history, outputs
<1>2. Tracks' = Tracks /\ Parcels' = Parcels
  BY <1>1 DEF Tracks, Parcels
<1>3. ~Serving'
  <2>1. CASE FinishTask
    <3>1. tasks \in Seq(Names) /\ tasks # <<>> /\ Head(tasks) \in Ends
      BY <2>1 DEF FinishTask, TakesTask, Sessions, Typed, Ends
    <3>2. closing
      BY <3>1, InTail DEF Sessions, Errands
    <3> QED
      BY <1>1, <3>2 DEF Serving
  <2>2. CASE StoppedTask
    BY <2>2 DEF StoppedTask, Serving
  <2> QED
    BY <2>1, <2>2
<1>4. Carried'
  <2>0. /\ <<>> \in Seq(Parcels) /\ Len(<<>>) = 0 /\ <<>> \in Seq(Int)
        /\ slot \in Seq(Parcels) /\ Len(slot) <= 1 /\ queue \in Seq(Parcels) /\ shift \in Seq(Int)
    BY DEF PacketInv, Carried
  <2>1. slot' \in Seq(Parcels) /\ Len(slot') <= 1
    <3>1. CASE slot' = slot
      BY <2>0, <3>1
    <3>2. CASE slot' = <<>>
      BY <3>2
    <3> QED
      BY <1>1, <3>1, <3>2
  <2>2. queue' \in Seq(Parcels) /\ shift' \in Seq(Int)
    BY <1>1, <2>0
  <2> QED
    BY <1>1, <1>2, <2>1, <2>2 DEF PacketInv, Carried
<1>5. Admitted'
  <2>1. \A u, k : Packet(u, k)' = Packet(u, k) /\ Coming(u)' = Coming(u)
    BY <1>1 DEF Packet, Coming
  <2> QED
    BY <1>1, <1>2, <2>1 DEF PacketInv, Admitted
<1>6. Marked' /\ Shifted'
  BY <1>1, <1>3 DEF Marked, Shifted
<1>7. Queued'
  <2>1. \A p : Known(p)' = Known(p)
    BY <1>1 DEF Known
  <2> QED
    BY <1>1, <2>1 DEF PacketInv, Queued, Sorted, Before
<1>9. Covered'
  BY <1>1, <1>3, CoveredKept DEF PacketInv
<1>8. Released'
  <2>1. \A p : Excused(p)' = Excused(p)
    BY <1>1, <1>2 DEF Excused
  <2>2. \A p : Settled(p) => Settled(p)'
    BY <1>1, <1>2, <2>1 DEF Settled
  <2> QED
    BY <1>1, <2>1, <2>2 DEF PacketInv, Released, Ordered
<1> QED
  BY <1>4, <1>5, <1>6, <1>7, <1>8, <1>9 DEF PacketInv

\* What makes a packet an exception stays.
LEMMA ExcusedStays ==
  ASSUME Tracks' = Tracks, NEW p, Excused(p),
         \A t \in Tracks : \A k \in DOMAIN accepted[t] :
           k \in DOMAIN accepted'[t] /\ accepted'[t][k] = accepted[t][k]
  PROVE  Excused(p)'
<1>1. PICK t \in Tracks : \E k \in DOMAIN accepted[t] : accepted[t][k].dts > p.dts + Delta
  BY DEF Excused
<1>3. PICK k \in DOMAIN accepted[t] : accepted[t][k].dts > p.dts + Delta
  BY <1>1
<1>2. k \in DOMAIN accepted'[t] /\ accepted'[t][k] = accepted[t][k]
  OBVIOUS
<1> QED
  BY <1>3, <1>2 DEF Excused

\* A push that is refused only frees the producer; one that is not fills the slot.
LEMMA RefusedQuiet ==
  ASSUME Sessions, PacketInv, NEW t \in Tracks, Push(t), Refused(t) PROVE Quiet
<1>1. UNCHANGED <<plan, session, slot, queue, highest, initialized, shift, batch, out, accepted,
                  next, captured, closed, draining, running, closing, poller>>
      /\ producer' = [producer EXCEPT ![t] = "idle"]
  BY DEF Push, state, task, outputs, history
<1>2. DOMAIN producer' = DOMAIN producer /\ DOMAIN producer = Tracks
  BY <1>1 DEF PacketInv, Carried
<1>3. ASSUME ~closed, NEW u \in Tracks PROVE Coming(u)' = Coming(u)
  <2>1. CASE u = t
    BY <1>1, <1>2, <1>3, <2>1 DEF Refused, Coming
  <2>2. CASE u # t
    BY <1>1, <1>2, <2>2 DEF Coming
  <2> QED
    BY <2>1, <2>2
<1> QED
  BY <1>1, <1>2, <1>3 DEF Quiet, Serving

\* A packet goes into the slot, or is refused with its session.
LEMMA PushPackets ==
  ASSUME Sessions, PacketInv, NEW t \in Tracks, Push(t) PROVE PacketInv'
<1>1. CASE Refused(t)
  BY <1>1, RefusedQuiet, QuietPackets
<1>2. CASE ~Refused(t)
  <2> DEFINE p == Packet(t, next[t])
             n == Len(accepted[t]) + 1
  <2>1. /\ UNCHANGED <<plan, session, queue, highest, initialized, shift, batch, out,
                      next, captured, closed, draining, running, closing, poller>>
        /\ producer' = [producer EXCEPT ![t] = "schedule"] /\ producer[t] = "push"
        /\ slot = <<>> /\ slot' = <<p>> /\ accepted' = [accepted EXCEPT ![t] = Append(@, p)]
        /\ captured[t] = session /\ ~closed
    BY <1>2 DEF Push, state, task, outputs, history, Refused, Packet
  <2>2. Tracks' = Tracks /\ Parcels' = Parcels
    BY <2>1 DEF Tracks, Parcels
  <2> HIDE DEF p
  <2>3. /\ accepted \in [Tracks -> Seq(Parcels)] /\ accepted[t] \in Seq(Parcels)
        /\ next \in [Tracks -> Nat] /\ DOMAIN producer = Tracks
    BY DEF PacketInv, Carried
  <2>4. next[t] = n /\ n \in 1..Len(plan.media[t]) /\ p = Packet(t, n) /\ p \in Parcels
        /\ p.track = t /\ p.track \in Tracks /\ n - 1 = Len(accepted[t]) /\ Len(accepted[t]) \in Nat
    <3>1. Len(accepted[t]) \in Nat /\ Len(plan.media[t]) \in Nat
      BY <2>3, LenProperties, PlanIs DEF PacketInv, Carried
    <3>2. Coming(t) = 1
      BY <2>1 DEF Coming
    <3>3. next[t] = n /\ next[t] <= Len(plan.media[t])
      BY <2>1, <3>2 DEF PacketInv, Admitted
    <3>4. n \in 1..Len(plan.media[t])
      BY <3>1, <3>3
    <3>5. p = Packet(t, n)
      BY <3>3 DEF p
    <3>6. Packet(t, n) \in Parcels
      BY <3>4, PlanIs DEF PacketInv, Carried
    <3>7. Packet(t, n).track = t
      BY DEF Packet
    <3> QED
      BY <3>1, <3>3, <3>4, <3>5, <3>6, <3>7
  <2>5. /\ accepted'[t] \in Seq(Parcels) /\ Len(accepted'[t]) = n
        /\ accepted'[t][n] = p /\ \A k \in 1..Len(accepted[t]) : accepted'[t][k] = accepted[t][k]
    BY <2>1, <2>3, <2>4, AppendProperties
  <2>6. \A u \in Tracks : u # t => accepted'[u] = accepted[u]
    BY <2>1, <2>3
  <2>7. /\ DOMAIN accepted[t] = 1..Len(accepted[t]) /\ DOMAIN accepted'[t] = 1..n
        /\ \A k \in DOMAIN accepted'[t] : k \in DOMAIN accepted[t] \/ k = n
        /\ n \in DOMAIN accepted'[t]
        /\ \A k \in DOMAIN accepted[t] : k \in DOMAIN accepted'[t] /\ accepted'[t][k] = accepted[t][k]
    <3>1. DOMAIN accepted[t] = 1..Len(accepted[t]) /\ DOMAIN accepted'[t] = 1..n
      BY <2>3, <2>5, LenProperties
    <3> QED
      BY <2>4, <2>5, <3>1
  <2>8. \A u \in Tracks : \A k \in DOMAIN accepted[u] :
           k \in DOMAIN accepted'[u] /\ accepted'[u][k] = accepted[u][k]
    BY <2>6, <2>7
  <2> HIDE DEF n
  <2>9. Carried'
    <3>1. accepted' \in [Tracks -> Seq(Parcels)]
      BY <2>1, <2>3, <2>5
    <3>2. slot' \in Seq(Parcels) /\ Len(slot') <= 1
      BY <2>1, <2>4
    <3>3. DOMAIN producer' = Tracks
      BY <2>1, <2>3
    <3> QED
      BY <2>1, <2>2, <3>1, <3>2, <3>3 DEF PacketInv, Carried
  <2>10. Admitted'
    <3>1. \A u, k : Packet(u, k)' = Packet(u, k)
      BY <2>1 DEF Packet
    <3>2. ASSUME NEW u \in Tracks
          PROVE  /\ Len(accepted'[u]) <= Len(plan.media[u])
                 /\ \A k \in DOMAIN accepted'[u] : accepted'[u][k] = Packet(u, k)
                 /\ next[u] = Len(accepted'[u]) + Coming(u)'
      <4>0. /\ Len(accepted[u]) <= Len(plan.media[u])
            /\ \A k \in DOMAIN accepted[u] : accepted[u][k] = Packet(u, k)
            /\ next[u] = Len(accepted[u]) + Coming(u)
        BY <2>1 DEF PacketInv, Admitted
      <4>1. CASE u = t
        <5>1. Coming(u)' = 0
          BY <2>1, <2>3, <4>1 DEF Coming
        <5>2. n <= Len(plan.media[t]) /\ n \in Nat
          <6>1. Len(plan.media[t]) \in Nat
            BY PlanIs DEF PacketInv, Carried
          <6> QED
            BY <2>4, <6>1
        <5> QED
          BY <2>4, <2>5, <2>7, <4>0, <4>1, <5>1, <5>2
      <4>2. CASE u # t
        <5>1. Coming(u)' = Coming(u)
          BY <2>1, <2>3, <4>2 DEF Coming
        <5> QED
          BY <2>6, <4>0, <4>2, <5>1
      <4> QED
        BY <4>1, <4>2
    <3> QED
      BY <2>1, <2>2, <3>1, <3>2 DEF PacketInv, Admitted
  <2>11. Marked'
    <3>0. Serving' = Serving
      BY <2>1 DEF Serving
    <3>1. ASSUME Serving, NEW u \in Tracks
          PROVE  /\ InSlot(u)' => accepted'[u] # <<>> /\ slot'[1] = accepted'[u][Len(accepted'[u])]
                 /\ highest[u] = IF Seen(u)' = 0 THEN <<>> ELSE <<accepted'[u][Seen(u)'].dts>>
      <4>0. ~InSlot(u) /\ Len(accepted[u]) \in Nat /\ DOMAIN accepted[u] = 1..Len(accepted[u])
        BY <2>1, <2>3, LenProperties DEF InSlot
      <4>1. highest[u] = IF Len(accepted[u]) = 0 THEN <<>> ELSE <<accepted[u][Len(accepted[u])].dts>>
        BY <3>1, <4>0 DEF PacketInv, Marked, Seen
      <4>2. CASE u = t
        <5>1. InSlot(u)' /\ slot'[1] = p
          BY <2>1, <2>4, <4>2 DEF InSlot
        <5>2. Seen(u)' = Len(accepted[u])
          BY <2>4, <2>5, <4>2, <5>1 DEF Seen
        <5>3. Len(accepted[u]) # 0 => accepted'[u][Len(accepted[u])] = accepted[u][Len(accepted[u])]
          BY <2>5, <4>0, <4>2
        <5>4. accepted'[u] # <<>> /\ slot'[1] = accepted'[u][Len(accepted'[u])]
          BY <2>4, <2>5, <4>2, <5>1
        <5> QED
          BY <4>1, <5>2, <5>3, <5>4
      <4>3. CASE u # t
        <5>1. ~InSlot(u)'
          BY <2>1, <2>4, <4>3 DEF InSlot
        <5>2. accepted'[u] = accepted[u] /\ Seen(u)' = Len(accepted[u])
          BY <2>6, <4>0, <4>3, <5>1 DEF Seen
        <5> QED
          BY <4>1, <5>1, <5>2
      <4> QED
        BY <4>2, <4>3
    <3> QED
      BY <2>1, <2>2, <3>0, <3>1 DEF Marked
  <2>12. Queued'
    <3>1. ASSUME NEW a, Known(a), a.track \in Tracks PROVE Known(a)'
      BY <2>8, <3>1 DEF Known
    <3>2. ASSUME NEW a, a = p PROVE Known(a)'
      BY <2>4, <2>5, <2>7, <3>2 DEF Known
    <3>3. \A i \in DOMAIN queue : queue[i].track \in Tracks
      <4>1. queue \in Seq(Parcels)
        BY DEF PacketInv, Carried
      <4>2. \A i \in DOMAIN queue : queue[i] \in Parcels
        BY <4>1
      <4> QED
        BY <4>2 DEF Parcels
    <3>4. \A i \in DOMAIN slot' : slot'[i] = p
      BY <2>1
    <3>5. \A i \in DOMAIN slot' :
            \E k \in DOMAIN accepted'[slot'[i].track] : accepted'[slot'[i].track][k] = slot'[i]
      BY <3>2, <3>4 DEF Known
    <3>6. \A i \in DOMAIN queue :
            \E k \in DOMAIN accepted'[queue[i].track] : accepted'[queue[i].track][k] = queue[i]
      BY <2>8, <3>3 DEF PacketInv, Queued, Known
    <3>7. Sorted(queue) /\ \A i \in DOMAIN queue :
            highest[queue[i].track] # <<>> /\ queue[i].dts <= highest[queue[i].track][1]
      BY DEF PacketInv, Queued
    <3> QED
      BY <2>1, <3>5, <3>6, <3>7 DEF Queued, Sorted, Before, Known
  <2>13. Shifted'
    <3>0. Serving' = Serving
      BY <2>1 DEF Serving
    <3> QED
      BY <2>1, <2>2, <3>0 DEF PacketInv, Shifted
  <2>15. Covered'
    <3>0. Serving' = Serving
      BY <2>1 DEF Serving
    <3>1. \A i \in DOMAIN batch :
            \E k \in DOMAIN accepted'[batch[i].track] : accepted'[batch[i].track][k] = batch[i]
      <4>1. \A i \in DOMAIN batch : batch[i].track \in Tracks
        <5>1. batch \in Seq(Parcels)
          BY DEF PacketInv, Carried
        <5>2. \A i \in DOMAIN batch : batch[i] \in Parcels
          BY <5>1
        <5> QED
          BY <5>2 DEF Parcels
      <4> QED
        BY <2>8, <4>1 DEF PacketInv, Covered, Known
    <3>2. ASSUME NEW u \in Tracks, accepted[u] # <<>> PROVE accepted'[u][1] = accepted[u][1]
      <4>1. 1 \in DOMAIN accepted[u]
        BY <2>3, <3>2, LenProperties, EmptySeq
      <4> QED
        BY <2>8, <4>1
    <3>3. ASSUME Serving, NEW u \in Tracks, highest[u] # <<>> PROVE accepted[u] # <<>>
      BY <3>3, MarkedBegun
    <3>4. ASSUME Serving, shift = <<>>, NEW u \in Tracks, highest[u] # <<>>
          PROVE  \E i \in DOMAIN queue : queue[i] = accepted'[u][1]
                                       /\ \A j \in 1..(i - 1) : queue[j].track # u
      <4>1. accepted'[u][1] = accepted[u][1]
        BY <3>2, <3>3, <3>4
      <4> QED
        BY <3>4, <4>1 DEF PacketInv, Covered, Opens
    <3>5. ASSUME Serving, shift # <<>>
          PROVE  /\ shift[1] >= 0
                 /\ \A u \in Tracks : /\ Milliseconds(accepted'[u][1].dts) + shift[1] >= 0
                                      /\ Milliseconds(accepted'[u][1].pts) + shift[1] >= 0
      <4>1. ASSUME NEW u \in Tracks PROVE accepted[u] # <<>> /\ accepted'[u][1] = accepted[u][1]
        <5>1. highest[u] # <<>>
          BY <2>1, <3>5 DEF PacketInv, Shifted
        <5> QED
          BY <3>2, <3>3, <3>5, <5>1
      <4> QED
        BY <3>5, <4>1 DEF PacketInv, Covered
    <3>6. (\A i \in DOMAIN batch : Known(batch[i]))'
      BY <2>1, <3>1 DEF Known
    <3>7. Serving /\ shift = <<>> => \A u \in Tracks : highest[u] # <<>> => Opens(queue, u)'
      BY <2>1, <3>4 DEF Opens
    <3> QED
      BY <2>1, <2>2, <3>0, <3>5, <3>6, <3>7 DEF Covered
  <2>14. Released'
    <3>1. \A a : Excused(a) => Excused(a)'
      BY <2>2, <2>8, ExcusedStays
    <3>2. \A a : Settled(a) => Settled(a)'
      BY <2>1, <2>2, <3>1 DEF Settled
    <3> QED
      BY <2>1, <3>1, <3>2 DEF PacketInv, Released, Ordered
  <2> QED
    BY <2>9, <2>10, <2>11, <2>12, <2>13, <2>14, <2>15 DEF PacketInv
<1> QED
  BY <1>1, <1>2

\* What is handled outside the lock was released.
LEMMA OutputPackets ==
  ASSUME Sessions, PacketInv, ProcessOutput PROVE PacketInv'
<1>1. /\ UNCHANGED <<plan, session, slot, queue, highest, initialized, shift, accepted, next, captured,
                    producer, closed, closing, draining, running>>
      /\ batch' = <<>> /\ poller = "output"
  BY DEF ProcessOutput, state, media, outputs, submit
<1>2. Tracks' = Tracks /\ Parcels' = Parcels /\ (Serving' => Serving)
  BY <1>1 DEF Tracks, Parcels, Serving
<1>3. PICK k \in 0..Len(batch) : out' = out \o SubSeq(batch, 1, k)
  <2>1. batch \in Seq(Parcels) /\ Len(batch) \in Nat /\ DOMAIN batch = 1..Len(batch)
    BY LenProperties DEF PacketInv, Carried
  <2>2. Len(batch) \in 0..Len(batch) /\ \A i \in DOMAIN batch : i \in 0..Len(batch)
    BY <2>1
  <2> QED
    BY <2>2 DEF ProcessOutput, Feed
<1> DEFINE b == SubSeq(batch, 1, k)
           s == out \o batch
           r == out \o b
<1>4. out \in Seq(Parcels) /\ batch \in Seq(Parcels) /\ Len(out) \in Nat /\ Len(batch) \in Nat
  BY LenProperties DEF PacketInv, Carried
<1>5. b \in Seq(Parcels) /\ Len(b) = k /\ \A i \in 1..k : b[i] = batch[i]
  <2>1. \A i \in 1..k : batch[i] \in Parcels
    BY <1>4, ElementOfSeq
  <2> QED
    BY <2>1, SubSeqProperties
<1> HIDE DEF b
<1>6. out' \in Seq(Parcels) /\ r = out' /\ r = out \o b /\ out' \o batch' = r
  <2>1. out \o b \in Seq(Parcels)
    BY <1>4, <1>5, ConcatProperties
  <2>2. out' = out \o b
    BY <1>3 DEF b
  <2>3. out' \o <<>> = out'
    BY <2>1, <2>2, ConcatEmptySeq
  <2> QED
    BY <1>1, <2>1, <2>2, <2>3
<1> HIDE DEF r, s
<1>7. \A i \in DOMAIN r : i \in DOMAIN s /\ r[i] = s[i] /\ i \in Nat
  <2>1. /\ s \in Seq(Parcels) /\ Len(s) = Len(out) + Len(batch)
        /\ \A i \in 1..(Len(out) + Len(batch)) :
             s[i] = IF i <= Len(out) THEN out[i] ELSE batch[i - Len(out)]
    BY <1>4, ConcatProperties DEF s
  <2>2. /\ r \in Seq(Parcels) /\ Len(r) = Len(out) + Len(b)
        /\ \A i \in 1..(Len(out) + Len(b)) :
             r[i] = IF i <= Len(out) THEN out[i] ELSE b[i - Len(out)]
    <3>1. /\ out \o b \in Seq(Parcels) /\ Len(out \o b) = Len(out) + Len(b)
          /\ \A i \in 1..(Len(out) + Len(b)) :
               (out \o b)[i] = IF i <= Len(out) THEN out[i] ELSE b[i - Len(out)]
      BY <1>4, <1>5, ConcatProperties
    <3> QED
      BY <1>6, <3>1
  <2>3. DOMAIN s = 1..(Len(out) + Len(batch)) /\ DOMAIN r = 1..(Len(out) + k)
    BY <1>4, <1>5, <2>1, <2>2, LenProperties
  <2>4. ASSUME NEW i \in 1..(Len(out) + k) PROVE i \in 1..(Len(out) + Len(batch)) /\ r[i] = s[i]
    <3>1. i \in 1..(Len(out) + Len(batch))
      BY <1>4
    <3>2. CASE i <= Len(out)
      BY <1>5, <2>1, <2>2, <3>1, <3>2
    <3>3. CASE ~(i <= Len(out))
      <4>1. i - Len(out) \in 1..k
        BY <1>4, <3>3
      <4> QED
        BY <1>5, <2>1, <2>2, <3>1, <3>3, <4>1
    <3> QED
      BY <3>1, <3>2, <3>3
  <2> QED
    BY <1>4, <2>3, <2>4
<1>8. Carried'
  BY <1>1, <1>2, <1>6 DEF PacketInv, Carried
<1>9. Admitted'
  <2>1. \A u, i : Packet(u, i)' = Packet(u, i) /\ Coming(u)' = Coming(u)
    BY <1>1 DEF Packet, Coming
  <2> QED
    BY <1>1, <1>2, <2>1 DEF PacketInv, Admitted
<1>10. Marked'
  <2>1. \A u : InSlot(u)' = InSlot(u) /\ Seen(u)' = Seen(u)
    BY <1>1 DEF InSlot, Seen
  <2> QED
    BY <1>1, <1>2, <2>1 DEF PacketInv, Marked
<1>11. Queued'
  <2>1. \A a : Known(a)' = Known(a)
    BY <1>1 DEF Known
  <2> QED
    BY <1>1, <2>1 DEF PacketInv, Queued, Sorted, Before
<1>12. Shifted'
  BY <1>1, <1>2 DEF PacketInv, Shifted
<1>14. Covered'
  BY <1>1, <1>2, CoveredKept DEF PacketInv
<1>13. Released'
  <2>1. \A a : Excused(a)' = Excused(a)
    BY <1>1, <1>2 DEF Excused
  <2>2. \A a : Settled(a) => Settled(a)'
    BY <1>1, <1>2, <2>1 DEF Settled
  <2>3. Ordered(s) /\ \A i \in DOMAIN s : Settled(s[i])
    BY DEF PacketInv, Released, s
  <2>4. \A i, j \in DOMAIN r : i < j => r[i].dts <= r[j].dts \/ Excused(r[i])
    BY <1>7, <2>3 DEF Ordered
  <2>5. \A i \in DOMAIN r : Settled(r[i])
    BY <1>7, <2>3
  <2> QED
    BY <1>6, <2>1, <2>2, <2>4, <2>5 DEF Released, Ordered
<1> QED
  BY <1>8, <1>9, <1>10, <1>11, <1>12, <1>13, <1>14 DEF PacketInv

-----------------------------------------------------------------------------
(* Process: the packet of the slot goes into the queue.                    *)

\* The packet of the slot does not go back in time.
Orderly == slot # <<>> => ~Regresses(slot[1])

\* The packet in the slot.
LEMMA SlotIs ==
  ASSUME PacketInv, slot # <<>>
  PROVE  /\ slot[1] \in Parcels /\ slot[1] \in Stamps /\ slot[1].track \in Tracks
         /\ slot[1].dts \in Int /\ Known(slot[1]) /\ Len(slot) = 1 /\ 1 \in DOMAIN slot
<1>1. slot \in Seq(Parcels) /\ Len(slot) <= 1 /\ DOMAIN slot = 1..Len(slot) /\ Len(slot) \in Nat
  BY LenProperties DEF PacketInv, Carried
<1>2. Len(slot) # 0
  BY <1>1, EmptySeq
<1>3. Len(slot) = 1 /\ 1 \in DOMAIN slot
  BY <1>1, <1>2
<1>4. slot[1] \in Parcels
  BY <1>1, <1>3, ElementOfSeq
<1>5. slot[1].track \in Tracks /\ slot[1].dts \in Int
  BY <1>4 DEF Parcels
<1>6. Known(slot[1])
  BY <1>3 DEF PacketInv, Queued
<1> QED
  BY <1>3, <1>4, <1>5, <1>6, PlanIs DEF PacketInv, Carried

\* The packets in the interleaver.
LEMMA QueueIs ==
  ASSUME PacketInv
  PROVE  /\ queue \in Seq(Parcels) /\ Len(queue) \in Nat /\ DOMAIN queue = 1..Len(queue)
         /\ \A i \in DOMAIN queue : /\ queue[i] \in Parcels /\ queue[i].track \in Tracks
                                    /\ queue[i].dts \in Int
         /\ Sorted(queue) /\ Parcels \subseteq Stamps
         /\ highest \in [Tracks -> Seq(Int)]
         /\ \A t \in Tracks : highest[t] # <<>> => highest[t][1] \in Int
<1>1. queue \in Seq(Parcels) /\ highest \in [Tracks -> Seq(Int)]
  BY DEF PacketInv, Carried
<1>2. Len(queue) \in Nat /\ DOMAIN queue = 1..Len(queue) /\ \A i \in DOMAIN queue : queue[i] \in Parcels
  BY <1>1, LenProperties, ElementOfSeq
<1>3. \A p \in Parcels : p.track \in Tracks /\ p.dts \in Int
  BY DEF Parcels
<1>4. ASSUME NEW t \in Tracks, highest[t] # <<>> PROVE highest[t][1] \in Int
  <2>1. highest[t] \in Seq(Int) /\ Len(highest[t]) \in Nat \ {0}
    BY <1>1, <1>4, EmptySeq
  <2> QED
    BY <2>1, ElementOfSeq
<1>5. Sorted(queue) /\ Parcels \subseteq Stamps
  BY PlanIs DEF PacketInv, Queued, Carried
<1> QED
  BY <1>1, <1>2, <1>3, <1>4, <1>5

\* The last DTS of each track once the slot has been pushed.
LEMMA WatermarksIs ==
  ASSUME PacketInv, Orderly
  PROVE  /\ Watermarks \in [Tracks -> Seq(Int)]
         /\ \A t \in Tracks : highest[t] # <<>> =>
              Watermarks[t] # <<>> /\ highest[t][1] <= Watermarks[t][1]
         /\ \A t \in Tracks : Watermarks[t] # <<>> => Watermarks[t][1] \in Int
         /\ slot # <<>> => Watermarks[slot[1].track] = <<slot[1].dts>>
<1>1. CASE slot = <<>>
  <2>1. Watermarks = highest
    BY <1>1 DEF Watermarks
  <2>2. \A t \in Tracks : highest[t] # <<>> => highest[t][1] <= highest[t][1]
    BY QueueIs
  <2> QED
    BY <1>1, <2>1, <2>2, QueueIs
<1>2. CASE slot # <<>>
  <2> DEFINE d == slot[1].dts
             u == slot[1].track
             w == <<d>>
  <2>1. d \in Int /\ u \in Tracks /\ highest \in [Tracks -> Seq(Int)]
    BY <1>2, SlotIs, QueueIs
  <2>2. Watermarks = [highest EXCEPT ![u] = w]
    BY <1>2 DEF Watermarks
  <2>3. w \in Seq(Int) /\ w # <<>> /\ w[1] = d
    BY <2>1
  <2>4. ~(highest[u] # <<>> /\ d < highest[u][1])
    BY <1>2 DEF Orderly, Regresses
  <2> HIDE DEF d, u, w
  <2>5. Watermarks \in [Tracks -> Seq(Int)] /\ Watermarks[u] = w
        /\ \A t \in Tracks : t # u => Watermarks[t] = highest[t]
    BY <2>1, <2>2, <2>3
  <2>6. ASSUME NEW t \in Tracks
        PROVE  /\ highest[t] # <<>> => Watermarks[t] # <<>> /\ highest[t][1] <= Watermarks[t][1]
               /\ Watermarks[t] # <<>> => Watermarks[t][1] \in Int
    <3>0. highest[t] # <<>> => highest[t][1] \in Int
      BY QueueIs
    <3>1. CASE t = u
      BY <2>1, <2>3, <2>4, <2>5, <3>0, <3>1
    <3>2. CASE t # u
      BY <2>5, <3>0, <3>2
    <3> QED
      BY <3>1, <3>2
  <2>7. Watermarks[slot[1].track] = <<slot[1].dts>>
    BY <2>5 DEF u, w, d
  <2> QED
    BY <2>5, <2>6, <2>7
<1> QED
  BY <1>1, <1>2

\* The interleaver's queue once the slot has been pushed: sorted, and made of
\* what was there and the packet of the slot.
LEMMA PushedIs ==
  ASSUME PacketInv, Orderly
  PROVE  /\ Pushed \in Seq(Parcels) /\ Len(Pushed) \in Nat /\ DOMAIN Pushed = 1..Len(Pushed)
         /\ Sorted(Pushed)
         /\ \A i \in DOMAIN Pushed : \/ \E j \in DOMAIN queue : Pushed[i] = queue[j]
                                     \/ slot # <<>> /\ Pushed[i] = slot[1]
         /\ \A j \in DOMAIN queue : \E i \in DOMAIN Pushed : Pushed[i] = queue[j]
         /\ slot # <<>> => \E i \in DOMAIN Pushed : Pushed[i] = slot[1]
<1>1. CASE slot = <<>>
  <2>1. Pushed = queue
    BY <1>1 DEF Pushed
  <2> QED
    BY <1>1, <2>1, QueueIs
<1>2. CASE slot # <<>>
  <2>0. Pushed = Inserted(queue, slot[1])
    BY <1>2 DEF Pushed
  <2>1. /\ Pushed \in Seq(Parcels) /\ Sorted(Pushed)
        /\ \A i \in DOMAIN Pushed : Pushed[i] = slot[1] \/ \E j \in DOMAIN queue : Pushed[i] = queue[j]
        /\ \A j \in DOMAIN queue : \E i \in DOMAIN Pushed : Pushed[i] = queue[j]
        /\ \E i \in DOMAIN Pushed : Pushed[i] = slot[1]
    <3> DEFINE p == slot[1]
    <3>1. p \in Parcels /\ queue \in Seq(Parcels) /\ Sorted(queue) /\ Parcels \subseteq Stamps
      BY <1>2, SlotIs, QueueIs
    <3> HIDE DEF p
    <3>2. /\ Inserted(queue, p) \in Seq(Parcels)
          /\ Sorted(Inserted(queue, p))
          /\ Grown(queue, p, Inserted(queue, p))
      BY <3>1, InsertedIs
    <3> QED
      BY <2>0, <3>2 DEF p, Grown
  <2>2. Len(Pushed) \in Nat /\ DOMAIN Pushed = 1..Len(Pushed)
    BY <2>1, LenProperties
  <2> QED
    BY <1>2, <2>1, <2>2
<1> QED
  BY <1>1, <1>2

\* What is in the queue was accepted and lies below the mark of its track.
LEMMA PushedKnown ==
  ASSUME PacketInv, Orderly, NEW i \in DOMAIN Pushed
  PROVE  /\ Pushed[i] \in Parcels /\ Pushed[i].track \in Tracks /\ Pushed[i].dts \in Int
         /\ Known(Pushed[i])
         /\ Watermarks[Pushed[i].track] # <<>>
         /\ Pushed[i].dts <= Watermarks[Pushed[i].track][1]
<1>1. Pushed[i] \in Parcels
  BY PushedIs, ElementOfSeq
<1>2. Pushed[i].track \in Tracks /\ Pushed[i].dts \in Int
  BY <1>1 DEF Parcels
<1>3. CASE \E j \in DOMAIN queue : Pushed[i] = queue[j]
  <2>1. PICK j \in DOMAIN queue : Pushed[i] = queue[j]
    BY <1>3
  <2>2. Known(queue[j]) /\ highest[queue[j].track] # <<>> /\ queue[j].dts <= highest[queue[j].track][1]
    BY DEF PacketInv, Queued
  <2>3. queue[j].track \in Tracks /\ queue[j].dts \in Int /\ highest[queue[j].track][1] \in Int
    BY <2>2, QueueIs
  <2>4. /\ Watermarks[queue[j].track] # <<>> /\ highest[queue[j].track][1] <= Watermarks[queue[j].track][1]
        /\ Watermarks[queue[j].track][1] \in Int
    BY <2>2, <2>3, WatermarksIs
  <2>5. queue[j].dts <= Watermarks[queue[j].track][1]
    BY <2>2, <2>3, <2>4
  <2> QED
    BY <1>1, <1>2, <2>1, <2>2, <2>4, <2>5
<1>4. CASE slot # <<>> /\ Pushed[i] = slot[1]
  <2> DEFINE d == slot[1].dts
             w == <<d>>
  <2>1. Watermarks[slot[1].track] = w /\ d \in Int
    BY <1>4, WatermarksIs, SlotIs
  <2>2. w # <<>> /\ w[1] = d /\ d <= d
    BY <2>1
  <2> QED
    BY <1>1, <1>2, <1>4, <2>1, <2>2, SlotIs
<1> QED
  BY <1>3, <1>4, PushedIs

\* What no Process step changes.
Still == UNCHANGED <<plan, session, accepted, next, captured, producer, closed, closing, draining,
                     running, out>>

\* A step of the poller admits nothing and forgets nothing admitted.
LEMMA StillIs ==
  ASSUME PacketInv, Still
  PROVE  /\ Tracks' = Tracks /\ Parcels' = Parcels /\ Admitted'
         /\ \A p : Excused(p)' = Excused(p)
         /\ \A p : Known(p)' = Known(p)
<1>1. UNCHANGED <<plan, session, accepted, next, captured, producer, closed>>
  BY DEF Still
<1>2. Tracks' = Tracks /\ Parcels' = Parcels
  BY <1>1 DEF Tracks, Parcels
<1>3. \A u, i : Packet(u, i)' = Packet(u, i) /\ Coming(u)' = Coming(u)
  BY <1>1 DEF Packet, Coming
<1>4. Admitted'
  BY <1>1, <1>2, <1>3 DEF PacketInv, Admitted
<1>5. \A p : Excused(p)' = Excused(p)
  BY <1>1, <1>2 DEF Excused
<1>6. \A p : Known(p)' = Known(p)
  BY <1>1 DEF Known
<1> QED
  BY <1>2, <1>4, <1>5, <1>6

\* The marks follow what was accepted.
LEMMA MarkedThrough ==
  ASSUME PacketInv, Orderly, Still, slot' = <<>>, highest' = Watermarks, Serving' => Serving
  PROVE  Marked'
<1>0. Tracks' = Tracks /\ accepted' = accepted
  BY StillIs DEF Still
<1>1. ASSUME Serving, NEW t \in Tracks
      PROVE  /\ ~InSlot(t)' /\ Seen(t)' = Len(accepted[t])
             /\ Watermarks[t] = IF Len(accepted[t]) = 0 THEN <<>>
                                ELSE <<accepted[t][Len(accepted[t])].dts>>
  <2>0. accepted[t] \in Seq(Parcels) /\ Len(accepted[t]) \in Nat
    BY LenProperties DEF PacketInv, Carried
  <2>1. ~InSlot(t)' /\ Seen(t)' = Len(accepted[t])
    BY <1>0, <2>0 DEF InSlot, Seen
  <2>2. /\ InSlot(t) => accepted[t] # <<>> /\ slot[1] = accepted[t][Len(accepted[t])]
        /\ highest[t] = IF Seen(t) = 0 THEN <<>> ELSE <<accepted[t][Seen(t)].dts>>
    BY <1>1 DEF PacketInv, Marked
  <2>3. CASE InSlot(t)
    <3>1. slot # <<>> /\ slot[1].track = t /\ Len(accepted[t]) # 0
      BY <2>0, <2>2, <2>3, EmptySeq DEF InSlot
    <3>2. Watermarks[t] = <<slot[1].dts>>
      BY <3>1, WatermarksIs
    <3> QED
      BY <2>1, <2>2, <2>3, <3>1, <3>2
  <2>4. CASE ~InSlot(t)
    <3>1. Seen(t) = Len(accepted[t])
      BY <2>0, <2>4 DEF Seen
    <3>2. Watermarks[t] = highest[t]
      BY <2>4, QueueIs DEF Watermarks, InSlot
    <3> QED
      BY <2>1, <2>2, <3>1, <3>2
  <2> QED
    BY <2>3, <2>4
<1> HIDE DEF Watermarks
<1>2. ASSUME Serving, NEW t \in Tracks PROVE Seen(t)' = Len(accepted[t]) /\ ~InSlot(t)'
  BY <1>1, <1>2
<1> QED
  BY <1>0, <1>1 DEF Marked

\* Settled once the packet of the slot is in the queue.
Passed(p) ==
  \/ Excused(p)
  \/ /\ \A i \in DOMAIN Pushed : p.dts <= Pushed[i].dts
     /\ closed \/ \A t \in Tracks : Watermarks[t] # <<>> /\ p.dts <= Watermarks[t][1]

\* What is settled stays so.
LEMMA SettledThrough ==
  ASSUME PacketInv, Orderly, Still, slot' = <<>>, highest' = Watermarks, NEW p, p.dts \in Int,
         Settled(p)
  PROVE  Passed(p)
<1>1. SUFFICES ASSUME ~Excused(p)
               PROVE  /\ \A i \in DOMAIN Pushed : p.dts <= Pushed[i].dts
                      /\ closed \/ \A t \in Tracks : Watermarks[t] # <<>> /\ p.dts <= Watermarks[t][1]
  BY DEF Passed
<1>2. /\ \A i \in DOMAIN queue : p.dts <= queue[i].dts
      /\ \/ closed /\ slot = <<>>
         \/ \A t \in Tracks : highest[t] # <<>> /\ p.dts <= highest[t][1]
  BY <1>1 DEF Settled
<1>3. slot # <<>> => p.dts <= slot[1].dts \/ (closed /\ slot = <<>>)
  <2>1. ASSUME slot # <<>>, \A t \in Tracks : highest[t] # <<>> /\ p.dts <= highest[t][1]
        PROVE  p.dts <= slot[1].dts
    <3> DEFINE u == slot[1].track
               d == slot[1].dts
               h == highest[u][1]
    <3>1. u \in Tracks /\ d \in Int
      BY <2>1, SlotIs
    <3>2. highest[u] # <<>> /\ p.dts <= h /\ h \in Int
      BY <2>1, <3>1, QueueIs
    <3>3. ~(d < h)
      BY <2>1, <3>2 DEF Orderly, Regresses
    <3> HIDE DEF d, h
    <3>4. p.dts <= d
      BY <3>1, <3>2, <3>3
    <3> QED
      BY <3>4 DEF d
  <2> QED
    BY <1>2, <2>1
<1>4. \A i \in DOMAIN Pushed : p.dts <= Pushed[i].dts
  BY <1>2, <1>3, PushedIs
<1>5. ASSUME \A t \in Tracks : highest[t] # <<>> /\ p.dts <= highest[t][1], NEW t \in Tracks
      PROVE  Watermarks[t] # <<>> /\ p.dts <= Watermarks[t][1]
  <2>1. highest[t] # <<>> /\ p.dts <= highest[t][1] /\ highest[t][1] \in Int
    BY <1>5, QueueIs
  <2>2. Watermarks[t] # <<>> /\ highest[t][1] <= Watermarks[t][1] /\ Watermarks[t][1] \in Int
    BY <2>1, WatermarksIs
  <2> QED
    BY <2>1, <2>2
<1> QED
  BY <1>2, <1>4, <1>5

\* A packet that was handled or is in hand.
LEMMA ReleasedIs ==
  ASSUME PacketInv, Sessions, poller = "idle"
  PROVE  /\ batch = <<>> /\ out \o batch = out /\ out \in Seq(Parcels) /\ Len(out) \in Nat
         /\ DOMAIN out = 1..Len(out)
         /\ \A i \in DOMAIN out : out[i].dts \in Int /\ Settled(out[i])
         /\ Ordered(out)
<1>1. batch = <<>> /\ out \in Seq(Parcels)
  BY DEF Sessions, Phases, PacketInv, Carried
<1>2. out \o batch = out
  BY <1>1, ConcatEmptySeq
<1>3. Len(out) \in Nat /\ DOMAIN out = 1..Len(out) /\ \A i \in DOMAIN out : out[i] \in Parcels
  BY <1>1, LenProperties, ElementOfSeq
<1>4. \A p \in Parcels : p.dts \in Int
  BY DEF Parcels
<1> QED
  BY <1>1, <1>2, <1>3, <1>4 DEF PacketInv, Released

\* A DTS that goes back throws away what the slot held.
LEMMA ThrowPackets ==
  ASSUME Sessions, PacketInv, ProcessThrow PROVE PacketInv'
<1>1. /\ Still /\ slot' = <<>> /\ batch' = batch /\ poller' = "throw" /\ poller = "idle"
      /\ initialized' = initialized /\ shift' = shift
  BY DEF ProcessThrow, Still, TakesTask, state, outputs, submit, history
<1>2. ~Serving'
  BY <1>1 DEF Serving
<1>3. Marked'
  BY <1>2 DEF Marked
<1>4. Shifted'
  <2>1. batch' = <<>>
    BY <1>1, ReleasedIs
  <2> QED
    BY <1>2, <2>1 DEF Shifted
<1>8. Covered'
  BY <1>1, <1>2, CoveredKept DEF PacketInv, Still
<1>5. Admitted'
  BY <1>1, StillIs
<1>6. CASE UNCHANGED <<queue, highest>>
  <2>1. Carried'
    BY <1>1, <1>6, StillIs DEF PacketInv, Carried, Still
  <2>2. Queued'
    <3>1. \A a : Known(a)' = Known(a)
      BY <1>1, StillIs
    <3> QED
      BY <1>1, <1>6, <3>1 DEF PacketInv, Queued, Sorted, Before
  <2>3. Released'
    <3>1. \A a : Settled(a) => Settled(a)'
      BY <1>1, <1>6, StillIs DEF Settled, Still
    <3> QED
      BY <1>1, <3>1, StillIs DEF PacketInv, Released, Ordered, Still
  <2> QED
    BY <1>3, <1>4, <1>5, <1>8, <2>1, <2>2, <2>3 DEF PacketInv
<1>7. CASE queue' = Pushed /\ highest' = Watermarks /\ Orderly
  <2>1. Carried'
    BY <1>1, <1>7, StillIs, PushedIs, WatermarksIs DEF PacketInv, Carried, Still
  <2>2. Queued'
    <3>1. \A a : Known(a)' = Known(a)
      BY <1>1, StillIs
    <3>2. \A i \in DOMAIN Pushed : /\ Known(Pushed[i]) /\ Watermarks[Pushed[i].track] # <<>>
                                   /\ Pushed[i].dts <= Watermarks[Pushed[i].track][1]
      BY <1>7, PushedKnown
    <3> QED
      BY <1>1, <1>7, <3>1, <3>2, PushedIs DEF Queued, Sorted, Before
  <2>3. Released'
    <3>1. ASSUME NEW a, a.dts \in Int, Settled(a) PROVE Settled(a)'
      <4>1. Passed(a)
        BY <1>1, <1>7, <3>1, SettledThrough
      <4>2. closed' = closed
        BY <1>1 DEF Still
      <4> QED
        BY <1>1, <1>7, <4>1, <4>2, StillIs DEF Settled, Passed
    <3>2. out' \o batch' = out
      BY <1>1, ReleasedIs DEF Still
    <3> QED
      BY <1>1, <3>1, <3>2, StillIs, ReleasedIs DEF Released, Ordered
  <2> QED
    BY <1>3, <1>4, <1>5, <1>8, <2>1, <2>2, <2>3 DEF PacketInv
<1> QED
  BY <1>6, <1>7 DEF ProcessThrow, Orderly

\* How many packets Process releases.
Taken == IF Ready THEN Releasable(Pushed, draining) ELSE 0

\* What a Process takes: a prefix of the interleaver, and the shift with the
\* first packets that are released.
LEMMA TakeIs ==
  ASSUME Sessions, PacketInv, ProcessTake
  PROVE  /\ Still /\ Orderly /\ slot' = <<>> /\ highest' = Watermarks /\ initialized' = Ready
         /\ queue' = SubSeq(Pushed, Taken + 1, Len(Pushed)) /\ batch' = SubSeq(Pushed, 1, Taken)
         /\ shift' = (IF shift = <<>> /\ Taken > 0 THEN ShiftOf(Pushed) ELSE shift)
         /\ poller = "idle" /\ poller' = "output" /\ Taken \in 0..Len(Pushed)
         /\ \A j \in 0..(Taken - 1) : Goes(Pushed, draining, j)
         /\ draining => Taken = Len(Pushed) /\ closed
<1>1. /\ Still /\ Orderly /\ slot' = <<>> /\ highest' = Watermarks /\ initialized' = Ready
         /\ queue' = SubSeq(Pushed, Taken + 1, Len(Pushed)) /\ batch' = SubSeq(Pushed, 1, Taken)
         /\ shift' = (IF shift = <<>> /\ Taken > 0 THEN ShiftOf(Pushed) ELSE shift)
         /\ poller = "idle" /\ poller' = "output"
  BY DEF ProcessTake, Still, Orderly, Taken, TakesTask, outputs, submit, history
<1>2. Len(Pushed) \in Nat
  BY <1>1, PushedIs
<1>3. CASE Ready
  <2>1. Taken = Releasable(Pushed, draining)
    BY <1>3 DEF Taken
  <2>2. Taken \in 0..Len(Pushed) /\ \A j \in 0..(Taken - 1) : Goes(Pushed, draining, j)
    BY <1>2, <2>1, ReleasableIs
  <2>3. ~Goes(Pushed, draining, Taken)
    BY <1>2, <2>1, ReleasableIs
  <2>4. ASSUME draining PROVE Taken = Len(Pushed) /\ closed
    <3>1. ~(Taken < Len(Pushed))
      BY <2>3, <2>4 DEF Goes
    <3>2. closed
      BY <2>4 DEF Sessions, Gate, Typed
    <3> QED
      BY <1>2, <2>2, <3>1, <3>2
  <2> QED
    BY <1>1, <2>2, <2>4
<1>4. CASE ~Ready
  <2>1. Taken = 0 /\ ~draining
    BY <1>4 DEF Taken, Ready
  <2> QED
    BY <1>1, <1>2, <2>1
<1> QED
  BY <1>3, <1>4

\* The types of the two parts.
LEMMA TakenIs ==
  ASSUME Sessions, PacketInv, ProcessTake
  PROVE  /\ queue' \in Seq(Parcels) /\ batch' \in Seq(Parcels)
         /\ DOMAIN queue' = 1..(Len(Pushed) - Taken) /\ DOMAIN batch' = 1..Taken
         /\ Len(batch') = Taken
         /\ \A i \in DOMAIN queue' : queue'[i] = Pushed[Taken + i] /\ Taken + i \in DOMAIN Pushed
         /\ \A i \in DOMAIN batch' : batch'[i] = Pushed[i] /\ i \in DOMAIN Pushed
         /\ Taken \in Nat
<1>1. Taken \in 0..Len(Pushed) /\ Len(Pushed) \in Nat /\ DOMAIN Pushed = 1..Len(Pushed)
      /\ \A i \in 1..Len(Pushed) : Pushed[i] \in Parcels
  BY TakeIs, PushedIs, ElementOfSeq
<1> DEFINE q == SubSeq(Pushed, Taken + 1, Len(Pushed))
           b == SubSeq(Pushed, 1, Taken)
<1>2. /\ q \in Seq(Parcels) /\ Len(q) = Len(Pushed) - Taken
      /\ \A i \in 1..(Len(Pushed) - Taken) : q[i] = Pushed[Taken + i]
  <2>1. \A i \in (Taken + 1)..Len(Pushed) : Pushed[i] \in Parcels
    BY <1>1
  <2>2. /\ q \in Seq(Parcels)
        /\ Len(q) = IF Taken + 1 <= Len(Pushed) THEN Len(Pushed) - (Taken + 1) + 1 ELSE 0
        /\ \A i \in 1..(Len(Pushed) - (Taken + 1) + 1) : q[i] = Pushed[(Taken + 1) + i - 1]
    BY <1>1, <2>1, SubSeqProperties
  <2> HIDE DEF q
  <2>3. Len(q) = Len(Pushed) - Taken /\ Len(Pushed) - (Taken + 1) + 1 = Len(Pushed) - Taken
    <3>1. ASSUME NEW l \in Nat, NEW n \in 0..l
          PROVE  (IF n + 1 <= l THEN l - (n + 1) + 1 ELSE 0) = l - n /\ l - (n + 1) + 1 = l - n
      OBVIOUS
    <3>2. /\ (IF Taken + 1 <= Len(Pushed) THEN Len(Pushed) - (Taken + 1) + 1 ELSE 0) = Len(Pushed) - Taken
          /\ Len(Pushed) - (Taken + 1) + 1 = Len(Pushed) - Taken
      BY <1>1, <3>1
    <3> QED
      BY <2>2, <3>2
  <2>4. \A i \in 1..(Len(Pushed) - Taken) : (Taken + 1) + i - 1 = Taken + i
    BY <1>1
  <2> QED
    BY <2>2, <2>3, <2>4
<1>3. /\ b \in Seq(Parcels) /\ Len(b) = Taken /\ \A i \in 1..Taken : b[i] = Pushed[i]
  <2>1. \A i \in 1..Taken : Pushed[i] \in Parcels
    BY <1>1
  <2> QED
    BY <1>1, <2>1, SubSeqProperties
<1> HIDE DEF q, b
<1>4. DOMAIN q = 1..(Len(Pushed) - Taken) /\ DOMAIN b = 1..Taken
  BY <1>1, <1>2, <1>3, LenProperties
<1>5. \A i \in 1..(Len(Pushed) - Taken) : Taken + i \in DOMAIN Pushed
  BY <1>1
<1>6. \A i \in 1..Taken : i \in DOMAIN Pushed
  BY <1>1
<1>7. queue' = q /\ batch' = b
  BY TakeIs DEF q, b
<1> QED
  BY <1>1, <1>2, <1>3, <1>4, <1>5, <1>6, <1>7

\* Once the shift is fixed it lifts every later packet, and every track that
\* has not started when the packets are closed stays away.
LEMMA Lifted ==
  ASSUME PacketInv, Orderly, Serving, shift # <<>>
  PROVE  /\ shift[1] \in Int
         /\ \A i \in DOMAIN Pushed : Milliseconds(Pushed[i].dts) + shift[1] >= 0
         /\ \A t \in Tracks : IF Watermarks[t] = <<>> THEN closed
                              ELSE Milliseconds(Watermarks[t][1]) + shift[1] >= 0
<1> DEFINE s == shift[1]
<1>1. s \in Int
  <2>1. shift \in Seq(Int) /\ Len(shift) \in Nat \ {0}
    BY EmptySeq DEF PacketInv, Carried
  <2> QED
    BY <2>1, ElementOfSeq
<1>2. /\ \A i \in DOMAIN queue : Milliseconds(queue[i].dts) + s >= 0
      /\ \A t \in Tracks : IF highest[t] = <<>> THEN closed /\ slot = <<>>
                           ELSE Milliseconds(highest[t][1]) + s >= 0
  BY DEF PacketInv, Shifted
<1> HIDE DEF s
<1>6. ASSUME NEW a \in Int, NEW b \in Int, a <= b, Milliseconds(a) + s >= 0
      PROVE  Milliseconds(b) + s >= 0
  <2>1. Milliseconds(a) \in Int /\ Milliseconds(b) \in Int /\ Milliseconds(a) <= Milliseconds(b)
    BY <1>6, MillisecondsIs
  <2> QED
    BY <1>1, <1>6, <2>1
<1>3. ASSUME slot # <<>> PROVE Milliseconds(slot[1].dts) + s >= 0
  <2> DEFINE u == slot[1].track
             d == slot[1].dts
             h == highest[u][1]
  <2>1. u \in Tracks /\ d \in Int
    BY <1>3, SlotIs
  <2>2. highest[u] # <<>> /\ Milliseconds(h) + s >= 0 /\ h \in Int
    BY <1>2, <1>3, <2>1, QueueIs
  <2>3. ~(d < h)
    BY <1>3, <2>2 DEF Orderly, Regresses
  <2> HIDE DEF d, h
  <2>4. Milliseconds(d) + s >= 0
    BY <1>6, <2>1, <2>2, <2>3
  <2> QED
    BY <2>4 DEF d
<1>4. \A i \in DOMAIN Pushed : Milliseconds(Pushed[i].dts) + s >= 0
  BY <1>2, <1>3, PushedIs
<1>5. ASSUME NEW t \in Tracks
      PROVE  IF Watermarks[t] = <<>> THEN closed ELSE Milliseconds(Watermarks[t][1]) + s >= 0
  <2>1. CASE highest[t] = <<>>
    <3>1. closed /\ slot = <<>>
      BY <1>2, <2>1
    <3>2. Watermarks[t] = <<>>
      BY <2>1, <3>1 DEF Watermarks
    <3> QED
      BY <3>1, <3>2
  <2>2. CASE highest[t] # <<>>
    <3>1. Milliseconds(highest[t][1]) + s >= 0 /\ highest[t][1] \in Int
      BY <1>2, <2>2, QueueIs
    <3>2. Watermarks[t] # <<>> /\ highest[t][1] <= Watermarks[t][1] /\ Watermarks[t][1] \in Int
      BY <2>2, WatermarksIs
    <3>3. Milliseconds(Watermarks[t][1]) + s >= 0
      BY <1>6, <3>1, <3>2
    <3> QED
      BY <3>2, <3>3
  <2> QED
    BY <2>1, <2>2
<1> QED
  BY <1>1, <1>4, <1>5 DEF s

\* Before the first release every track that has started has a packet in the
\* interleaver that is no later than its last one.
LEMMA Witnessed ==
  ASSUME PacketInv, Orderly, Serving, shift = <<>>, NEW t \in Tracks, Watermarks[t] # <<>>
  PROVE  \E i \in DOMAIN Pushed : Pushed[i].track = t /\ Pushed[i].dts <= Watermarks[t][1]
<1>1. CASE slot # <<>> /\ slot[1].track = t
  <2>1. PICK i \in DOMAIN Pushed : Pushed[i] = slot[1]
    BY <1>1, PushedIs
  <2>2. Pushed[i].dts <= Watermarks[Pushed[i].track][1]
    BY PushedKnown
  <2> QED
    BY <1>1, <2>1, <2>2
<1>2. CASE ~(slot # <<>> /\ slot[1].track = t)
  <2>1. Watermarks[t] = highest[t]
    BY <1>2, QueueIs DEF Watermarks
  <2>2. PICK j \in DOMAIN queue : queue[j].track = t /\ queue[j].dts <= highest[t][1]
    BY <2>1 DEF PacketInv, Shifted
  <2>3. PICK i \in DOMAIN Pushed : Pushed[i] = queue[j]
    BY PushedIs
  <2> QED
    BY <2>1, <2>2, <2>3
<1> QED
  BY <1>1, <1>2

\* Nothing is released outside a session.
LEMMA TakeServes ==
  ASSUME Sessions, PacketInv, ProcessTake
  PROVE  /\ Serving' = Serving
         /\ ~Serving => ~running /\ Taken = 0 /\ DOMAIN batch' = {} /\ DOMAIN queue' = {}
<1>1. Serving' = running /\ Serving = running
  <2>1. running' = running /\ closing' = closing /\ ~closing /\ running \in BOOLEAN
    BY DEF ProcessTake, Sessions, Typed
  <2>2. poller = "idle" /\ poller' = "output"
    BY TakeIs
  <2> QED
    BY <2>1, <2>2 DEF Serving
<1>2. ASSUME ~running PROVE Taken = 0 /\ DOMAIN batch' = {} /\ DOMAIN queue' = {}
  <2>1. Pushed = <<>>
    BY <1>2 DEF Sessions, Gate, Pushed
  <2>2. Taken \in 0..Len(Pushed) /\ Len(Pushed) = 0
    BY <2>1, TakeIs
  <2>3. Taken = 0
    BY <2>2
  <2>4. DOMAIN queue' = 1..(Len(Pushed) - Taken) /\ DOMAIN batch' = 1..Taken
    BY TakenIs
  <2> QED
    BY <2>2, <2>3, <2>4
<1> QED
  BY <1>1, <1>2

\* The shift a release makes or finds lifts the whole queue.
LEMMA ShiftLifts ==
  ASSUME Sessions, PacketInv, ProcessTake, Serving, shift' # <<>>
  PROVE  /\ \A i \in DOMAIN Pushed : Milliseconds(Pushed[i].dts) + shift'[1] >= 0
         /\ \A t \in Tracks : IF Watermarks[t] = <<>> THEN closed
                              ELSE Milliseconds(Watermarks[t][1]) + shift'[1] >= 0
<1>0. Orderly
  BY TakeIs
<1>1. CASE shift # <<>>
  <2>1. shift' = shift
    BY <1>1, TakeIs
  <2> QED
    BY <1>0, <1>1, <2>1, Lifted
<1>2. CASE shift = <<>>
  <2> DEFINE m == Minimum(Times(Pushed))
  <2>1. Taken > 0 /\ shift' = ShiftOf(Pushed)
    BY <1>2, TakeIs
  <2>2. Pushed \in Seq(Parcels) /\ Sorted(Pushed) /\ Parcels \subseteq Stamps
    BY <1>0, PushedIs, QueueIs
  <2>4. /\ ShiftOf(Pushed) = <<-m>> /\ m \in Int
        /\ \A i \in DOMAIN Pushed : Milliseconds(Pushed[i].dts) + (-m) >= 0
    BY <2>2, ShiftIs
  <2>5. shift'[1] = -m
    BY <2>1, <2>4
  <2> HIDE DEF m
  <2>6. ASSUME NEW t \in Tracks, Watermarks[t] # <<>> PROVE Milliseconds(Watermarks[t][1]) + (-m) >= 0
    <3>1. PICK i \in DOMAIN Pushed : Pushed[i].track = t /\ Pushed[i].dts <= Watermarks[t][1]
      BY <1>0, <1>2, <2>6, Witnessed
    <3>2. /\ Pushed[i].dts \in Int /\ Watermarks[t][1] \in Int
          /\ Milliseconds(Pushed[i].dts) + (-m) >= 0
      BY <1>0, <2>4, <2>6, PushedKnown, WatermarksIs
    <3>3. /\ Milliseconds(Pushed[i].dts) \in Int /\ Milliseconds(Watermarks[t][1]) \in Int
          /\ Milliseconds(Pushed[i].dts) <= Milliseconds(Watermarks[t][1])
      BY <3>1, <3>2, MillisecondsIs
    <3> QED
      BY <2>4, <3>2, <3>3
  <2>7. ASSUME NEW t \in Tracks, Watermarks[t] = <<>> PROVE closed
    <3>1. Ready
      BY <2>1 DEF Taken
    <3>2. initialized => draining \/ \A u \in Tracks : highest[u] # <<>>
      BY DEF PacketInv, Shifted
    <3>3. highest[t] = <<>>
      BY <1>0, <2>7, WatermarksIs
    <3>4. draining
      BY <2>7, <3>1, <3>2, <3>3 DEF Ready
    <3> QED
      BY <3>4, TakeIs
  <2> QED
    BY <2>4, <2>5, <2>6, <2>7
<1> QED
  BY <1>1, <1>2

\* The shift that is fixed by the first release lifts every packet to come.
LEMMA TakeShifted ==
  ASSUME Sessions, PacketInv, ProcessTake PROVE Shifted'
<1>0. /\ Orderly /\ slot' = <<>> /\ highest' = Watermarks /\ initialized' = Ready
      /\ Tracks' = Tracks /\ draining' = draining /\ closed' = closed
  BY TakeIs, StillIs DEF Still
<1>1. CASE ~Serving
  BY <1>1, TakeServes DEF Shifted
<1>2. CASE Serving
  <2>1. \A i \in DOMAIN batch' : shift' # <<>> /\ Milliseconds(batch'[i].dts) + shift'[1] >= 0
    <3>1. ASSUME NEW i \in DOMAIN batch' PROVE shift' # <<>>
      <4>1. Taken > 0
        BY TakenIs
      <4>2. shift' = ShiftOf(Pushed) \/ (shift' = shift /\ shift # <<>>)
        <5>1. shift' = (IF shift = <<>> /\ Taken > 0 THEN ShiftOf(Pushed) ELSE shift)
          BY TakeIs
        <5>2. CASE shift = <<>>
          BY <4>1, <5>1, <5>2
        <5>3. CASE shift # <<>>
          BY <5>1, <5>3
        <5> QED
          BY <5>2, <5>3
      <4>3. ShiftOf(Pushed) # <<>>
        BY DEF ShiftOf
      <4> QED
        BY <4>2, <4>3
    <3>2. ASSUME NEW i \in DOMAIN batch' PROVE Milliseconds(batch'[i].dts) + shift'[1] >= 0
      BY <1>2, <3>1, ShiftLifts, TakenIs
    <3> QED
      BY <3>1, <3>2
  <2>2. Ready => draining \/ \A t \in Tracks : Watermarks[t] # <<>>
    <3>1. initialized => draining \/ \A u \in Tracks : highest[u] # <<>>
      BY <1>2 DEF PacketInv, Shifted
    <3> QED
      BY <1>0, <3>1, WatermarksIs DEF Ready
  <2>3. ASSUME shift' # <<>>
        PROVE  /\ \A i \in DOMAIN queue' : Milliseconds(queue'[i].dts) + shift'[1] >= 0
               /\ \A t \in Tracks :
                    IF Watermarks[t] = <<>> THEN closed
                    ELSE Milliseconds(Watermarks[t][1]) + shift'[1] >= 0
    BY <1>2, <2>3, ShiftLifts, TakenIs
  <2>4. ASSUME shift' = <<>>, NEW t \in Tracks, Watermarks[t] # <<>>
        PROVE  \E i \in DOMAIN queue' : queue'[i].track = t /\ queue'[i].dts <= Watermarks[t][1]
    <3>1. Taken = 0 /\ shift = <<>>
      <4>1. ShiftOf(Pushed) # <<>>
        BY DEF ShiftOf
      <4>2. Taken \in Nat
        BY TakenIs
      <4> QED
        BY <2>4, <4>1, <4>2, TakeIs
    <3>2. PICK i \in DOMAIN Pushed : Pushed[i].track = t /\ Pushed[i].dts <= Watermarks[t][1]
      BY <1>0, <1>2, <2>4, <3>1, Witnessed
    <3>3. Len(Pushed) \in Nat /\ DOMAIN Pushed = 1..Len(Pushed)
      BY <1>0, PushedIs
    <3>4. i \in DOMAIN queue' /\ queue'[i] = Pushed[i]
      <4>1. DOMAIN queue' = 1..(Len(Pushed) - 0) /\ \A n \in DOMAIN queue' : queue'[n] = Pushed[0 + n]
        BY <3>1, TakenIs
      <4>2. i \in 1..(Len(Pushed) - 0) /\ 0 + i = i
        BY <3>3
      <4> QED
        BY <4>1, <4>2
    <3> QED
      BY <3>2, <3>4
  <2> HIDE DEF Watermarks, Ready
  <2> QED
    BY <1>0, <1>2, <2>1, <2>2, <2>3, <2>4, TakeServes DEF Shifted
<1> QED
  BY <1>1, <1>2

\* A track that has begun before the first release opens the queue with its
\* first packet.
LEMMA OpensPushed ==
  ASSUME PacketInv, Orderly, Serving, shift = <<>>, NEW t \in Tracks, Watermarks[t] # <<>>
  PROVE  Opens(Pushed, t)
<1>1. CASE slot = <<>>
  <2>1. Pushed = queue /\ Watermarks = highest
    BY <1>1 DEF Pushed, Watermarks
  <2> QED
    BY <2>1 DEF PacketInv, Covered
<1>2. CASE slot # <<>>
  <2> DEFINE p == slot[1]
             r == Inserted(queue, p)
  <2>1. /\ p \in Parcels /\ p.track \in Tracks /\ p.dts \in Int
        /\ Pushed = r /\ queue \in Seq(Parcels) /\ Sorted(queue) /\ Parcels \subseteq Stamps
        /\ Len(queue) \in Nat /\ DOMAIN queue = 1..Len(queue)
        /\ DOMAIN Pushed = 1..Len(Pushed)
    BY <1>2, SlotIs, QueueIs, PushedIs DEF Pushed
  <2> HIDE DEF p
  <2>2. PICK k \in 0..Len(queue) :
          /\ r \in Seq(Parcels)
          /\ Len(r) = Len(queue) + 1 /\ r[k + 1] = p
          /\ \A i \in 1..k : r[i] = queue[i]
          /\ \A i \in (k + 2)..(Len(queue) + 1) : r[i] = queue[i - 1]
          /\ \A i \in 1..k : Before(queue[i], p)
          /\ \A i \in (k + 1)..Len(queue) : Before(p, queue[i]) /\ ~Before(queue[i], p)
    BY <2>1, InsertedWhere
  <2> HIDE DEF r
  <2>3. /\ Len(r) = Len(queue) + 1 /\ r[k + 1] = p
        /\ \A n \in 1..k : r[n] = queue[n]
        /\ \A n \in (k + 2)..(Len(queue) + 1) : r[n] = queue[n - 1]
    BY <2>2
  <2>4. CASE p.track = t /\ highest[t] = <<>>
    <3>1. \A i \in DOMAIN queue : queue[i].track # t
      BY <2>4 DEF PacketInv, Queued
    <3>2. InSlot(t) /\ accepted[t] # <<>> /\ p = accepted[t][Len(accepted[t])] /\ Seen(t) = 0
      <4>1. InSlot(t)
        BY <1>2, <2>4 DEF InSlot, p
      <4> DEFINE w == <<accepted[t][Seen(t)].dts>>
      <4>2. /\ accepted[t] # <<>> /\ p = accepted[t][Len(accepted[t])]
            /\ highest[t] = IF Seen(t) = 0 THEN <<>> ELSE w
        BY <4>1 DEF PacketInv, Marked, p
      <4>3. w # <<>>
        OBVIOUS
      <4> HIDE DEF w
      <4> QED
        BY <2>4, <4>1, <4>2, <4>3
    <3>3. Len(accepted[t]) = 1
      <4>1. Len(accepted[t]) \in Nat
        BY LenProperties DEF PacketInv, Carried
      <4> QED
        BY <3>2, <4>1 DEF Seen
    <3>4. r[k + 1] = accepted[t][1]
      BY <2>3, <3>2, <3>3
    <3>5. ASSUME NEW j \in 1..((k + 1) - 1) PROVE r[j].track # t
      <4>1. j \in 1..k /\ j \in DOMAIN queue
        BY <2>1
      <4> QED
        BY <2>3, <3>1, <4>1
    <3>6. k + 1 \in DOMAIN r
      BY <2>1, <2>3
    <3>7. \E i \in DOMAIN r : r[i] = accepted[t][1] /\ \A j \in 1..(i - 1) : r[j].track # t
      BY <3>4, <3>5, <3>6
    <3> QED
      BY <2>1, <3>7 DEF Opens
  <2>5. CASE highest[t] # <<>>
    <3>1. PICK i \in DOMAIN queue : /\ queue[i] = accepted[t][1]
                                    /\ \A j \in 1..(i - 1) : queue[j].track # t
      BY <2>5 DEF PacketInv, Covered, Opens
    <3>2. i \in 1..Len(queue) /\ queue[i] \in Parcels
      BY <2>1, <3>1, QueueIs
    <3>3. queue[i].track = t
      <4>1. accepted[t] # <<>>
        BY <2>5, MarkedBegun
      <4>2. 1 \in DOMAIN accepted[t]
        BY <4>1, LenProperties, EmptySeq DEF PacketInv, Carried
      <4>3. accepted[t][1] = Packet(t, 1)
        BY <4>2 DEF PacketInv, Admitted
      <4> QED
        BY <3>1, <4>3 DEF Packet
    <3>4. p.track = t => i <= k
      <4>1. ASSUME p.track = t, ~(i <= k) PROVE FALSE
        <5>1. i \in (k + 1)..Len(queue)
          BY <3>2, <4>1
        <5>2. Before(p, queue[i]) /\ ~Before(queue[i], p)
          BY <2>2, <5>1
        <5>3. highest[t] # <<>> /\ ~(p.dts < highest[t][1]) /\ highest[t][1] \in Int
          BY <1>2, <2>5, <4>1, QueueIs DEF Orderly, Regresses, p
        <5>7. queue[i].dts <= highest[queue[i].track][1]
          BY DEF PacketInv, Queued
        <5>4. queue[i].dts <= highest[t][1] /\ queue[i].dts \in Int
          BY <3>3, <5>7, QueueIs
        <5>5. p.dts <= queue[i].dts
          BY <2>1, <3>2, <5>2, BeforeOrders
        <5>6. Before(queue[i], p)
          <6>1. p.dts \in Int /\ t \in Nat
            BY <2>1, PlanIs DEF PacketInv, Carried
          <6>2. queue[i].dts = p.dts
            BY <5>3, <5>4, <5>5, <6>1
          <6> QED
            BY <3>3, <4>1, <6>1, <6>2 DEF Before
        <5> QED
          BY <5>2, <5>6
      <4> QED
        BY <4>1
    <3>5. CASE i <= k
      <4>1. r[i] = accepted[t][1] /\ i \in DOMAIN r
        BY <2>1, <2>3, <3>1, <3>2, <3>5
      <4>2. ASSUME NEW j \in 1..(i - 1) PROVE r[j].track # t
        <5>1. j \in 1..k /\ r[j] = queue[j]
          BY <2>3, <3>2, <3>5
        <5> QED
          BY <3>1, <5>1
      <4> QED
        BY <2>1, <4>1, <4>2 DEF Opens
    <3>6. CASE ~(i <= k)
      <4>1. i + 1 \in (k + 2)..(Len(queue) + 1) /\ (i + 1) - 1 = i /\ i + 1 \in DOMAIN r
        BY <2>1, <2>3, <3>2, <3>6
      <4>2. r[i + 1] = accepted[t][1]
        BY <2>3, <3>1, <4>1
      <4>3. ASSUME NEW j \in 1..((i + 1) - 1) PROVE r[j].track # t
        <5>1. j \in 1..k \/ j = k + 1 \/ (j \in (k + 2)..(Len(queue) + 1) /\ j - 1 \in 1..(i - 1))
          BY <2>1, <3>2, <3>6
        <5>2. CASE j \in 1..k
          <6>1. j \in 1..(i - 1)
            BY <3>2, <3>6, <5>2
          <6> QED
            BY <2>3, <3>1, <5>2, <6>1
        <5>3. CASE j = k + 1
          BY <2>3, <3>4, <3>6, <5>3
        <5>4. CASE j \in (k + 2)..(Len(queue) + 1) /\ j - 1 \in 1..(i - 1)
          BY <2>3, <3>1, <5>4
        <5> QED
          BY <5>1, <5>2, <5>3, <5>4
      <4> QED
        BY <2>1, <4>1, <4>2, <4>3 DEF Opens
    <3> QED
      BY <3>5, <3>6
  <2>6. p.track # t => highest[t] # <<>>
    BY <1>2, QueueIs DEF Watermarks, p
  <2> QED
    BY <2>4, <2>5, <2>6
<1> QED
  BY <1>1, <1>2

\* The shift made by the first release covers the first packet of every track.
LEMMA TakeCovered ==
  ASSUME Sessions, PacketInv, ProcessTake PROVE Covered'
<1>0. /\ Still /\ Orderly /\ highest' = Watermarks /\ Tracks' = Tracks /\ accepted' = accepted
      /\ Serving' = Serving
  BY TakeIs, StillIs, TakeServes DEF Still
<1>1. (\A i \in DOMAIN batch : Known(batch[i]))'
  <2>1. \A i \in DOMAIN batch' : batch'[i] = Pushed[i] /\ i \in DOMAIN Pushed
    BY TakenIs
  <2>2. \A i \in DOMAIN Pushed : Known(Pushed[i])
    BY <1>0, PushedKnown
  <2>3. \A i \in DOMAIN batch' : Known(batch'[i])
    BY <2>1, <2>2
  <2> QED
    BY <1>0, <2>3 DEF Known
<1>2. ASSUME Serving, shift' = <<>>, NEW t \in Tracks, Watermarks[t] # <<>> PROVE Opens(queue, t)'
  <2>1. Taken = 0 /\ shift = <<>>
    <3>1. ShiftOf(Pushed) # <<>>
      BY DEF ShiftOf
    <3>2. Taken \in Nat
      BY TakenIs
    <3> QED
      BY <1>2, <3>1, <3>2, TakeIs
  <2>2. PICK i \in DOMAIN Pushed : /\ Pushed[i] = accepted[t][1]
                                   /\ \A j \in 1..(i - 1) : Pushed[j].track # t
    BY <1>0, <1>2, <2>1, OpensPushed DEF Opens
  <2>3. Len(Pushed) \in Nat /\ DOMAIN Pushed = 1..Len(Pushed)
    BY <1>0, PushedIs
  <2>4. DOMAIN queue' = DOMAIN Pushed /\ \A n \in DOMAIN Pushed : queue'[n] = Pushed[n]
    <3>1. DOMAIN queue' = 1..(Len(Pushed) - 0) /\ \A n \in DOMAIN queue' : queue'[n] = Pushed[0 + n]
      BY <2>1, TakenIs
    <3> QED
      BY <2>3, <3>1
  <2>5. \A j \in 1..(i - 1) : j \in DOMAIN Pushed
    BY <2>3
  <2> QED
    BY <1>0, <2>2, <2>4, <2>5 DEF Opens
<1>3. ASSUME Serving, shift' # <<>>
      PROVE  /\ shift'[1] >= 0
             /\ \A t \in Tracks : accepted[t] # <<>> =>
                  /\ Milliseconds(accepted[t][1].dts) + shift'[1] >= 0
                  /\ Milliseconds(accepted[t][1].pts) + shift'[1] >= 0
  <2>1. CASE shift # <<>>
    <3>1. shift' = shift
      BY <2>1, TakeIs
    <3> QED
      BY <1>3, <2>1, <3>1 DEF PacketInv, Covered
  <2>2. CASE shift = <<>>
    <3> DEFINE m == Minimum(Times(Pushed))
    <3>1. shift' = ShiftOf(Pushed)
      BY <1>3, <2>2, TakeIs
    <3>2. Pushed \in Seq(Parcels) /\ Sorted(Pushed) /\ Parcels \subseteq Stamps
      BY <1>0, PushedIs, QueueIs
    <3>3. /\ ShiftOf(Pushed) = <<-m>> /\ m \in Int /\ m <= 0
          /\ \A p \in FirstPackets(Pushed) : /\ Milliseconds(p.dts) + (-m) >= 0
                                             /\ Milliseconds(p.pts) + (-m) >= 0
      BY <3>2, ShiftIs
    <3> HIDE DEF m
    <3>4. shift'[1] = -m /\ shift'[1] >= 0
      BY <3>1, <3>3
    <3>5. ASSUME NEW t \in Tracks, accepted[t] # <<>> PROVE accepted[t][1] \in FirstPackets(Pushed)
      <4>1. 1 \in DOMAIN accepted[t]
        BY <3>5, LenProperties, EmptySeq DEF PacketInv, Carried
      <4>2. accepted[t][1].track = t
        <5>1. accepted[t][1] = Packet(t, 1)
          BY <4>1 DEF PacketInv, Admitted
        <5> QED
          BY <5>1 DEF Packet
      <4>3. Watermarks[t] # <<>>
        <5>1. Marked'
          BY <1>0, MarkedThrough, TakeIs
        <5>2. ~InSlot(t)' /\ Seen(t)' # 0
          <6>1. ~InSlot(t)'
            BY TakeIs DEF InSlot
          <6>2. Len(accepted[t]) # 0 /\ Len(accepted[t]) \in Nat
            BY <3>5, EmptySeq DEF PacketInv, Carried
          <6> QED
            BY <1>0, <6>1, <6>2 DEF Seen
        <5> DEFINE w == <<accepted'[t][Seen(t)'].dts>>
        <5>3. highest'[t] = IF Seen(t)' = 0 THEN <<>> ELSE w
          BY <1>0, <1>3, <5>1 DEF Marked
        <5>4. w # <<>>
          OBVIOUS
        <5> HIDE DEF w
        <5> QED
          BY <1>0, <5>2, <5>3, <5>4
      <4>4. PICK i \in DOMAIN Pushed : /\ Pushed[i] = accepted[t][1]
                                       /\ \A j \in 1..(i - 1) : Pushed[j].track # t
        BY <1>0, <1>3, <2>2, <4>3, OpensPushed DEF Opens
      <4> QED
        BY <4>2, <4>4 DEF FirstPackets
    <3> QED
      BY <3>3, <3>4, <3>5
  <2> QED
    BY <2>1, <2>2
<1> HIDE DEF Watermarks
<1> QED
  BY <1>0, <1>1, <1>2, <1>3 DEF Covered

\* What stays in the interleaver is sorted and was accepted.
LEMMA TakeQueued ==
  ASSUME Sessions, PacketInv, ProcessTake PROVE Queued'
<1>0. /\ Orderly /\ slot' = <<>> /\ highest' = Watermarks /\ accepted' = accepted
  BY TakeIs DEF Still
<1>1. \A i \in DOMAIN queue' : queue'[i] = Pushed[Taken + i] /\ Taken + i \in DOMAIN Pushed /\ i \in Nat
  BY TakenIs
<1>2. Sorted(Pushed) /\ Taken \in Nat
  BY <1>0, PushedIs, TakenIs
<1>3. \A i, j \in DOMAIN queue' : i <= j => Before(queue'[i], queue'[j])
  <2>1. ASSUME NEW i \in DOMAIN queue', NEW j \in DOMAIN queue', i <= j
        PROVE  Before(queue'[i], queue'[j])
    <3>1. Taken + i <= Taken + j
      BY <1>1, <1>2, <2>1
    <3>2. Before(Pushed[Taken + i], Pushed[Taken + j])
      BY <1>1, <1>2, <3>1 DEF Sorted
    <3> QED
      BY <1>1, <3>2
  <2> QED
    BY <2>1
<1>4. ASSUME NEW i \in DOMAIN queue'
      PROVE  /\ \E k \in DOMAIN accepted[queue'[i].track] : accepted[queue'[i].track][k] = queue'[i]
             /\ Watermarks[queue'[i].track] # <<>>
             /\ queue'[i].dts <= Watermarks[queue'[i].track][1]
  BY <1>0, <1>1, PushedKnown DEF Known
<1>5. DOMAIN slot' = {}
  BY <1>0
<1> HIDE DEF Watermarks
<1> QED
  BY <1>0, <1>3, <1>4, <1>5 DEF Queued, Sorted, Known, Before

\* A packet is released when every other track is ahead of it, or Delta passed.
LEMMA TakePassed ==
  ASSUME Sessions, PacketInv, ProcessTake, NEW i \in 1..Taken
  PROVE  \/ Excused(Pushed[i])
         \/ draining
         \/ \A t \in Tracks : Watermarks[t] # <<>> /\ Pushed[i].dts <= Watermarks[t][1]
<1>0. Orderly
  BY TakeIs
<1>1. /\ Taken \in 0..Len(Pushed) /\ Len(Pushed) \in Nat /\ DOMAIN Pushed = 1..Len(Pushed)
      /\ i \in DOMAIN Pushed /\ i - 1 \in 0..(Taken - 1) /\ (i - 1) + 1 = i
      /\ Sorted(Pushed) /\ \A n \in DOMAIN Pushed : Pushed[n] \in Parcels /\ Pushed[n] \in Stamps
  BY <1>0, TakeIs, PushedIs, PushedKnown, QueueIs
<1> DEFINE r == SubSeq(Pushed, i, Len(Pushed))
<1>2. draining \/ AllTracksBuffered(r) \/ ExceedsDelta(r)
  <2>1. Goes(Pushed, draining, i - 1)
    BY <1>1, TakeIs
  <2> QED
    BY <1>1, <2>1 DEF Goes
<1>3. /\ r \in Seq(Parcels) /\ Len(r) = Len(Pushed) - i + 1 /\ DOMAIN r = 1..(Len(Pushed) - i + 1)
      /\ \A n \in 1..(Len(Pushed) - i + 1) : r[n] = Pushed[i + n - 1]
  <2>1. \A n \in i..Len(Pushed) : Pushed[n] \in Parcels
    BY <1>1
  <2>2. i <= Len(Pushed) /\ i \in Int /\ Len(Pushed) \in Int
    BY <1>1
  <2>3. /\ r \in Seq(Parcels) /\ Len(r) = Len(Pushed) - i + 1
        /\ \A n \in 1..(Len(Pushed) - i + 1) : r[n] = Pushed[i + n - 1]
    BY <2>1, <2>2, SubSeqProperties
  <2>4. DOMAIN r = 1..Len(r)
    BY <2>3, LenProperties
  <2> HIDE DEF r
  <2> QED
    BY <2>3, <2>4
<1> HIDE DEF r
<1>4. ASSUME NEW n \in DOMAIN r
      PROVE  /\ i + n - 1 \in DOMAIN Pushed /\ r[n] = Pushed[i + n - 1]
             /\ Pushed[i].dts <= r[n].dts
  <2>0. n \in 1..(Len(Pushed) - i + 1) /\ i \in Nat /\ i >= 1 /\ i <= Len(Pushed)
    BY <1>1, <1>3, <1>4
  <2>1. i + n - 1 \in DOMAIN Pushed /\ i <= i + n - 1 /\ r[n] = Pushed[i + n - 1]
    <3>1. i + n - 1 \in 1..Len(Pushed) /\ i <= i + n - 1
      BY <1>1, <2>0
    <3> QED
      BY <1>1, <1>3, <2>0, <3>1
  <2>2. Before(Pushed[i], Pushed[i + n - 1])
    BY <1>1, <2>1 DEF Sorted
  <2>3. Pushed[i].dts <= Pushed[i + n - 1].dts
    BY <1>1, <2>1, <2>2, BeforeOrders
  <2> QED
    BY <2>1, <2>3
<1>5. CASE AllTracksBuffered(r)
  <2>1. ASSUME NEW t \in Tracks PROVE Watermarks[t] # <<>> /\ Pushed[i].dts <= Watermarks[t][1]
    <3>1. PICK n \in DOMAIN r : r[n].track = t
      BY <1>5 DEF AllTracksBuffered
    <3> DEFINE m == i + n - 1
    <3>2. m \in DOMAIN Pushed /\ Pushed[m].track = t /\ Pushed[i].dts <= Pushed[m].dts
      BY <1>4, <3>1
    <3> HIDE DEF m
    <3>3. Watermarks[t] # <<>> /\ Pushed[m].dts <= Watermarks[t][1] /\ Pushed[m].dts \in Int
      BY <1>0, <3>2, PushedKnown
    <3>4. Watermarks[t][1] \in Int /\ Pushed[i].dts \in Int
      BY <1>0, <1>1, <3>3, WatermarksIs, PushedKnown
    <3> QED
      BY <3>2, <3>3, <3>4
  <2> QED
    BY <2>1
<1>6. CASE ExceedsDelta(r)
  <2>1. Len(r) \in DOMAIN r /\ 1 \in DOMAIN r /\ Last(r) = r[Len(r)] /\ Head(r) = r[1]
        /\ r[1] = Pushed[i] /\ r # <<>>
    <3>1. Len(r) \in DOMAIN r /\ 1 \in DOMAIN r /\ i + 1 - 1 = i
      BY <1>1, <1>3
    <3>2. r[1] = Pushed[i]
      BY <1>4, <3>1
    <3> QED
      BY <1>3, <3>1, <3>2 DEF Last
  <2> DEFINE m == i + Len(r) - 1
  <2>2. m \in DOMAIN Pushed /\ r[Len(r)] = Pushed[m]
    BY <1>4, <2>1
  <2>3. Pushed[m].dts - Pushed[i].dts > Delta
    BY <1>6, <2>1, <2>2 DEF ExceedsDelta
  <2> HIDE DEF m
  <2>4. Known(Pushed[m]) /\ Pushed[m].track \in Tracks /\ Pushed[m].dts \in Int /\ Pushed[i].dts \in Int
    BY <1>0, <1>1, <2>2, PushedKnown
  <2>5. Pushed[m].dts > Pushed[i].dts + Delta
    BY <2>3, <2>4, RemuxerAssumption
  <2>6. Excused(Pushed[i])
    BY <2>4, <2>5 DEF Excused, Known
  <2> QED
    BY <2>6
<1> QED
  BY <1>2, <1>5, <1>6

\* What is released comes behind what was, in order.
LEMMA TakeReleased ==
  ASSUME Sessions, PacketInv, ProcessTake PROVE Released'
<1>0. /\ Still /\ Orderly /\ slot' = <<>> /\ highest' = Watermarks /\ poller = "idle"
      /\ out' = out /\ closed' = closed /\ Tracks' = Tracks /\ (draining => closed)
      /\ (draining => Taken = Len(Pushed)) /\ Len(Pushed) \in Nat
  BY TakeIs, StillIs, PushedIs DEF Still
<1>1. /\ out \in Seq(Parcels) /\ Len(out) \in Nat /\ Ordered(out)
      /\ \A i \in DOMAIN out : out[i].dts \in Int /\ Settled(out[i])
      /\ DOMAIN out = 1..Len(out)
  BY <1>0, ReleasedIs
<1> DEFINE b == SubSeq(Pushed, 1, Taken)
           s == out \o b
<1>2. /\ b \in Seq(Parcels) /\ Len(b) = Taken /\ Taken \in Nat /\ DOMAIN b = 1..Taken
      /\ \A i \in 1..Taken : b[i] = Pushed[i] /\ i \in DOMAIN Pushed
  <2>1. batch' = b
    BY TakeIs
  <2> QED
    BY <2>1, TakenIs
<1> HIDE DEF b
<1>3. /\ s \in Seq(Parcels) /\ Len(s) = Len(out) + Taken
      /\ \A i \in 1..(Len(out) + Taken) :
           s[i] = IF i <= Len(out) THEN out[i] ELSE b[i - Len(out)]
  BY <1>1, <1>2, ConcatProperties
<1>4. out' \o batch' = s /\ DOMAIN s = 1..(Len(out) + Taken)
  <2>1. batch' = b
    BY TakeIs DEF b
  <2>2. DOMAIN s = 1..Len(s)
    BY <1>3, LenProperties
  <2> QED
    BY <1>0, <1>3, <2>1, <2>2
<1> HIDE DEF s
<1>5. ASSUME NEW i \in DOMAIN s
      PROVE  \/ i \in DOMAIN out /\ i <= Len(out) /\ s[i] = out[i]
             \/ i > Len(out) /\ i - Len(out) \in 1..Taken /\ s[i] = Pushed[i - Len(out)]
  <2>0. i \in 1..(Len(out) + Taken)
    BY <1>4
  <2>1. CASE i <= Len(out)
    BY <1>1, <1>2, <1>3, <2>0, <2>1
  <2>2. CASE ~(i <= Len(out))
    <3>1. i - Len(out) \in 1..Taken /\ i > Len(out)
      BY <1>1, <1>2, <2>0, <2>2
    <3>2. s[i] = b[i - Len(out)]
      BY <1>3, <2>0, <2>2
    <3> QED
      BY <1>2, <3>1, <3>2
  <2> QED
    BY <2>1, <2>2
<1>6. ASSUME NEW i \in DOMAIN out PROVE Passed(out[i])
  BY <1>0, <1>1, SettledThrough
<1>7. ASSUME NEW i \in 1..Taken, NEW j \in DOMAIN Pushed, i <= j
      PROVE  Pushed[i].dts <= Pushed[j].dts
  <2>1. Before(Pushed[i], Pushed[j])
    BY <1>0, <1>2, <1>7, PushedIs DEF Sorted
  <2>2. Pushed[i] \in Stamps /\ Pushed[j] \in Stamps
    BY <1>0, <1>2, PushedKnown, QueueIs
  <2> QED
    BY <2>1, <2>2, BeforeOrders
<1>8. ASSUME NEW i \in DOMAIN s, NEW p, p = s[i] PROVE Settled(p)'
  <2>0. \A n \in DOMAIN queue' : queue'[n] = Pushed[Taken + n] /\ Taken + n \in DOMAIN Pushed /\ n \in Nat
    BY TakenIs
  <2>1. Excused(p)' <=> Excused(p)
    BY <1>0, StillIs
  <2>2. CASE i \in DOMAIN out /\ s[i] = out[i]
    <3>1. Passed(p)
      BY <1>6, <1>8, <2>2
    <3> HIDE DEF Watermarks
    <3> QED
      BY <1>0, <2>0, <2>1, <3>1 DEF Passed, Settled
  <2>3. CASE i - Len(out) \in 1..Taken /\ s[i] = Pushed[i - Len(out)]
    <3> DEFINE n == i - Len(out)
    <3>0. n \in 1..Taken /\ p = Pushed[n]
      BY <1>8, <2>3
    <3> HIDE DEF n
    <3>1. \A m \in DOMAIN queue' : p.dts <= queue'[m].dts
      <4>1. ASSUME NEW m \in DOMAIN queue' PROVE p.dts <= queue'[m].dts
        <5>1. n <= Taken + m
          BY <1>2, <2>0, <3>0
        <5> QED
          BY <1>7, <2>0, <3>0, <5>1
      <4> QED
        BY <4>1
    <3>2. \/ Excused(Pushed[n]) \/ draining
          \/ \A t \in Tracks : Watermarks[t] # <<>> /\ Pushed[n].dts <= Watermarks[t][1]
      BY <3>0, TakePassed
    <3>3. \/ Excused(p) \/ draining
          \/ \A t \in Tracks : Watermarks[t] # <<>> /\ p.dts <= Watermarks[t][1]
      BY <3>0, <3>2
    <3>4. \/ Excused(p)' \/ closed
          \/ \A t \in Tracks : Watermarks[t] # <<>> /\ p.dts <= Watermarks[t][1]
      BY <1>0, <2>1, <3>3
    <3> HIDE DEF Watermarks
    <3> QED
      BY <1>0, <3>1, <3>4 DEF Settled
  <2> QED
    BY <1>5, <2>2, <2>3
<1>9. ASSUME NEW i \in DOMAIN s, NEW j \in DOMAIN s, i < j
      PROVE  s[i].dts <= s[j].dts \/ Excused(s[i])
  <2>0. i \in Nat /\ j \in Nat
    BY <1>4
  <2>1. CASE i \in DOMAIN out /\ s[i] = out[i]
    <3>1. CASE j \in DOMAIN out /\ s[j] = out[j]
      BY <1>1, <1>9, <2>1, <3>1 DEF Ordered
    <3>2. CASE j - Len(out) \in 1..Taken /\ s[j] = Pushed[j - Len(out)]
      BY <1>2, <1>6, <2>1, <3>2 DEF Passed
    <3> QED
      BY <1>5, <3>1, <3>2
  <2>2. CASE i > Len(out) /\ i - Len(out) \in 1..Taken /\ s[i] = Pushed[i - Len(out)]
    <3>1. j - Len(out) \in 1..Taken /\ s[j] = Pushed[j - Len(out)]
      BY <1>1, <1>5, <1>9, <2>0, <2>2
    <3>2. i - Len(out) <= j - Len(out)
      BY <1>1, <1>9, <2>0
    <3> QED
      BY <1>2, <1>7, <2>2, <3>1, <3>2
  <2> QED
    BY <1>5, <2>1, <2>2
<1>10. \A p : Excused(p)' <=> Excused(p)
  BY <1>0, StillIs
<1>11. Ordered(out \o batch)'
  BY <1>4, <1>9, <1>10 DEF Ordered
<1>12. ASSUME NEW i \in DOMAIN (out' \o batch') PROVE Settled((out \o batch)[i])'
  <2>1. i \in DOMAIN s /\ (out' \o batch')[i] = s[i]
    BY <1>4, <1>12
  <2>2. ASSUME NEW p, p = (out' \o batch')[i] PROVE Settled(p)'
    BY <1>8, <2>1, <2>2
  <2> QED
    BY <2>2 DEF Settled, Excused
<1> QED
  BY <1>11, <1>12 DEF Released

\* A Process keeps all that is said of packets.
LEMMA TakePackets ==
  ASSUME Sessions, PacketInv, ProcessTake PROVE PacketInv'
<1>0. /\ Still /\ Orderly /\ slot' = <<>> /\ highest' = Watermarks /\ Tracks' = Tracks
      /\ Parcels' = Parcels /\ out' = out
  BY TakeIs, StillIs DEF Still
<1>1. Carried'
  <2>1. shift' \in Seq(Int)
    <3>1. shift \in Seq(Int)
      BY DEF PacketInv, Carried
    <3>2. CASE shift' = ShiftOf(Pushed) /\ Taken > 0
      <4>1. Pushed \in Seq(Parcels) /\ Parcels \subseteq Stamps
        BY <1>0, PushedIs, QueueIs
      <4> DEFINE m == Minimum(Times(Pushed))
      <4>3. ShiftOf(Pushed) = <<-m>> /\ m \in Int
        BY <4>1, TimesIs
      <4> HIDE DEF m
      <4> QED
        BY <3>2, <4>3
    <3> QED
      BY <3>1, <3>2, TakeIs
  <2>2. queue' \in Seq(Parcels) /\ batch' \in Seq(Parcels)
    BY TakenIs
  <2>3. Watermarks \in [Tracks -> Seq(Int)]
    BY <1>0, WatermarksIs
  <2>4. UNCHANGED <<plan, session, accepted, next, captured, producer, out>>
    BY <1>0 DEF Still
  <2> HIDE DEF Watermarks
  <2> QED
    BY <1>0, <2>1, <2>2, <2>3, <2>4 DEF PacketInv, Carried
<1>2. Admitted'
  BY <1>0, StillIs
<1>3. Marked'
  BY <1>0, MarkedThrough, TakeServes
<1> QED
  BY <1>1, <1>2, <1>3, TakeQueued, TakeShifted, TakeCovered, TakeReleased DEF PacketInv

-----------------------------------------------------------------------------
(* Outputs.                                                                *)

OutputInv == Joining /\ Outlets

\* Steps that attach nothing and hand nothing out.
Idle ==
  /\ UNCHANGED <<registration, attached, feeds, batch, out, since, fed>>
  /\ Serving' => Serving /\ poller' = poller
  /\ running' => running
  /\ recordOnly' => recordOnly
  /\ \/ UNCHANGED <<control, pending>>
     \/ control # "register" /\ control' \notin {"record", "attaching", "register"}

\* A step that gives nothing to an output keeps what is said of them.
LEMMA IdleOutputs ==
  ASSUME OutputInv, Idle PROVE OutputInv'
<1>1. Joining'
  <2>1. CASE UNCHANGED <<control, pending>>
    BY <2>1 DEF OutputInv, Joining, Idle
  <2>2. CASE control # "register" /\ control' \notin {"record", "attaching", "register"}
    BY <2>2 DEF OutputInv, Joining, Idle
  <2> QED
    BY <2>1, <2>2 DEF Idle
<1>2. Outlets'
  <2>1. Serving' => \A o : Supplied(o) => Supplied(o)'
    BY DEF Idle, Supplied
  <2> QED
    BY <2>1 DEF OutputInv, Outlets, Idle
<1> QED
  BY <1>1, <1>2 DEF OutputInv

\* Start, Drain and Stop give nothing to an output.
LEMMA IdleControl ==
  ASSUME Sessions, Start \/ StartSync \/ Drain \/ Stop PROVE Idle
BY DEF Idle, Start, StartSync, Drain, Stop, Serving, state, media, task, submit, history, outputs

\* A submission gives nothing to an output.
LEMMA IdleSubmit ==
  ASSUME NEW t, Submit(t) \/ Push(t) \/ SubmitSchedule(t) PROVE Idle
BY DEF Idle, Submit, Push, SubmitSchedule, Serving, state, media, task, history, outputs

\* Nor do the poller's tasks but those that attach and put out.
LEMMA IdlePoller ==
  ASSUME Sessions,
         \/ ProcessLate \/ ProcessThrow \/ ProcessError \/ PusherError \/ ProcessClose
         \/ FinishTask \/ StoppedTask
  PROVE  Idle
<1> USE DEF Idle, Serving, state, media, task, history, outputs
<1>1. CASE ProcessLate
  BY <1>1 DEF ProcessLate
<1>2. CASE ProcessThrow
  BY <1>2 DEF ProcessThrow
<1>3. CASE ProcessError
  BY <1>3 DEF ProcessError
<1>4. CASE PusherError
  BY <1>4 DEF PusherError
<1>5. CASE ProcessClose
  BY <1>5 DEF ProcessClose
<1>6. CASE FinishTask
  BY <1>6 DEF FinishTask
<1>7. CASE StoppedTask
  BY <1>7 DEF StoppedTask
<1> QED
  BY <1>1, <1>2, <1>3, <1>4, <1>5, <1>6, <1>7

\* Nor does the end of a close.
LEMMA IdleFlush ==
  ASSUME Sessions, ProcessFlush PROVE Idle
<1>1. UNCHANGED <<registration, attached, feeds, batch, out, since, fed, running, recordOnly,
                  closing, control, pending>>
  BY DEF ProcessFlush, outputs
<1>2. closing
  BY DEF Sessions, Phases, ProcessFlush
<1> QED
  BY <1>1, <1>2 DEF Idle, Serving

\* A new session attaches what is registered and has released nothing.
LEMMA StartOutputs ==
  ASSUME Sessions, OutputInv, StartTask PROVE OutputInv'
<1>1. control' = "idle" /\ UNCHANGED <<poller, batch, feeds, registration, pending>>
      /\ tasks \in Seq(Names) /\ tasks # <<>> /\ Head(tasks) = "start" /\ poller = "idle"
  BY DEF StartTask, task, Sessions, Typed
<1>2. control = "starting" /\ feeds = {} /\ batch = <<>>
  BY <1>1, InTail DEF Sessions, Errands, Phases
<1>3. CASE UNCHANGED <<running, closing, attached, recordOnly, history>>
  BY <1>1, <1>2, <1>3, IdleOutputs DEF Idle, Serving, history
<1>4. CASE /\ attached' = registration /\ Fresh
           /\ recordOnly' = (registration # {} /\ registration \subseteq Files)
  <2>1. out' = <<>> /\ since' = [o \in Outputs |-> 0] /\ fed' = [o \in Outputs |-> <<>>]
    BY <1>4 DEF Fresh
  <2>2. Joining'
    BY <1>1, <1>2, <1>4 DEF Joining
  <2>3. SubSeq(<<>>, 1, 0) = <<>> /\ Len(<<>>) = 0
    OBVIOUS
  <2>4. \A o \in Outputs : Supplied(o)'
    BY <1>1, <2>1, <2>3 DEF Supplied
  <2> QED
    BY <1>1, <1>4, <2>1, <2>2, <2>4 DEF OutputInv, Outlets
<1> QED
  BY <1>3, <1>4 DEF StartTask, history

\* An Add call takes an output that is not registered.
LEMMA RegisterOutputs ==
  ASSUME Sessions, OutputInv, NEW o \in Outputs, Register(o) PROVE OutputInv'
<1>1. UNCHANGED <<running, closing, poller, attached, feeds, batch, out, since, fed, recordOnly>>
      /\ o \notin registration /\ control = "idle"
  BY DEF Register, state, media, task, submit, history
<1>2. CASE ~running
  <2>1. registration' = registration \cup {o} /\ UNCHANGED <<control, pending>>
    BY <1>2 DEF Register
  <2> QED
    BY <1>1, <1>2, <2>1 DEF OutputInv, Joining, Outlets, Serving
<1>3. CASE running
  <2>1. registration' = registration /\ control' \in {"record", "attaching"} /\ pending' = {o}
    BY <1>3 DEF Register
  <2>2. \A x : Supplied(x)' = Supplied(x)
    BY <1>1 DEF Supplied
  <2> QED
    BY <1>1, <2>1, <2>2 DEF OutputInv, Joining, Outlets, Serving
<1> QED
  BY <1>2, <1>3 DEF Sessions, Typed

\* An output is registered once it is attached, or when there is no session.
LEMMA DoneOutputs ==
  ASSUME Sessions, OutputInv, RegisterDone \/ StopDone PROVE OutputInv'
<1>1. CASE RegisterDone
  <2>1. UNCHANGED <<running, closing, poller, attached, feeds, batch, out, since, fed, recordOnly>>
        /\ registration' = registration \cup pending /\ control = "register" /\ control' = "idle"
    BY <1>1 DEF RegisterDone, state, media, task, submit, history
  <2>2. \A x : Supplied(x)' = Supplied(x)
    BY <2>1 DEF Supplied
  <2>3. pending \subseteq Outputs
    BY DEF Sessions, Calls
  <2> QED
    BY <2>1, <2>2, <2>3 DEF OutputInv, Joining, Outlets, Serving
<1>2. CASE StopDone
  <2>1. UNCHANGED <<running, attached, feeds, since, fed, recordOnly>> /\ ~running
        /\ registration' = {} /\ control' = "idle"
    BY <1>2 DEF StopDone, task, history
  <2> QED
    BY <2>1 DEF OutputInv, Joining, Outlets, Serving
<1> QED
  BY <1>1, <1>2

\* An output is attached with nothing given to it and nothing due.
LEMMA AttachOutputs ==
  ASSUME Sessions, OutputInv, PacketInv, control \in {"record", "attaching"},
         \A o \in pending : Attach(o), control = "attaching" => poller = "idle",
         control' = "register", recordOnly' => recordOnly /\ control = "record",
         UNCHANGED <<running, closing, accepting, poller, feeds, batch, out, registration, pending>>,
         running
  PROVE  OutputInv'
<1>1. PICK o \in Outputs : pending = {o} /\ (control = "record" <=> o \in Files)
  BY DEF Sessions, Calls
<1>2. /\ attached' = attached \cup {o} /\ since' = [since EXCEPT ![o] = Len(out) + Len(batch)]
      /\ fed' = [fed EXCEPT ![o] = <<>>]
  BY <1>1 DEF Attach
<1>3. Len(out) \in Nat /\ Len(batch) \in Nat /\ since \in [Outputs -> Nat] /\ DOMAIN fed = Outputs
      /\ attached \subseteq Outputs
  BY DEF PacketInv, Carried, OutputInv, Outlets
<1>4. o \notin registration /\ attached \subseteq registration /\ feeds \subseteq attached
  BY <1>1 DEF OutputInv, Joining
<1>5. since' \in [Outputs -> Nat] /\ DOMAIN fed' = Outputs
      /\ since'[o] = Len(out) + Len(batch) /\ fed'[o] = <<>>
      /\ \A x \in Outputs : x # o => since'[x] = since[x] /\ fed'[x] = fed[x]
  BY <1>2, <1>3
<1>6. Joining'
  BY <1>1, <1>2, <1>4 DEF Joining
<1>7. recordOnly' => attached' \subseteq Files
  BY <1>1, <1>2 DEF OutputInv, Outlets
<1>8. Serving' = Serving
  BY DEF Serving
<1>9. ASSUME Serving, NEW x \in attached' PROVE Supplied(x)'
  <2>1. CASE x = o
    <3> DEFINE n == Len(out) + Len(batch)
    <3>1. SubSeq(out, n + 1, Len(out)) = <<>>
      <4>1. n \in Int /\ n + 1 > Len(out)
        BY <1>3
      <4> HIDE DEF n
      <4>2. SubSeq(out, n + 1, Len(out)) = <<>>
        BY <1>3, <4>1 DEF PacketInv, Carried
      <4> QED
        BY <4>2
    <3>2. o \notin feeds
      BY <1>4
    <3>3. poller # "output" => n <= Len(out)
      <4>1. poller # "output" => batch = <<>>
        BY DEF Sessions, Phases
      <4> QED
        BY <1>3, <4>1
    <3>4. poller = "output" => o \in Files
      BY <1>1
    <3> HIDE DEF n
    <3>5. since'[o] = n /\ fed'[o] = <<>>
      BY <1>5 DEF n
    <3> QED
      BY <2>1, <3>1, <3>2, <3>3, <3>4, <3>5 DEF Supplied, n
  <2>2. CASE x # o
    <3>1. Supplied(x) /\ x \in Outputs
      BY <1>2, <1>3, <1>9, <2>2 DEF OutputInv, Outlets
    <3> QED
      BY <1>5, <2>2, <3>1 DEF Supplied
  <2> QED
    BY <2>1, <2>2
<1>10. Outlets'
  <2>1. Serving => registration \subseteq attached
    BY DEF OutputInv, Outlets
  <2>2. registration \subseteq Outputs /\ attached' \subseteq Outputs
    BY <1>2, <1>3 DEF OutputInv, Outlets
  <2> QED
    BY <1>1, <1>2, <1>5, <1>7, <1>8, <1>9, <2>1, <2>2 DEF Outlets
<1> QED
  BY <1>6, <1>10 DEF OutputInv

\* An output that is attached owes nothing that was released before.
LEMMA JoinOutputs ==
  ASSUME Sessions, OutputInv, PacketInv, RegisterFile \/ AttachTask PROVE OutputInv'
<1>1. CASE RegisterFile
  <2>1. CASE accepting
    <3>1. running
      BY <2>1 DEF Sessions, Gate
    <3>2. /\ control = "record" /\ \A o \in pending : Attach(o)
          /\ control' = "register" /\ recordOnly' = recordOnly
          /\ UNCHANGED <<running, closing, accepting, poller, feeds, batch, out, registration, pending>>
      BY <1>1, <2>1 DEF RegisterFile, state, task
    <3> QED
      BY <3>1, <3>2, AttachOutputs
  <2>2. CASE ~accepting
    <3>1. Idle
      BY <1>1, <2>2 DEF RegisterFile, Idle, Serving, state, task
    <3> QED
      BY <3>1, IdleOutputs
  <2> QED
    BY <2>1, <2>2
<1>2. CASE AttachTask
  <2>1. tasks \in Seq(Names) /\ tasks # <<>> /\ Head(tasks) = "attach" /\ poller = "idle"
    BY <1>2 DEF AttachTask, Sessions, Typed
  <2>2. control = "attaching"
    BY <2>1, InTail DEF Sessions, Errands
  <2>3. CASE accepting /\ (\A o \in pending : Attach(o)) /\ ConversionResumes
             /\ control' = "register" /\ UNCHANGED pending
    <3>1. running
      BY <2>3 DEF Sessions, Gate
    <3>2. UNCHANGED <<running, closing, accepting, poller, feeds, batch, out, registration, pending>>
          /\ ~recordOnly'
      BY <1>2, <2>3 DEF AttachTask, ConversionResumes, state, task
    <3> QED
      BY <2>1, <2>2, <2>3, <3>1, <3>2, AttachOutputs
  <2>4. CASE control' = "idle" /\ UNCHANGED <<attached, since, fed, recordOnly>>
    <3>1. Idle
      BY <1>2, <2>2, <2>4 DEF AttachTask, Idle, Serving, state, task
    <3> QED
      BY <3>1, IdleOutputs
  <2> QED
    BY <1>2, <2>3, <2>4 DEF AttachTask
<1> QED
  BY <1>1, <1>2

\* What follows an index in a sequence that grows.
LEMMA Remainder ==
  ASSUME NEW P, NEW q \in Seq(P), NEW b \in Seq(P), NEW s \in 0..Len(q)
  PROVE  SubSeq(q, s + 1, Len(q)) \o b = SubSeq(q \o b, s + 1, Len(q \o b))
<1> DEFINE l == SubSeq(q, s + 1, Len(q))
           c == q \o b
           r == SubSeq(c, s + 1, Len(c))
           n == Len(q)
           m == Len(b)
<1>1. n \in Nat /\ m \in Nat /\ s \in 0..n
  OBVIOUS
<1>2. /\ c \in Seq(P) /\ Len(c) = n + m
      /\ \A i \in 1..(n + m) : c[i] = IF i <= n THEN q[i] ELSE b[i - n]
  BY ConcatProperties
<1>3. /\ l \in Seq(P) /\ Len(l) = n - s
      /\ \A i \in 1..(n - s) : l[i] = q[s + i]
  <2>1. \A i \in (s + 1)..n : q[i] \in P
    BY <1>1, ElementOfSeq
  <2>2. /\ l \in Seq(P)
        /\ Len(l) = (IF s + 1 <= n THEN n - (s + 1) + 1 ELSE 0)
        /\ \A i \in 1..(n - (s + 1) + 1) : l[i] = q[(s + 1) + i - 1]
    BY <1>1, <2>1, SubSeqProperties
  <2> HIDE DEF l, n
  <2>3. (IF s + 1 <= n THEN n - (s + 1) + 1 ELSE 0) = n - s /\ n - (s + 1) + 1 = n - s
    BY <1>1
  <2>4. \A i \in 1..(n - s) : (s + 1) + i - 1 = s + i
    BY <1>1
  <2> QED
    BY <2>2, <2>3, <2>4
<1> HIDE DEF c
<1>4. /\ r \in Seq(P) /\ Len(r) = (n + m) - s
      /\ \A i \in 1..((n + m) - s) : r[i] = c[s + i]
  <2>1. \A i \in (s + 1)..(n + m) : c[i] \in P
    <3>1. DOMAIN c = 1..(n + m) /\ \A i \in DOMAIN c : c[i] \in P
      BY <1>2, LenProperties, ElementOfSeq
    <3> QED
      BY <1>1, <3>1
  <2>2. r = SubSeq(c, s + 1, n + m) /\ n + m \in Nat
    BY <1>1, <1>2
  <2>3. /\ r \in Seq(P)
        /\ Len(r) = (IF s + 1 <= n + m THEN (n + m) - (s + 1) + 1 ELSE 0)
        /\ \A i \in 1..((n + m) - (s + 1) + 1) : r[i] = c[(s + 1) + i - 1]
    BY <1>1, <2>1, <2>2, SubSeqProperties
  <2> HIDE DEF r, n, m
  <2>4. (IF s + 1 <= n + m THEN (n + m) - (s + 1) + 1 ELSE 0) = (n + m) - s
        /\ (n + m) - (s + 1) + 1 = (n + m) - s
    BY <1>1
  <2>5. \A i \in 1..((n + m) - s) : (s + 1) + i - 1 = s + i
    BY <1>1
  <2> QED
    BY <2>3, <2>4, <2>5
<1> DEFINE d == l \o b
<1>5. /\ d \in Seq(P) /\ Len(d) = (n - s) + m
      /\ \A i \in 1..((n - s) + m) : d[i] = IF i <= n - s THEN l[i] ELSE b[i - (n - s)]
  BY <1>3, ConcatProperties
<1> HIDE DEF l, r, n, m, d
<1>6. ASSUME NEW i \in 1..((n - s) + m) PROVE d[i] = r[i]
  <2>1. i \in 1..((n + m) - s) /\ s + i \in 1..(n + m) /\ i \in Nat
    BY <1>1
  <2>2. CASE i <= n - s
    <3>1. i \in 1..(n - s) /\ s + i <= n
      BY <1>1, <2>1, <2>2
    <3> QED
      BY <1>2, <1>3, <1>4, <1>5, <2>1, <2>2, <3>1
  <2>3. CASE ~(i <= n - s)
    <3>1. ~(s + i <= n) /\ (s + i) - n = i - (n - s)
      BY <1>1, <2>1, <2>3
    <3> QED
      BY <1>2, <1>4, <1>5, <2>1, <2>3, <3>1
  <2> QED
    BY <2>2, <2>3
<1>7. Len(d) = Len(r) /\ Len(d) \in Nat /\ DOMAIN d = 1..Len(d) /\ DOMAIN r = 1..Len(r)
  BY <1>1, <1>4, <1>5, LenProperties
<1>8. d = r
  BY <1>4, <1>5, <1>6, <1>7, SeqEqual
<1> QED
  BY <1>8 DEF d, l, r, c, n

\* The recordings that get the batch are those attached when it was taken.
LEMMA TakeOutputs ==
  ASSUME Sessions, OutputInv, PacketInv, ProcessTake PROVE OutputInv'
<1>1. /\ feeds' = attached \cap Files /\ poller = "idle" /\ poller' = "output"
      /\ UNCHANGED <<running, closing, registration, attached, control, pending, recordOnly,
                    out, since, fed>>
  BY DEF ProcessTake, TakesTask, outputs, history
<1>2. Joining'
  BY <1>1 DEF OutputInv, Joining
<1>3. Serving' = Serving
  BY <1>1 DEF Serving
<1>4. ASSUME NEW o \in attached, Supplied(o) PROVE Supplied(o)'
  BY <1>1, <1>4 DEF Supplied
<1>5. Outlets'
  BY <1>1, <1>3, <1>4 DEF OutputInv, Outlets
<1> QED
  BY <1>2, <1>5 DEF OutputInv

\* A batch goes to the outputs that were attached when it was taken, and to
\* the pushes: a recording that came since is not to get it.
LEMMA OutputOutputs ==
  ASSUME Sessions, OutputInv, PacketInv, ProcessOutput PROVE OutputInv'
<1>1. /\ poller = "output" /\ batch' = <<>> /\ feeds' = {}
      /\ UNCHANGED <<running, closing, registration, attached, control, pending, recordOnly, since>>
  BY DEF ProcessOutput, outputs, state
<1>2. PICK k : \E n : Feed(k, n)
  BY DEF ProcessOutput
<1>3. DOMAIN fed' = Outputs
  BY <1>2 DEF Feed
<1>4. Joining'
  BY <1>1 DEF OutputInv, Joining
<1>5. CASE ~Serving'
  BY <1>1, <1>3, <1>4, <1>5 DEF OutputInv, Outlets
<1>6. CASE Serving'
  <2>1. poller' = "idle" /\ Feed(Len(batch), Len(batch)) /\ Serving
    BY <1>1, <1>6 DEF ProcessOutput, Serving
  <2>2. /\ out \in Seq(Parcels) /\ batch \in Seq(Parcels)
        /\ Len(out) \in Nat /\ Len(batch) \in Nat /\ since \in [Outputs -> Nat]
    BY LenProperties DEF PacketInv, Carried, OutputInv, Outlets
  <2>3. SubSeq(batch, 1, Len(batch)) = batch
    BY <2>2
  <2>4. out' = out \o batch /\ Len(out') = Len(out) + Len(batch)
    BY <2>1, <2>2, <2>3, ConcatProperties DEF Feed
  <2>5. ASSUME NEW o \in attached PROVE Supplied(o)'
    <3> DEFINE s == since[o]
    <3>1. o \in Outputs /\ s \in Nat /\ Supplied(o)
      BY <2>1, <2>2 DEF OutputInv, Outlets
    <3>2. fed'[o] = (IF o \in feeds THEN fed[o] \o batch
                     ELSE IF o \in attached \ Files /\ ~recordOnly THEN fed[o] \o batch ELSE fed[o])
      BY <2>1, <2>3, <3>1 DEF Feed
    <3>3. CASE o \in Files \ feeds
      <4>1. s = Len(out) + Len(batch) /\ fed[o] = SubSeq(out, s + 1, Len(out))
        BY <1>1, <3>1, <3>3 DEF Supplied
      <4>2. fed'[o] = fed[o]
        BY <3>2, <3>3
      <4> HIDE DEF s
      <4>3. SubSeq(out, s + 1, Len(out)) = <<>> /\ SubSeq(out', s + 1, Len(out')) = <<>>
        BY <2>2, <2>4, <4>1
      <4>4. s <= Len(out')
        BY <2>2, <2>4, <4>1
      <4> QED
        BY <1>1, <2>1, <4>1, <4>2, <4>3, <4>4 DEF Supplied, s
    <3>4. CASE ~(o \in Files \ feeds)
      <4>1. s <= Len(out) /\ fed[o] = SubSeq(out, s + 1, Len(out))
        BY <3>1, <3>4 DEF Supplied
      <4>2. o \notin Files => ~recordOnly
        BY DEF OutputInv, Outlets
      <4>3. fed'[o] = fed[o] \o batch
        BY <3>2, <3>4, <4>2
      <4> HIDE DEF s
      <4>4. s \in 0..Len(out) /\ s <= Len(out')
        BY <2>2, <2>4, <3>1, <4>1
      <4>5. fed'[o] = SubSeq(out', s + 1, Len(out'))
        BY <2>2, <2>4, <4>1, <4>3, <4>4, Remainder
      <4> QED
        BY <1>1, <2>1, <4>4, <4>5 DEF Supplied, s
    <3> QED
      BY <3>3, <3>4
  <2>6. Outlets'
    BY <1>1, <1>3, <2>1, <2>5 DEF OutputInv, Outlets
  <2> QED
    BY <1>4, <2>6 DEF OutputInv
<1> QED
  BY <1>4, <1>5, <1>6 DEF OutputInv

-----------------------------------------------------------------------------
(* Errors.                                                                 *)

\* Steps that report nothing and throw only for a fault.
Calm ==
  /\ UNCHANGED <<plan, highest, accepted, errors, errorReported>>
  /\ (closed => closed') /\ (error' => error)
  /\ faults' = faults \/ (faults' \in Nat /\ faults' # 0)
  /\ poller' = "throw" /\ faults' = 0 => poller = "throw"
  /\ running' => running
  /\ running' /\ (closing \/ poller = "close") => closing' \/ poller' = "close"

\* A cause stays one when nothing is accepted.
LEMMA CauseKept ==
  ASSUME UNCHANGED <<plan, highest, accepted>>, closed => closed', Cause PROVE Cause'
<1>1. Tracks' = Tracks /\ WentBack' = WentBack /\ StartedLate' = StartedLate
      /\ PresentedEarly' = PresentedEarly
  BY DEF Tracks, WentBack, StartedLate, PresentedEarly
<1>2. Begun => Begun'
  BY <1>1 DEF Begun
<1> QED
  BY <1>1, <1>2 DEF Cause

\* A step without an error keeps the cause of one.
LEMMA CalmBlamed ==
  ASSUME Blamed, Calm PROVE Blamed'
<1>1. Cause => Cause'
  BY CauseKept DEF Calm
<1> QED
  BY <1>1 DEF Calm, Blamed

\* A fault of ZLMediaKit is counted.
LEMMA FaultIs ==
  ASSUME Blamed, Fault PROVE faults' \in Nat /\ faults' # 0
BY DEF Blamed, Fault

\* The calls report no error.
LEMMA CalmControl ==
  ASSUME Sessions,
         \/ Start \/ StartSync \/ (\E o \in Outputs : Register(o)) \/ RegisterFile
         \/ RegisterDone \/ Drain \/ Stop \/ StopDone
  PROVE  Calm
<1> USE DEF Calm, state, media, task, submit, history, outputs
<1>1. CASE Start \/ StartSync \/ (\E o \in Outputs : Register(o))
  BY <1>1 DEF Start, StartSync, Register
<1>2. CASE RegisterFile \/ RegisterDone
  BY <1>2 DEF RegisterFile, RegisterDone
<1>3. CASE Drain \/ Stop \/ StopDone
  BY <1>3 DEF Drain, Stop, StopDone, DrainEffect
<1> QED
  BY <1>1, <1>2, <1>3

\* Nor does a submission.
LEMMA CalmSubmit ==
  ASSUME NEW t, Submit(t) \/ SubmitSchedule(t) PROVE Calm
BY DEF Calm, Submit, SubmitSchedule, state, media, task, history, outputs

\* A packet that is accepted leaves a cause one: every track has begun by then.
LEMMA CauseGrows ==
  ASSUME Carried, Carried', UNCHANGED <<plan, highest, closed>>, ~closed, Cause,
         \A t \in Tracks : \A k \in DOMAIN accepted[t] :
           k \in DOMAIN accepted'[t] /\ accepted'[t][k] = accepted[t][k]
  PROVE  Cause'
<1>1. Tracks' = Tracks /\ Parcels' = Parcels
  BY DEF Tracks, Parcels
<1>2. \A t \in Tracks : /\ DOMAIN accepted[t] = 1..Len(accepted[t]) /\ Len(accepted[t]) \in Nat
                        /\ DOMAIN accepted'[t] = 1..Len(accepted'[t]) /\ Len(accepted'[t]) \in Nat
  BY <1>1, LenProperties DEF Carried
<1>3. CASE WentBack
  <2>0. PICK t \in Tracks : \E i \in 2..Len(accepted[t]) : accepted[t][i].dts < accepted[t][i - 1].dts
    BY <1>3 DEF WentBack
  <2>1. PICK i \in 2..Len(accepted[t]) : accepted[t][i].dts < accepted[t][i - 1].dts
    BY <2>0
  <2>2. i \in DOMAIN accepted[t] /\ i - 1 \in DOMAIN accepted[t]
    BY <1>2
  <2>3. i \in DOMAIN accepted'[t] /\ accepted'[t][i].dts < accepted'[t][i - 1].dts
    BY <2>1, <2>2
  <2>4. i \in 2..Len(accepted'[t])
    BY <1>2, <2>3
  <2>5. WentBack'
    BY <1>1, <2>3, <2>4 DEF WentBack
  <2> QED
    BY <2>5 DEF Cause
<1>4. CASE StartedLate
  <2>0. PICK t \in Tracks, u \in Tracks : \E i \in DOMAIN accepted[t], j \in DOMAIN accepted[u] :
          accepted[t][i].dts + Delta < accepted[u][j].dts
    BY <1>4 DEF StartedLate
  <2>1. PICK i \in DOMAIN accepted[t], j \in DOMAIN accepted[u] :
          accepted[t][i].dts + Delta < accepted[u][j].dts
    BY <2>0
  <2>2. /\ i \in DOMAIN accepted'[t] /\ j \in DOMAIN accepted'[u]
        /\ accepted'[t][i].dts + Delta < accepted'[u][j].dts
    BY <2>1
  <2>3. StartedLate'
    BY <1>1, <1>4, <2>2 DEF StartedLate
  <2> QED
    BY <2>3 DEF Cause
<1>5. CASE PresentedEarly /\ Begun
  <2>1. \A u \in Tracks : accepted'[u] # <<>> /\ accepted'[u][1] = accepted[u][1]
    <3>1. ASSUME NEW u \in Tracks PROVE accepted'[u] # <<>> /\ accepted'[u][1] = accepted[u][1]
      <4>1. accepted[u] # <<>>
        BY <1>5 DEF Begun
      <4>2. Len(accepted[u]) # 0
        BY <4>1, EmptySeq DEF Carried
      <4>3. 1 \in DOMAIN accepted[u]
        BY <1>2, <4>2
      <4>4. 1 \in DOMAIN accepted'[u] /\ accepted'[u][1] = accepted[u][1]
        BY <4>3
      <4>5. accepted'[u] # <<>>
        BY <4>4
      <4> QED
        BY <4>4, <4>5
    <3> QED
      BY <3>1
  <2> DEFINE Precedes(p) ==
        /\ Milliseconds(p.pts) < 0
        /\ \A u \in Tracks : accepted[u] # <<>> =>
             /\ Milliseconds(p.pts) < Milliseconds(accepted[u][1].pts)
             /\ Milliseconds(p.pts) < Milliseconds(accepted[u][1].dts)
  <2>0. PICK t \in Tracks : \E i \in DOMAIN accepted[t] : Precedes(accepted[t][i])
    BY <1>5 DEF PresentedEarly
  <2>2. PICK i \in DOMAIN accepted[t] : Precedes(accepted[t][i])
    BY <2>0
  <2>3. i \in DOMAIN accepted'[t] /\ accepted'[t][i] = accepted[t][i]
    BY <2>2
  <2>4. \A u \in Tracks : accepted[u] # <<>>
    BY <1>5 DEF Begun
  <2>5. PresentedEarly'
    BY <1>1, <2>1, <2>2, <2>3, <2>4 DEF PresentedEarly
  <2>6. Begun'
    BY <1>1, <2>1 DEF Begun
  <2> QED
    BY <2>5, <2>6 DEF Cause
<1> QED
  BY <1>3, <1>4, <1>5 DEF Cause

\* What a push that is not refused accepts.
LEMMA PushBlamed ==
  ASSUME Sessions, PacketInv, Blamed, NEW t \in Tracks, Push(t) PROVE Blamed'
<1>1. /\ UNCHANGED <<plan, highest, closed, errors, errorReported, error, faults, poller,
                     running, closing>>
  BY DEF Push, state, task, outputs, history
<1>2. CASE Refused(t)
  <2>1. accepted' = accepted
    BY <1>2 DEF Push
  <2> QED
    BY <1>1, <2>1, CalmBlamed DEF Calm
<1>3. CASE ~Refused(t)
  <2>1. PICK p : slot' = <<p>> /\ accepted' = [accepted EXCEPT ![t] = Append(@, p)]
    BY <1>3 DEF Push
  <2>2. Carried /\ Carried' /\ Parcels' = Parcels /\ Tracks' = Tracks
    BY <1>1, PushPackets DEF PacketInv, Parcels, Tracks
  <2>3. p \in Parcels
    <3>1. slot' \in Seq(Parcels) /\ Len(slot') = 1 /\ slot'[1] = p
      BY <2>1, <2>2 DEF Carried
    <3> QED
      BY <3>1, ElementOfSeq
  <2>4. accepted \in [Tracks -> Seq(Parcels)] /\ accepted[t] \in Seq(Parcels)
    BY <2>2 DEF Carried
  <2>5. /\ accepted'[t] \in Seq(Parcels) /\ Len(accepted'[t]) = Len(accepted[t]) + 1
        /\ \A k \in 1..Len(accepted[t]) : accepted'[t][k] = accepted[t][k]
    BY <2>1, <2>3, <2>4, AppendProperties
  <2>6. \A u \in Tracks : u # t => accepted'[u] = accepted[u]
    BY <2>1, <2>4
  <2>7. \A k \in DOMAIN accepted[t] : k \in DOMAIN accepted'[t] /\ accepted'[t][k] = accepted[t][k]
    <3>1. DOMAIN accepted[t] = 1..Len(accepted[t]) /\ DOMAIN accepted'[t] = 1..(Len(accepted[t]) + 1)
          /\ Len(accepted[t]) \in Nat
      BY <2>4, <2>5, LenProperties
    <3> QED
      BY <2>5, <3>1
  <2>8. \A u \in Tracks : \A k \in DOMAIN accepted[u] :
           k \in DOMAIN accepted'[u] /\ accepted'[u][k] = accepted[u][k]
    BY <2>6, <2>7
  <2>9. ~closed
    BY <1>3 DEF Refused
  <2>10. Cause => Cause'
    BY <1>1, <2>2, <2>8, <2>9, CauseGrows
  <2> QED
    BY <1>1, <2>10 DEF Blamed
<1> QED
  BY <1>2, <1>3

\* Nor do the poller's tasks that only close.
LEMMA CalmPoller ==
  ASSUME Sessions, Blamed,
         AttachTask \/ ProcessLate \/ ProcessClose \/ FinishTask \/ StoppedTask
  PROVE  Calm
<1> USE DEF Calm, state, media, task, submit, history, outputs
<1>1. CASE AttachTask
  <2>1. faults' = faults \/ Fault
    BY <1>1 DEF AttachTask
  <2>2. faults' = faults \/ (faults' \in Nat /\ faults' # 0)
    BY <2>1, FaultIs
  <2>3. UNCHANGED <<plan, highest, accepted, closed, errors, errorReported, error, poller,
                    running, closing>>
    BY <1>1 DEF AttachTask
  <2> QED
    BY <2>2, <2>3
<1>2. CASE ProcessLate \/ ProcessClose
  BY <1>2 DEF ProcessLate, ProcessClose
<1>3. CASE FinishTask \/ StoppedTask
  BY <1>3 DEF FinishTask, StoppedTask
<1> QED
  BY <1>1, <1>2, <1>3

\* A setup that fails does so for a fault.
LEMMA StartBlamed ==
  ASSUME Sessions, Blamed, StartTask PROVE Blamed'
<1>1. /\ tasks \in Seq(Names) /\ tasks # <<>> /\ Head(tasks) = "start" /\ poller = "idle"
      /\ poller' = poller /\ plan' = plan
  BY DEF StartTask, task, Sessions, Typed
<1>2. ~error
  <2>1. control = "starting"
    BY <1>1, InTail DEF Sessions, Errands
  <2> QED
    BY <2>1 DEF Sessions, Calls
<1>3. CASE Fresh /\ UNCHANGED <<error, faults>>
  BY <1>1, <1>2, <1>3 DEF Blamed, Fresh
<1>4. CASE Fault /\ UNCHANGED <<running, closing, errorReported, media, history>>
  BY <1>1, <1>2, <1>4, FaultIs DEF Blamed, history
<1> QED
  BY <1>3, <1>4 DEF StartTask

\* A packet whose DTS went back follows a later one in its track, and a track
\* that is missing for too long has accepted nothing.
LEMMA ThrowBlamed ==
  ASSUME Sessions, PacketInv, Blamed, ProcessThrow PROVE Blamed'
<1>1. /\ UNCHANGED <<plan, accepted, errors, errorReported, error, faults, running, closing>>
      /\ poller = "idle" /\ poller' = "throw" /\ ~closing /\ Tracks' = Tracks
  BY DEF ProcessThrow, TakesTask, state, submit, history, Tracks
<1>2. Serving /\ running
  BY <1>1, NothingToTake DEF Serving, Sessions, Typed
<1>3. Cause'
  <2>1. CASE slot # <<>> /\ Regresses(slot[1])
    <3> DEFINE t == slot[1].track
               d == slot[1].dts
               l == Len(accepted[t])
    <3>1. t \in Tracks /\ InSlot(t) /\ slot # <<>>
      BY <2>1, SlotIs DEF InSlot
    <3>2. /\ accepted[t] # <<>> /\ slot[1] = accepted[t][l]
          /\ highest[t] = (IF Seen(t) = 0 THEN <<>> ELSE <<accepted[t][Seen(t)].dts>>)
      BY <1>2, <3>1 DEF PacketInv, Marked
    <3>3. highest[t] # <<>> /\ d < highest[t][1]
      BY <2>1 DEF Regresses
    <3>4. accepted[t] \in Seq(Parcels) /\ l \in Nat /\ l # 0
      BY <3>1, <3>2, LenProperties, EmptySeq DEF PacketInv, Carried
    <3>5. Seen(t) = l - 1
      BY <3>1, <3>4 DEF Seen
    <3>6. d = accepted[t][l].dts
      BY <3>2
    <3> HIDE DEF t, d, l
    <3>7. l - 1 # 0 /\ highest[t] = <<accepted[t][l - 1].dts>>
      BY <3>2, <3>3, <3>5
    <3>8. l \in 2..l
      BY <3>4, <3>7
    <3>9. accepted[t][l].dts < accepted[t][l - 1].dts
      BY <3>3, <3>6, <3>7
    <3>10. WentBack
      BY <3>1, <3>8, <3>9 DEF WentBack, l
    <3> QED
      BY <1>1, <3>10 DEF Cause, WentBack
  <2>2. CASE ~Ready /\ Orderly /\ ExceedsDelta(Pushed) /\ highest' = Watermarks
    <3>1. \E t \in Tracks : Watermarks[t] = <<>>
      BY <2>2 DEF Ready
    <3>2. /\ Len(Pushed) \in Nat /\ DOMAIN Pushed = 1..Len(Pushed) /\ Len(Pushed) >= 2
          /\ Pushed[Len(Pushed)].dts - Pushed[1].dts > Delta
      <4>1. Pushed \in Seq(Parcels) /\ Len(Pushed) \in Nat /\ DOMAIN Pushed = 1..Len(Pushed)
        BY <2>2, PushedIs
      <4>2. Len(Pushed) >= 2 /\ Last(Pushed).dts - Head(Pushed).dts > Delta
        BY <2>2 DEF ExceedsDelta
      <4>3. Last(Pushed) = Pushed[Len(Pushed)]
        BY DEF Last
      <4>4. Head(Pushed) = Pushed[1]
        BY <4>1, <4>2
      <4> QED
        BY <4>1, <4>2, <4>3, <4>4
    <3> DEFINE first == Pushed[1]
               last == Pushed[Len(Pushed)]
    <3>3. /\ first.track \in Tracks /\ first.dts \in Int /\ Known(first)
          /\ last.track \in Tracks /\ last.dts \in Int /\ Known(last)
      <4>1. 1 \in DOMAIN Pushed /\ Len(Pushed) \in DOMAIN Pushed
        BY <3>2
      <4> QED
        BY <2>2, <4>1, PushedKnown
    <3>4. first.dts + Delta < last.dts
      BY <3>2, <3>3, RemuxerAssumption
    <3> HIDE DEF first, last, Watermarks
    <3>5. \E t, u \in Tracks : \E i \in DOMAIN accepted[t], j \in DOMAIN accepted[u] :
            accepted[t][i].dts + Delta < accepted[u][j].dts
      <4>1. PICK i \in DOMAIN accepted[first.track] : accepted[first.track][i] = first
        BY <3>3 DEF Known
      <4>2. PICK j \in DOMAIN accepted[last.track] : accepted[last.track][j] = last
        BY <3>3 DEF Known
      <4> QED
        BY <3>3, <3>4, <4>1, <4>2
    <3>6. StartedLate'
      BY <1>1, <2>2, <3>1, <3>5 DEF StartedLate
    <3> QED
      BY <3>6 DEF Cause
  <2> QED
    BY <2>1, <2>2 DEF ProcessThrow, Orderly
<1>4. error /\ faults = 0 => FALSE
  BY <1>1, <1>2 DEF Blamed
<1> QED
  BY <1>1, <1>3, <1>4 DEF Blamed

\* Taking packets reports nothing.
LEMMA TakeBlamed ==
  ASSUME Sessions, PacketInv, Blamed, ProcessTake PROVE Blamed'
<1>1. /\ UNCHANGED <<plan, accepted, closed, errors, errorReported, error, faults, running, closing>>
      /\ poller = "idle" /\ poller' = "output" /\ ~closing /\ highest' = Watermarks
  BY DEF ProcessTake, TakesTask, state, submit, history
<1>2. running => ~(error /\ faults = 0)
  BY <1>1 DEF Blamed
<1>3. ~running => highest' = highest
  BY <1>1 DEF Sessions, Gate, Watermarks
<1>4. ~running => (Cause => Cause')
  BY <1>1, <1>3, CauseKept
<1> QED
  BY <1>1, <1>2, <1>4 DEF Blamed, Sessions, Typed

\* The common shift leaves nothing that cannot be converted, except what is
\* presented before everything it was made from.
LEMMA Early ==
  ASSUME Sessions, PacketInv, poller = "output", NEW i \in DOMAIN batch, Unconvertible(batch[i])
  PROVE  PresentedEarly /\ Begun
<1> DEFINE b == batch[i]
           s == shift[1]
<1>1. Serving
  <2>1. batch # <<>>
    OBVIOUS
  <2> QED
    BY <2>1 DEF Sessions, Phases, Serving
<1>2. shift # <<>> /\ Milliseconds(b.dts) + s >= 0
  BY DEF PacketInv, Shifted
<1>3. b \in Parcels
  BY ElementOfSeq, LenProperties DEF PacketInv, Carried
<1>4. b.track \in Tracks /\ b.dts \in Int /\ b.pts \in Int
  BY <1>3 DEF Parcels
<1>5. s \in Int /\ s >= 0
  <2>1. shift \in Seq(Int) /\ Len(shift) \in Nat \ {0}
    BY <1>2, EmptySeq DEF PacketInv, Carried
  <2>2. s \in Int
    BY <2>1, ElementOfSeq
  <2> QED
    BY <1>1, <1>2, <2>2 DEF PacketInv, Covered
<1>6. PICK k \in DOMAIN accepted[b.track] : accepted[b.track][k] = b
  BY DEF PacketInv, Covered, Known
<1>7. \A u \in Tracks : accepted[u] # <<>> =>
        /\ Milliseconds(accepted[u][1].dts) + s >= 0
        /\ Milliseconds(accepted[u][1].pts) + s >= 0
  BY <1>1, <1>2 DEF PacketInv, Covered
<1>8. Milliseconds(b.dts) + s < 0 \/ Milliseconds(b.pts) + s < 0
  BY DEF Unconvertible
<1> HIDE DEF b, s
<1> DEFINE early == Milliseconds(b.pts)
<1>9. early \in Int /\ early + s < 0 /\ early < 0
  <2>1. Milliseconds(b.dts) \in Int /\ Milliseconds(b.pts) \in Int
    BY <1>4, MillisecondsIs
  <2> QED
    BY <1>2, <1>5, <1>8, <2>1
<1> HIDE DEF early
<1>10. ASSUME NEW u \in Tracks, accepted[u] # <<>>
       PROVE  early < Milliseconds(accepted[u][1].pts) /\ early < Milliseconds(accepted[u][1].dts)
  <2>1. accepted[u][1] \in Parcels
    <3>1. accepted[u] \in Seq(Parcels) /\ Len(accepted[u]) \in Nat \ {0}
      BY <1>10, EmptySeq DEF PacketInv, Carried
    <3> QED
      BY <3>1, ElementOfSeq
  <2>2. accepted[u][1].dts \in Int /\ accepted[u][1].pts \in Int
    BY <2>1 DEF Parcels
  <2>3. Milliseconds(accepted[u][1].dts) \in Int /\ Milliseconds(accepted[u][1].pts) \in Int
    BY <2>2, MillisecondsIs
  <2> QED
    BY <1>5, <1>7, <1>9, <1>10, <2>3
<1>11. PresentedEarly
  BY <1>4, <1>6, <1>9, <1>10 DEF PresentedEarly, early
<1>12. ASSUME NEW u \in Tracks PROVE accepted[u] # <<>> \/ closed
  <2>1. highest[u] = <<>> => closed
    BY <1>1, <1>2 DEF PacketInv, Shifted
  <2> QED
    BY <1>1, <2>1, MarkedBegun
<1> QED
  BY <1>11, <1>12 DEF Begun

\* Handling the packets fails for such a packet, or for a fault.
LEMMA OutputBlamed ==
  ASSUME Sessions, PacketInv, Blamed, ProcessOutput PROVE Blamed'
<1>1. /\ UNCHANGED <<plan, accepted, closed, errors, errorReported, error, running, closing, highest>>
      /\ poller = "output" /\ ~closing /\ poller' \in {"close", "idle", "throw"}
  BY DEF ProcessOutput, Sessions, Phases, state, media, submit
<1>2. \/ (faults' = faults /\ poller' # "throw") \/ Fault
      \/ \E i \in DOMAIN batch : Unconvertible(batch[i]) /\ faults' = faults
  BY DEF ProcessOutput
<1>3. CASE (faults' = faults /\ poller' # "throw") \/ Fault
  <2>1. faults' = faults \/ (faults' \in Nat /\ faults' # 0)
    BY <1>3, FaultIs
  <2>2. poller' = "throw" => faults' # 0
    BY <1>3, FaultIs
  <2> QED
    BY <1>1, <2>1, <2>2, CalmBlamed DEF Calm
<1>4. CASE \E i \in DOMAIN batch : Unconvertible(batch[i]) /\ faults' = faults
  <2>1. PICK i \in DOMAIN batch : Unconvertible(batch[i])
    BY <1>4
  <2>2. PresentedEarly /\ Begun
    BY <1>1, <2>1, Early
  <2>3. Cause
    BY <2>2 DEF Cause
  <2>4. Cause'
    BY <1>1, <2>3, CauseKept
  <2>5. running
    <3>1. batch # <<>>
      BY <2>1
    <3> QED
      BY <1>1, <3>1 DEF Sessions, Phases
  <2> QED
    BY <1>1, <1>4, <2>4, <2>5 DEF Blamed
<1> QED
  BY <1>2, <1>3, <1>4

\* An error is reported once, and has a fault or timestamps behind it.
LEMMA ErrorBlamed ==
  ASSUME Blamed, NEW q, Error(q), running, UNCHANGED <<plan, highest, accepted, running>>,
         faults' = faults \/ (faults' \in Nat /\ faults' # 0),
         faults' = 0 => poller = "throw" /\ poller' = "close",
         poller' = "throw" => poller = "throw", closing' = closing
  PROVE  Blamed'
<1>1. Cause => Cause'
  <2>1. closed => closed'
    BY DEF Error
  <2> QED
    BY <2>1, CauseKept
<1>2. errors' = 0 \/ (errors' = 1 /\ errorReported')
  BY DEF Error, Blamed
<1>3. faults' = 0 => Cause
  BY DEF Blamed
<1>4. faults' \in Nat
  BY DEF Blamed
<1> QED
  BY <1>1, <1>2, <1>3, <1>4 DEF Blamed

\* The three places that report an error.
LEMMA FlushBlamed ==
  ASSUME Sessions, Blamed, ProcessError \/ PusherError \/ ProcessFlush PROVE Blamed'
<1>1. CASE ProcessError
  <2>1. running
    BY <1>1 DEF Sessions, Phases, ProcessError
  <2> QED
    BY <1>1, <2>1, ErrorBlamed DEF ProcessError, submit
<1>2. CASE PusherError
  <2>1. Fault /\ Error(tasks) /\ running /\ poller = "idle"
        /\ UNCHANGED <<plan, highest, accepted, running, closing, poller>>
    BY <1>2 DEF PusherError, task, submit
  <2> QED
    BY <2>1, FaultIs, ErrorBlamed
<1>3. CASE ProcessFlush
  <2>1. running /\ closing /\ poller = "flush" /\ poller' = "idle"
        /\ UNCHANGED <<plan, highest, accepted, running, closing>>
    BY <1>3 DEF Sessions, Phases, ProcessFlush, submit
  <2>2. CASE Fault /\ Error(Append(tasks, "finish"))
    BY <2>1, <2>2, FaultIs, ErrorBlamed
  <2>3. CASE UNCHANGED <<errors, error, errorReported, closed, faults>>
    BY <2>1, <2>3, CalmBlamed DEF Calm
  <2> QED
    BY <1>3, <2>2, <2>3 DEF ProcessFlush
<1> QED
  BY <1>1, <1>2, <1>3

-----------------------------------------------------------------------------
(* The theorems.                                                           *)

\* The inductive invariant.
RemuxerInv == Sessions /\ PacketInv /\ OutputInv /\ Blamed

\* A constructed remuxer has no session and no packet.
LEMMA RemuxerInit ==
  ASSUME Init PROVE RemuxerInv
<1> USE DEF Init
<1>1. Sessions
  <2>1. Typed /\ Phases /\ Gate /\ Calls
    <3>1. Typed
      <4>1. tasks \in Seq(Names)
        OBVIOUS
      <4>2. /\ running \in BOOLEAN /\ accepting \in BOOLEAN /\ draining \in BOOLEAN
            /\ closing \in BOOLEAN /\ closed \in BOOLEAN
        OBVIOUS
      <4>3. poller \in {"idle", "output", "throw", "close", "flush"}
        OBVIOUS
      <4> HIDE DEF Init
      <4> QED
        BY <4>1, <4>2, <4>3 DEF Typed
    <3>2. Phases
      BY DEF Phases
    <3>3. Gate
      BY DEF Gate
    <3>4. Calls
      BY DEF Calls
    <3> QED
      BY <3>1, <3>2, <3>3, <3>4
  <2>2. DOMAIN tasks = {}
    OBVIOUS
  <2>3. \A S : ~In(tasks, S) /\ Once(tasks, S)
    BY <2>2 DEF In, Once
  <2>4. Errands
    BY <2>3 DEF Errands
  <2> QED
    BY <2>1, <2>4 DEF Sessions
<1>2. PacketInv
  <2>0. plan \in Plans
    OBVIOUS
  <2>1. Carried
    BY DEF Carried
  <2>2. Admitted
    BY PlanIs DEF Admitted, Coming
  <2>3. Marked /\ Shifted /\ Covered
    BY DEF Marked, Shifted, Covered, Serving
  <2>4. Queued
    BY DEF Queued, Sorted
  <2>5. Released
    <3>1. out \o batch = <<>>
      OBVIOUS
    <3> QED
      BY <3>1 DEF Released, Ordered
  <2> QED
    BY <2>1, <2>2, <2>3, <2>4, <2>5 DEF PacketInv
<1>3. OutputInv
  BY DEF OutputInv, Joining, Outlets, Serving
<1>4. Blamed
  BY DEF Blamed
<1> QED
  BY <1>1, <1>2, <1>3, <1>4 DEF RemuxerInv

\* Each action keeps each part.
LEMMA RemuxerStep ==
  ASSUME RemuxerInv, [Next]_vars PROVE RemuxerInv'
<1>0. Sessions /\ PacketInv /\ OutputInv /\ Blamed /\ Carried
  BY DEF RemuxerInv, PacketInv
<1>1. CASE Start \/ StartSync \/ Drain \/ Stop
  <2>1. Sessions'
    BY <1>0, <1>1, SessionsStart, SessionsStartSync, SessionsDrain
  <2>2. PacketInv'
    BY <1>0, <1>1, QuietControl, QuietDrain, QuietPackets
  <2>3. OutputInv'
    BY <1>0, <1>1, IdleControl, IdleOutputs
  <2>4. Blamed'
    BY <1>0, <1>1, CalmControl, CalmBlamed
  <2> QED
    BY <2>1, <2>2, <2>3, <2>4 DEF RemuxerInv
<1>2. ASSUME NEW o \in Outputs, Register(o) PROVE RemuxerInv'
  <2>1. Sessions'
    BY <1>0, <1>2, SessionsRegister
  <2>2. PacketInv'
    BY <1>0, <1>2, QuietControl, QuietPackets
  <2>3. OutputInv'
    BY <1>0, <1>2, RegisterOutputs
  <2>4. Blamed'
    BY <1>0, <1>2, CalmControl, CalmBlamed
  <2> QED
    BY <2>1, <2>2, <2>3, <2>4 DEF RemuxerInv
<1>3. CASE RegisterFile \/ AttachTask
  <2>1. Sessions'
    BY <1>0, <1>3, SessionsRegisterFile, SessionsAttachTask
  <2>2. PacketInv'
    BY <1>0, <1>3, QuietControl, QuietPackets
  <2>3. OutputInv'
    BY <1>0, <1>3, JoinOutputs
  <2>4. Blamed'
    BY <1>0, <1>3, CalmControl, CalmPoller, CalmBlamed
  <2> QED
    BY <2>1, <2>2, <2>3, <2>4 DEF RemuxerInv
<1>4. CASE RegisterDone \/ StopDone
  <2>1. Sessions'
    BY <1>0, <1>4, SessionsRegisterDone, SessionsStopDone
  <2>2. PacketInv'
    BY <1>0, <1>4, QuietControl, QuietStopDone, QuietPackets
  <2>3. OutputInv'
    BY <1>0, <1>4, DoneOutputs
  <2>4. Blamed'
    BY <1>0, <1>4, CalmControl, CalmBlamed
  <2> QED
    BY <2>1, <2>2, <2>3, <2>4 DEF RemuxerInv
<1>5. ASSUME NEW t \in Tracks, Submit(t) \/ Push(t) \/ SubmitSchedule(t) PROVE RemuxerInv'
  <2>1. Sessions'
    BY <1>0, <1>5, SessionsSubmit, SessionsSubmitSchedule
  <2>2. PacketInv'
    BY <1>0, <1>5, SubmitPackets, PushPackets, QuietSchedule, QuietPackets
  <2>3. OutputInv'
    BY <1>0, <1>5, IdleSubmit, IdleOutputs
  <2>4. Blamed'
    BY <1>0, <1>5, CalmSubmit, PushBlamed, CalmBlamed
  <2> QED
    BY <2>1, <2>2, <2>3, <2>4 DEF RemuxerInv
<1>6. CASE StartTask
  <2>1. Sessions' /\ PacketInv' /\ OutputInv' /\ Blamed'
    BY <1>0, <1>6, SessionsStartTask, StartPackets, StartOutputs, StartBlamed
  <2> QED
    BY <2>1 DEF RemuxerInv
<1>7. CASE ProcessLate \/ ProcessClose
  <2>1. Sessions'
    BY <1>0, <1>7, SessionsProcessLate, SessionsProcessClose
  <2>2. PacketInv'
    BY <1>0, <1>7, QuietLate, QuietPackets
  <2>3. OutputInv' /\ Blamed'
    BY <1>0, <1>7, IdlePoller, IdleOutputs, CalmPoller, CalmBlamed
  <2> QED
    BY <2>1, <2>2, <2>3 DEF RemuxerInv
<1>8. CASE ProcessThrow
  <2>1. Sessions' /\ PacketInv'
    BY <1>0, <1>8, SessionsProcess, ThrowPackets
  <2>2. OutputInv' /\ Blamed'
    BY <1>0, <1>8, IdlePoller, IdleOutputs, ThrowBlamed
  <2> QED
    BY <2>1, <2>2 DEF RemuxerInv
<1>9. CASE ProcessTake
  <2>1. Sessions' /\ PacketInv' /\ OutputInv' /\ Blamed'
    BY <1>0, <1>9, SessionsProcess, TakePackets, TakeOutputs, TakeBlamed
  <2> QED
    BY <2>1 DEF RemuxerInv
<1>10. CASE ProcessOutput
  <2>1. Sessions' /\ PacketInv' /\ OutputInv' /\ Blamed'
    BY <1>0, <1>10, SessionsProcessOutput, OutputPackets, OutputOutputs, OutputBlamed
  <2> QED
    BY <2>1 DEF RemuxerInv
<1>11. CASE ProcessError \/ PusherError \/ ProcessFlush
  <2>1. Sessions'
    BY <1>0, <1>11, SessionsProcessError, SessionsPusherError, SessionsProcessFlush
  <2>2. PacketInv'
    BY <1>0, <1>11, QuietErrors, QuietPackets
  <2>3. OutputInv'
    BY <1>0, <1>11, IdlePoller, IdleFlush, IdleOutputs
  <2>4. Blamed'
    BY <1>0, <1>11, FlushBlamed
  <2> QED
    BY <2>1, <2>2, <2>3, <2>4 DEF RemuxerInv
<1>12. CASE FinishTask \/ StoppedTask
  <2>1. Sessions'
    BY <1>0, <1>12, SessionsFinishTask, SessionsStoppedTask
  <2>2. PacketInv'
    BY <1>0, <1>12, FinishPackets
  <2>3. OutputInv' /\ Blamed'
    BY <1>0, <1>12, IdlePoller, IdleOutputs, CalmPoller, CalmBlamed
  <2> QED
    BY <2>1, <2>2, <2>3 DEF RemuxerInv
<1>13. CASE UNCHANGED vars
  <2> USE <1>13 DEF vars, state, media, task, outputs, submit, history
  <2>1. Sessions'
    BY <1>0 DEF Sessions, Typed, Phases, Gate, Errands, Calls
  <2>2. Quiet /\ Idle /\ Calm
    BY DEF Quiet, Idle, Calm, Serving, Coming
  <2> QED
    BY <1>0, <2>1, <2>2, QuietPackets, IdleOutputs, CalmBlamed DEF RemuxerInv
<1> QED
  BY <1>1, <1>2, <1>3, <1>4, <1>5, <1>6, <1>7, <1>8, <1>9, <1>10, <1>11, <1>12, <1>13
  DEF Next, ControlStep, PollerStep

\* The remuxer keeps it, whatever its callers, its poller and ZLMediaKit do
\* (Submit, Process, CloseSession, AddOutput, Start, Drain, Stop).
THEOREM RemuxerInvariant == Spec => []RemuxerInv
BY RemuxerInit, RemuxerStep, PTL DEF Spec

\* The remuxer's interleaver releases packets in DTS order, except for one that
\* fell more than Delta behind (PopReady).
THEOREM InterleavedInvariant == Spec => []Interleaved
<1>1. ASSUME RemuxerInv PROVE Interleaved
  <2>1. /\ out \in Seq(Parcels) /\ batch \in Seq(Parcels) /\ Ordered(out \o batch)
    BY <1>1 DEF RemuxerInv, PacketInv, Carried, Released
  <2> DEFINE s == out \o batch
  <2>2. /\ Len(out) \in Nat /\ Len(batch) \in Nat /\ DOMAIN out = 1..Len(out)
        /\ DOMAIN s = 1..(Len(out) + Len(batch))
        /\ \A i \in 1..(Len(out) + Len(batch)) :
             s[i] = IF i <= Len(out) THEN out[i] ELSE batch[i - Len(out)]
    <3>1. s \in Seq(Parcels) /\ Len(s) = Len(out) + Len(batch)
      BY <2>1, ConcatProperties
    <3> QED
      BY <2>1, <3>1, ConcatProperties, LenProperties
  <2>3. \A i, j \in DOMAIN s : i < j => s[i].dts <= s[j].dts \/ Excused(s[i])
    BY <2>1 DEF Ordered
  <2> HIDE DEF s
  <2>4. \A i \in DOMAIN out : i \in DOMAIN s /\ s[i] = out[i] /\ i \in Nat /\ out[i].dts \in Int
    <3>1. \A i \in DOMAIN out : out[i] \in Parcels
      BY <2>1, ElementOfSeq, <2>2
    <3>2. \A p \in Parcels : p.dts \in Int
      BY DEF Parcels
    <3> QED
      BY <2>2, <3>1, <3>2
  <2>5. ASSUME NEW j \in DOMAIN out, NEW i \in 1..(j - 1), out[i].dts > out[j].dts
        PROVE  \E t \in Tracks : \E k \in DOMAIN accepted[t] : accepted[t][k].dts > out[i].dts + Delta
    <3>1. i \in DOMAIN out /\ i < j
      BY <2>2
    <3>2. out[i].dts <= out[j].dts \/ Excused(out[i])
      BY <2>3, <2>4, <3>1
    <3>3. Excused(out[i])
      BY <2>4, <2>5, <3>1, <3>2
    <3> QED
      BY <3>3 DEF Excused
  <2> QED
    BY <2>5 DEF Interleaved
<1> QED
  BY <1>1, RemuxerInvariant, PTL

\* An output whose Add call returned gets every packet released from then on,
\* with the recording-only shortcut or without it, until the session closes.
THEOREM ServedInvariant == Spec => []Served
<1>1. ASSUME RemuxerInv PROVE Served
  BY <1>1 DEF RemuxerInv, OutputInv, Outlets, Supplied, Served, Serving
<1> QED
  BY <1>1, RemuxerInvariant, PTL

\* A session that fails without a fault of ZLMediaKit fails for a DTS that went
\* back, for a track missing at the start, or for a packet presented before
\* everything the shift was made from, whatever the packets' times; one error is
\* reported, and a path is held only by a running session (Process, Error).
THEOREM FailsForCauseInvariant == Spec => []FailsForCause
<1>1. ASSUME RemuxerInv PROVE FailsForCause
  BY <1>1 DEF RemuxerInv, Sessions, Errands, Blamed, Cause, FailsForCause
<1> QED
  BY <1>1, RemuxerInvariant, PTL

=============================================================================
