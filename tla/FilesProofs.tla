---------------------------- MODULE FilesProofs -----------------------------
(***************************************************************************)
(* The recorder and the packet input for any tracks, time bases, packet    *)
(* sizes, capacities, number of packets, sessions, cancels and failures.   *)
(*                                                                         *)
(* The lemmas of the first part replace an induction over data: FoldLeft   *)
(* is unfolded into the trace of its values, and an induction over the     *)
(* naturals is one over a subset of them.  In the second part InputInv     *)
(* says what an AvInput's call and worker know of each other               *)
(* (InputThreads, InputSession), what holds until a Cancel (InputFresh),   *)
(* and that the packets on their way are numbered from the last one        *)
(* delivered (InputNumbered).  In the third RecInv says which states a     *)
(* worker can be in (RecThreads), where a packet can be (RecHand), that    *)
(* one origin shifted the whole file (RecOrigin), and that accepted        *)
(* packets are conserved by track and by number (RecConserved,             *)
(* RecCounted).                                                            *)
(***************************************************************************)
EXTENDS MCFiles, SequenceTheorems, WellFoundedInduction, TLAPS

\* A set of naturals has a least element.
LEMMA NatLeast ==
  ASSUME NEW T, T \subseteq Nat, T # {}
  PROVE  \E x \in T : \A y \in T : x <= y
<1>1. PICK x \in T : \A y \in T : ~(<<y, x>> \in OpToRel(<, Nat))
  BY WFMin, NatLessThanWellFounded
<1>2. \A y \in T : y \in Nat
  OBVIOUS
<1>3. \A y \in T : ~(y < x)
  BY <1>1, <1>2 DEF OpToRel
<1> QED
  BY <1>2, <1>3

\* Induction on the naturals, for a set instead of a predicate.
LEMMA NatSetInduction ==
  ASSUME NEW T \in SUBSET Nat, 0 \in T, \A n \in T : n + 1 \in T
  PROVE  T = Nat
<1>1. SUFFICES ASSUME Nat \ T # {} PROVE FALSE
  OBVIOUS
<1>2. PICK x \in Nat \ T : \A y \in Nat \ T : x <= y
  BY <1>1, NatLeast
<1>3. x # 0 /\ x - 1 \in Nat /\ x - 1 \notin Nat \ T
  BY <1>2
<1> QED
  BY <1>2, <1>3

\* An element no other exceeds is the Max.
LEMMA MaxIs ==
  ASSUME NEW s, s \subseteq Nat, NEW k \in s, \A y \in s : k >= y
  PROVE  Max(s) = k
<1>1. \A x \in s : (\A y \in s : x >= y) => x = k
  OBVIOUS
<1> QED
  BY <1>1 DEF Max

\* Max is an element.
LEMMA MaxIn ==
  ASSUME NEW n \in Nat, NEW s, s \subseteq 1..n, s # {}
  PROVE  Max(s) \in s
<1> DEFINE T == {n - x : x \in s}
<1>1. T \subseteq Nat /\ T # {}
  OBVIOUS
<1>2. PICK y \in T : \A z \in T : y <= z
  BY <1>1, NatLeast
<1>3. PICK x \in s : y = n - x
  BY <1>2
<1>4. ASSUME NEW z \in s PROVE x >= z
  <2>1. n - z \in T /\ z \in Nat /\ x \in Nat
    OBVIOUS
  <2>2. n - x <= n - z
    BY <1>2, <1>3, <2>1
  <2> QED
    BY <2>1, <2>2
<1>5. \E w \in s : \A z \in s : w >= z
  BY <1>4
<1> QED
  BY <1>5 DEF Max

\* The indices of a sequence, the way FoldLeft takes them.
LEMMA UpTo ==
  ASSUME NEW k \in Nat \ {0}
  PROVE  Max(1..k) = k /\ (1..k) \ {k} = 1..(k - 1) /\ 1..k # {}
<1>1. 1..k \subseteq Nat /\ k \in 1..k /\ \A y \in 1..k : k >= y
  OBVIOUS
<1>2. Max(1..k) = k
  BY <1>1, MaxIs
<1> QED
  BY <1>1, <1>2

Folds(it, base, g, m) ==
  \A s \in SUBSET (1..m) :
    it[s] = IF s = {} THEN base ELSE g[Max(s)][it[s \ {Max(s)}]]

Foldable(V, base, g, m) == \E it \in [SUBSET (1..m) -> V] : Folds(it, base, g, m)

\* A fold of the first indices is continued by one more.
LEMMA FoldGrows ==
  ASSUME NEW V, NEW base \in V, NEW n \in Nat, NEW g \in [1..n -> [V -> V]],
         NEW m \in Nat, m + 1 <= n, NEW it \in [SUBSET (1..m) -> V], Folds(it, base, g, m)
  PROVE  \E next \in [SUBSET (1..(m + 1)) -> V] : Folds(next, base, g, m + 1)
<1> DEFINE next == [s \in SUBSET (1..(m + 1)) |->
                      IF m + 1 \in s THEN g[m + 1][it[s \ {m + 1}]] ELSE it[s]]
<1>1. ASSUME NEW s \in SUBSET (1..(m + 1))
      PROVE  /\ m + 1 \notin s => s \in SUBSET (1..m)
             /\ s \ {m + 1} \in SUBSET (1..m) /\ s \ {m + 1} \in SUBSET (1..(m + 1))
             /\ m + 1 \notin s \ {m + 1}
  <2>1. \A x \in s : x \in 1..(m + 1) /\ (x # m + 1 => x \in 1..m)
    OBVIOUS
  <2> QED
    BY <2>1
<1>2. next \in [SUBSET (1..(m + 1)) -> V]
  <2>1. m + 1 \in 1..n
    OBVIOUS
  <2>2. ASSUME NEW s \in SUBSET (1..(m + 1)), m + 1 \in s
        PROVE  g[m + 1][it[s \ {m + 1}]] \in V
    <3>1. it[s \ {m + 1}] \in V
      BY <1>1
    <3> QED
      BY <2>1, <3>1
  <2>3. ASSUME NEW s \in SUBSET (1..(m + 1)), m + 1 \notin s PROVE it[s] \in V
    BY <1>1, <2>3
  <2> QED
    BY <2>2, <2>3
<1>3. ASSUME NEW s \in SUBSET (1..(m + 1))
      PROVE  next[s] = IF s = {} THEN base ELSE g[Max(s)][next[s \ {Max(s)}]]
  <2>1. CASE m + 1 \in s
    <3>1. Max(s) = m + 1
      <4>1. s \subseteq Nat /\ \A y \in s : m + 1 >= y
        BY <1>1
      <4> QED
        BY <2>1, <4>1, MaxIs
    <3>2. next[s \ {m + 1}] = it[s \ {m + 1}]
      BY <1>1
    <3> QED
      BY <2>1, <3>1, <3>2
  <2>2. CASE m + 1 \notin s
    <3>1. s \in SUBSET (1..m) /\ next[s] = it[s]
      BY <1>1, <2>2
    <3>2. /\ s \ {Max(s)} \in SUBSET (1..(m + 1)) /\ m + 1 \notin s \ {Max(s)}
      BY <2>2
    <3>3. next[s \ {Max(s)}] = it[s \ {Max(s)}]
      BY <3>2
    <3> QED
      BY <3>1, <3>3 DEF Folds
  <2> QED
    BY <2>1, <2>2
<1> HIDE DEF next
<1> QED
  BY <1>2, <1>3 DEF Folds

\* The function by which MapThenFoldSet is defined exists.
LEMMA FoldExists ==
  ASSUME NEW V, NEW base \in V, NEW n \in Nat, NEW g \in [1..n -> [V -> V]]
  PROVE  \E it \in [SUBSET (1..n) -> V] : Folds(it, base, g, n)
<1> DEFINE T == {m \in Nat : m <= n => Foldable(V, base, g, m)}
<1>1. 0 \in T
  <2> DEFINE it == [s \in SUBSET (1..0) |-> base]
  <2>1. it \in [SUBSET (1..0) -> V]
    OBVIOUS
  <2>2. \A s \in SUBSET (1..0) : s = {}
    OBVIOUS
  <2>3. Folds(it, base, g, 0)
    BY <2>2 DEF Folds
  <2> HIDE DEF it
  <2>4. Foldable(V, base, g, 0)
    BY <2>1, <2>3 DEF Foldable
  <2> QED
    BY <2>4
<1>2. ASSUME NEW m \in T PROVE m + 1 \in T
  <2>1. m \in Nat
    OBVIOUS
  <2>2. ASSUME m + 1 <= n PROVE Foldable(V, base, g, m + 1)
    <3>1. Foldable(V, base, g, m)
      BY <2>1, <2>2
    <3>2. PICK it \in [SUBSET (1..m) -> V] : Folds(it, base, g, m)
      BY <3>1 DEF Foldable
    <3> HIDE DEF T
    <3> QED
      BY <2>1, <2>2, <3>2, FoldGrows DEF Foldable
  <2> QED
    BY <2>1, <2>2
<1>3. T \in SUBSET Nat
  OBVIOUS
<1>4. n \in T
  <2> HIDE DEF T
  <2> QED
    BY <1>1, <1>2, <1>3, NatSetInduction
<1>5. Foldable(V, base, g, n)
  BY <1>4
<1> QED
  BY <1>5 DEF Foldable

\* The empty sequence is one of any set.
LEMMA EmptyIsSeq == \A S : <<>> \in Seq(S)
OBVIOUS

\* Bytes adds the sizes up in order.
LEMMA BytesTrace ==
  ASSUME NEW ps \in Seq(Packets)
  PROVE  \E c \in [0..Len(ps) -> Nat] :
           /\ c[0] = 0 /\ Bytes(ps) = c[Len(ps)]
           /\ \A k \in 1..Len(ps) : c[k] = c[k - 1] + Size[ps[k].track]
<1> DEFINE n == Len(ps)
           Eq(it) == it = [s \in SUBSET (DOMAIN ps) |->
                             IF s = {} THEN 0 ELSE it[s \ {Max(s)}] + Size[ps[Max(s)].track]]
           g == [k \in 1..n |-> [v \in Nat |-> v + Size[ps[k].track]]]
           iter == CHOOSE it : Eq(it)
<1>1. n \in Nat /\ DOMAIN ps = 1..n /\ \A k \in 1..n : Size[ps[k].track] \in Nat
  <2>1. n \in Nat /\ DOMAIN ps = 1..n /\ \A k \in 1..n : ps[k] \in Packets
    OBVIOUS
  <2>2. \A p \in Packets : Size[p.track] \in Nat
    BY RecorderAssumption DEF Packets
  <2> QED
    BY <2>1, <2>2
<1>2. Bytes(ps) = iter[DOMAIN ps]
  BY DEF Bytes, FoldLeft, MapThenFoldSet
<1>3. \E it : Eq(it)
  <2>1. g \in [1..n -> [Nat -> Nat]]
    BY <1>1
  <2> HIDE DEF n, g
  <2>2. PICK it \in [SUBSET (1..n) -> Nat] : Folds(it, 0, g, n)
    BY <1>1, <2>1, FoldExists
  <2>3. ASSUME NEW s \in SUBSET (1..n), s # {}
        PROVE  it[s] = it[s \ {Max(s)}] + Size[ps[Max(s)].track]
    <3>1. Max(s) \in 1..n
      BY <1>1, <2>3, MaxIn
    <3>2. s \ {Max(s)} \in SUBSET (1..n)
      OBVIOUS
    <3>3. it[s \ {Max(s)}] \in Nat
      BY <3>2
    <3>4. it[s] = g[Max(s)][it[s \ {Max(s)}]]
      BY <2>2, <2>3 DEF Folds
    <3> QED
      BY <3>1, <3>3, <3>4 DEF g
  <2>4. Eq(it)
    <3>1. it[{}] = 0
      BY <2>2 DEF Folds
    <3> QED
      BY <1>1, <2>3, <3>1
  <2> QED
    BY <2>4
<1>4. Eq(iter)
  <2> HIDE DEF Eq
  <2> QED
    BY <1>3
<1> HIDE DEF iter, n
<1>5. iter[1..0] = 0
  BY <1>1, <1>4
<1>6. ASSUME NEW k \in 1..n PROVE iter[1..k] = iter[1..(k - 1)] + Size[ps[k].track]
  <2>1. 1..k \in SUBSET (1..n)
    BY <1>1
  <2>2. k \in Nat \ {0}
    BY <1>1
  <2>3. Max(1..k) = k /\ (1..k) \ {k} = 1..(k - 1) /\ 1..k # {}
    BY <2>2, UpTo
  <2>4. iter[1..k] = IF 1..k = {} THEN 0
                     ELSE iter[(1..k) \ {Max(1..k)}] + Size[ps[Max(1..k)].track]
    BY <1>1, <1>4, <2>1
  <2> QED
    BY <2>3, <2>4
<1> DEFINE T == {k \in Nat : k <= n => iter[1..k] \in Nat}
<1>7. 0 \in T
  BY <1>5
<1>8. ASSUME NEW k \in T PROVE k + 1 \in T
  <2> SUFFICES ASSUME k + 1 <= n PROVE iter[1..(k + 1)] \in Nat
    OBVIOUS
  <2>1. k + 1 \in 1..n /\ iter[1..k] \in Nat /\ (k + 1) - 1 = k
    BY <1>1
  <2> QED
    BY <1>1, <1>6, <2>1
<1>9. T = Nat
  <2>1. T \in SUBSET Nat
    OBVIOUS
  <2> HIDE DEF T
  <2> QED
    BY <1>7, <1>8, <2>1, NatSetInduction
<1> DEFINE c == [k \in 0..n |-> iter[1..k]]
<1>10. c \in [0..n -> Nat]
  BY <1>1, <1>9
<1>11. c[0] = 0 /\ Bytes(ps) = c[n]
  BY <1>1, <1>2, <1>5
<1>12. \A k \in 1..n : c[k] = c[k - 1] + Size[ps[k].track]
  BY <1>1, <1>6
<1> QED
  BY <1>10, <1>11, <1>12 DEF n
Kept(ps, t, c) ==
  /\ c[0] = <<>> /\ OfTrack(ps, t) = c[Len(ps)]
  /\ \A k \in 1..Len(ps) :
       c[k] = IF ps[k].track = t THEN Append(c[k - 1], ps[k]) ELSE c[k - 1]

\* OfTrack keeps packets in order.
LEMMA OfTrackTrace ==
  ASSUME NEW ps \in Seq(Packets), NEW t
  PROVE  \E c \in [0..Len(ps) -> Seq(Packets)] : Kept(ps, t, c)
<1> DEFINE n == Len(ps)
           Eq(it) == it = [s \in SUBSET (DOMAIN ps) |->
                             IF s = {} THEN <<>>
                             ELSE IF ps[Max(s)].track = t
                                  THEN Append(it[s \ {Max(s)}], ps[Max(s)])
                                  ELSE it[s \ {Max(s)}]]
           g == [k \in 1..n |-> [v \in Seq(Packets) |->
                  IF ps[k].track = t THEN Append(v, ps[k]) ELSE v]]
           iter == CHOOSE it : Eq(it)
<1>1. n \in Nat /\ DOMAIN ps = 1..n /\ \A k \in 1..n : ps[k] \in Packets
  OBVIOUS
<1>2. OfTrack(ps, t) = iter[DOMAIN ps]
  BY DEF OfTrack, FoldLeft, MapThenFoldSet
<1>3. \E it : Eq(it)
  <2>1. g \in [1..n -> [Seq(Packets) -> Seq(Packets)]]
    BY <1>1
  <2> HIDE DEF n, g
  <2>2. PICK it \in [SUBSET (1..n) -> Seq(Packets)] : Folds(it, <<>>, g, n)
    BY <1>1, <2>1, FoldExists, EmptyIsSeq
  <2>3. ASSUME NEW s \in SUBSET (1..n), s # {}
        PROVE  it[s] = IF ps[Max(s)].track = t
                       THEN Append(it[s \ {Max(s)}], ps[Max(s)]) ELSE it[s \ {Max(s)}]
    <3>1. Max(s) \in 1..n
      BY <1>1, <2>3, MaxIn
    <3>2. s \ {Max(s)} \in SUBSET (1..n)
      OBVIOUS
    <3>3. it[s \ {Max(s)}] \in Seq(Packets)
      BY <3>2
    <3>4. it[s] = g[Max(s)][it[s \ {Max(s)}]]
      BY <2>2, <2>3 DEF Folds
    <3> QED
      BY <3>1, <3>3, <3>4 DEF g
  <2>4. Eq(it)
    <3>1. it[{}] = <<>>
      BY <2>2 DEF Folds
    <3> QED
      BY <1>1, <2>3, <3>1
  <2> QED
    BY <2>4
<1>4. Eq(iter)
  <2> HIDE DEF Eq
  <2> QED
    BY <1>3
<1> HIDE DEF iter, n
<1>5. iter[1..0] = <<>>
  BY <1>1, <1>4
<1>6. ASSUME NEW k \in 1..n 
      PROVE  iter[1..k] = IF ps[k].track = t THEN Append(iter[1..(k - 1)], ps[k])
                          ELSE iter[1..(k - 1)]
  <2>1. 1..k \in SUBSET (1..n)
    BY <1>1
  <2>2. k \in Nat \ {0}
    BY <1>1
  <2>3. Max(1..k) = k /\ (1..k) \ {k} = 1..(k - 1) /\ 1..k # {}
    BY <2>2, UpTo
  <2>4. iter[1..k] = IF 1..k = {} THEN <<>>
                     ELSE IF ps[Max(1..k)].track = t
                          THEN Append(iter[(1..k) \ {Max(1..k)}], ps[Max(1..k)])
                          ELSE iter[(1..k) \ {Max(1..k)}]
    BY <1>1, <1>4, <2>1
  <2> QED
    BY <2>3, <2>4
<1> DEFINE T == {k \in Nat : k <= n => iter[1..k] \in Seq(Packets)}
<1>7. 0 \in T
  BY <1>5, EmptyIsSeq
<1>8. ASSUME NEW k \in T PROVE k + 1 \in T
  <2> SUFFICES ASSUME k + 1 <= n PROVE iter[1..(k + 1)] \in Seq(Packets)
    OBVIOUS
  <2>1. k + 1 \in 1..n /\ iter[1..k] \in Seq(Packets) /\ (k + 1) - 1 = k
    BY <1>1
  <2>2. ps[k + 1] \in Packets
    BY <1>1, <2>1
  <2>3. iter[1..(k + 1)] = IF ps[k + 1].track = t THEN Append(iter[1..k], ps[k + 1])
                           ELSE iter[1..k]
    BY <1>6, <2>1
  <2> QED
    BY <2>1, <2>2, <2>3
<1>9. T = Nat
  <2>1. T \in SUBSET Nat
    OBVIOUS
  <2> HIDE DEF T
  <2> QED
    BY <1>7, <1>8, <2>1, NatSetInduction
<1> DEFINE c == [k \in 0..n |-> iter[1..k]]
<1>10. c \in [0..n -> Seq(Packets)]
  BY <1>1, <1>9
<1>11. c[0] = <<>> /\ OfTrack(ps, t) = c[n]
  BY <1>1, <1>2, <1>5
<1>12. \A k \in 1..n : c[k] = IF ps[k].track = t THEN Append(c[k - 1], ps[k]) ELSE c[k - 1]
  BY <1>1, <1>6
<1> QED
  BY <1>10, <1>11, <1>12 DEF n, Kept

\* Nothing queued has no bytes.
LEMMA BytesEmpty == Bytes(<<>>) = 0
<1>1. <<>> \in Seq(Packets) /\ Len(<<>>) = 0
  OBVIOUS
<1> QED
  BY <1>1, BytesTrace

\* A number of bytes is a natural.
LEMMA BytesType == ASSUME NEW ps \in Seq(Packets) PROVE Bytes(ps) \in Nat
<1>1. PICK c \in [0..Len(ps) -> Nat] : Bytes(ps) = c[Len(ps)]
  BY BytesTrace
<1>2. Len(ps) \in 0..Len(ps)
  OBVIOUS
<1> QED
  BY <1>1, <1>2

\* A packet adds its size.
LEMMA BytesAppend ==
  ASSUME NEW ps \in Seq(Packets), NEW p \in Packets
  PROVE  Bytes(Append(ps, p)) = Bytes(ps) + Size[p.track]
<1> DEFINE n == Len(ps)
           qs == Append(ps, p)
<1>1. /\ n \in Nat /\ qs \in Seq(Packets) /\ Len(qs) = n + 1 /\ qs[n + 1] = p
      /\ \A k \in 1..n : qs[k] = ps[k]
  OBVIOUS
<1> HIDE DEF n, qs
<1>2. PICK c \in [0..n -> Nat] :
         /\ c[0] = 0 /\ Bytes(ps) = c[n]
         /\ \A k \in 1..n : c[k] = c[k - 1] + Size[ps[k].track]
  BY BytesTrace DEF n
<1>3. PICK d \in [0..(n + 1) -> Nat] :
         /\ d[0] = 0 /\ Bytes(qs) = d[n + 1]
         /\ \A k \in 1..(n + 1) : d[k] = d[k - 1] + Size[qs[k].track]
  <2>1. Len(qs) = n + 1 /\ qs \in Seq(Packets)
    BY <1>1
  <2>2. \E e \in [0..Len(qs) -> Nat] :
           /\ e[0] = 0 /\ Bytes(qs) = e[Len(qs)]
           /\ \A k \in 1..Len(qs) : e[k] = e[k - 1] + Size[qs[k].track]
    BY <2>1, BytesTrace
  <2> QED
    BY <2>1, <2>2
<1> DEFINE T == {k \in Nat : k <= n => d[k] = c[k]}
<1>4. 0 \in T
  BY <1>2, <1>3
<1>5. ASSUME NEW k \in T PROVE k + 1 \in T
  <2> SUFFICES ASSUME k + 1 <= n PROVE d[k + 1] = c[k + 1]
    OBVIOUS
  <2>1. k + 1 \in 1..n /\ k + 1 \in 1..(n + 1) /\ (k + 1) - 1 = k /\ d[k] = c[k]
    BY <1>1
  <2>2. c[k + 1] = c[k] + Size[ps[k + 1].track]
    BY <1>2, <2>1
  <2>3. d[k + 1] = d[k] + Size[qs[k + 1].track]
    BY <1>3, <2>1
  <2> QED
    BY <1>1, <2>1, <2>2, <2>3
<1>6. n \in T
  <2>1. T \in SUBSET Nat
    OBVIOUS
  <2> HIDE DEF T
  <2> QED
    BY <1>1, <1>4, <1>5, <2>1, NatSetInduction
<1>7. n + 1 \in 1..(n + 1) /\ (n + 1) - 1 = n
  BY <1>1
<1>8. d[n + 1] = d[n] + Size[qs[n + 1].track]
  BY <1>3, <1>7
<1> QED
  BY <1>1, <1>2, <1>3, <1>6, <1>8 DEF qs

\* A packet that is taken takes its size along.
LEMMA BytesTail ==
  ASSUME NEW ps \in Seq(Packets), ps # <<>>
  PROVE  Bytes(Tail(ps)) = Bytes(ps) - Size[Head(ps).track]
<1> DEFINE n == Len(ps)
           qs == Tail(ps)
<1>1. n \in Nat \ {0} /\ Head(ps) = ps[1] /\ ps[1] \in Packets
  OBVIOUS
<1>2. /\ qs \in Seq(Packets) /\ Len(qs) = n - 1
      /\ \A k \in 1..(n - 1) : qs[k] = ps[k + 1]
  BY <1>1
<1> HIDE DEF n, qs
<1>3. PICK c \in [0..n -> Nat] :
         /\ c[0] = 0 /\ Bytes(ps) = c[n]
         /\ \A k \in 1..n : c[k] = c[k - 1] + Size[ps[k].track]
  BY BytesTrace DEF n
<1>4. PICK d \in [0..(n - 1) -> Nat] :
         /\ d[0] = 0 /\ Bytes(qs) = d[n - 1]
         /\ \A k \in 1..(n - 1) : d[k] = d[k - 1] + Size[qs[k].track]
  <2>1. \E e \in [0..Len(qs) -> Nat] :
           /\ e[0] = 0 /\ Bytes(qs) = e[Len(qs)]
           /\ \A k \in 1..Len(qs) : e[k] = e[k - 1] + Size[qs[k].track]
    BY <1>2, BytesTrace
  <2> QED
    BY <1>2, <2>1
<1>5. Size[ps[1].track] \in Nat
  BY <1>1, RecorderAssumption DEF Packets
<1> DEFINE T == {k \in Nat : k <= n - 1 => c[k + 1] = Size[ps[1].track] + d[k]}
<1>6. 0 \in T
  <2>1. c[1] = c[0] + Size[ps[1].track]
    BY <1>1, <1>3
  <2> QED
    BY <1>3, <1>4, <1>5, <2>1
<1>7. ASSUME NEW k \in T PROVE k + 1 \in T
  <2> SUFFICES ASSUME k + 1 <= n - 1 PROVE c[(k + 1) + 1] = Size[ps[1].track] + d[k + 1]
    OBVIOUS
  <2>1. /\ k + 1 \in 1..(n - 1) /\ (k + 1) + 1 \in 1..n /\ (k + 1) - 1 = k
        /\ ((k + 1) + 1) - 1 = k + 1 /\ k \in 0..(n - 1)
        /\ c[k + 1] = Size[ps[1].track] + d[k]
    <3>1. k \in Nat /\ k <= n - 1 /\ c[k + 1] = Size[ps[1].track] + d[k]
      BY <1>1
    <3>2. k \in Nat /\ n - 1 \in Nat /\ k + 1 <= n - 1
      BY <1>1, <3>1
    <3>3. /\ k + 1 \in 1..(n - 1) /\ (k + 1) + 1 \in 1..n /\ (k + 1) - 1 = k
          /\ ((k + 1) + 1) - 1 = k + 1 /\ k \in 0..(n - 1)
      BY <1>1, <3>2
    <3> QED
      BY <3>1, <3>3
  <2>2. c[(k + 1) + 1] = c[k + 1] + Size[ps[(k + 1) + 1].track]
    BY <1>3, <2>1
  <2>3. d[k + 1] = d[k] + Size[qs[k + 1].track]
    BY <1>4, <2>1
  <2>4. qs[k + 1] = ps[(k + 1) + 1]
    BY <1>2, <2>1
  <2>5. Size[ps[(k + 1) + 1].track] \in Nat
    <3>1. ps[(k + 1) + 1] \in Packets
      BY <2>1 DEF n
    <3> QED
      BY <3>1, RecorderAssumption DEF Packets
  <2>6. d[k] \in Nat
    BY <2>1
  <2> HIDE DEF T
  <2> QED
    BY <1>5, <2>1, <2>2, <2>3, <2>4, <2>5, <2>6
<1>8. n - 1 \in T
  <2>1. T \in SUBSET Nat /\ n - 1 \in Nat
    BY <1>1
  <2> HIDE DEF T
  <2> QED
    BY <1>6, <1>7, <2>1, NatSetInduction
<1>9. c[n] = Size[ps[1].track] + d[n - 1] /\ (n - 1) + 1 = n /\ d[n - 1] \in Nat
  BY <1>1, <1>8
<1>10. Bytes(qs) = Bytes(ps) - Size[ps[1].track]
  BY <1>3, <1>4, <1>5, <1>9
<1> QED
  BY <1>1, <1>10 DEF qs

\* The packets of a track are packets.
LEMMA OfTrackType == ASSUME NEW ps \in Seq(Packets), NEW t PROVE OfTrack(ps, t) \in Seq(Packets)
<1>1. PICK c \in [0..Len(ps) -> Seq(Packets)] : OfTrack(ps, t) = c[Len(ps)]
  BY OfTrackTrace DEF Kept
<1>2. Len(ps) \in 0..Len(ps)
  OBVIOUS
<1> QED
  BY <1>1, <1>2

\* Nothing has no packet of a track.
LEMMA OfTrackEmpty == ASSUME NEW t PROVE OfTrack(<<>>, t) = <<>>
<1>1. <<>> \in Seq(Packets) /\ Len(<<>>) = 0
  OBVIOUS
<1>2. \E c \in [0..Len(<<>>) -> Seq(Packets)] : Kept(<<>>, t, c)
  BY <1>1, OfTrackTrace, Zenon
<1> QED
  BY <1>1, <1>2 DEF Kept

\* A packet is added to those of its track.
LEMMA OfTrackAppend ==
  ASSUME NEW ps \in Seq(Packets), NEW p \in Packets, NEW t
  PROVE  OfTrack(Append(ps, p), t) =
           IF p.track = t THEN Append(OfTrack(ps, t), p) ELSE OfTrack(ps, t)
<1> DEFINE n == Len(ps)
           qs == Append(ps, p)
<1>1. /\ n \in Nat /\ qs \in Seq(Packets) /\ Len(qs) = n + 1 /\ qs[n + 1] = p
      /\ \A k \in 1..n : qs[k] = ps[k]
  OBVIOUS
<1> HIDE DEF n, qs
<1>2. PICK c \in [0..n -> Seq(Packets)] :
         /\ c[0] = <<>> /\ OfTrack(ps, t) = c[n]
         /\ \A k \in 1..n : c[k] = IF ps[k].track = t THEN Append(c[k - 1], ps[k]) ELSE c[k - 1]
  <2>1. PICK c \in [0..Len(ps) -> Seq(Packets)] : Kept(ps, t, c)
    BY OfTrackTrace
  <2> QED
    BY <2>1 DEF Kept, n
<1>3. PICK d \in [0..(n + 1) -> Seq(Packets)] :
         /\ d[0] = <<>> /\ OfTrack(qs, t) = d[n + 1]
         /\ \A k \in 1..(n + 1) :
              d[k] = IF qs[k].track = t THEN Append(d[k - 1], qs[k]) ELSE d[k - 1]
  <2>1. Len(qs) = n + 1 /\ qs \in Seq(Packets)
    BY <1>1
  <2>2. PICK e \in [0..Len(qs) -> Seq(Packets)] : Kept(qs, t, e)
    BY <2>1, OfTrackTrace
  <2> QED
    BY <2>1, <2>2 DEF Kept
<1> DEFINE T == {k \in Nat : k <= n => d[k] = c[k]}
<1>4. 0 \in T
  BY <1>2, <1>3
<1>5. ASSUME NEW k \in T PROVE k + 1 \in T
  <2> SUFFICES ASSUME k + 1 <= n PROVE d[k + 1] = c[k + 1]
    OBVIOUS
  <2>1. k + 1 \in 1..n /\ k + 1 \in 1..(n + 1) /\ (k + 1) - 1 = k /\ d[k] = c[k]
    BY <1>1
  <2>2. c[k + 1] = IF ps[k + 1].track = t THEN Append(c[k], ps[k + 1]) ELSE c[k]
    BY <1>2, <2>1
  <2>3. d[k + 1] = IF qs[k + 1].track = t THEN Append(d[k], qs[k + 1]) ELSE d[k]
    BY <1>3, <2>1
  <2> QED
    BY <1>1, <2>1, <2>2, <2>3
<1>6. n \in T
  <2>1. T \in SUBSET Nat
    OBVIOUS
  <2> HIDE DEF T
  <2> QED
    BY <1>1, <1>4, <1>5, <2>1, NatSetInduction
<1>7. n + 1 \in 1..(n + 1) /\ (n + 1) - 1 = n
  BY <1>1
<1>8. d[n + 1] = IF p.track = t THEN Append(d[n], p) ELSE d[n]
  BY <1>1, <1>3, <1>7
<1>9. d[n] = c[n]
  BY <1>1, <1>6
<1> QED
  BY <1>2, <1>3, <1>8, <1>9 DEF qs

\* Appending to a concatenation is appending to its end.
LEMMA AppendConcat ==
  ASSUME NEW a \in Seq(Packets), NEW b \in Seq(Packets), NEW p \in Packets
  PROVE  Append(a \o b, p) = a \o Append(b, p)
OBVIOUS

\* The packets of a track in two sequences, one after the other.
LEMMA OfTrackConcat ==
  ASSUME NEW ps \in Seq(Packets), NEW qs \in Seq(Packets), NEW t
  PROVE  OfTrack(ps \o qs, t) = OfTrack(ps, t) \o OfTrack(qs, t)
<1> DEFINE Concat(us) == OfTrack(ps \o us, t) = OfTrack(ps, t) \o OfTrack(us, t)
           T == {k \in Nat : \A us \in Seq(Packets) : Len(us) = k => Concat(us)}
<1>1. 0 \in T
  <2> SUFFICES ASSUME NEW us \in Seq(Packets), Len(us) = 0 PROVE Concat(us)
    OBVIOUS
  <2>1. us = <<>> /\ ps \o us = ps
    BY ConcatEmptySeq
  <2>2. OfTrack(ps, t) \o <<>> = OfTrack(ps, t)
    BY OfTrackType, ConcatEmptySeq
  <2> QED
    BY <2>1, <2>2, OfTrackEmpty
<1>2. ASSUME NEW k \in T PROVE k + 1 \in T
  <2> SUFFICES ASSUME NEW us \in Seq(Packets), Len(us) = k + 1 PROVE Concat(us)
    OBVIOUS
  <2>1. k \in Nat /\ \A vs \in Seq(Packets) : Len(vs) = k => Concat(vs)
    OBVIOUS
  <2> DEFINE vs == SubSeq(us, 1, k)
             p == us[k + 1]
  <2>2. /\ vs \in Seq(Packets) /\ Len(vs) = k /\ p \in Packets
        /\ \A i \in 1..k : vs[i] = us[i]
    BY <2>1
  <2>3. us = Append(vs, p)
    BY <2>1, <2>2
  <2>4. Concat(vs)
    BY <2>1, <2>2
  <2> HIDE DEF vs, p
  <2>5. ps \o us = Append(ps \o vs, p) /\ ps \o vs \in Seq(Packets)
    BY <2>2, <2>3
  <2>6. OfTrack(ps, t) \in Seq(Packets) /\ OfTrack(vs, t) \in Seq(Packets)
    BY <2>2, OfTrackType
  <2>7. CASE p.track = t
    <3>1. OfTrack(us, t) = Append(OfTrack(vs, t), p)
      BY <2>2, <2>3, <2>7, OfTrackAppend
    <3>2. OfTrack(ps \o us, t) = Append(OfTrack(ps \o vs, t), p)
      BY <2>2, <2>5, <2>7, OfTrackAppend
    <3>3. OfTrack(ps \o us, t) = Append(OfTrack(ps, t) \o OfTrack(vs, t), p)
      BY <2>4, <3>2
    <3>4. Append(OfTrack(ps, t) \o OfTrack(vs, t), p) = OfTrack(ps, t) \o Append(OfTrack(vs, t), p)
      BY <2>2, <2>6, AppendConcat, Zenon
    <3> QED
      BY <3>1, <3>3, <3>4
  <2>8. CASE p.track # t
    <3>1. OfTrack(us, t) = OfTrack(vs, t)
      BY <2>2, <2>3, <2>8, OfTrackAppend
    <3>2. OfTrack(Append(ps \o vs, p), t) = OfTrack(ps \o vs, t)
      <4> DEFINE ws == ps \o vs
      <4>1. ws \in Seq(Packets)
        BY <2>5
      <4> HIDE DEF ws
      <4>2. OfTrack(Append(ws, p), t) = OfTrack(ws, t)
        BY <2>2, <2>8, <4>1, OfTrackAppend
      <4> QED
        BY <4>2 DEF ws
    <3>a. OfTrack(ps \o us, t) = OfTrack(ps \o vs, t)
      BY <2>5, <3>2
    <3> QED
      BY <2>4, <3>1, <3>a
  <2> QED
    BY <2>7, <2>8
<1>3. T \in SUBSET Nat
  OBVIOUS
<1>4. Len(qs) \in T
  <2> HIDE DEF T
  <2> QED
    BY <1>1, <1>2, <1>3, NatSetInduction
<1> QED
  BY <1>4

-----------------------------------------------------------------------------
(* AvInput.                                                                *)

InputTyped ==
  /\ current # <<>> => current = <<demuxed>>
  /\ Len(taken) <= 1
  /\ taken # <<>> => reader = "check"
  /\ reader # "check" => taken = <<>>
\* while and where a worker exists
InputThreads ==
  /\ demuxer = "none" => current = <<>>
  /\ demuxer # "none" =>
       /\ opener \in {"idle", "unblock", "join"}
       /\ status \in {"opened", "ended", "failed", "cancelled"}
  /\ demuxer \in {"publish", "published"} => target["worker"] \in {"ended", "failed", "cancelled"}
  /\ demuxer \notin {"none", "published", "exited"} => status = "opened"
  /\ demuxer \in {"published"} => status = target["worker"]
  /\ demuxer = "exited" => status \in {"ended", "failed", "cancelled"}
  /\ opener \in {"publish", "published"} => target["owner"] \in {"opening", "opened", "failed", "cancelled", "closed"}
  /\ opener = "published" => status = target["owner"]
  /\ opener \in {"unblock", "join", "release", "discard"} => status # "closed"
  /\ opener = "install" => status = "closed" 
  /\ opener = "publish" => 
        \/ target["owner"] = "opening" /\ status = "closed"
        \/ target["owner"] = "opened" /\ status = "opening"
        \/ target["owner"] \in {"failed", "cancelled"} /\ status \in {"opened", "opening"}
        \/ target["owner"] = "closed" /\ status # "closed"
  /\ opener \in {"io", "probe"} => status = "opening"
  /\ opener \in {"start"} => status = "opened"
  /\ opener = "failed" => status \in {"opening", "opened"}
  /\ opener = "idle" => status # "opening"
  /\ status = "closed" => demuxer = "none"
  /\ opener = "idle" /\ status = "opened" => demuxer # "none"
  /\ status = "ended" => opener \in {"idle", "unblock", "join", "release", "discard", "publish"}
\* the session
InputSession ==
  /\ opener = "install" =>
       /\ reader = "idle" /\ result = "none" /\ demuxed = 0 /\ delivered = 0
       /\ connections > 0
  /\ \/ opener \in {"install", "discard"}
     \/ opener = "idle" /\ status = "closed"
     \/ opener \in {"publish", "published"} /\ target["owner"] = "closed"
     => ~installed
  /\ reader = "notify" => result = "packet"
  /\ canceller <= connections
  /\ canceller = connections /\ connections > 0 => cancelled
  /\ installed => connections > 0
InputFresh == ~cancelled => 
  /\ opener \notin {"unblock", "join", "release", "discard", "cancel"}
  /\ opener \in {"publish", "published"} => target["owner"] \notin {"closed", "cancelled"}
  /\ status # "cancelled"
  /\ demuxer \in {"publish", "published"} => target["worker"] # "cancelled"
  /\ status \in {"closed", "opening"} => demuxed = 0 /\ delivered = 0
  /\ status = "closed" => result \in {"none", "null"} 
  /\ ~installed => demuxed = 0 /\ delivered = 0 /\ current = <<>> /\ taken = <<>>
  /\ ~installed => status = "closed" /\ opener \in {"idle", "install"}
  /\ reader # "idle" => installed
  /\ current # <<>> <=> demuxer = "push"
  /\ status = "ended" \/ (demuxer \in {"publish", "published"} /\ target["worker"] = "ended") => packets = <<>> /\ current = <<>>
  /\ status = "failed" => demuxer \in {"none", "published", "exited"}
  /\ closed /\ installed => status \in {"ended", "failed"} /\ demuxer \in {"none", "exited"}
  /\ reader = "check" /\ waits /\ taken = <<>> => closed /\ packets = <<>>
  /\ result = "eof" => status = "ended" /\ taken = <<>> /\ installed
  /\ result = "null" /\ waits /\ reader = "idle" /\ installed => status = "failed" /\ packets = <<>>
InputNumbered ==
  ~cancelled /\ installed =>
    /\ demuxed = delivered + Len(taken) + Len(packets) + Len(current)
    /\ taken # <<>> => taken = <<delivered + 1>>
    /\ \A i \in 1..Len(packets) : packets[i] = delivered + Len(taken) + i

InputInv == Input!TypeOK /\ InputTyped /\ InputThreads /\ InputSession /\ InputFresh /\ InputNumbered

\* The empty queue.
LEMMA NoPackets == <<>> \in Seq(Nat) /\ Len(<<>>) = 0
OBVIOUS

\* A queue of one packet.
LEMMA One ==
  ASSUME NEW n \in Nat
  PROVE  /\ <<n>> \in Seq(Nat) /\ <<n>> # <<>> /\ Len(<<n>>) = 1 /\ <<n>>[1] = n
OBVIOUS

\* A queue is empty when it has no length.
LEMMA Empty == ASSUME NEW q \in Seq(Nat) PROVE q = <<>> <=> Len(q) = 0
OBVIOUS

\* What Pop leaves.
LEMMA Popped ==
  ASSUME NEW q \in Seq(Nat), q # <<>>
  PROVE  /\ Head(q) = q[1] /\ q[1] \in Nat
         /\ Tail(q) \in Seq(Nat) /\ Len(q) \in Nat \ {0} /\ Len(Tail(q)) = Len(q) - 1
         /\ \A i \in 1..Len(Tail(q)) : i + 1 \in 1..Len(q) /\ Tail(q)[i] = q[i + 1]
<1>1. Len(q) \in Nat \ {0}
  OBVIOUS
<1>2. /\ Head(q) = q[1] /\ q[1] \in Nat
      /\ Tail(q) \in Seq(Nat) /\ Len(Tail(q)) = Len(q) - 1
  BY <1>1
<1>3. ASSUME NEW i \in 1..Len(Tail(q)) PROVE i + 1 \in 1..Len(q) /\ Tail(q)[i] = q[i + 1]
  BY <1>1, <1>2
<1> QED
  BY <1>1, <1>2, <1>3

\* What Push adds.
LEMMA Admitted ==
  ASSUME NEW q \in Seq(Nat), NEW h \in Seq(Nat), Len(h) = 1
  PROVE  /\ q \o h \in Seq(Nat) /\ Len(q) \in Nat /\ Len(q \o h) = Len(q) + 1
         /\ (q \o h)[Len(q) + 1] = h[1]
         /\ \A i \in 1..Len(q) : (q \o h)[i] = q[i]
<1>1. Len(q) \in Nat /\ Len(q) + 1 \in Nat
  OBVIOUS
<1>2. q \o h \in Seq(Nat) /\ Len(q \o h) = Len(q) + Len(h)
  BY ConcatProperties, Zenon
<1>3. \A i \in 1..Len(q) : (q \o h)[i] = q[i]
  BY <1>1
<1>4. (q \o h)[Len(q) + 1] = h[1]
  BY <1>1
<1> QED
  BY <1>1, <1>2, <1>3, <1>4

\* Open begins: the last connection is gone.
LEMMA InputOpenBeginKeeps == ASSUME InputInv, Input!OpenBegin PROVE InputInv'
<1> USE DEF InputInv, Input!OpenBegin, Input!readerVars, Input!workerVars, Input!bounds
<1>1. Input!TypeOK'
  <2>1. packets' \in Seq(Nat) /\ Len(packets') <= Capacity
    BY DEF Input!TypeOK
  <2>2. current' \in Seq(Nat) /\ taken' \in Seq(Nat)
    BY DEF Input!TypeOK
  <2>3. cancelled' \in BOOLEAN /\ installed' \in BOOLEAN /\ closed' \in BOOLEAN
    BY Zenon DEF Input!TypeOK
  <2> QED
    BY <2>1, <2>2, <2>3 DEF Input!TypeOK, Input!States, InputThreads
<1>2. InputTyped'
  BY DEF InputTyped, InputThreads, InputFresh, Input!TypeOK
<1>3. InputThreads'
  BY DEF InputThreads, InputTyped, Input!TypeOK
<1>4. InputSession'
  BY DEF InputSession, InputThreads, InputTyped, Input!TypeOK, Input!NoCall
<1>5. InputFresh'
  BY DEF InputFresh, InputThreads, InputSession, InputNumbered, InputTyped, Input!TypeOK, Input!NoCall
<1>6. InputNumbered'
  BY DEF InputFresh, InputThreads, InputSession, InputNumbered, InputTyped, Input!TypeOK
<1> QED
  BY <1>1, <1>2, <1>3, <1>4, <1>5, <1>6

\* Open installs a new connection.
LEMMA InputOpenInstallKeeps == ASSUME InputInv, Input!OpenInstall PROVE InputInv'
<1> USE DEF InputInv, Input!OpenInstall, Input!OwnerWill, Input!readerVars, Input!workerVars, Input!bounds
<1>1. Input!TypeOK'
  <2>1. packets' \in Seq(Nat) /\ Len(packets') <= Capacity
    BY CapacityAssumption, NoPackets
  <2>2. current' \in Seq(Nat) /\ taken' \in Seq(Nat)
    BY DEF Input!TypeOK
  <2>3. cancelled' \in BOOLEAN /\ installed' \in BOOLEAN /\ closed' \in BOOLEAN
    BY Zenon DEF Input!TypeOK
  <2> QED
    BY <2>1, <2>2, <2>3 DEF Input!TypeOK, Input!States, InputThreads
<1>2. InputTyped'
  BY DEF InputTyped, InputThreads, InputFresh, Input!TypeOK
<1>3. InputThreads'
  BY DEF InputThreads, InputTyped, Input!TypeOK
<1>4. InputSession'
  BY DEF InputSession, InputThreads, InputTyped, Input!TypeOK, Input!NoCall
<1>5. InputFresh'
  BY DEF InputFresh, InputThreads, InputSession, InputNumbered, InputTyped, Input!TypeOK, Input!NoCall
<1>6. InputNumbered'
  BY DEF InputFresh, InputThreads, InputSession, InputNumbered, InputTyped, Input!TypeOK
<1> QED
  BY <1>1, <1>2, <1>3, <1>4, <1>5, <1>6

\* Open or Close stores a status.
LEMMA InputOwnerPublishKeeps == ASSUME InputInv, Input!OwnerPublish PROVE InputInv'
<1> USE DEF InputInv, Input!OwnerPublish, Input!PublishStatus, Input!readerVars, Input!workerVars, Input!bounds
<1>1. Input!TypeOK'
  BY CapacityAssumption DEF Input!TypeOK, Input!States, InputThreads
<1>2. InputTyped'
  BY DEF InputTyped, InputThreads, InputFresh, Input!TypeOK
<1>3. InputThreads'
  BY DEF InputThreads, InputTyped, Input!TypeOK
<1>4. InputSession'
  BY DEF InputSession, InputThreads, InputTyped, Input!TypeOK, Input!NoCall
<1>5. InputFresh'
  BY DEF InputFresh, InputThreads, InputSession, InputNumbered, InputTyped, Input!TypeOK, Input!NoCall
<1>6. InputNumbered'
  BY DEF InputFresh, InputThreads, InputSession, InputNumbered, InputTyped, Input!TypeOK
<1> QED
  BY <1>1, <1>2, <1>3, <1>4, <1>5, <1>6

\* Open or Close goes on after the callback.
LEMMA InputOwnerPublishedKeeps == ASSUME InputInv, Input!OwnerPublished PROVE InputInv'
<1> USE DEF InputInv, Input!OwnerPublished, Input!OpenDeadline, Input!ClosesQueue, Input!Notified, Input!Terminal, Input!readerVars, Input!workerVars, Input!bounds
<1>1. Input!TypeOK'
  BY CapacityAssumption DEF Input!TypeOK, Input!States, InputThreads
<1>2. InputTyped'
  BY DEF InputTyped, InputThreads, InputFresh, Input!TypeOK
<1>3. InputThreads'
  BY DEF InputThreads, InputTyped, Input!TypeOK
<1>4. InputSession'
  BY DEF InputSession, InputThreads, InputTyped, Input!TypeOK, Input!NoCall
<1>5. InputFresh'
  BY DEF InputFresh, InputThreads, InputSession, InputNumbered, InputTyped, Input!TypeOK, Input!NoCall
<1>6. InputNumbered'
  BY DEF InputFresh, InputThreads, InputSession, InputNumbered, InputTyped, Input!TypeOK
<1> QED
  BY <1>1, <1>2, <1>3, <1>4, <1>5, <1>6

\* The source is opened, or not.
LEMMA InputOpenIoKeeps == ASSUME InputInv, Input!OpenIo PROVE InputInv'
<1> USE DEF InputInv, Input!OpenIo, Input!CheckIo, Input!OwnerWill, Input!readerVars, Input!workerVars, Input!bounds
<1>1. Input!TypeOK'
  BY CapacityAssumption DEF Input!TypeOK, Input!States, InputThreads
<1>2. InputTyped'
  BY DEF InputTyped, InputThreads, InputFresh, Input!TypeOK
<1>3. InputThreads'
  BY DEF InputThreads, InputTyped, Input!TypeOK
<1>4. InputSession'
  BY DEF InputSession, InputThreads, InputTyped, Input!TypeOK, Input!NoCall
<1>5. InputFresh'
  BY DEF InputFresh, InputThreads, InputSession, InputNumbered, InputTyped, Input!TypeOK, Input!NoCall
<1>6. InputNumbered'
  BY DEF InputFresh, InputThreads, InputSession, InputNumbered, InputTyped, Input!TypeOK
<1> QED
  BY <1>1, <1>2, <1>3, <1>4, <1>5, <1>6

\* Open starts the worker.
LEMMA InputOpenStartKeeps == ASSUME InputInv, Input!OpenStart PROVE InputInv'
<1> USE DEF InputInv, Input!OpenStart, Input!readerVars, Input!workerVars, Input!bounds
<1>1. Input!TypeOK'
  BY CapacityAssumption DEF Input!TypeOK, Input!States, InputThreads
<1>2. InputTyped'
  BY DEF InputTyped, InputThreads, InputFresh, Input!TypeOK
<1>3. InputThreads'
  BY DEF InputThreads, InputTyped, Input!TypeOK
<1>4. InputSession'
  BY DEF InputSession, InputThreads, InputTyped, Input!TypeOK, Input!NoCall
<1>5. InputFresh'
  BY DEF InputFresh, InputThreads, InputSession, InputNumbered, InputTyped, Input!TypeOK, Input!NoCall
<1>6. InputNumbered'
  BY DEF InputFresh, InputThreads, InputSession, InputNumbered, InputTyped, Input!TypeOK
<1> QED
  BY <1>1, <1>2, <1>3, <1>4, <1>5, <1>6

\* Open reports a failure or a Cancel.
LEMMA InputOpenFailedKeeps == ASSUME InputInv, Input!OpenFailed PROVE InputInv'
<1> USE DEF InputInv, Input!OpenFailed, Input!OwnerWill, Input!FailureState, Input!readerVars, Input!workerVars, Input!bounds
<1>1. Input!TypeOK'
  BY CapacityAssumption DEF Input!TypeOK, Input!States, InputThreads
<1>2. InputTyped'
  BY DEF InputTyped, InputThreads, InputFresh, Input!TypeOK
<1>3. InputThreads'
  BY DEF InputThreads, InputTyped, Input!TypeOK
<1>4. InputSession'
  BY DEF InputSession, InputThreads, InputTyped, Input!TypeOK, Input!NoCall
<1>5. InputFresh'
  BY DEF InputFresh, InputThreads, InputSession, InputNumbered, InputTyped, Input!TypeOK, Input!NoCall
<1>6. InputNumbered'
  BY DEF InputFresh, InputThreads, InputSession, InputNumbered, InputTyped, Input!TypeOK
<1> QED
  BY <1>1, <1>2, <1>3, <1>4, <1>5, <1>6

\* Cancel sets the flag.
LEMMA InputRequestCancelKeeps == ASSUME InputInv, Input!RequestCancel PROVE InputInv'
<1> USE DEF InputInv, Input!RequestCancel, Input!readerVars, Input!workerVars, Input!bounds
<1>1. Input!TypeOK'
  BY CapacityAssumption DEF Input!TypeOK, Input!States, InputThreads
<1>2. InputTyped'
  BY DEF InputTyped, InputThreads, InputFresh, Input!TypeOK
<1>3. InputThreads'
  BY DEF InputThreads, InputTyped, Input!TypeOK
<1>4. InputSession'
  BY DEF InputSession, InputThreads, InputTyped, Input!TypeOK, Input!NoCall
<1>5. InputFresh'
  BY DEF InputFresh, InputThreads, InputSession, InputNumbered, InputTyped, Input!TypeOK, Input!NoCall
<1>6. InputNumbered'
  BY DEF InputFresh, InputThreads, InputSession, InputNumbered, InputTyped, Input!TypeOK
<1> QED
  BY <1>1, <1>2, <1>3, <1>4, <1>5, <1>6

\* Cancel closes the queue it found.
LEMMA InputCancelUnblockKeeps == ASSUME InputInv, Input!CancelUnblock PROVE InputInv'
<1> USE DEF InputInv, Input!CancelUnblock, Input!Notified, Input!readerVars, Input!workerVars, Input!bounds
<1>1. Input!TypeOK'
  BY CapacityAssumption DEF Input!TypeOK, Input!States, InputThreads
<1>2. InputTyped'
  BY DEF InputTyped, InputThreads, InputFresh, Input!TypeOK
<1>3. InputThreads'
  BY DEF InputThreads, InputTyped, Input!TypeOK
<1>4. InputSession'
  BY DEF InputSession, InputThreads, InputTyped, Input!TypeOK, Input!NoCall
<1>5. InputFresh'
  BY DEF InputFresh, InputThreads, InputSession, InputNumbered, InputTyped, Input!TypeOK, Input!NoCall
<1>6. InputNumbered'
  BY DEF InputFresh, InputThreads, InputSession, InputNumbered, InputTyped, Input!TypeOK
<1> QED
  BY <1>1, <1>2, <1>3, <1>4, <1>5, <1>6

\* Close begins.
LEMMA InputCloseKeeps == ASSUME InputInv, Input!Close PROVE InputInv'
<1> USE DEF InputInv, Input!Close, Input!readerVars, Input!workerVars, Input!bounds
<1>1. Input!TypeOK'
  BY CapacityAssumption DEF Input!TypeOK, Input!States, InputThreads
<1>2. InputTyped'
  BY DEF InputTyped, InputThreads, InputFresh, Input!TypeOK
<1>3. InputThreads'
  BY DEF InputThreads, InputTyped, Input!TypeOK
<1>4. InputSession'
  BY DEF InputSession, InputThreads, InputTyped, Input!TypeOK, Input!NoCall
<1>5. InputFresh'
  BY DEF InputFresh, InputThreads, InputSession, InputNumbered, InputTyped, Input!TypeOK, Input!NoCall
<1>6. InputNumbered'
  BY DEF InputFresh, InputThreads, InputSession, InputNumbered, InputTyped, Input!TypeOK
<1> QED
  BY <1>1, <1>2, <1>3, <1>4, <1>5, <1>6

\* Close interrupts the worker.
LEMMA InputCloseUnblockKeeps == ASSUME InputInv, Input!CloseUnblock PROVE InputInv'
<1> USE DEF InputInv, Input!CloseUnblock, Input!Notified, Input!readerVars, Input!workerVars, Input!bounds
<1>1. Input!TypeOK'
  BY CapacityAssumption DEF Input!TypeOK, Input!States, InputThreads
<1>2. InputTyped'
  BY DEF InputTyped, InputThreads, InputFresh, Input!TypeOK
<1>3. InputThreads'
  BY DEF InputThreads, InputTyped, Input!TypeOK
<1>4. InputSession'
  BY DEF InputSession, InputThreads, InputTyped, Input!TypeOK, Input!NoCall
<1>5. InputFresh'
  BY DEF InputFresh, InputThreads, InputSession, InputNumbered, InputTyped, Input!TypeOK, Input!NoCall
<1>6. InputNumbered'
  BY DEF InputFresh, InputThreads, InputSession, InputNumbered, InputTyped, Input!TypeOK
<1> QED
  BY <1>1, <1>2, <1>3, <1>4, <1>5, <1>6

\* Close joins the worker.
LEMMA InputCloseJoinKeeps == ASSUME InputInv, Input!CloseJoin PROVE InputInv'
<1> USE DEF InputInv, Input!CloseJoin, Input!readerVars, Input!workerVars, Input!bounds
<1>1. Input!TypeOK'
  BY CapacityAssumption DEF Input!TypeOK, Input!States, InputThreads
<1>2. InputTyped'
  BY DEF InputTyped, InputThreads, InputFresh, Input!TypeOK
<1>3. InputThreads'
  BY DEF InputThreads, InputTyped, Input!TypeOK
<1>4. InputSession'
  BY DEF InputSession, InputThreads, InputTyped, Input!TypeOK, Input!NoCall
<1>5. InputFresh'
  BY DEF InputFresh, InputThreads, InputSession, InputNumbered, InputTyped, Input!TypeOK, Input!NoCall
<1>6. InputNumbered'
  BY DEF InputFresh, InputThreads, InputSession, InputNumbered, InputTyped, Input!TypeOK
<1> QED
  BY <1>1, <1>2, <1>3, <1>4, <1>5, <1>6

\* Close drops what is left.
LEMMA InputCloseReleaseKeeps == ASSUME InputInv, Input!CloseRelease PROVE InputInv'
<1> USE DEF InputInv, Input!CloseRelease, Input!readerVars, Input!workerVars, Input!bounds
<1>1. Input!TypeOK'
  <2>1. packets' \in Seq(Nat) /\ Len(packets') <= Capacity
    BY DEF Input!TypeOK
  <2>2. current' \in Seq(Nat) /\ taken' \in Seq(Nat)
    BY DEF Input!TypeOK
  <2>3. cancelled' \in BOOLEAN /\ installed' \in BOOLEAN /\ closed' \in BOOLEAN
    BY Zenon DEF Input!TypeOK
  <2> QED
    BY <2>1, <2>2, <2>3 DEF Input!TypeOK, Input!States, InputThreads
<1>2. InputTyped'
  BY DEF InputTyped, InputThreads, InputFresh, Input!TypeOK
<1>3. InputThreads'
  BY DEF InputThreads, InputTyped, Input!TypeOK
<1>4. InputSession'
  BY DEF InputSession, InputThreads, InputTyped, Input!TypeOK, Input!NoCall
<1>5. InputFresh'
  BY DEF InputFresh, InputThreads, InputSession, InputNumbered, InputTyped, Input!TypeOK, Input!NoCall
<1>6. InputNumbered'
  BY DEF InputFresh, InputThreads, InputSession, InputNumbered, InputTyped, Input!TypeOK
<1> QED
  BY <1>1, <1>2, <1>3, <1>4, <1>5, <1>6

\* Close forgets the connection.
LEMMA InputCloseDiscardKeeps == ASSUME InputInv, Input!CloseDiscard PROVE InputInv'
<1> USE DEF InputInv, Input!CloseDiscard, Input!OwnerWill, Input!readerVars, Input!workerVars, Input!bounds
<1>1. Input!TypeOK'
  BY CapacityAssumption DEF Input!TypeOK, Input!States, InputThreads
<1>2. InputTyped'
  BY DEF InputTyped, InputThreads, InputFresh, Input!TypeOK
<1>3. InputThreads'
  BY DEF InputThreads, InputTyped, Input!TypeOK
<1>4. InputSession'
  BY DEF InputSession, InputThreads, InputTyped, Input!TypeOK, Input!NoCall
<1>5. InputFresh'
  BY DEF InputFresh, InputThreads, InputSession, InputNumbered, InputTyped, Input!TypeOK, Input!NoCall
<1>6. InputNumbered'
  BY DEF InputFresh, InputThreads, InputSession, InputNumbered, InputTyped, Input!TypeOK
<1> QED
  BY <1>1, <1>2, <1>3, <1>4, <1>5, <1>6

\* The worker looks whether it is interrupted.
LEMMA InputLookKeeps == ASSUME InputInv, Input!Look PROVE InputInv'
<1> USE DEF InputInv, Input!Look, Input!WorkerOnly, Input!WorkerWill, Input!readerVars, Input!workerVars, Input!bounds
<1>1. Input!TypeOK'
  BY CapacityAssumption DEF Input!TypeOK, Input!States, InputThreads
<1>2. InputTyped'
  BY DEF InputTyped, InputThreads, InputFresh, Input!TypeOK
<1>3. InputThreads'
  BY DEF InputThreads, InputTyped, Input!TypeOK
<1>4. InputSession'
  BY DEF InputSession, InputThreads, InputTyped, Input!TypeOK, Input!NoCall
<1>5. InputFresh'
  BY DEF InputFresh, InputThreads, InputSession, InputNumbered, InputTyped, Input!TypeOK, Input!NoCall
<1>6. InputNumbered'
  BY DEF InputFresh, InputThreads, InputSession, InputNumbered, InputTyped, Input!TypeOK
<1> QED
  BY <1>1, <1>2, <1>3, <1>4, <1>5, <1>6

\* A packet, the end or a failure of the source.
LEMMA InputReadFrameKeeps == ASSUME InputInv, Input!ReadFrame PROVE InputInv'
<1> USE DEF InputInv, Input!ReadFrame, Input!WorkerOnly, Input!WorkerWill, Input!CheckIo, Input!readerVars, Input!workerVars, Input!bounds
<1>0. demuxed + 1 \in Nat /\ demuxed + 1 > 0
  BY DEF Input!TypeOK
<1>a. /\ <<demuxed + 1>> \in Seq(Nat) /\ <<demuxed + 1>> # <<>> /\ Len(<<demuxed + 1>>) = 1
  BY <1>0, One
<1>b. \/ current' = current /\ demuxed' = demuxed /\ (demuxer' = "push" => FALSE)
      \/ /\ current' = <<demuxed + 1>> /\ demuxed' = demuxed + 1 /\ demuxer' = "push"
         /\ ~cancelled
  OBVIOUS
<1>1. Input!TypeOK'
  <2>1. packets' \in Seq(Nat) /\ Len(packets') <= Capacity
    BY DEF Input!TypeOK
  <2>2. current' \in Seq(Nat) /\ taken' \in Seq(Nat)
    BY <1>a, <1>b DEF Input!TypeOK
  <2>3. cancelled' \in BOOLEAN /\ installed' \in BOOLEAN /\ closed' \in BOOLEAN
    BY Zenon DEF Input!TypeOK
  <2> QED
    BY <1>0, <2>1, <2>2, <2>3 DEF Input!TypeOK, Input!States, InputThreads
<1>2. InputTyped'
  BY <1>a, <1>b DEF InputTyped
<1>3. InputThreads'
  BY DEF InputThreads, InputTyped, Input!TypeOK
<1>4. InputSession'
  BY DEF InputSession, InputThreads, InputTyped, Input!TypeOK, Input!NoCall
<1>5. InputFresh'
  <2> SUFFICES ASSUME ~cancelled PROVE InputFresh'
    BY DEF InputFresh
  <2>1. current = <<>> /\ status = "opened" /\ installed
    BY DEF InputFresh, InputThreads
  <2>2. current' # <<>> <=> demuxer' = "push"
    BY <1>a, <1>b, <2>1
  <2> QED
    BY <2>1, <2>2 DEF InputFresh, InputThreads, InputSession, InputTyped
<1>6. InputNumbered'
  <2> SUFFICES ASSUME ~cancelled, installed PROVE InputNumbered'
    BY DEF InputNumbered
  <2>1. current = <<>> /\ Len(current) = 0
    BY DEF InputFresh
  <2>2. Len(taken) \in Nat /\ Len(packets) \in Nat /\ delivered \in Nat /\ demuxed \in Nat
    BY DEF Input!TypeOK
  <2>3. demuxed = delivered + Len(taken) + Len(packets)
    BY <2>1, <2>2 DEF InputNumbered
  <2>4. \/ demuxed' = demuxed /\ Len(current') = 0
        \/ demuxed' = demuxed + 1 /\ Len(current') = 1
    BY <1>a, <1>b, <2>1
  <2>5. demuxed' = delivered + Len(taken) + Len(packets) + Len(current')
    <3> HIDE DEF Input!ReadFrame
    <3>1. CASE demuxed' = demuxed /\ Len(current') = 0
      BY <2>2, <2>3, <3>1
    <3>2. CASE demuxed' = demuxed + 1 /\ Len(current') = 1
      BY <2>2, <2>3, <3>2
    <3> QED
      BY <2>4, <3>1, <3>2
  <2> QED
    BY <2>5 DEF InputNumbered
<1> QED
  BY <1>1, <1>2, <1>3, <1>4, <1>5, <1>6

\* The source has nothing yet.
LEMMA InputAgainKeeps == ASSUME InputInv, Input!Again PROVE InputInv'
<1> USE DEF InputInv, Input!Again, Input!WorkerOnly, Input!readerVars, Input!workerVars, Input!bounds
<1>1. Input!TypeOK'
  BY CapacityAssumption DEF Input!TypeOK, Input!States, InputThreads
<1>2. InputTyped'
  BY DEF InputTyped, InputThreads, InputFresh, Input!TypeOK
<1>3. InputThreads'
  BY DEF InputThreads, InputTyped, Input!TypeOK
<1>4. InputSession'
  BY DEF InputSession, InputThreads, InputTyped, Input!TypeOK, Input!NoCall
<1>5. InputFresh'
  BY DEF InputFresh, InputThreads, InputSession, InputNumbered, InputTyped, Input!TypeOK, Input!NoCall
<1>6. InputNumbered'
  BY DEF InputFresh, InputThreads, InputSession, InputNumbered, InputTyped, Input!TypeOK
<1> QED
  BY <1>1, <1>2, <1>3, <1>4, <1>5, <1>6

\* A packet enters the queue, or finds it closed.
LEMMA InputPushKeeps == ASSUME InputInv, Input!Push PROVE InputInv'
<1> USE DEF InputInv, Input!Push, Input!WorkerOnly, Input!WorkerWill, Input!HasRoom, Input!readerVars, Input!workerVars, Input!bounds
<1>1. CASE closed
  <2>1. UNCHANGED <<packets, current>>
    BY <1>1
  <2>2. Input!TypeOK'
    BY <1>1, <2>1 DEF Input!TypeOK, Input!States
  <2>3. InputTyped'
    BY <1>1, <2>1 DEF InputTyped
  <2>4. InputThreads'
    BY <1>1 DEF InputThreads, InputTyped, Input!TypeOK
  <2>5. InputSession'
    BY <1>1 DEF InputSession, InputThreads
  <2>6. cancelled
    BY <1>1 DEF InputFresh, InputThreads
  <2> QED
    BY <2>2, <2>3, <2>4, <2>5, <2>6 DEF InputFresh, InputNumbered
<1>2. CASE ~closed
  <2>1. /\ Len(packets) < Capacity /\ packets' = packets \o current /\ current' = <<>>
        /\ demuxer' = "look" /\ UNCHANGED <<deadline, target, demuxed, skipped, taken>>
    BY <1>2
  <2>2. packets \in Seq(Nat) /\ current \in Seq(Nat) /\ Len(packets) \in Nat /\ taken \in Seq(Nat)
    BY DEF Input!TypeOK
  <2>a. current = <<>> \/ current = <<demuxed>>
    BY DEF InputTyped
  <2>b. demuxed \in Nat /\ delivered \in Nat
    BY DEF Input!TypeOK
  <2>3. Len(current) \in {0, 1} /\ (current # <<>> => Len(current) = 1 /\ current[1] = demuxed)
    BY <2>a, <2>b, One, NoPackets
  <2>4. /\ packets' \in Seq(Nat) /\ Len(packets') = Len(packets) + Len(current)
        /\ \A i \in 1..Len(packets) : packets'[i] = packets[i]
        /\ current # <<>> => packets'[Len(packets) + 1] = demuxed
    BY <2>1, <2>2, <2>3, Admitted
  <2>5. Input!TypeOK'
    <3>1. packets' \in Seq(Nat) /\ Len(packets') <= Capacity
      <4>1. Len(packets') <= Len(packets) + 1
        <5> HIDE DEF Input!Push
        <5>1. CASE Len(current) = 0
          BY <2>2, <2>4, <5>1
        <5>2. CASE Len(current) = 1
          BY <2>2, <2>4, <5>2
        <5> QED
          BY <2>3, <5>1, <5>2
      <4> QED
        BY <2>1, <2>2, <2>4, <4>1, CapacityAssumption
    <3>2. current' \in Seq(Nat)
      BY <2>1
    <3> QED
      BY <2>1, <3>1, <3>2 DEF Input!TypeOK
  <2>6. InputTyped'
    BY <2>1 DEF InputTyped
  <2>7. InputThreads'
    BY <2>1 DEF InputThreads, InputTyped, Input!TypeOK
  <2>8. InputSession'
    BY <2>1 DEF InputSession, InputThreads
  <2>9. InputFresh'
    <3> SUFFICES ASSUME ~cancelled PROVE InputFresh'
      BY DEF InputFresh
    <3>1. status = "opened" /\ reader' = reader /\ waits' = waits /\ result' = result
      BY DEF InputThreads
    <3>2. installed
      BY <3>1 DEF InputFresh
    <3> QED
      BY <1>2, <2>1, <3>1, <3>2 DEF InputFresh, InputThreads
  <2>10. InputNumbered'
    <3> SUFFICES ASSUME ~cancelled, installed PROVE InputNumbered'
      BY DEF InputNumbered
    <3>1. current # <<>> /\ Len(current) = 1
      BY <2>3 DEF InputFresh
    <3>2. Len(taken) \in Nat
      BY <2>2
    <3>3. demuxed = delivered + Len(taken) + Len(packets) + 1
      BY <3>1 DEF InputNumbered
    <3>4. demuxed = delivered + Len(taken) + Len(packets') + Len(current')
      BY <2>1, <2>2, <2>b, <2>4, <3>1, <3>2, <3>3, NoPackets
    <3>5. ASSUME NEW i \in 1..Len(packets') PROVE packets'[i] = delivered + Len(taken) + i
      <4>1. Len(packets') = Len(packets) + 1
        BY <2>4, <3>1
      <4>2. CASE i \in 1..Len(packets)
        BY <2>4, <4>2 DEF InputNumbered
      <4>3. CASE i = Len(packets) + 1
        BY <2>2, <2>b, <2>4, <3>1, <3>2, <3>3, <4>3
      <4> QED
        BY <2>2, <4>1, <4>2, <4>3
    <3> QED
      BY <2>1, <3>4, <3>5 DEF InputNumbered
  <2> QED
    BY <2>5, <2>6, <2>7, <2>8, <2>9, <2>10
<1> QED
  BY <1>1, <1>2

\* The end waits until the queue is empty.
LEMMA InputDrainKeeps == ASSUME InputInv, Input!Drain PROVE InputInv'
<1> USE DEF InputInv, Input!Drain, Input!WorkerOnly, Input!WorkerWill, Input!readerVars, Input!workerVars, Input!bounds
<1>1. Input!TypeOK'
  BY CapacityAssumption DEF Input!TypeOK, Input!States, InputThreads
<1>2. InputTyped'
  BY DEF InputTyped, InputThreads, InputFresh, Input!TypeOK
<1>3. InputThreads'
  BY DEF InputThreads, InputTyped, Input!TypeOK
<1>4. InputSession'
  BY DEF InputSession, InputThreads, InputTyped, Input!TypeOK, Input!NoCall
<1>5. InputFresh'
  BY DEF InputFresh, InputThreads, InputSession, InputNumbered, InputTyped, Input!TypeOK, Input!NoCall
<1>6. InputNumbered'
  BY DEF InputFresh, InputThreads, InputSession, InputNumbered, InputTyped, Input!TypeOK
<1> QED
  BY <1>1, <1>2, <1>3, <1>4, <1>5, <1>6

\* A failure ends the worker.
LEMMA InputFinishFailureKeeps == ASSUME InputInv, Input!FinishFailure PROVE InputInv'
<1> USE DEF InputInv, Input!FinishFailure, Input!WorkerOnly, Input!WorkerWill, Input!FailureState, Input!readerVars, Input!workerVars, Input!bounds
<1>1. Input!TypeOK'
  BY CapacityAssumption DEF Input!TypeOK, Input!States, InputThreads
<1>2. InputTyped'
  BY DEF InputTyped, InputThreads, InputFresh, Input!TypeOK
<1>3. InputThreads'
  BY DEF InputThreads, InputTyped, Input!TypeOK
<1>4. InputSession'
  BY DEF InputSession, InputThreads, InputTyped, Input!TypeOK, Input!NoCall
<1>5. InputFresh'
  BY DEF InputFresh, InputThreads, InputSession, InputNumbered, InputTyped, Input!TypeOK, Input!NoCall
<1>6. InputNumbered'
  BY DEF InputFresh, InputThreads, InputSession, InputNumbered, InputTyped, Input!TypeOK
<1> QED
  BY <1>1, <1>2, <1>3, <1>4, <1>5, <1>6

\* The worker stores a status.
LEMMA InputWorkerPublishKeeps == ASSUME InputInv, Input!WorkerPublish PROVE InputInv'
<1> USE DEF InputInv, Input!WorkerPublish, Input!PublishStatus, Input!readerVars, Input!workerVars, Input!bounds
<1>1. Input!TypeOK'
  BY CapacityAssumption DEF Input!TypeOK, Input!States, InputThreads
<1>2. InputTyped'
  BY DEF InputTyped, InputThreads, InputFresh, Input!TypeOK
<1>3. InputThreads'
  BY DEF InputThreads, InputTyped, Input!TypeOK
<1>4. InputSession'
  BY DEF InputSession, InputThreads, InputTyped, Input!TypeOK, Input!NoCall
<1>5. InputFresh'
  BY DEF InputFresh, InputThreads, InputSession, InputNumbered, InputTyped, Input!TypeOK, Input!NoCall
<1>6. InputNumbered'
  BY DEF InputFresh, InputThreads, InputSession, InputNumbered, InputTyped, Input!TypeOK
<1> QED
  BY <1>1, <1>2, <1>3, <1>4, <1>5, <1>6

\* The worker closes the queue and exits.
LEMMA InputWorkerPublishedKeeps == ASSUME InputInv, Input!WorkerPublished PROVE InputInv'
<1> USE DEF InputInv, Input!WorkerPublished, Input!ClosesQueue, Input!Terminal, Input!readerVars, Input!workerVars, Input!bounds
<1>1. Input!TypeOK'
  BY CapacityAssumption DEF Input!TypeOK, Input!States, InputThreads
<1>2. InputTyped'
  BY DEF InputTyped, InputThreads, InputFresh, Input!TypeOK
<1>3. InputThreads'
  BY DEF InputThreads, InputTyped, Input!TypeOK
<1>4. InputSession'
  BY DEF InputSession, InputThreads, InputTyped, Input!TypeOK, Input!NoCall
<1>5. InputFresh'
  BY DEF InputFresh, InputThreads, InputSession, InputNumbered, InputTyped, Input!TypeOK, Input!NoCall
<1>6. InputNumbered'
  BY DEF InputFresh, InputThreads, InputSession, InputNumbered, InputTyped, Input!TypeOK
<1> QED
  BY <1>1, <1>2, <1>3, <1>4, <1>5, <1>6

\* ReadPacket begins.
LEMMA InputReadKeeps == ASSUME NEW wait \in BOOLEAN, InputInv, Input!Read(wait) PROVE InputInv'
<1> USE DEF InputInv, Input!Read, Input!ReadOnly, Input!readerVars, Input!workerVars, Input!bounds
<1>1. Input!TypeOK'
  BY CapacityAssumption DEF Input!TypeOK, Input!States, InputThreads
<1>2. InputTyped'
  BY DEF InputTyped, InputThreads, InputFresh, Input!TypeOK
<1>3. InputThreads'
  BY DEF InputThreads, InputTyped, Input!TypeOK
<1>4. InputSession'
  BY DEF InputSession, InputThreads, InputTyped, Input!TypeOK, Input!NoCall
<1>5. InputFresh'
  BY DEF InputFresh, InputThreads, InputSession, InputNumbered, InputTyped, Input!TypeOK, Input!NoCall
<1>6. InputNumbered'
  BY DEF InputFresh, InputThreads, InputSession, InputNumbered, InputTyped, Input!TypeOK
<1> QED
  BY <1>1, <1>2, <1>3, <1>4, <1>5, <1>6

\* ReadPacket takes a packet, or finds none.
LEMMA InputPopKeeps == ASSUME InputInv, Input!Pop PROVE InputInv'
<1> USE DEF InputInv, Input!Pop, Input!ReadOnly, Input!readerVars, Input!workerVars, Input!bounds
<1>1. UNCHANGED <<status, cancelled, installed, closed, deadline, opener, target, canceller,
                 current, demuxed, skipped, connections, cancels, waits, result, delivered, demuxer>>
  OBVIOUS
<1>2. reader = "pop" /\ reader' = "check" /\ taken = <<>>
  BY DEF InputTyped
<1>3. packets \in Seq(Nat) /\ Len(packets) \in Nat /\ Len(packets) <= Capacity
  BY DEF Input!TypeOK
<1>4. CASE packets = <<>>
  <2>1. UNCHANGED <<taken, packets>> /\ (closed \/ ~waits)
    BY <1>4
  <2>2. Input!TypeOK'
    BY <1>1, <1>2, <2>1 DEF Input!TypeOK
  <2>3. InputTyped' /\ InputThreads'
    BY <1>1, <1>2, <2>1 DEF InputTyped, InputThreads
  <2>4. InputSession'
    BY <1>1, <1>2, <2>1 DEF InputSession, InputThreads
  <2>5. InputFresh'
    BY <1>1, <1>2, <1>4, <2>1 DEF InputFresh
  <2>6. InputNumbered'
    BY <1>1, <2>1 DEF InputNumbered
  <2> QED
    BY <2>2, <2>3, <2>4, <2>5, <2>6
<1>5. CASE packets # <<>>
  <2>1. taken' = <<Head(packets)>> /\ packets' = Tail(packets)
    BY <1>5
  <2>2. /\ Head(packets) \in Nat /\ Head(packets) = packets[1]
        /\ packets' \in Seq(Nat) /\ Len(packets) > 0 /\ Len(packets') = Len(packets) - 1
        /\ \A i \in 1..Len(packets') : i + 1 \in 1..Len(packets) /\ packets'[i] = packets[i + 1]
    BY <1>3, <1>5, <2>1, Popped
  <2>3. taken' \in Seq(Nat) /\ taken' # <<>> /\ Len(taken') = 1
    BY <2>1, <2>2, One
  <2>4. Input!TypeOK'
    <3>1. Len(packets') <= Capacity
      BY <1>3, <2>2, CapacityAssumption
    <3> QED
      BY <1>1, <1>2, <2>2, <2>3, <3>1 DEF Input!TypeOK
  <2>5. InputTyped' /\ InputThreads'
    BY <1>1, <1>2, <2>3 DEF InputTyped, InputThreads
  <2>6. InputSession'
    BY <1>1, <1>2 DEF InputSession, InputThreads
  <2>7. InputFresh'
    <3> SUFFICES ASSUME ~cancelled PROVE InputFresh'
      BY <1>1 DEF InputFresh
    <3>1. /\ status # "ended" /\ installed
          /\ ~(demuxer \in {"publish", "published"} /\ target["worker"] = "ended")
      BY <1>2, <1>5 DEF InputFresh
    <3>2. result # "eof"
      BY <3>1 DEF InputFresh
    <3> QED
      BY <1>1, <1>2, <2>3, <3>1, <3>2 DEF InputFresh
  <2>8. InputNumbered'
    <3> SUFFICES ASSUME ~cancelled, installed PROVE InputNumbered'
      BY <1>1 DEF InputNumbered
    <3>1. Len(taken) = 0 /\ delivered \in Nat /\ Len(current) \in Nat
      BY <1>2 DEF Input!TypeOK
    <3>2. /\ demuxed = delivered + Len(packets) + Len(current)
          /\ \A i \in 1..Len(packets) : packets[i] = delivered + i
      BY <1>3, <3>1 DEF InputNumbered
    <3>3. taken' = <<delivered + 1>>
      <4>1. packets[1] = delivered + 1
        BY <1>3, <2>2, <3>2
      <4> QED
        BY <2>1, <2>2, <4>1
    <3>4. demuxed = delivered + Len(taken') + Len(packets') + Len(current)
      BY <1>3, <2>2, <2>3, <3>1, <3>2
    <3>5. \A i \in 1..Len(packets') : packets'[i] = delivered + Len(taken') + i
      BY <1>3, <2>2, <2>3, <3>1, <3>2
    <3> QED
      BY <1>1, <3>3, <3>4, <3>5 DEF InputNumbered
  <2> QED
    BY <2>4, <2>5, <2>6, <2>7, <2>8
<1> QED
  BY <1>4, <1>5

\* ReadPacket checks for a Cancel.
LEMMA InputCheckKeeps == ASSUME InputInv, Input!Check PROVE InputInv'
<1> USE DEF InputInv, Input!Check, Input!ReadOnly, Input!Stale, Input!readerVars, Input!workerVars, Input!bounds
<1>1. Input!TypeOK'
  BY CapacityAssumption DEF Input!TypeOK, Input!States, InputThreads
<1>2. InputTyped'
  BY DEF InputTyped, InputThreads, InputFresh, Input!TypeOK
<1>3. InputThreads'
  BY DEF InputThreads, InputTyped, Input!TypeOK
<1>4. InputSession'
  BY DEF InputSession, InputThreads, InputTyped, Input!TypeOK, Input!NoCall
<1>5. InputFresh'
  BY DEF InputFresh, InputThreads, InputSession, InputNumbered, InputTyped, Input!TypeOK, Input!NoCall
<1>6. InputNumbered'
  <2> SUFFICES ASSUME ~cancelled, installed PROVE InputNumbered'
    BY DEF InputNumbered
  <2>1. /\ delivered \in Nat /\ Len(packets) \in Nat /\ Len(current) \in Nat
        /\ taken' = <<>> /\ UNCHANGED <<packets, current, demuxed>>
    BY DEF Input!TypeOK
  <2>3. CASE taken = <<>>
    BY <2>1, <2>3 DEF InputNumbered
  <2>4. CASE taken # <<>>
    <3>1. taken = <<delivered + 1>> /\ Len(taken) = 1 /\ taken[1] = delivered + 1
      BY <2>1, <2>4, One DEF InputNumbered
    <3>2. /\ demuxed = delivered + 1 + Len(packets) + Len(current)
          /\ \A i \in 1..Len(packets) : packets[i] = delivered + 1 + i
      BY <3>1 DEF InputNumbered
    <3>3. status \notin {"closed", "cancelled"}
      BY <2>1, <3>2 DEF InputFresh
    <3>4. delivered' = delivered + 1
      BY <2>4, <3>1, <3>3
    <3> QED
      BY <2>1, <3>2, <3>4, NoPackets DEF InputNumbered
  <2> QED
    BY <2>3, <2>4
<1> QED
  BY <1>1, <1>2, <1>3, <1>4, <1>5, <1>6

\* ReadPacket wakes the worker.
LEMMA InputReadNotifyKeeps == ASSUME InputInv, Input!ReadNotify PROVE InputInv'
<1> USE DEF InputInv, Input!ReadNotify, Input!ReadOnly, Input!Notified, Input!readerVars, Input!workerVars, Input!bounds
<1>1. Input!TypeOK'
  BY CapacityAssumption DEF Input!TypeOK, Input!States, InputThreads
<1>2. InputTyped'
  BY DEF InputTyped, InputThreads, InputFresh, Input!TypeOK
<1>3. InputThreads'
  BY DEF InputThreads, InputTyped, Input!TypeOK
<1>4. InputSession'
  BY DEF InputSession, InputThreads, InputTyped, Input!TypeOK, Input!NoCall
<1>5. InputFresh'
  BY DEF InputFresh, InputThreads, InputSession, InputNumbered, InputTyped, Input!TypeOK, Input!NoCall
<1>6. InputNumbered'
  BY DEF InputFresh, InputThreads, InputSession, InputNumbered, InputTyped, Input!TypeOK
<1> QED
  BY <1>1, <1>2, <1>3, <1>4, <1>5, <1>6

\* The deadline of the interrupt callback passes.
LEMMA InputExpireKeeps == ASSUME InputInv, Input!Expire PROVE InputInv'
<1> USE DEF InputInv, Input!Expire, Input!readerVars, Input!workerVars, Input!bounds
<1>1. Input!TypeOK'
  BY CapacityAssumption DEF Input!TypeOK, Input!States, InputThreads
<1>2. InputTyped'
  BY DEF InputTyped, InputThreads, InputFresh, Input!TypeOK
<1>3. InputThreads'
  BY DEF InputThreads, InputTyped, Input!TypeOK
<1>4. InputSession'
  BY DEF InputSession, InputThreads, InputTyped, Input!TypeOK, Input!NoCall
<1>5. InputFresh'
  BY DEF InputFresh, InputThreads, InputSession, InputNumbered, InputTyped, Input!TypeOK, Input!NoCall
<1>6. InputNumbered'
  BY DEF InputFresh, InputThreads, InputSession, InputNumbered, InputTyped, Input!TypeOK
<1> QED
  BY <1>1, <1>2, <1>3, <1>4, <1>5, <1>6

\* Stuttering keeps the invariant.
LEMMA InputStutter == ASSUME InputInv, UNCHANGED Input!vars PROVE InputInv'
<1>1. UNCHANGED <<status, cancelled, installed, packets, closed, deadline, opener, demuxer,
                  current, target, reader, waits, taken, result, canceller, demuxed, delivered,
                  connections, cancels, skipped>>
  BY DEF Input!vars, Input!readerVars, Input!workerVars, Input!bounds
<1>2. Input!TypeOK'
  BY <1>1 DEF InputInv, Input!TypeOK
<1>3. InputTyped' /\ InputThreads' /\ InputSession'
  BY <1>1 DEF InputInv, InputTyped, InputThreads, InputSession
<1>4. InputFresh' /\ InputNumbered'
  BY <1>1 DEF InputInv, InputFresh, InputNumbered
<1> QED
  BY <1>2, <1>3, <1>4 DEF InputInv

\* Every step of an AvInput keeps the invariant.
LEMMA InputStep == ASSUME InputInv, [Input!Next]_(Input!vars) PROVE InputInv'
BY InputOpenBeginKeeps, InputOpenInstallKeeps, InputOwnerPublishKeeps, InputOwnerPublishedKeeps, InputOpenIoKeeps, InputOpenStartKeeps, InputOpenFailedKeeps, InputRequestCancelKeeps, InputCancelUnblockKeeps, InputCloseKeeps, InputCloseUnblockKeeps, InputCloseJoinKeeps, InputCloseReleaseKeeps, InputCloseDiscardKeeps, InputLookKeeps, InputReadFrameKeeps, InputAgainKeeps, InputPushKeeps, InputDrainKeeps, InputFinishFailureKeeps, InputWorkerPublishKeeps, InputWorkerPublishedKeeps, InputReadKeeps, InputPopKeeps, InputCheckKeeps, InputReadNotifyKeeps, InputExpireKeeps,
   InputStutter
   DEF Input!Next, Input!OwnerStep, Input!WorkerStep, Input!ReaderStep

\* Initially there is no connection.
LEMMA InputStart == Input!Init => InputInv
<1> SUFFICES ASSUME Input!Init PROVE InputInv
  OBVIOUS
<1> USE DEF Input!Init
<1>1. Input!TypeOK
  <2>1. packets \in Seq(Nat) /\ Len(packets) <= Capacity
    BY NoPackets, CapacityAssumption
  <2>2. current \in Seq(Nat) /\ taken \in Seq(Nat)
    BY NoPackets
  <2>3. cancelled \in BOOLEAN /\ installed \in BOOLEAN /\ closed \in BOOLEAN
    BY Zenon
  <2> QED
    BY <2>1, <2>2, <2>3 DEF Input!TypeOK, Input!States, Input!NoCall
<1>2. InputTyped /\ InputThreads
  BY NoPackets DEF InputTyped, InputThreads
<1>3. InputSession /\ InputFresh /\ InputNumbered
  BY DEF InputSession, InputFresh, InputNumbered, Input!NoCall
<1> QED
  BY <1>1, <1>2, <1>3 DEF InputInv

\* The packets on their way are the ones that follow those delivered.
LEMMA InputComplete == InputInv => Input!NothingLost
<1> SUFFICES ASSUME InputInv PROVE Input!NothingLost
  OBVIOUS
<1> USE DEF InputInv
<1>1. /\ packets \in Seq(Nat) /\ current \in Seq(Nat) /\ taken \in Seq(Nat)
      /\ Len(packets) \in Nat /\ Len(current) \in Nat /\ Len(taken) \in Nat
      /\ demuxed \in Nat /\ delivered \in Nat
  BY DEF Input!TypeOK
<1>2. ASSUME ~cancelled, installed
      PROVE  taken \o packets \o current = [i \in 1..(demuxed - delivered) |-> delivered + i]
  <2> DEFINE front == taken \o packets
             all == front \o current
  <2>1. /\ front \in Seq(Nat) /\ Len(front) = Len(taken) + Len(packets)
        /\ \A i \in 1..Len(taken) + Len(packets) :
             front[i] = IF i <= Len(taken) THEN taken[i] ELSE packets[i - Len(taken)]
    BY <1>1, ConcatProperties, Zenon
  <2>2. /\ all \in Seq(Nat) /\ Len(all) = Len(front) + Len(current)
        /\ \A i \in 1..Len(front) + Len(current) :
             all[i] = IF i <= Len(front) THEN front[i] ELSE current[i - Len(front)]
    <3> HIDE DEF front
    <3>1. front \in Seq(Nat) /\ current \in Seq(Nat)
      BY <1>1, <2>1
    <3> QED
      BY <3>1, ConcatProperties, Zenon
  <2> HIDE DEF front, all
  <2>3. /\ demuxed = delivered + Len(taken) + Len(packets) + Len(current)
        /\ \A i \in 1..Len(packets) : packets[i] = delivered + Len(taken) + i
    BY <1>2 DEF InputNumbered
  <2>4. \A i \in 1..Len(taken) : taken[i] = delivered + i
    <3>1. taken = <<>> \/ taken = <<delivered + 1>>
      BY <1>2 DEF InputNumbered
    <3>2. Len(taken) = 0 \/ (Len(taken) = 1 /\ taken[1] = delivered + 1)
      BY <1>1, <3>1, One, NoPackets
    <3> QED
      BY <1>1, <3>2
  <2>5. \A i \in 1..Len(current) : i = 1 /\ Len(current) = 1 /\ current[i] = demuxed
    <3>1. current = <<>> \/ current = <<demuxed>>
      BY DEF InputTyped
    <3>2. Len(current) = 0 \/ (Len(current) = 1 /\ current[1] = demuxed)
      BY <1>1, <3>1, One, NoPackets
    <3> TAKE i \in 1..Len(current)
    <3>3. Len(current) = 1 /\ current[1] = demuxed
      BY <1>1, <3>2
    <3>4. i = 1
      BY <3>3
    <3> QED
      BY <3>3, <3>4
  <2>6. Len(all) = demuxed - delivered
    BY <1>1, <2>1, <2>2, <2>3
  <2>7. ASSUME NEW i \in 1..Len(front) PROVE front[i] = delivered + i
    <3>1. CASE i <= Len(taken)
      <4>1. i \in 1..Len(taken) /\ i \in 1..Len(taken) + Len(packets)
        BY <1>1, <2>1, <2>7, <3>1
      <4>2. front[i] = taken[i]
        BY <2>1, <3>1, <4>1
      <4> QED
        BY <2>4, <4>1, <4>2
    <3>2. CASE i > Len(taken)
      <4>1. i - Len(taken) \in 1..Len(packets)
        BY <1>1, <2>1, <2>7, <3>2
      <4>2. front[i] = packets[i - Len(taken)]
        BY <1>1, <2>1, <2>7, <3>2
      <4> QED
        BY <1>1, <2>3, <4>1, <4>2
    <3> QED
      BY <1>1, <2>1, <3>1, <3>2
  <2>8. ASSUME NEW i \in 1..Len(all) PROVE all[i] = delivered + i
    <3>1. Len(front) \in Nat
      BY <1>1, <2>1
    <3>2. CASE i <= Len(front)
      <4>1. i \in 1..Len(front) /\ all[i] = front[i]
        BY <1>1, <2>2, <3>1, <3>2
      <4> QED
        BY <2>7, <4>1
    <3>3. CASE i > Len(front)
      <4>1. i - Len(front) \in 1..Len(current) /\ all[i] = current[i - Len(front)]
        BY <1>1, <2>2, <2>8, <3>1, <3>3
      <4>2. i - Len(front) = 1 /\ Len(current) = 1 /\ all[i] = demuxed
        BY <2>5, <4>1
      <4>3. i \in Nat /\ i = Len(front) + 1
        BY <1>1, <2>2, <3>1, <4>2
      <4>4. demuxed = delivered + Len(front) + 1
        BY <1>1, <2>1, <2>3, <4>2
      <4> QED
        BY <1>1, <3>1, <4>2, <4>3, <4>4
    <3> QED
      BY <1>1, <2>2, <3>1, <3>2, <3>3
  <2>9. all = [i \in 1..Len(all) |-> all[i]]
    BY <2>2
  <2>10. all = [i \in 1..(demuxed - delivered) |-> delivered + i]
    BY <2>6, <2>8, <2>9
  <2> QED
    BY <2>10 DEF all, front
<1>3. result = "eof" /\ ~cancelled => delivered = demuxed
  <2> SUFFICES ASSUME result = "eof", ~cancelled PROVE delivered = demuxed
    OBVIOUS
  <2>1. installed /\ taken = <<>> /\ packets = <<>> /\ current = <<>>
    BY DEF InputFresh
  <2> QED
    BY <1>1, <2>1, NoPackets DEF InputNumbered
<1>4. result = "null" /\ waits /\ reader = "idle" /\ ~cancelled /\ installed =>
        status = "failed" /\ delivered = demuxed
  <2> SUFFICES ASSUME result = "null", waits, reader = "idle", ~cancelled, installed
               PROVE  status = "failed" /\ delivered = demuxed
    OBVIOUS
  <2>1. status = "failed" /\ taken = <<>> /\ packets = <<>> /\ current = <<>>
    BY DEF InputFresh, InputTyped
  <2> QED
    BY <1>1, <2>1, NoPackets DEF InputNumbered
<1> QED
  BY <1>2, <1>3, <1>4 DEF Input!NothingLost

\* A packet popped before Cancel is dropped by the check after it.
LEMMA InputSilent ==
  ASSUME InputInv, [Input!Next]_(Input!vars), cancelled, cancelled'
  PROVE  delivered' = delivered
<1>1. CASE Input!OpenBegin
  BY <1>1 DEF Input!OpenBegin
<1>2. CASE Input!Check
  BY <1>2 DEF Input!Check, Input!Stale
<1>3. CASE UNCHANGED Input!vars
  BY <1>3 DEF Input!vars, Input!readerVars
<1> USE DEF Input!readerVars
<1>4. CASE Input!Close \/ Input!RequestCancel \/ Input!CancelUnblock \/ Input!OpenIo \/ Input!Expire
  BY <1>4 DEF Input!Close, Input!RequestCancel, Input!CancelUnblock, Input!OpenIo, Input!Expire
<1>5. CASE Input!OwnerStep
  BY <1>5 DEF Input!OwnerStep, Input!OpenInstall, Input!OwnerPublish, Input!OwnerPublished,
              Input!PublishStatus, Input!OpenStart, Input!OpenFailed, Input!CloseUnblock,
              Input!CloseJoin, Input!CloseRelease, Input!CloseDiscard
<1>6. CASE Input!WorkerStep \/ Input!ReadFrame
  BY <1>6 DEF Input!WorkerStep, Input!WorkerOnly, Input!Look, Input!Again, Input!Push,
              Input!Drain, Input!FinishFailure, Input!WorkerPublish, Input!WorkerPublished,
              Input!PublishStatus, Input!ReadFrame
<1>7. CASE Input!Pop \/ Input!ReadNotify \/ \E wait \in BOOLEAN : Input!Read(wait)
  BY <1>7 DEF Input!Pop, Input!ReadNotify, Input!Read, Input!ReadOnly
<1> QED
  BY <1>1, <1>2, <1>3, <1>4, <1>5, <1>6, <1>7 DEF Input!Next, Input!ReaderStep

-----------------------------------------------------------------------------
(* Recorder.                                                               *)

Working == {"open", "look", "waiting", "write", "count", "finish", "stop", "fail"}

RecThreads ==
  /\ worker = "none" <=> ~joinable
  /\ owner # "idle" => joinable
  /\ worker \in {"finish", "stop", "callback", "exited", "none"} =>
       queue = <<>> /\ state # "running"
  /\ worker \in Working => state \in {"running", "stopping"} /\ errors = 0
  /\ worker = "callback" => state = "failed" /\ errors = 0
  /\ worker \in {"exited", "none"} => state \in {"stopped", "failed"}
  /\ errors <= 1
  /\ errors = 1 => state = "failed"
RecHand ==
  /\ Len(hand) <= 1
  /\ hand # <<>> => worker \in {"write", "fail", "callback", "exited", "none"}
  /\ worker = "write" => Len(hand) = 1
  /\ \A i \in 1..Len(filter) : filter[i].track \in Adts
  /\ worker = "stop" => filter = <<>>
  /\ state = "stopped" => hand = <<>> /\ filter = <<>>
RecOrigin ==
  /\ origin = NoOrigin => file = <<>>
  /\ \A i \in 1..Len(file) : file[i].shift = Rescaled(origin, file[i].packet.track)
OnTheWay(t) == OfTrack(filter, t) \o (OfTrack(hand, t) \o OfTrack(queue, t))
RecConserved ==
  \A t \in Tracks :
    IF state = "failed" THEN IsPrefix(OfTrack(Muxed, t), OfTrack(accepted, t))
    ELSE OfTrack(accepted, t) = OfTrack(Muxed, t) \o OnTheWay(t)
Counted == IF worker = "count" THEN 1 ELSE 0
RecCounted ==
  state # "failed" =>
    /\ Len(accepted) = Len(file) + Len(filter) + Len(hand) + Len(queue)
    /\ worker # "fail" => Len(accepted) = written + Counted + Len(hand) + Len(queue)

Entries == [packet : Packets, shift : Int]

\* A concatenation, item by item.
LEMMA Joined ==
  ASSUME NEW S, NEW a \in Seq(S), NEW b \in Seq(S)
  PROVE  /\ a \o b \in Seq(S) /\ Len(a) \in Nat /\ Len(b) \in Nat
         /\ Len(a \o b) = Len(a) + Len(b)
         /\ \A i \in 1..Len(a) : (a \o b)[i] = a[i]
         /\ \A i \in 1..Len(b) : (a \o b)[Len(a) + i] = b[i]
<1>1. a \o b \in Seq(S) /\ Len(a) \in Nat /\ Len(b) \in Nat
  OBVIOUS
<1>2. Len(a \o b) = Len(a) + Len(b)
  BY ConcatProperties, Zenon
<1>3. \A i \in 1..Len(a) : (a \o b)[i] = a[i]
  OBVIOUS
<1>4. \A i \in 1..Len(b) : (a \o b)[Len(a) + i] = b[i]
  OBVIOUS
<1> QED
  BY <1>1, <1>2, <1>3, <1>4

\* An index beyond the first part is one of the second.
LEMMA Sides ==
  ASSUME NEW m \in Nat, NEW n \in Nat, NEW i \in 1..(m + n), i \notin 1..m
  PROVE  i - m \in 1..n /\ i = m + (i - m)
OBVIOUS

\* Products of naturals are naturals.
LEMMA Times == ASSUME NEW a \in Nat, NEW b \in Nat PROVE a * b \in Nat
OBVIOUS

\* The quotient by a positive divisor.
LEMMA Quotient ==
  ASSUME NEW o \in Nat, NEW b \in Nat \ {0}
  PROVE  /\ o \div b \in Nat
         /\ b * (o \div b) <= o /\ o < b * (o \div b) + b
BY SMTT(20)

\* The origin is rescaled to the nearest tick.
LEMMA RescaledNear ==
  ASSUME NEW o \in Nat, NEW t \in Tracks
  PROVE  /\ Rescaled(o, t) \in Nat
         /\ 2 * (Rescaled(o, t) * Tick[t]) <= 2 * o + Tick[t]
         /\ 2 * o < 2 * (Rescaled(o, t) * Tick[t]) + Tick[t]
<1> DEFINE b == Tick[t]
           q == (2 * o + b) \div (2 * b)
<1>1. b \in Nat \ {0}
  BY RecorderAssumption
<1> HIDE DEF b
<1>2. 2 * o + b \in Nat /\ 2 * b \in Nat \ {0}
  BY <1>1
<1>3. q \in Nat /\ (2 * b) * q <= 2 * o + b /\ 2 * o + b < (2 * b) * q + 2 * b
  BY <1>2, Quotient
<1> HIDE DEF q
<1>4. (2 * b) * q = 2 * (q * b) /\ q * b \in Nat
  BY <1>1, <1>3
<1>5. q \in Nat /\ 2 * (q * b) <= 2 * o + b /\ 2 * o < 2 * (q * b) + b
  BY <1>1, <1>3, <1>4
<1> QED
  BY <1>5 DEF q, b, Rescaled

\* An origin is a time.
LEMMA OriginType ==
  ASSUME TypeOK, NEW p \in Packets, NEW pad \in Paddings
  PROVE  OriginWith(p, pad) \in Nat
<1>1. p.ts + pad \in Nat /\ Tick[p.track] \in Nat
  BY RecorderAssumption DEF Packets, Paddings
<1>2. (p.ts + pad) * Tick[p.track] \in Nat
  BY <1>1, Times
<1> QED
  BY <1>2 DEF OriginWith, TypeOK, NoOrigin

\* What WritePackets adds to the file, each packet with the common origin.
LEMMA Muxing ==
  ASSUME TypeOK, RecOrigin, NEW ps \in Seq(Packets), WritePackets(ps)
  PROVE  /\ origin' \in Nat \cup {NoOrigin} /\ file' \in Seq(Entries)
         /\ Len(file') = Len(file) + Len(ps)
         /\ Muxed' = Muxed \o ps
         /\ RecOrigin'
<1>1. file \in Seq(Entries) /\ Len(file) \in Nat /\ DOMAIN file = 1..Len(file)
  BY DEF TypeOK, Entries
<1>2. Muxed \in Seq(Packets) /\ Len(Muxed) = Len(file)
  <2>1. \A i \in 1..Len(file) : file[i].packet \in Packets
    <3>1. \A i \in 1..Len(file) : file[i] \in Entries
      BY <1>1
    <3> QED
      BY <3>1 DEF Entries
  <2> QED
    BY <1>1, <2>1 DEF Muxed
<1>3. CASE ps = <<>>
  <2>1. UNCHANGED <<origin, file>>
    BY <1>3 DEF WritePackets
  <2>2. Muxed \o ps = Muxed /\ Len(ps) = 0
    BY <1>2, <1>3, ConcatEmptySeq
  <2>3. Muxed' = Muxed
    BY <2>1 DEF Muxed
  <2>4. RecOrigin'
    BY <2>1 DEF RecOrigin, Rescaled
  <2> QED
    BY <1>1, <2>1, <2>2, <2>3, <2>4 DEF TypeOK
<1>4. CASE ps # <<>>
  <2>1. PICK pad \in Paddings :
          /\ origin' = OriginWith(ps[1], pad)
          /\ file' = file \o [i \in DOMAIN ps |->
               [packet |-> ps[i], shift |-> Rescaled(origin', ps[i].track)]]
    BY <1>4 DEF WritePackets
  <2>2. ps[1] \in Packets /\ DOMAIN ps = 1..Len(ps) /\ Len(ps) \in Nat \ {0}
    BY <1>4
  <2>3. origin' \in Nat
    BY <2>1, <2>2, OriginType
  <2> DEFINE new == [i \in DOMAIN ps |->
                       [packet |-> ps[i], shift |-> Rescaled(origin', ps[i].track)]]
  <2>4. new \in Seq(Entries) /\ Len(new) = Len(ps)
    <3>1. ASSUME NEW i \in 1..Len(ps)
          PROVE  [packet |-> ps[i], shift |-> Rescaled(origin', ps[i].track)] \in Entries
      <4>1. ps[i] \in Packets
        OBVIOUS
      <4>2. Rescaled(origin', ps[i].track) \in Nat
        BY <2>3, <4>1, RescaledNear DEF Packets
      <4> QED
        BY <4>1, <4>2 DEF Entries
    <3> QED
      BY <2>2, <3>1
  <2>5. \A i \in 1..Len(ps) :
          new[i].packet = ps[i] /\ new[i].shift = Rescaled(origin', ps[i].track)
    BY <2>2
  <2>6. file' = file \o new
    BY <2>1
  <2> HIDE DEF new
  <2>7. /\ file' \in Seq(Entries) /\ Len(file') = Len(file) + Len(ps)
        /\ \A i \in 1..Len(file) : file'[i] = file[i]
        /\ \A i \in 1..Len(ps) : file'[Len(file) + i] = new[i]
    BY <1>1, <2>4, <2>6, Joined
  <2>8. Muxed' = Muxed \o ps
    <3> DEFINE joined == Muxed \o ps
    <3>0. /\ joined \in Seq(Packets) /\ Len(joined) = Len(Muxed) + Len(ps)
          /\ \A i \in 1..Len(Muxed) : joined[i] = Muxed[i]
          /\ \A i \in 1..Len(ps) : joined[Len(Muxed) + i] = ps[i]
      <4>1. Muxed \in Seq(Packets) /\ ps \in Seq(Packets)
        BY <1>2
      <4> QED
        BY <4>1, Joined
    <3> HIDE DEF joined
    <3>1. /\ joined \in Seq(Packets) /\ Len(joined) = Len(file) + Len(ps)
          /\ \A i \in 1..Len(file) : joined[i] = Muxed[i]
          /\ \A i \in 1..Len(ps) : joined[Len(file) + i] = ps[i]
      BY <1>2, <3>0
    <3>2. Muxed' = [i \in 1..(Len(file) + Len(ps)) |-> file'[i].packet]
      <4>1. DOMAIN file' = 1..(Len(file) + Len(ps))
        BY <2>7
      <4> QED
        BY <4>1 DEF Muxed
    <3>3. \A i \in 1..Len(file) : Muxed[i] = file[i].packet
      BY <1>1 DEF Muxed
    <3>4. ASSUME NEW i \in 1..(Len(file) + Len(ps)) PROVE file'[i].packet = joined[i]
      <4>1. CASE i \in 1..Len(file)
        BY <2>7, <3>1, <3>3, <4>1
      <4>2. CASE i \notin 1..Len(file)
        <5>1. i - Len(file) \in 1..Len(ps) /\ i = Len(file) + (i - Len(file))
          BY <1>1, <2>2, <4>2, Sides
        <5>2. file'[i] = new[i - Len(file)] /\ joined[i] = ps[i - Len(file)]
          BY <2>7, <3>1, <5>1
        <5> QED
          BY <2>5, <5>1, <5>2
      <4> QED
        BY <4>1, <4>2
    <3>5. joined = [i \in 1..(Len(file) + Len(ps)) |-> joined[i]]
      BY <3>1
    <3> QED
      BY <3>2, <3>4, <3>5 DEF joined
  <2>9. RecOrigin'
    <3>1. file # <<>> => origin' = origin
      BY <2>1 DEF RecOrigin, OriginWith
    <3>2. ASSUME NEW i \in 1..Len(file')
          PROVE  file'[i].shift = Rescaled(origin', file'[i].packet.track)
      <4>0. Len(file') = Len(file) + Len(ps)
        BY <2>7
      <4>1. CASE i \in 1..Len(file)
        <5>1. file'[i] = file[i] /\ file # <<>>
          BY <1>1, <2>7, <4>1
        <5> QED
          BY <3>1, <4>1, <5>1 DEF RecOrigin
      <4>2. CASE i \notin 1..Len(file)
        <5>1. i - Len(file) \in 1..Len(ps) /\ i = Len(file) + (i - Len(file))
          BY <1>1, <2>2, <4>0, <4>2, Sides
        <5>2. file'[i] = new[i - Len(file)]
          BY <2>7, <5>1
        <5> QED
          BY <2>5, <5>1, <5>2
      <4> QED
        BY <4>1, <4>2
    <3>3. (\A i \in 1..Len(file) : file[i].shift = Rescaled(origin, file[i].packet.track))'
      BY <3>2 DEF Rescaled
    <3>4. origin' # NoOrigin
      BY <2>3 DEF NoOrigin
    <3> QED
      BY <3>3, <3>4 DEF RecOrigin
  <2> QED
    BY <2>3, <2>7, <2>8, <2>9
<1> QED
  BY <1>3, <1>4

\* One origin keeps the tracks together.
LEMMA TimingFollows == ASSUME TypeOK, RecOrigin PROVE RelativeTimingKept
<1> SUFFICES ASSUME NEW i \in DOMAIN file, NEW j \in DOMAIN file
             PROVE  2 * (file[i].shift * Tick[file[i].packet.track]
                         - file[j].shift * Tick[file[j].packet.track])
                      <= Tick[file[i].packet.track] + Tick[file[j].packet.track]
  BY DEF RelativeTimingKept
<1> DEFINE t == file[i].packet.track
           u == file[j].packet.track
<1>0. file \in Seq(Entries) /\ i \in 1..Len(file) /\ j \in 1..Len(file)
  BY DEF TypeOK, Entries
<1>1. file[i] \in Entries /\ file[j] \in Entries /\ file # <<>>
  BY <1>0
<1>2. t \in Tracks /\ u \in Tracks
  BY <1>1 DEF Entries, Packets
<1>3. origin \in Nat /\ file[i].shift = Rescaled(origin, t) /\ file[j].shift = Rescaled(origin, u)
  BY <1>0, <1>1 DEF RecOrigin, TypeOK
<1>4. Tick[t] \in Nat /\ Tick[u] \in Nat
  BY <1>2, RecorderAssumption
<1> HIDE DEF t, u
<1> DEFINE x == Rescaled(origin, t) * Tick[t]
           y == Rescaled(origin, u) * Tick[u]
<1>5. /\ x \in Nat /\ 2 * x <= 2 * origin + Tick[t]
      /\ y \in Nat /\ 2 * origin < 2 * y + Tick[u]
  BY <1>2, <1>3, <1>4, RescaledNear, Times
<1> HIDE DEF x, y
<1>6. 2 * (x - y) <= Tick[t] + Tick[u]
  BY <1>3, <1>4, <1>5
<1> QED
  BY <1>3, <1>6 DEF x, y, t, u

BytesQueued == queueBytes = Bytes(queue)
RecInv == TypeOK /\ RecThreads /\ RecHand /\ RecOrigin /\ BytesQueued /\ RecConserved /\ RecCounted

\* A step that moves no packet keeps the account of them.
LEMMA DataKept ==
  ASSUME RecOrigin, BytesQueued, RecConserved,
         UNCHANGED <<accepted, file, filter, hand, queue, queueBytes, origin>>,
         state' = "failed" <=> state = "failed"
  PROVE  RecOrigin' /\ BytesQueued' /\ RecConserved'
<1>1. RecOrigin'
  BY DEF RecOrigin, Rescaled
<1>2. BytesQueued'
  BY DEF BytesQueued
<1>3. Muxed' = Muxed
  BY DEF Muxed
<1>4. \A t \in Tracks : OnTheWay(t)' = OnTheWay(t)
  BY DEF OnTheWay
<1>5. RecConserved'
  BY <1>3, <1>4 DEF RecConserved
<1> QED
  BY <1>1, <1>2, <1>5

\* notify_one after a submission.
LEMMA RecSubmitNotifyKeeps == ASSUME NEW t \in Tracks, RecInv, SubmitNotify(t) PROVE RecInv'
<1> USE DEF RecInv, SubmitNotify, NotifyReady, session, writer
<1>1. TypeOK'
  BY DEF TypeOK
<1>2. RecThreads'
  BY DEF RecThreads, Working, TypeOK
<1>3. RecHand'
  BY DEF RecHand, RecThreads, Working
<1>4. RecOrigin' /\ BytesQueued' /\ RecConserved'
  <2>1. UNCHANGED <<accepted, file, filter, hand, queue, queueBytes, origin>>
    OBVIOUS
  <2>2. state' = "failed" <=> state = "failed"
    BY DEF RecThreads, Working
  <2> QED
    BY <2>1, <2>2, DataKept
<1>5. RecCounted'
  BY DEF RecCounted, Counted, RecHand, RecThreads, Working, TypeOK
<1> QED
  BY <1>1, <1>2, <1>3, <1>4, <1>5

\* Drain keeps a failure.
LEMMA RecDrainKeeps == ASSUME RecInv, Drain PROVE RecInv'
<1> USE DEF RecInv, Drain, DrainState, session, writer
<1>1. TypeOK'
  BY DEF TypeOK
<1>2. RecThreads'
  BY DEF RecThreads, Working, TypeOK
<1>3. RecHand'
  BY DEF RecHand, RecThreads, Working
<1>4. RecOrigin' /\ BytesQueued' /\ RecConserved'
  <2>1. UNCHANGED <<accepted, file, filter, hand, queue, queueBytes, origin>>
    OBVIOUS
  <2>2. state' = "failed" <=> state = "failed"
    BY DEF RecThreads, Working
  <2> QED
    BY <2>1, <2>2, DataKept
<1>5. RecCounted'
  BY DEF RecCounted, Counted, RecHand, RecThreads, Working, TypeOK
<1> QED
  BY <1>1, <1>2, <1>3, <1>4, <1>5

\* notify_one of Drain.
LEMMA RecDrainNotifyKeeps == ASSUME RecInv, DrainNotify PROVE RecInv'
<1> USE DEF RecInv, DrainNotify, NotifyReady, session, writer
<1>1. TypeOK'
  BY DEF TypeOK
<1>2. RecThreads'
  BY DEF RecThreads, Working, TypeOK
<1>3. RecHand'
  BY DEF RecHand, RecThreads, Working
<1>4. RecOrigin' /\ BytesQueued' /\ RecConserved'
  <2>1. UNCHANGED <<accepted, file, filter, hand, queue, queueBytes, origin>>
    OBVIOUS
  <2>2. state' = "failed" <=> state = "failed"
    BY DEF RecThreads, Working
  <2> QED
    BY <2>1, <2>2, DataKept
<1>5. RecCounted'
  BY DEF RecCounted, Counted, RecHand, RecThreads, Working, TypeOK
<1> QED
  BY <1>1, <1>2, <1>3, <1>4, <1>5

\* Stop drains first.
LEMMA RecStopKeeps == ASSUME RecInv, Stop PROVE RecInv'
<1> USE DEF RecInv, Stop, DrainState, session, writer
<1>1. TypeOK'
  BY DEF TypeOK
<1>2. RecThreads'
  BY DEF RecThreads, Working, TypeOK
<1>3. RecHand'
  BY DEF RecHand, RecThreads, Working
<1>4. RecOrigin' /\ BytesQueued' /\ RecConserved'
  <2>1. UNCHANGED <<accepted, file, filter, hand, queue, queueBytes, origin>>
    OBVIOUS
  <2>2. state' = "failed" <=> state = "failed"
    BY DEF RecThreads, Working
  <2> QED
    BY <2>1, <2>2, DataKept
<1>5. RecCounted'
  BY DEF RecCounted, Counted, RecHand, RecThreads, Working, TypeOK
<1> QED
  BY <1>1, <1>2, <1>3, <1>4, <1>5

\* notify_one of Stop.
LEMMA RecStopNotifyKeeps == ASSUME RecInv, StopNotify PROVE RecInv'
<1> USE DEF RecInv, StopNotify, NotifyReady, session, writer
<1>1. TypeOK'
  BY DEF TypeOK
<1>2. RecThreads'
  BY DEF RecThreads, Working, TypeOK
<1>3. RecHand'
  BY DEF RecHand, RecThreads, Working
<1>4. RecOrigin' /\ BytesQueued' /\ RecConserved'
  <2>1. UNCHANGED <<accepted, file, filter, hand, queue, queueBytes, origin>>
    OBVIOUS
  <2>2. state' = "failed" <=> state = "failed"
    BY DEF RecThreads, Working
  <2> QED
    BY <2>1, <2>2, DataKept
<1>5. RecCounted'
  BY DEF RecCounted, Counted, RecHand, RecThreads, Working, TypeOK
<1> QED
  BY <1>1, <1>2, <1>3, <1>4, <1>5

\* Stop joins the worker.
LEMMA RecJoinKeeps == ASSUME RecInv, Join PROVE RecInv'
<1> USE DEF RecInv, Join, session, writer
<1>1. TypeOK'
  BY DEF TypeOK
<1>2. RecThreads'
  BY DEF RecThreads, Working, TypeOK
<1>3. RecHand'
  BY DEF RecHand, RecThreads, Working
<1>4. RecOrigin' /\ BytesQueued' /\ RecConserved'
  <2>1. UNCHANGED <<accepted, file, filter, hand, queue, queueBytes, origin>>
    OBVIOUS
  <2>2. state' = "failed" <=> state = "failed"
    BY DEF RecThreads, Working
  <2> QED
    BY <2>1, <2>2, DataKept
<1>5. RecCounted'
  BY DEF RecCounted, Counted, RecHand, RecThreads, Working, TypeOK
<1> QED
  BY <1>1, <1>2, <1>3, <1>4, <1>5

\* The file is opened, or not.
LEMMA RecOpenKeeps == ASSUME RecInv, Open PROVE RecInv'
<1> USE DEF RecInv, Open, Throw, Fault, WorkerOnly, session, writer
<1>1. TypeOK'
  BY DEF TypeOK
<1>2. RecThreads'
  BY DEF RecThreads, Working, TypeOK
<1>3. RecHand'
  BY DEF RecHand, RecThreads, Working
<1>4. RecOrigin' /\ BytesQueued' /\ RecConserved'
  <2>1. UNCHANGED <<accepted, file, filter, hand, queue, queueBytes, origin>>
    OBVIOUS
  <2>2. state' = "failed" <=> state = "failed"
    BY DEF RecThreads, Working
  <2> QED
    BY <2>1, <2>2, DataKept
<1>5. RecCounted'
  BY DEF RecCounted, Counted, RecHand, RecThreads, Working, TypeOK
<1> QED
  BY <1>1, <1>2, <1>3, <1>4, <1>5

\* A wakeup nobody caused.
LEMMA RecSpuriousWakeupKeeps == ASSUME RecInv, SpuriousWakeup PROVE RecInv'
<1> USE DEF RecInv, SpuriousWakeup, WorkerOnly, session, writer
<1>1. TypeOK'
  BY DEF TypeOK
<1>2. RecThreads'
  BY DEF RecThreads, Working, TypeOK
<1>3. RecHand'
  BY DEF RecHand, RecThreads, Working
<1>4. RecOrigin' /\ BytesQueued' /\ RecConserved'
  <2>1. UNCHANGED <<accepted, file, filter, hand, queue, queueBytes, origin>>
    OBVIOUS
  <2>2. state' = "failed" <=> state = "failed"
    BY DEF RecThreads, Working
  <2> QED
    BY <2>1, <2>2, DataKept
<1>5. RecCounted'
  BY DEF RecCounted, Counted, RecHand, RecThreads, Working, TypeOK
<1> QED
  BY <1>1, <1>2, <1>3, <1>4, <1>5

\* The packet in hand is counted once it was written.
LEMMA RecCountWrittenKeeps == ASSUME RecInv, CountWritten PROVE RecInv'
<1> USE DEF RecInv, CountWritten, session, writer
<1>1. TypeOK'
  BY DEF TypeOK
<1>2. RecThreads'
  BY DEF RecThreads, Working, TypeOK
<1>3. RecHand'
  BY DEF RecHand, RecThreads, Working
<1>4. RecOrigin' /\ BytesQueued' /\ RecConserved'
  <2>1. UNCHANGED <<accepted, file, filter, hand, queue, queueBytes, origin>>
    OBVIOUS
  <2>2. state' = "failed" <=> state = "failed"
    BY DEF RecThreads, Working
  <2> QED
    BY <2>1, <2>2, DataKept
<1>5. RecCounted'
  <2>1. Len(hand) \in Nat /\ Len(queue) \in Nat /\ written \in Nat
    BY DEF TypeOK
  <2>2. UNCHANGED <<accepted, file, filter, hand, queue, state>>
    OBVIOUS
  <2>3. worker = "count" /\ worker' = "look" /\ written' = written + 1
    OBVIOUS
  <2> QED
    BY <2>1, <2>2, <2>3 DEF RecCounted, Counted
<1> QED
  BY <1>1, <1>2, <1>3, <1>4, <1>5

\* The trailer was written.
LEMMA RecStoppedKeeps == ASSUME RecInv, Stopped PROVE RecInv'
<1> USE DEF RecInv, Stopped, session, writer
<1>1. TypeOK'
  BY DEF TypeOK
<1>2. RecThreads'
  BY DEF RecThreads, Working, TypeOK
<1>3. RecHand'
  BY DEF RecHand, RecThreads, Working
<1>4. RecOrigin' /\ BytesQueued' /\ RecConserved'
  <2>1. UNCHANGED <<accepted, file, filter, hand, queue, queueBytes, origin>>
    OBVIOUS
  <2>2. state' = "failed" <=> state = "failed"
    BY DEF RecThreads, Working
  <2> QED
    BY <2>1, <2>2, DataKept
<1>5. RecCounted'
  BY DEF RecCounted, Counted, RecHand, RecThreads, Working, TypeOK
<1> QED
  BY <1>1, <1>2, <1>3, <1>4, <1>5

\* The failure is reported.
LEMMA RecOnErrorKeeps == ASSUME RecInv, OnError PROVE RecInv'
<1> USE DEF RecInv, OnError, session, writer
<1>1. TypeOK'
  BY DEF TypeOK
<1>2. RecThreads'
  BY DEF RecThreads, Working, TypeOK
<1>3. RecHand'
  BY DEF RecHand, RecThreads, Working
<1>4. RecOrigin' /\ BytesQueued' /\ RecConserved'
  <2>1. UNCHANGED <<accepted, file, filter, hand, queue, queueBytes, origin>>
    OBVIOUS
  <2>2. state' = "failed" <=> state = "failed"
    BY DEF RecThreads, Working
  <2> QED
    BY <2>1, <2>2, DataKept
<1>5. RecCounted'
  BY DEF RecCounted, Counted, RecHand, RecThreads, Working, TypeOK
<1> QED
  BY <1>1, <1>2, <1>3, <1>4, <1>5

\* Packets of other tracks count for nothing.
LEMMA OfTrackNone ==
  ASSUME NEW ps \in Seq(Packets), NEW t, \A i \in 1..Len(ps) : ps[i].track # t
  PROVE  OfTrack(ps, t) = <<>>
<1>1. PICK c \in [0..Len(ps) -> Seq(Packets)] : Kept(ps, t, c)
  BY OfTrackTrace
<1>2. Len(ps) \in Nat
  OBVIOUS
<1> DEFINE T == {k \in Nat : k <= Len(ps) => c[k] = <<>>}
<1>3. 0 \in T
  BY <1>1 DEF Kept
<1>4. ASSUME NEW k \in T PROVE k + 1 \in T
  <2> SUFFICES ASSUME k + 1 <= Len(ps) PROVE c[k + 1] = <<>>
    OBVIOUS
  <2>1. k \in Nat /\ k + 1 \in 1..Len(ps) /\ (k + 1) - 1 = k /\ c[k] = <<>>
    BY <1>2
  <2>2. ps[k + 1].track # t
    BY <2>1
  <2> QED
    BY <1>1, <2>1, <2>2 DEF Kept
<1>5. Len(ps) \in T
  <2>1. T \in SUBSET Nat
    OBVIOUS
  <2> HIDE DEF T
  <2> QED
    BY <1>2, <1>3, <1>4, <2>1, NatSetInduction
<1> QED
  BY <1>1, <1>5 DEF Kept

\* The packets of a track in a single packet.
LEMMA OfTrackOne ==
  ASSUME NEW p \in Packets, NEW t
  PROVE  OfTrack(<<p>>, t) = IF p.track = t THEN <<p>> ELSE <<>>
<1>1. <<>> \in Seq(Packets) /\ <<p>> = Append(<<>>, p)
  OBVIOUS
<1>2. OfTrack(Append(<<>>, p), t) =
        IF p.track = t THEN Append(OfTrack(<<>>, t), p) ELSE OfTrack(<<>>, t)
  BY <1>1, OfTrackAppend, Zenon
<1> QED
  BY <1>1, <1>2, OfTrackEmpty

\* What comes first is a prefix.
LEMMA PrefixOfConcat ==
  ASSUME NEW a \in Seq(Packets), NEW b \in Seq(Packets)
  PROVE  IsPrefix(a, a \o b)
<1>1. /\ a \o b \in Seq(Packets) /\ Len(a) \in Nat /\ Len(b) \in Nat
      /\ Len(a \o b) = Len(a) + Len(b)
      /\ \A i \in 1..Len(a) : (a \o b)[i] = a[i]
  BY Joined
<1>2. Len(a) <= Len(a \o b)
  BY <1>1
<1>3. SubSeq(a, 1, Len(a)) = SubSeq(a \o b, 1, Len(a))
  BY <1>1
<1> QED
  BY <1>2, <1>3 DEF IsPrefix

\* The sequences the account is about.
LEMMA RecTypes ==
  ASSUME TypeOK, NEW t
  PROVE  /\ Muxed \in Seq(Packets) /\ Len(Muxed) = Len(file)
         /\ OfTrack(Muxed, t) \in Seq(Packets) /\ OfTrack(filter, t) \in Seq(Packets)
         /\ OfTrack(hand, t) \in Seq(Packets) /\ OfTrack(queue, t) \in Seq(Packets)
         /\ OfTrack(accepted, t) \in Seq(Packets)
         /\ OnTheWay(t) \in Seq(Packets)
<1>1. Muxed \in Seq(Packets) /\ Len(Muxed) = Len(file)
  <2>1. file \in Seq(Entries)
    BY DEF TypeOK, Entries
  <2>2. \A i \in 1..Len(file) : file[i] \in Entries
    BY <2>1
  <2>3. \A i \in 1..Len(file) : file[i].packet \in Packets
    BY <2>2 DEF Entries
  <2> QED
    BY <2>1, <2>3 DEF Muxed
<1>2. /\ filter \in Seq(Packets) /\ hand \in Seq(Packets) /\ queue \in Seq(Packets)
      /\ accepted \in Seq(Packets)
  BY DEF TypeOK
<1>3. /\ OfTrack(Muxed, t) \in Seq(Packets) /\ OfTrack(filter, t) \in Seq(Packets)
      /\ OfTrack(hand, t) \in Seq(Packets) /\ OfTrack(queue, t) \in Seq(Packets)
      /\ OfTrack(accepted, t) \in Seq(Packets)
  BY <1>1, <1>2, OfTrackType
<1>4. OfTrack(hand, t) \o OfTrack(queue, t) \in Seq(Packets)
  BY <1>3, Joined
<1>5. OnTheWay(t) \in Seq(Packets)
  BY <1>3, <1>4, Joined DEF OnTheWay
<1> QED
  BY <1>1, <1>3, <1>5

\* A session starts: the queue was left empty.
LEMMA RecStartKeeps == ASSUME RecInv, Start PROVE RecInv'
<1> USE DEF RecInv, Start, ResetSession, Fault
<1>1. queue = <<>> /\ queue' = <<>>
  BY DEF RecThreads
<1>2. /\ file' = <<>> /\ filter' = <<>> /\ hand' = <<>> /\ accepted' = <<>>
      /\ origin' = NoOrigin /\ queueBytes' = 0 /\ written' = 0
  OBVIOUS
<1>3. TypeOK'
  <2>1. queue' \in Seq(Packets) /\ hand' \in Seq(Packets) /\ filter' \in Seq(Packets)
        /\ accepted' \in Seq(Packets) /\ file' \in Seq([packet : Packets, shift : Int])
    BY <1>1, <1>2, EmptyIsSeq
  <2>2. queueBytes' \in 0..MaxBytes
    BY <1>2, RecorderAssumption
  <2>3. joinable' \in BOOLEAN
    BY Zenon DEF TypeOK
  <2>4. submitted' \in [Tracks -> Nat]
    OBVIOUS
  <2> QED
    BY <2>1, <2>2, <2>3, <2>4 DEF TypeOK, NoOrigin
<1>4. RecThreads'
  BY <1>1 DEF RecThreads, Working
<1>5. RecHand'
  BY <1>2 DEF RecHand, RecThreads
<1>6. RecOrigin'
  BY <1>2 DEF RecOrigin
<1>7. BytesQueued'
  BY <1>1, <1>2, BytesEmpty DEF BytesQueued
<1>8. RecConserved'
  <2>1. Muxed' = <<>>
    BY <1>2 DEF Muxed
  <2>2. <<>> \o <<>> = <<>> /\ IsPrefix(<<>>, <<>>)
    BY DEF IsPrefix
  <2>3. \A t : OfTrack(<<>>, t) = <<>>
    BY OfTrackEmpty
  <2> QED
    BY <1>1, <1>2, <2>1, <2>2, <2>3 DEF RecConserved, OnTheWay
<1>9. RecCounted'
  BY <1>1, <1>2 DEF RecCounted, Counted
<1> QED
  BY <1>3, <1>4, <1>5, <1>6, <1>7, <1>8, <1>9

\* A packet is accepted when it fits.
LEMMA RecTrySubmitPacketKeeps ==
  ASSUME NEW t \in Tracks, RecInv, TrySubmitPacket(t) PROVE RecInv'
<1> DEFINE p == [track |-> t, ts |-> submitted[t] + 1]
<1> USE DEF RecInv, writer
<1>1. p \in Packets /\ p.track = t /\ Size[t] \in Nat /\ MaxBytes \in Nat
  BY RecorderAssumption DEF Packets, TypeOK
<1>2. /\ state = "running" /\ UNCHANGED <<state, worker, joinable, owner, drainer, written, errors,
                                          hand, filter, origin, file, sessions, faults>>
      /\ submitted' = [submitted EXCEPT ![t] = @ + 1]
      /\ \/ /\ Size[t] <= MaxBytes - queueBytes
            /\ queue' = Append(queue, p) /\ queueBytes' = queueBytes + Size[t]
            /\ accepted' = Append(accepted, p)
            /\ submitter' = [submitter EXCEPT ![t] = "notify"] /\ dropped' = dropped
         \/ /\ dropped' = dropped + 1
            /\ UNCHANGED <<queue, queueBytes, accepted, submitter>>
  BY DEF TrySubmitPacket, Fits, Accepting
<1> HIDE DEF p
<1>3. TypeOK'
  <2>1. queue' \in Seq(Packets) /\ accepted' \in Seq(Packets)
    <3>1. queue \in Seq(Packets) /\ accepted \in Seq(Packets)
      BY DEF TypeOK
    <3>2. Append(queue, p) \in Seq(Packets) /\ Append(accepted, p) \in Seq(Packets)
      BY <1>1, <3>1
    <3> QED
      BY <1>2, <3>1, <3>2
  <2>2. queueBytes' \in 0..MaxBytes
    BY <1>1, <1>2 DEF TypeOK
  <2>3. submitted' \in [Tracks -> Nat] /\ submitter' \in [Tracks -> {"idle", "notify"}]
    <3>1. submitted \in [Tracks -> Nat] /\ submitter \in [Tracks -> {"idle", "notify"}]
      BY DEF TypeOK
    <3>2. submitted' \in [Tracks -> Nat]
      BY <1>2, <3>1
    <3>3. [submitter EXCEPT ![t] = "notify"] \in [Tracks -> {"idle", "notify"}]
      BY <3>1
    <3>4. submitter' \in {submitter, [submitter EXCEPT ![t] = "notify"]}
      BY <1>2
    <3> QED
      BY <3>1, <3>2, <3>3, <3>4
  <2>4. dropped' \in Nat
    BY <1>2 DEF TypeOK
  <2> QED
    BY <1>2, <2>1, <2>2, <2>3, <2>4 DEF TypeOK
<1>4. RecThreads' /\ RecHand'
  BY <1>2 DEF RecThreads, RecHand, Working
<1>5. RecOrigin'
  BY <1>2 DEF RecOrigin, Rescaled
<1>6. CASE UNCHANGED <<queue, queueBytes, accepted>>
  <2>1. BytesQueued' /\ RecConserved'
    BY <1>2, <1>6, DataKept
  <2>2. RecCounted'
    BY <1>2, <1>6 DEF RecCounted, Counted
  <2> QED
    BY <1>3, <1>4, <1>5, <2>1, <2>2
<1>7. CASE queue' = Append(queue, p) /\ accepted' = Append(accepted, p)
           /\ queueBytes' = queueBytes + Size[t]
  <2>1. queue \in Seq(Packets) /\ accepted \in Seq(Packets)
    BY DEF TypeOK
  <2>2. BytesQueued'
    BY <1>1, <1>7, <2>1, BytesAppend DEF BytesQueued
  <2>3. RecConserved'
    <3> SUFFICES ASSUME NEW u \in Tracks
                 PROVE  OfTrack(accepted', u) = OfTrack(Muxed', u) \o OnTheWay(u)'
      BY <1>2 DEF RecConserved
    <3> DEFINE M == OfTrack(Muxed, u)
               F == OfTrack(filter, u)
               H == OfTrack(hand, u)
               Q == OfTrack(queue, u)
    <3>1. M \in Seq(Packets) /\ F \in Seq(Packets) /\ H \in Seq(Packets) /\ Q \in Seq(Packets)
      BY RecTypes
    <3>2. Muxed' = Muxed /\ OnTheWay(u)' = F \o (H \o OfTrack(queue', u))
      BY <1>2 DEF Muxed, OnTheWay
    <3>3. OfTrack(accepted, u) = M \o (F \o (H \o Q))
      BY <1>2 DEF RecConserved, OnTheWay
    <3>4. CASE t = u
      <4>1. OfTrack(accepted', u) = Append(OfTrack(accepted, u), p) /\ OfTrack(queue', u) = Append(Q, p)
        BY <1>1, <1>7, <2>1, <3>4, OfTrackAppend
      <4> HIDE DEF M, F, H, Q
      <4>2. H \o Append(Q, p) = Append(H \o Q, p) /\ H \o Q \in Seq(Packets)
        BY <1>1, <3>1, AppendConcat, Joined
      <4>3. /\ F \o Append(H \o Q, p) = Append(F \o (H \o Q), p) /\ F \o (H \o Q) \in Seq(Packets)
        BY <1>1, <3>1, <4>2, AppendConcat, Joined
      <4>4. M \o Append(F \o (H \o Q), p) = Append(M \o (F \o (H \o Q)), p)
        BY <1>1, <3>1, <4>3, AppendConcat
      <4> QED
        BY <3>2, <3>3, <4>1, <4>2, <4>3, <4>4 DEF M
    <3>5. CASE t # u
      <4>1. OfTrack(accepted', u) = OfTrack(accepted, u) /\ OfTrack(queue', u) = Q
        BY <1>1, <1>7, <2>1, <3>5, OfTrackAppend
      <4> QED
        BY <3>2, <3>3, <4>1
    <3> QED
      BY <3>4, <3>5
  <2>4. RecCounted'
    <3>1. Len(accepted') = Len(accepted) + 1 /\ Len(queue') = Len(queue) + 1
      BY <1>1, <1>7, <2>1
    <3>2. Len(accepted) \in Nat /\ Len(queue) \in Nat /\ Len(file) \in Nat /\ Len(filter) \in Nat
          /\ Len(hand) \in Nat /\ written \in Nat
      BY DEF TypeOK
    <3>3. /\ Len(accepted) = Len(file) + Len(filter) + Len(hand) + Len(queue)
          /\ worker # "fail" => Len(accepted) = written + Counted + Len(hand) + Len(queue)
      BY <1>2 DEF RecCounted
    <3>4. Counted \in Nat /\ Counted' = Counted
      BY <1>2 DEF Counted
    <3>5. /\ Len(accepted') = Len(file) + Len(filter) + Len(hand) + Len(queue')
          /\ worker # "fail" => Len(accepted') = written + Counted + Len(hand) + Len(queue')
      BY <3>1, <3>2, <3>3, <3>4
    <3> QED
      BY <1>2, <3>4, <3>5 DEF RecCounted
  <2> QED
    BY <1>3, <1>4, <1>5, <2>2, <2>3, <2>4
<1> QED
  BY <1>2, <1>6, <1>7

\* A failure releases the queue.
LEMMA RecFailKeeps == ASSUME RecInv, Fail PROVE RecInv'
<1> USE DEF RecInv, Fail, session, writer
<1>1. TypeOK'
  <2>1. queue' \in Seq(Packets) /\ queueBytes' \in 0..MaxBytes
    BY EmptyIsSeq, RecorderAssumption
  <2> QED
    BY <2>1 DEF TypeOK
<1>2. RecThreads'
  BY DEF RecThreads, Working
<1>3. RecHand'
  BY DEF RecHand, RecThreads, Working
<1>4. RecOrigin'
  BY DEF RecOrigin, Rescaled
<1>5. BytesQueued'
  BY BytesEmpty DEF BytesQueued
<1>6. RecConserved'
  <2> SUFFICES ASSUME NEW t \in Tracks
               PROVE  IsPrefix(OfTrack(Muxed', t), OfTrack(accepted', t))
    BY DEF RecConserved
  <2>1. OfTrack(accepted, t) = OfTrack(Muxed, t) \o OnTheWay(t)
    BY DEF RecConserved, RecThreads, Working
  <2>2. OfTrack(Muxed, t) \in Seq(Packets) /\ OnTheWay(t) \in Seq(Packets)
    BY RecTypes
  <2>3. Muxed' = Muxed /\ accepted' = accepted
    BY DEF Muxed
  <2> QED
    BY <2>1, <2>2, <2>3, PrefixOfConcat
<1>7. RecCounted'
  BY DEF RecCounted
<1> QED
  BY <1>1, <1>2, <1>3, <1>4, <1>5, <1>6, <1>7

\* The wait is over: a packet, or the end.
LEMMA RecTakePacketKeeps == ASSUME RecInv, TakePacket PROVE RecInv'
<1> USE DEF RecInv, session
<1>1. /\ worker = "look" /\ hand = <<>>
      /\ UNCHANGED <<state, joinable, submitter, owner, drainer, written, dropped, accepted,
                     submitted, errors, filter, origin, file, sessions, faults>>
  BY DEF TakePacket, RecHand
<1>2. queue \in Seq(Packets) /\ Len(hand) = 0
  BY <1>1 DEF TypeOK
<1>3. CASE queue = <<>>
  <2>1. UNCHANGED <<queue, queueBytes, hand>> /\ worker' \in {"waiting", "finish"}
        /\ (worker' = "finish" => state # "running")
    BY <1>3 DEF TakePacket
  <2>2. TypeOK'
    BY <1>1, <2>1 DEF TypeOK
  <2>3. RecThreads' /\ RecHand'
    BY <1>1, <1>3, <2>1 DEF RecThreads, RecHand, Working
  <2>4. RecOrigin' /\ BytesQueued' /\ RecConserved'
    BY <1>1, <2>1, DataKept
  <2>5. RecCounted'
    BY <1>1, <2>1 DEF RecCounted, Counted
  <2> QED
    BY <2>2, <2>3, <2>4, <2>5
<1>4. CASE queue # <<>>
  <2> DEFINE p == Head(queue)
  <2>1. /\ queueBytes' = queueBytes - Size[p.track] /\ hand' = <<p>> /\ queue' = Tail(queue)
        /\ worker' = "write"
    BY <1>4 DEF TakePacket
  <2>2. /\ p \in Packets /\ Tail(queue) \in Seq(Packets) /\ <<p>> \in Seq(Packets)
        /\ Len(<<p>>) = 1 /\ Len(queue) \in Nat \ {0} /\ Len(Tail(queue)) = Len(queue) - 1
        /\ queue = <<p>> \o Tail(queue)
    BY <1>2, <1>4
  <2>3. BytesQueued'
    BY <1>2, <1>4, <2>1, BytesTail DEF BytesQueued
  <2>4. TypeOK'
    <3>1. queueBytes' \in 0..MaxBytes
      <4>1. queueBytes' \in Nat
        BY <2>1, <2>2, <2>3, BytesType DEF BytesQueued
      <4>2. Size[p.track] \in Nat /\ MaxBytes \in Nat /\ queueBytes \in 0..MaxBytes
        BY <2>2, RecorderAssumption DEF Packets, TypeOK
      <4> QED
        BY <2>1, <4>1, <4>2
    <3> QED
      BY <1>1, <2>1, <2>2, <3>1 DEF TypeOK
  <2>5. RecThreads'
    BY <1>1, <1>4, <2>1 DEF RecThreads, Working
  <2>6. RecHand'
    BY <1>1, <2>1, <2>2 DEF RecHand, RecThreads, Working
  <2>7. RecOrigin'
    BY <1>1 DEF RecOrigin, Rescaled
  <2>8. RecConserved'
    <3>1. state # "failed"
      BY <1>1 DEF RecThreads, Working
    <3> SUFFICES ASSUME NEW u \in Tracks
                 PROVE  OfTrack(accepted, u) = OfTrack(Muxed, u) \o OnTheWay(u)'
      BY <1>1, <3>1 DEF RecConserved, Muxed
    <3>2. OfTrack(<<p>>, u) \o OfTrack(Tail(queue), u) = OfTrack(queue, u)
      <4> HIDE DEF p
      <4>1. OfTrack(<<p>> \o Tail(queue), u) = OfTrack(<<p>>, u) \o OfTrack(Tail(queue), u)
        BY <2>2, OfTrackConcat
      <4> QED
        BY <2>2, <4>1
    <3>3. OfTrack(hand, u) \o OfTrack(queue, u) = OfTrack(queue, u)
      <4>1. OfTrack(hand, u) = <<>> /\ OfTrack(queue, u) \in Seq(Packets)
        BY <1>1, OfTrackEmpty, RecTypes
      <4> QED
        BY <4>1, ConcatEmptySeq
    <3>4. OnTheWay(u)' = OnTheWay(u)
      BY <1>1, <2>1, <3>2, <3>3 DEF OnTheWay
    <3> QED
      BY <3>1, <3>4 DEF RecConserved
  <2>9. RecCounted'
    <3>1. /\ Len(hand') = 1 /\ Len(queue') = Len(queue) - 1 /\ Counted = 0 /\ Counted' = 0
      BY <1>1, <2>1, <2>2 DEF Counted
    <3>2. /\ Len(accepted) \in Nat /\ Len(file) \in Nat /\ Len(filter) \in Nat
          /\ Len(queue) \in Nat /\ written \in Nat
      BY DEF TypeOK
    <3>3. /\ Len(accepted) = Len(file) + Len(filter) + Len(hand) + Len(queue)
          /\ Len(accepted) = written + Counted + Len(hand) + Len(queue)
      BY <1>1 DEF RecCounted, RecThreads, Working
    <3> HIDE DEF p
    <3>4. /\ Len(accepted) = Len(file) + Len(filter) + Len(hand') + Len(queue')
          /\ Len(accepted) = written + Counted' + Len(hand') + Len(queue')
      BY <1>2, <3>1, <3>2, <3>3
    <3> QED
      BY <1>1, <3>4 DEF RecCounted
  <2> QED
    BY <2>3, <2>4, <2>5, <2>6, <2>7, <2>8, <2>9
<1> QED
  BY <1>3, <1>4

\* The packets ps go to the file: they and the ones the filter still holds are
\* what the filter and the worker's hand held, in every track's order.
Muxes(ps) ==
  /\ ps \in Seq(Packets) /\ filter' \in Seq(Packets)
  /\ WritePackets(ps) /\ hand' = <<>>
  /\ Len(ps) + Len(filter') = Len(filter) + Len(hand)
  /\ \A i \in 1..Len(filter') : filter'[i].track \in Adts
  /\ \A t \in Tracks :
       OfTrack(ps, t) \o OfTrack(filter', t) = OfTrack(filter, t) \o OfTrack(hand, t)

\* A sequence of one item.
LEMMA OfOne ==
  \A h \in Seq(Packets) : Len(h) = 1 => h[1] \in Packets /\ h = <<h[1]>>
OBVIOUS

\* A concatenation the provers do not look into.
Then(a, b) == a \o b

\* Concatenation is associative.
LEMMA Associate ==
  \A a, b, c \in Seq(Packets) :
    Then(a, b) \in Seq(Packets) /\ Then(Then(a, b), c) = Then(a, Then(b, c))
<1> TAKE a, b, c \in Seq(Packets)
<1> QED
  BY ConcatAssociative, Joined DEF Then

\* Two ways to take five sequences together.
LEMMA Regroup ==
  ASSUME NEW m \in Seq(Packets), NEW p \in Seq(Packets), NEW g \in Seq(Packets),
         NEW f \in Seq(Packets), NEW h \in Seq(Packets), NEW q \in Seq(Packets),
         Then(p, g) = Then(f, h)
  PROVE  Then(m, Then(f, Then(h, q))) = Then(Then(m, p), Then(g, q))
<1>1. Then(m, Then(f, Then(h, q))) = Then(m, Then(Then(f, h), q))
  BY Associate
<1>2. Then(m, Then(Then(p, g), q)) = Then(Then(m, p), Then(g, q))
  BY Associate
<1> QED
  BY <1>1, <1>2

\* OfTrackConcat for all sequences.
LEMMA OfTrackSplits ==
  ASSUME NEW t
  PROVE  \A a, b \in Seq(Packets) :
           /\ OfTrack(a, t) \in Seq(Packets)
           /\ OfTrack(Then(a, b), t) = Then(OfTrack(a, t), OfTrack(b, t))
<1> TAKE a, b \in Seq(Packets)
<1> QED
  BY OfTrackConcat, OfTrackType DEF Then

\* The same for the four places a packet can be in.
LEMMA OfTrackSplitsFour ==
  ASSUME NEW t, NEW a \in Seq(Packets), NEW b \in Seq(Packets),
         NEW c \in Seq(Packets), NEW d \in Seq(Packets)
  PROVE  OfTrack(Then(Then(Then(a, b), c), d), t) =
           Then(OfTrack(a, t), Then(OfTrack(b, t), Then(OfTrack(c, t), OfTrack(d, t))))
<1> DEFINE A == OfTrack(a, t)
           B == OfTrack(b, t)
           E == OfTrack(c, t)
           D == OfTrack(d, t)
<1>1. A \in Seq(Packets) /\ B \in Seq(Packets) /\ E \in Seq(Packets) /\ D \in Seq(Packets)
  BY OfTrackType
<1>2. Then(a, b) \in Seq(Packets) /\ Then(Then(a, b), c) \in Seq(Packets)
  BY Associate
<1>3. OfTrack(Then(Then(Then(a, b), c), d), t) = Then(Then(Then(A, B), E), D)
  BY <1>2, OfTrackSplits
<1> HIDE DEF A, B, E, D
<1>4. Then(Then(Then(A, B), E), D) = Then(Then(A, B), Then(E, D))
  BY <1>1, Associate
<1>5. Then(Then(A, B), Then(E, D)) = Then(A, Then(B, Then(E, D)))
  BY <1>1, Associate
<1> QED
  BY <1>3, <1>4, <1>5 DEF A, B, E, D

\* The two sides of a cut.
LEMMA SplitAt ==
  ASSUME NEW ps \in Seq(Packets), NEW n \in 0..Len(ps)
  PROVE  /\ SubSeq(ps, 1, n) \in Seq(Packets) /\ SubSeq(ps, n + 1, Len(ps)) \in Seq(Packets)
         /\ Len(SubSeq(ps, 1, n)) = n /\ Len(SubSeq(ps, n + 1, Len(ps))) = Len(ps) - n
         /\ \A i \in 1..(Len(ps) - n) : SubSeq(ps, n + 1, Len(ps))[i] = ps[i + n]
         /\ SubSeq(ps, 1, n) \o SubSeq(ps, n + 1, Len(ps)) = ps
<1>1. Len(ps) \in Nat /\ n \in Nat /\ n <= Len(ps)
  OBVIOUS
<1>2. /\ SubSeq(ps, 1, n) \in Seq(Packets) /\ Len(SubSeq(ps, 1, n)) = n
      /\ \A i \in 1..n : SubSeq(ps, 1, n)[i] = ps[i]
  BY <1>1
<1>3. /\ SubSeq(ps, n + 1, Len(ps)) \in Seq(Packets)
      /\ Len(SubSeq(ps, n + 1, Len(ps))) = Len(ps) - n
  BY <1>1
<1>4. \A i \in 1..(Len(ps) - n) : SubSeq(ps, n + 1, Len(ps))[i] = ps[i + n]
  BY <1>1
<1> DEFINE a == SubSeq(ps, 1, n)
           b == SubSeq(ps, n + 1, Len(ps))
<1>5. /\ a \o b \in Seq(Packets) /\ Len(a \o b) = n + (Len(ps) - n)
      /\ \A i \in 1..n : (a \o b)[i] = a[i]
      /\ \A i \in 1..(Len(ps) - n) : (a \o b)[n + i] = b[i]
  <2>1. a \in Seq(Packets) /\ b \in Seq(Packets) /\ Len(a) = n /\ Len(b) = Len(ps) - n
    BY <1>2, <1>3
  <2> HIDE DEF a, b
  <2> QED
    BY <2>1, Joined
<1> HIDE DEF a, b
<1>6. Len(a \o b) = Len(ps)
  BY <1>1, <1>5
<1>7. ASSUME NEW i \in 1..Len(ps) PROVE (a \o b)[i] = ps[i]
  <2>1. CASE i \in 1..n
    BY <1>2, <1>5, <2>1 DEF a
  <2>2. CASE i \notin 1..n
    <3>1. i - n \in 1..(Len(ps) - n) /\ i = n + (i - n) /\ (i - n) + n = i
      BY <1>1, <2>2
    <3>2. b[i - n] = ps[i]
      <4>1. b[i - n] = ps[(i - n) + n]
        BY <1>4, <3>1 DEF b
      <4> QED
        BY <3>1, <4>1
    <3>3. (a \o b)[n + (i - n)] = b[i - n]
      BY <1>5, <3>1
    <3> QED
      BY <3>1, <3>2, <3>3
  <2> QED
    BY <2>1, <2>2
<1>8. a \o b = ps
  BY <1>5, <1>6, <1>7, SeqEqual, Zenon
<1> QED
  BY <1>2, <1>3, <1>4, <1>8 DEF a, b

\* A packet with ADTS headers joins the filter, which keeps at most that one.
LEMMA Filtering ==
  ASSUME RecInv, worker = "write", hand[1].track \in Adts, NEW keep \in 0..1,
         WritePackets(SubSeq(Append(filter, hand[1]), 1, Len(Append(filter, hand[1])) - keep)),
         filter' = SubSeq(Append(filter, hand[1]), Len(Append(filter, hand[1])) - keep + 1,
                          Len(Append(filter, hand[1]))),
         hand' = <<>>
  PROVE  \E ps \in Seq(Packets) : Muxes(ps)
<1> DEFINE inside == Append(filter, hand[1])
           n == Len(inside) - keep
           ps == SubSeq(inside, 1, n)
           qs == SubSeq(inside, n + 1, Len(inside))
<1>1. /\ hand \in Seq(Packets) /\ filter \in Seq(Packets) /\ Len(hand) = 1
      /\ \A i \in 1..Len(filter) : filter[i].track \in Adts
  BY DEF RecInv, TypeOK, RecHand
<1>2. /\ hand[1] \in Packets /\ inside \in Seq(Packets) /\ Len(inside) = Len(filter) + 1
      /\ inside = filter \o hand
      /\ \A i \in 1..Len(inside) : inside[i].track \in Adts
  <2>0. hand[1] \in Packets /\ hand = <<hand[1]>> /\ Len(filter) \in Nat
    <3>1. hand \in Seq(Packets) /\ Len(hand) = 1 /\ filter \in Seq(Packets)
      BY <1>1
    <3>2. Len(filter) \in Nat
      BY <3>1
    <3> QED
      BY <3>1, <3>2, OfOne, Zenon
  <2>1. /\ hand[1] \in Packets /\ hand = <<hand[1]>> /\ Len(filter) \in Nat
        /\ inside \in Seq(Packets) /\ Len(inside) = Len(filter) + 1
        /\ inside[Len(filter) + 1] = hand[1] /\ \A i \in 1..Len(filter) : inside[i] = filter[i]
    <3> DEFINE p == hand[1]
    <3>1. p \in Packets
      BY <2>0
    <3> HIDE DEF p
    <3>2. /\ Append(filter, p) \in Seq(Packets) /\ Len(Append(filter, p)) = Len(filter) + 1
          /\ Append(filter, p)[Len(filter) + 1] = p
          /\ \A i \in 1..Len(filter) : Append(filter, p)[i] = filter[i]
      BY <1>1, <3>1
    <3> QED
      BY <2>0, <3>2 DEF p
  <2>2. filter \o <<hand[1]>> = Append(filter, hand[1])
    BY <1>1, <2>1
  <2>3. ASSUME NEW i \in 1..Len(inside) PROVE inside[i].track \in Adts
    <3>1. i \in 1..Len(filter) \/ i = Len(filter) + 1
      BY <2>1
    <3> QED
      BY <1>1, <2>1, <3>1
  <2> QED
    BY <2>1, <2>2, <2>3
<1>3. n \in 0..Len(inside) /\ Len(inside) \in Nat /\ Len(filter) \in Nat
  BY <1>1, <1>2
<1>4. WritePackets(ps) /\ filter' = qs /\ hand' = <<>>
  OBVIOUS
<1> HIDE DEF inside, n
<1>5. /\ ps \in Seq(Packets) /\ qs \in Seq(Packets) /\ Len(ps) = n /\ Len(qs) = Len(inside) - n
      /\ \A i \in 1..(Len(inside) - n) : qs[i] = inside[i + n]
      /\ ps \o qs = inside
  BY <1>2, <1>3, SplitAt
<1> HIDE DEF ps, qs
<1>6. Len(ps) + Len(qs) = Len(filter) + Len(hand)
  BY <1>1, <1>2, <1>3, <1>5
<1>7. \A i \in 1..Len(qs) : qs[i].track \in Adts
  <2> SUFFICES ASSUME NEW i \in 1..Len(qs) PROVE qs[i].track \in Adts
    OBVIOUS
  <2>1. i \in 1..(Len(inside) - n) /\ i + n \in 1..Len(inside)
    BY <1>3, <1>5
  <2> QED
    BY <1>2, <1>5, <2>1
<1>8. ASSUME NEW t \in Tracks
      PROVE  OfTrack(ps, t) \o OfTrack(qs, t) = OfTrack(filter, t) \o OfTrack(hand, t)
  <2>1. OfTrack(ps \o qs, t) = OfTrack(ps, t) \o OfTrack(qs, t)
    BY <1>5, OfTrackConcat
  <2>2. OfTrack(filter \o hand, t) = OfTrack(filter, t) \o OfTrack(hand, t)
    BY <1>1, OfTrackConcat
  <2> QED
    BY <1>2, <1>5, <2>1, <2>2
<1> QED
  BY <1>4, <1>5, <1>6, <1>7, <1>8 DEF Muxes

\* Write leaves everything as it was, or moves packets to the file.
LEMMA Writing ==
  ASSUME RecInv, Write
  PROVE  /\ worker = "write" /\ worker' \in {"count", "fail"} /\ WorkerOnly
         /\ faults' \in {faults, faults + 1}
         /\ \/ UNCHANGED writer /\ worker' = "fail"
            \/ \E ps \in Seq(Packets) : Muxes(ps)
<1> DEFINE p == hand[1]
<1>0. /\ hand \in Seq(Packets) /\ filter \in Seq(Packets) /\ Len(hand) = 1 /\ p \in Packets
      /\ hand = <<p>> /\ \A i \in 1..Len(filter) : filter[i].track \in Adts
  <2>1. hand \in Seq(Packets) /\ filter \in Seq(Packets) /\ Len(hand) = 1
        /\ \A i \in 1..Len(filter) : filter[i].track \in Adts
    BY DEF RecInv, TypeOK, RecHand, Write
  <2> QED
    BY <2>1
<1>1. worker = "write" /\ worker' \in {"count", "fail"} /\ WorkerOnly /\ faults' \in {faults, faults + 1}
  BY DEF Write, Throw, Fault
<1>2. CASE p.track \in Adts
  <2> DEFINE inside == Append(filter, p)
  <2>1. \/ \E keep \in 0..1 :
             /\ WritePackets(SubSeq(inside, 1, Len(inside) - keep))
             /\ filter' = SubSeq(inside, Len(inside) - keep + 1, Len(inside))
             /\ hand' = <<>>
        \/ UNCHANGED writer /\ worker' = "fail"
        \/ WritePackets(inside) /\ hand' = <<>> /\ filter' = <<>>
    BY <1>2 DEF Write, Throw, writer
  <2>2. CASE \E keep \in 0..1 :
               /\ WritePackets(SubSeq(inside, 1, Len(inside) - keep))
               /\ filter' = SubSeq(inside, Len(inside) - keep + 1, Len(inside))
               /\ hand' = <<>>
    BY <1>1, <1>2, <2>2, Filtering
  <2>3. CASE WritePackets(inside) /\ hand' = <<>> /\ filter' = <<>>
    <3>1. inside \in Seq(Packets) /\ Len(inside) \in Nat
      BY <1>0
    <3> DEFINE n == Len(inside) - 0
    <3>2. SubSeq(inside, 1, n) = inside /\ SubSeq(inside, n + 1, Len(inside)) = <<>>
      BY <3>1
    <3>3. 0 \in 0..1
      OBVIOUS
    <3> QED
      BY <1>1, <1>2, <2>3, <3>2, <3>3, Filtering
  <2> QED
    BY <1>1, <2>1, <2>2, <2>3
<1>3. CASE p.track \notin Adts
  <2>1. \/ WritePackets(SubSeq(hand, 1, Len(hand) - 0)) /\ hand' = <<>> /\ filter' = filter
        \/ UNCHANGED writer /\ worker' = "fail"
        \/ WritePackets(hand) /\ hand' = <<>> /\ filter' = filter
    BY <1>3 DEF Write, Throw, writer
  <2>2. SubSeq(hand, 1, Len(hand) - 0) = hand
    BY <1>0
  <2>3. CASE WritePackets(hand) /\ hand' = <<>> /\ filter' = filter
    <3>1. Len(hand) + Len(filter') = Len(filter) + Len(hand)
      BY <1>0, <2>3
    <3>2. ASSUME NEW t \in Tracks
          PROVE  OfTrack(hand, t) \o OfTrack(filter', t) = OfTrack(filter, t) \o OfTrack(hand, t)
      <4>1. OfTrack(hand, t) \in Seq(Packets) /\ OfTrack(filter, t) \in Seq(Packets)
        BY <1>0, OfTrackType
      <4>2. CASE p.track = t
        <5>1. OfTrack(filter, t) = <<>>
          BY <1>0, <1>3, <4>2, OfTrackNone
        <5> QED
          BY <2>3, <4>1, <5>1, ConcatEmptySeq
      <4>3. CASE p.track # t
        <5>1. OfTrack(hand, t) = <<>>
          BY <1>0, <4>3, OfTrackOne
        <5> QED
          BY <2>3, <4>1, <5>1, ConcatEmptySeq
      <4> QED
        BY <4>2, <4>3
    <3> QED
      BY <1>0, <1>1, <2>3, <3>1, <3>2 DEF Muxes
  <2> QED
    BY <1>1, <2>1, <2>2, <2>3
<1> QED
  BY <1>2, <1>3

\* What moving packets to the file keeps.
LEMMA MuxesKeeps ==
  ASSUME RecInv, state # "failed", NEW ps, Muxes(ps), WorkerOnly
  PROVE  /\ origin' \in Nat \cup {NoOrigin} /\ file' \in Seq(Entries)
         /\ filter' \in Seq(Packets) /\ hand' = <<>>
         /\ \A i \in 1..Len(filter') : filter'[i].track \in Adts
         /\ RecOrigin' /\ BytesQueued' /\ RecConserved'
         /\ Len(accepted) = Len(file') + Len(filter') + Len(queue)
<1>0. /\ ps \in Seq(Packets) /\ filter' \in Seq(Packets) /\ hand' = <<>>
      /\ WritePackets(ps) /\ Len(ps) + Len(filter') = Len(filter) + Len(hand)
      /\ \A i \in 1..Len(filter') : filter'[i].track \in Adts
      /\ \A t \in Tracks :
           OfTrack(ps, t) \o OfTrack(filter', t) = OfTrack(filter, t) \o OfTrack(hand, t)
      /\ UNCHANGED <<state, queue, queueBytes, accepted>>
  BY DEF Muxes, WorkerOnly, session
<1>1. /\ origin' \in Nat \cup {NoOrigin} /\ file' \in Seq(Entries)
      /\ Len(file') = Len(file) + Len(ps)
      /\ Muxed' = Muxed \o ps
      /\ RecOrigin'
  BY <1>0, Muxing DEF RecInv
<1>2. BytesQueued'
  BY <1>0 DEF BytesQueued, RecInv
<1>3. RecConserved'
  <2> SUFFICES ASSUME NEW t \in Tracks
               PROVE  OfTrack(accepted, t) = OfTrack(Muxed', t) \o OnTheWay(t)'
    BY <1>0 DEF RecConserved
  <2> DEFINE M == OfTrack(Muxed, t)
             P == OfTrack(ps, t)
             F == OfTrack(filter, t)
             H == OfTrack(hand, t)
             Q == OfTrack(queue, t)
             G == OfTrack(filter', t)
  <2>1. /\ M \in Seq(Packets) /\ P \in Seq(Packets) /\ F \in Seq(Packets)
        /\ H \in Seq(Packets) /\ Q \in Seq(Packets) /\ G \in Seq(Packets)
    BY <1>0, RecTypes, OfTrackType DEF RecInv
  <2>2. OfTrack(accepted, t) = M \o (F \o (H \o Q))
    BY DEF RecInv, RecConserved, OnTheWay
  <2>3. P \o G = F \o H
    BY <1>0
  <2>4. OfTrack(Muxed', t) = M \o P
    <3>1. Muxed \in Seq(Packets)
      BY RecTypes DEF RecInv
    <3> QED
      BY <1>0, <1>1, <3>1, OfTrackConcat
  <2>5. OnTheWay(t)' = G \o Q
    <3>1. OnTheWay(t)' = G \o (OfTrack(hand', t) \o Q)
      BY <1>0 DEF OnTheWay
    <3>2. OfTrack(hand', t) = <<>>
      BY <1>0, OfTrackEmpty
    <3> QED
      BY <2>1, <3>1, <3>2, ConcatEmptySeq
  <2> HIDE DEF M, P, F, H, Q, G
  <2>6. M \o (F \o (H \o Q)) = (M \o P) \o (G \o Q)
    <3>1. Then(P, G) = Then(F, H)
      BY <2>3, Zenon DEF Then
    <3>2. Then(M, Then(F, Then(H, Q))) = Then(Then(M, P), Then(G, Q))
      BY <2>1, <3>1, Regroup
    <3> QED
      BY <3>2, Zenon DEF Then
  <2> QED
    BY <2>2, <2>4, <2>5, <2>6
<1>4. Len(accepted) = Len(file') + Len(filter') + Len(queue)
  <2>1. Len(accepted) = Len(file) + Len(filter) + Len(hand) + Len(queue)
    BY DEF RecInv, RecCounted
  <2>2. /\ Len(accepted) \in Nat /\ Len(file) \in Nat /\ Len(filter) \in Nat
        /\ Len(hand) \in Nat /\ Len(queue) \in Nat
    BY DEF RecInv, TypeOK
  <2>3. Len(ps) \in Nat /\ Len(filter') \in Nat
    BY <1>0
  <2> QED
    <3> DEFINE a == Len(accepted)
               f == Len(file)
               g == Len(filter)
               h == Len(hand)
               q == Len(queue)
               p == Len(ps)
               r == Len(filter')
    <3>1. /\ a \in Nat /\ f \in Nat /\ g \in Nat /\ h \in Nat /\ q \in Nat /\ p \in Nat /\ r \in Nat
          /\ a = f + g + h + q /\ p + r = g + h /\ Len(file') = f + p
      BY <1>0, <1>1, <2>1, <2>2, <2>3
    <3> HIDE DEF a, f, g, h, q, p, r
    <3>2. a = (f + p) + r + q
      BY <3>1
    <3> QED
      BY <3>1, <3>2 DEF a, r, q
<1> QED
  BY <1>0, <1>1, <1>2, <1>3, <1>4

\* A packet is written.
LEMMA RecWriteKeeps == ASSUME RecInv, Write PROVE RecInv'
<1>1. /\ worker = "write" /\ worker' \in {"count", "fail"} /\ WorkerOnly
      /\ faults' \in {faults, faults + 1}
      /\ \/ UNCHANGED writer /\ worker' = "fail"
         \/ \E ps \in Seq(Packets) : Muxes(ps)
  BY Writing
<1>2. /\ state # "failed" /\ queue \in Seq(Packets) /\ Len(hand) = 1 /\ hand \in Seq(Packets)
      /\ TypeOK /\ RecThreads /\ RecHand
  BY <1>1 DEF RecInv, RecThreads, Working, RecHand, TypeOK
<1>3. UNCHANGED <<state, queue, queueBytes, joinable, submitter, owner, drainer, sessions,
                  written, dropped, accepted, submitted, errors>>
  BY <1>1 DEF WorkerOnly, session
<1>4. RecThreads'
  BY <1>1, <1>2, <1>3 DEF RecThreads, Working
<1>5. faults' \in Nat
  BY <1>1, <1>2 DEF TypeOK
<1>6. CASE UNCHANGED writer /\ worker' = "fail"
  <2>1. UNCHANGED <<hand, filter, origin, file>>
    BY <1>6 DEF writer
  <2>2. TypeOK'
    BY <1>2, <1>3, <1>5, <1>6, <2>1 DEF TypeOK
  <2>3. RecHand'
    BY <1>2, <1>3, <1>6, <2>1 DEF RecHand
  <2>4. RecOrigin' /\ BytesQueued' /\ RecConserved'
    BY <1>3, <2>1, DataKept DEF RecInv
  <2>5. RecCounted'
    BY <1>3, <1>6, <2>1 DEF RecCounted, RecInv
  <2> QED
    BY <1>4, <2>2, <2>3, <2>4, <2>5 DEF RecInv
<1>7. CASE \E ps \in Seq(Packets) : Muxes(ps)
  <2>1. /\ origin' \in Nat \cup {NoOrigin} /\ file' \in Seq(Entries)
        /\ filter' \in Seq(Packets) /\ hand' = <<>>
        /\ \A i \in 1..Len(filter') : filter'[i].track \in Adts
        /\ RecOrigin' /\ BytesQueued' /\ RecConserved'
        /\ Len(accepted) = Len(file') + Len(filter') + Len(queue)
    BY <1>1, <1>2, <1>7, MuxesKeeps
  <2>2. hand' \in Seq(Packets) /\ Len(hand') = 0
    BY <2>1, EmptyIsSeq
  <2>3. TypeOK'
    BY <1>1, <1>2, <1>3, <1>5, <2>1, <2>2 DEF TypeOK, Entries
  <2>4. RecHand'
    BY <1>1, <1>2, <1>3, <2>1, <2>2 DEF RecHand, RecThreads, Working
  <2>5. RecCounted'
    <3>1. worker' # "fail" => Counted' = 1
      BY <1>1 DEF Counted
    <3>2. Len(accepted) = written + 0 + Len(hand) + Len(queue) /\ Counted = 0
      BY <1>1, <1>2 DEF RecInv, RecCounted, Counted
    <3>3. written \in Nat /\ Len(queue) \in Nat /\ Len(filter') \in Nat /\ Len(file') \in Nat
      BY <1>2, <2>1 DEF TypeOK
    <3>4. Len(accepted) = Len(file') + Len(filter') + Len(hand') + Len(queue)
      BY <2>1, <2>2, <3>3
    <3>5. worker' # "fail" => Len(accepted) = written + Counted' + Len(hand') + Len(queue)
      BY <1>2, <2>2, <3>1, <3>2, <3>3
    <3> QED
      BY <1>3, <3>4, <3>5 DEF RecCounted
  <2> QED
    BY <1>4, <2>1, <2>3, <2>4, <2>5 DEF RecInv
<1> QED
  BY <1>1, <1>6, <1>7

\* The filter is flushed and the trailer written.
LEMMA RecFinishKeeps == ASSUME RecInv, Finish PROVE RecInv'
<1>1. /\ worker = "finish" /\ worker' \in {"stop", "fail"} /\ WorkerOnly
      /\ faults' \in {faults, faults + 1} /\ hand' = hand
      /\ \/ WritePackets(filter) /\ filter' = <<>> /\ worker' = "stop"
         \/ UNCHANGED <<filter, origin, file>> /\ worker' = "fail"
  BY DEF Finish, Throw, Fault
<1>2. /\ state # "failed" /\ queue \in Seq(Packets) /\ hand = <<>> /\ filter \in Seq(Packets)
      /\ queue = <<>> /\ state # "running"
      /\ TypeOK /\ RecThreads /\ RecHand
  BY <1>1 DEF RecInv, RecThreads, Working, RecHand, TypeOK
<1>3. UNCHANGED <<state, queue, queueBytes, joinable, submitter, owner, drainer, sessions,
                  written, dropped, accepted, submitted, errors>>
  BY <1>1 DEF WorkerOnly, session
<1>4. RecThreads'
  BY <1>1, <1>2, <1>3 DEF RecThreads, Working
<1>5. faults' \in Nat
  BY <1>1, <1>2 DEF TypeOK
<1>6. CASE UNCHANGED <<filter, origin, file>> /\ worker' = "fail"
  <2>2. TypeOK'
    BY <1>1, <1>2, <1>3, <1>5, <1>6 DEF TypeOK
  <2>3. RecHand'
    BY <1>1, <1>2, <1>3, <1>6 DEF RecHand
  <2>4. RecOrigin' /\ BytesQueued' /\ RecConserved'
    BY <1>1, <1>3, <1>6, DataKept DEF RecInv
  <2>5. RecCounted'
    BY <1>1, <1>3, <1>6 DEF RecCounted, RecInv
  <2> QED
    BY <1>4, <2>2, <2>3, <2>4, <2>5 DEF RecInv
<1>7. CASE WritePackets(filter) /\ filter' = <<>> /\ worker' = "stop"
  <2>0. Muxes(filter)
    <3>1. <<>> \in Seq(Packets) /\ Len(<<>>) = 0 /\ Len(filter) \in Nat
      BY <1>2, EmptyIsSeq
    <3>2. \A t \in Tracks :
            OfTrack(filter, t) \o OfTrack(filter', t) = OfTrack(filter, t) \o OfTrack(hand, t)
      BY <1>2, <1>7
    <3>3. Len(filter) + Len(filter') = Len(filter) + Len(hand) /\ hand' = <<>>
      BY <1>1, <1>2, <1>7
    <3>4. \A i \in 1..Len(filter') : filter'[i].track \in Adts
      BY <1>7, <3>1
    <3> QED
      BY <1>2, <1>7, <3>1, <3>2, <3>3, <3>4 DEF Muxes
  <2>1. /\ origin' \in Nat \cup {NoOrigin} /\ file' \in Seq(Entries)
        /\ RecOrigin' /\ BytesQueued' /\ RecConserved'
        /\ Len(accepted) = Len(file') + Len(filter') + Len(queue)
    BY <1>1, <1>2, <2>0, MuxesKeeps
  <2>2. hand' \in Seq(Packets) /\ Len(hand') = 0 /\ filter' \in Seq(Packets) /\ Len(filter') = 0
    BY <1>1, <1>2, <1>7, EmptyIsSeq
  <2>3. TypeOK'
    BY <1>1, <1>2, <1>3, <1>5, <2>1, <2>2 DEF TypeOK, Entries
  <2>4. RecHand'
    BY <1>1, <1>2, <1>3, <1>7, <2>2 DEF RecHand, RecThreads, Working
  <2>5. RecCounted'
    <3>1. Counted' = 0 /\ Counted = 0
      BY <1>1, <1>7 DEF Counted
    <3>2. Len(accepted) = written + Counted + Len(hand) + Len(queue)
      BY <1>1, <1>2 DEF RecInv, RecCounted
    <3>3. written \in Nat /\ Len(queue) \in Nat /\ Len(filter') \in Nat /\ Len(file') \in Nat
      BY <1>2, <2>1, <2>2 DEF TypeOK
    <3>4. Len(accepted) = Len(file') + Len(filter') + Len(hand') + Len(queue)
      BY <2>1, <2>2, <3>3
    <3> QED
      BY <1>1, <1>3, <3>1, <3>2, <3>4 DEF RecCounted
  <2> QED
    BY <1>4, <2>1, <2>3, <2>4, <2>5 DEF RecInv
<1> QED
  BY <1>1, <1>6, <1>7

\* Initially nothing is accepted.
LEMMA RecStart == Init => RecInv
<1> SUFFICES ASSUME Init PROVE RecInv
  OBVIOUS
<1> USE DEF Init
<1>1. TypeOK
  <2>1. /\ queue \in Seq(Packets) /\ hand \in Seq(Packets) /\ filter \in Seq(Packets)
        /\ accepted \in Seq(Packets) /\ file \in Seq([packet : Packets, shift : Int])
    BY EmptyIsSeq
  <2>2. queueBytes \in 0..MaxBytes
    BY RecorderAssumption
  <2>3. joinable \in BOOLEAN
    BY Zenon
  <2> QED
    BY <2>1, <2>2, <2>3 DEF TypeOK, NoOrigin
<1>2. RecThreads /\ RecHand /\ RecOrigin
  BY DEF RecThreads, RecHand, RecOrigin, Working
<1>3. BytesQueued
  BY BytesEmpty DEF BytesQueued
<1>4. RecConserved
  <2>1. Muxed = <<>>
    BY DEF Muxed
  <2>2. <<>> \o <<>> = <<>>
    OBVIOUS
  <2>3. \A t : OfTrack(<<>>, t) = <<>>
    BY OfTrackEmpty
  <2> QED
    BY <2>1, <2>2, <2>3 DEF RecConserved, OnTheWay
<1>5. RecCounted
  BY DEF RecCounted, Counted
<1> QED
  BY <1>1, <1>2, <1>3, <1>4, <1>5 DEF RecInv

\* Stuttering keeps the invariant.
LEMMA RecStutter == ASSUME RecInv, UNCHANGED vars PROVE RecInv'
<1> USE DEF RecInv, vars, session, writer
<1>1. TypeOK'
  BY DEF TypeOK
<1>2. RecThreads' /\ RecHand' /\ RecCounted'
  BY DEF RecThreads, RecHand, RecCounted, Counted, Working
<1>3. RecOrigin' /\ BytesQueued' /\ RecConserved'
  BY DataKept
<1> QED
  BY <1>1, <1>2, <1>3

\* Every step of a Recorder keeps the invariant.
LEMMA RecStep == ASSUME RecInv, [Next]_vars PROVE RecInv'
<1>1. CASE UNCHANGED vars
  BY <1>1, RecStutter
<1>2. CASE Next
  BY <1>2, RecStartKeeps, RecStopKeeps, RecStopNotifyKeeps, RecJoinKeeps, RecDrainKeeps,
     RecDrainNotifyKeeps, RecSubmitNotifyKeeps, RecTrySubmitPacketKeeps, RecOpenKeeps,
     RecTakePacketKeeps, RecWriteKeeps, RecCountWrittenKeeps, RecFinishKeeps, RecStoppedKeeps,
     RecFailKeeps, RecOnErrorKeeps, RecSpuriousWakeupKeeps, Zenon DEF Next, Worker
<1> QED
  BY <1>1, <1>2

\* The invariant accounts for every accepted packet.
LEMMA AccountedFollows == ASSUME RecInv PROVE Accounted
<1> USE DEF RecInv
<1>1. ASSUME NEW t \in Tracks
      PROVE  /\ IsPrefix(OfTrack(Muxed, t), OfTrack(accepted, t))
             /\ state # "failed" =>
                  OfTrack(accepted, t) = OfTrack(Muxed \o filter \o hand \o queue, t)
  <2>1. CASE state = "failed"
    BY <2>1 DEF RecConserved
  <2>2. CASE state # "failed"
    <3>1. /\ Muxed \in Seq(Packets) /\ filter \in Seq(Packets)
          /\ hand \in Seq(Packets) /\ queue \in Seq(Packets)
      BY RecTypes DEF TypeOK
    <3> DEFINE M == OfTrack(Muxed, t)
               F == OfTrack(filter, t)
               H == OfTrack(hand, t)
               Q == OfTrack(queue, t)
    <3>2. M \in Seq(Packets) /\ F \in Seq(Packets) /\ H \in Seq(Packets) /\ Q \in Seq(Packets)
          /\ OnTheWay(t) \in Seq(Packets)
      BY RecTypes
    <3>3. OfTrack(accepted, t) = M \o OnTheWay(t) /\ OnTheWay(t) = F \o (H \o Q)
      BY <2>2 DEF RecConserved, OnTheWay
    <3>4. OfTrack(Muxed \o filter \o hand \o queue, t) = M \o (F \o (H \o Q))
      <4>1. OfTrack(Then(Then(Then(Muxed, filter), hand), queue), t) = Then(M, Then(F, Then(H, Q)))
        BY <3>1, OfTrackSplitsFour
      <4> QED
        BY <4>1, Zenon DEF Then
    <3> HIDE DEF M, F, H, Q
    <3>9. IsPrefix(M, M \o OnTheWay(t))
      BY <3>2, PrefixOfConcat
    <3> QED
      BY <3>3, <3>4, <3>9 DEF M
  <2> QED
    BY <2>1, <2>2
<1>2. queueBytes = Bytes(queue) /\ errors <= 1
  BY DEF BytesQueued, RecThreads
<1>3. errors = 1 => state = "failed" /\ queue = <<>>
  BY DEF RecThreads, Working, TypeOK
<1> QED
  BY <1>1, <1>2, <1>3 DEF Accounted

\* A worker that exited without a failure has nothing left.
LEMMA StoppedFollows == ASSUME RecInv PROVE StoppedComplete
<1> USE DEF RecInv
<1> SUFFICES ASSUME state = "stopped"
             PROVE  Len(file) = Len(accepted) /\ written = Len(accepted)
  BY DEF StoppedComplete
<1>1. worker \in {"exited", "none"} /\ queue = <<>> /\ hand = <<>> /\ filter = <<>>
  BY DEF RecThreads, RecHand, Working, TypeOK
<1>2. /\ Len(accepted) = Len(file) + Len(filter) + Len(hand) + Len(queue)
      /\ Len(accepted) = written + Counted + Len(hand) + Len(queue) /\ Counted = 0
  BY <1>1 DEF RecCounted, Counted
<1>3. Len(queue) = 0 /\ Len(hand) = 0 /\ Len(filter) = 0 /\ Len(file) \in Nat /\ written \in Nat
  BY <1>1 DEF TypeOK
<1> QED
  BY <1>2, <1>3

-----------------------------------------------------------------------------
(* The two together, as they are checked.                                  *)

FilesInv == RecInv /\ InputInv

\* What MCFiles leaves to the one that does not run stays as it is.
LEMMA FilesStep ==
  ASSUME FilesInv, [MCNext]_<<which, vars, inputVars>>
  PROVE  FilesInv' /\ [Input!Next]_(Input!vars)
<1>1. inputVars' = inputVars => Input!vars' = Input!vars
  BY DEF inputVars, Input!vars, Input!readerVars, Input!workerVars, Input!bounds
<1>2. CASE which = "recorder" /\ Next /\ UNCHANGED inputVars
  <2>1. RecInv'
    BY <1>2, RecStep DEF FilesInv
  <2>2. UNCHANGED Input!vars
    BY <1>1, <1>2
  <2>3. InputInv'
    BY <2>2, InputStep DEF FilesInv
  <2> QED
    BY <2>1, <2>2, <2>3 DEF FilesInv
<1>3. CASE which = "input" /\ Input!Next /\ UNCHANGED vars
  <2>1. RecInv' /\ InputInv'
    BY <1>3, RecStep, InputStep DEF FilesInv
  <2> QED
    BY <1>3, <2>1 DEF FilesInv
<1>4. CASE UNCHANGED <<which, vars, inputVars>>
  <2>1. UNCHANGED vars /\ UNCHANGED Input!vars
    BY <1>1, <1>4
  <2>2. RecInv' /\ InputInv'
    BY <2>1, RecStep, InputStep DEF FilesInv
  <2> QED
    BY <2>1, <2>2 DEF FilesInv
<1> QED
  BY <1>2, <1>3, <1>4 DEF MCNext

\* The invariants of the recorder and of the packet input hold together.
LEMMA FilesInvariance == MCSpec => []FilesInv
<1>1. MCInit => FilesInv
  BY RecStart, InputStart DEF MCInit, FilesInv
<1>2. FilesInv /\ [MCNext]_<<which, vars, inputVars>> => FilesInv'
  BY FilesStep
<1> QED
  BY <1>1, <1>2, PTL DEF MCSpec

\* No packet a Recorder accepted is lost, reordered or counted twice while its
\* submitters, Drain, Stop, its worker and its failures interleave, and a
\* session that ends well has written all of them (recorder.cc; TrySubmitPacket,
\* Drain, Run, Fail).  An AvInput that was not cancelled delivers the packets
\* it demuxed in order and all of them before it reports the end (av_input.cc;
\* ReadPacket, Run).
THEOREM PacketsConserved == MCSpec => []NothingLost
<1>1. FilesInv => NothingLost
  BY AccountedFollows, StoppedFollows, InputComplete DEF FilesInv, NothingLost
<1> QED
  BY <1>1, FilesInvariance, PTL

\* Whatever the tracks' time bases are and whichever packet comes first, two
\* packets of a file are shifted by the same time up to the rounding to a tick
\* of either track (recorder.cc, FileWriter).
THEOREM TimingKept == MCSpec => []RelativeTimingKept
<1>1. FilesInv => RelativeTimingKept
  BY TimingFollows DEF FilesInv, RecInv
<1> QED
  BY <1>1, FilesInvariance, PTL

\* From a Cancel to the next Open an AvInput delivers nothing, also when
\* ReadPacket had taken a packet before (av_input.cc; ReadPacket, Cancel).
THEOREM CancelSilent == MCSpec => CancelSilences
<1>1. ASSUME FilesInv, [MCNext]_<<which, vars, inputVars>>
      PROVE  [cancelled /\ cancelled' => delivered' = delivered]_(Input!vars)
  BY <1>1, FilesStep, InputSilent DEF FilesInv
<1> QED
  BY <1>1, FilesInvariance, PTL DEF MCSpec, CancelSilences, Input!CancelSilences
=============================================================================
