-------------------------- MODULE AvDecoderProofs ---------------------------
(***************************************************************************)
(* The decoder for any capacities, any codec delay and any number of       *)
(* submitted items.  An item, or what the codec made of it, is in one of   *)
(* six places, which the invariant keeps in the order of submission        *)
(* (Ordered).  What is missing on this line was cut off by a Reset that is *)
(* not before a later EOF (Covered), as long as Run works and nothing      *)
(* stops it; what Run has put out stays complete (Emitted).                *)
(***************************************************************************)
EXTENDS AvDecoder, SequenceTheorems, TLAPS

\* The numbers of the items of a sequence, and that they ascend; the same for a
\* sequence of numbers.
Numbers(s) == {s[i].n : i \in 1 .. Len(s)}
Ascends(s) == \A i, j \in 1 .. Len(s) : i < j => s[i].n < s[j].n
Elements(s) == {s[i] : i \in 1 .. Len(s)}
Climbs(s) == \A i, j \in 1 .. Len(s) : i < j => s[i] < s[j]
Below(S, T) == \A x \in S, y \in T : x < y

\* Run has not failed and not ended.
Working == worker \in {"look", "receive", "emit", "pop", "act"}

\* Where an item or what was made of it can be: put out, in Run's hand for the
\* output, inside the codec, an EOF the codec was sent and has not given back,
\* in Run's hand for the codec, queued.
Out == Numbers(Output)
Emitting == IF worker = "emit" THEN Numbers(hand) ELSE {}
Held == Elements(codec.held)
Draining ==
  Working /\ codec.eof # 0 /\ ~drained /\ ~(worker = "emit" /\ hand[1].kind = "eof")
Ending == IF Draining THEN {codec.eof} ELSE {}
Acting == IF worker = "act" THEN Numbers(hand) ELSE {}
Queued == Numbers(packets)
Line == Out \cup Emitting \cup Held \cup Ending \cup Acting \cup Queued

\* What Run and the reader hold at each point.
Placed ==
  /\ Len(hand) = (IF worker \in {"emit", "act"} THEN 1 ELSE 0)
  /\ worker = "emit" => hand[1].kind \in {"packet", "eof"}
  /\ worker = "emit" /\ hand[1].kind = "eof" => codec.held = <<>> /\ codec.eof # 0
  /\ worker \in {"receive", "emit"} => ~drained
  /\ drained => codec.held = <<>> /\ codec.eof # 0
  /\ reader \in {"idle", "pop"} => taken = <<>>
  /\ \A p \in Stoppers : stopper[p] # "idle" => stopping

\* Every number is that of an accepted item, with its kind.
Known(n, kind) == n \in 1 .. Len(accepted) /\ accepted[n] = kind

Named ==
  /\ \A i \in 1 .. Len(Output) : Known(Output[i].n, Output[i].kind)
  /\ \A i \in 1 .. Len(hand) : Known(hand[i].n, hand[i].kind)
  /\ \A i \in 1 .. Len(packets) : Known(packets[i].n, packets[i].kind)
  /\ \A n \in Held : Known(n, "packet")
  /\ codec.eof # 0 => Known(codec.eof, "eof")

\* No item overtakes another.
Ordered ==
  /\ Ascends(Output) /\ Ascends(packets) /\ Climbs(codec.held)
  /\ Below(Out, Emitting \cup Held \cup Ending \cup Acting \cup Queued)
  /\ Below(Emitting, Held \cup Ending \cup Acting \cup Queued)
  /\ Below(Held, Ending \cup Acting \cup Queued)
  /\ Below(Ending, Acting \cup Queued)
  /\ Below(Acting, Queued)

\* The packets before n with no Reset up to n are all in S.
Complete(n, S) ==
  \A p \in 1 .. n : accepted[p] = "packet" /\ SameEpoch(p, n) => p \in S

\* While Run works and no stop is requested, no packet before an EOF is missing,
\* nor one after the last Reset: the EOF may still come.
Covered ==
  Working /\ ~stopping =>
    /\ \A n \in Line : accepted[n] = "eof" => Complete(n, Line)
    /\ Complete(Len(accepted), Line)

\* Nor is one missing in the output, when Run has left.
Emitted == ~stopping => \A n \in Out : accepted[n] = "eof" => Complete(n, Out)

\* The type invariant in three parts: plain values, sequences, places.
Switches ==
  {stopping, error, submittedEof, packetsClosed, framesClosed, started, drained,
   waits, codec.asked} \subseteq BOOLEAN

Contents ==
  /\ packets \in Seq(Items) /\ Len(packets) <= PacketCapacity
  /\ frames \in Seq(Items) /\ Len(frames) <= FrameCapacity
  /\ hand \in Seq(Items) /\ taken \in Seq(Items) /\ delivered \in Seq(Items)
  /\ codec = [held |-> codec.held, eof |-> codec.eof, asked |-> codec.asked]
  /\ codec.held \in Seq(Nat) /\ codec.eof \in Nat
  /\ accepted \in Seq(Kinds)

Locations ==
  /\ producer \in {"idle"} \cup Kinds
  /\ worker \in {"look", "receive", "emit", "pop", "act", "fail", "close",
                 "close frames", "exited"}
  /\ reader \in {"idle", "pop", "check"}
  /\ result \in {"none", "frame", "eof", "null"}
  /\ stopper \in [Stoppers -> {"idle", "packets", "frames", "join", "discard",
                               "done"}]

IInv == Switches /\ Contents /\ Locations /\ Placed /\ Named /\ Ordered /\ Covered /\ Emitted

-----------------------------------------------------------------------------
(* Sequences of items.                                                     *)

\* An item added at the end.
LEMMA Added ==
  ASSUME NEW s \in Seq(Items), NEW x \in Items
  PROVE  /\ Append(s, x) \in Seq(Items) /\ Len(Append(s, x)) = Len(s) + 1
         /\ \A i \in 1 .. Len(Append(s, x)) :
              Append(s, x)[i] = IF i <= Len(s) THEN s[i] ELSE x
         /\ Numbers(Append(s, x)) = Numbers(s) \cup {x.n}
         /\ Ascends(s) /\ (\A m \in Numbers(s) : m < x.n) => Ascends(Append(s, x))
<1>1. /\ Append(s, x) \in Seq(Items) /\ Len(Append(s, x)) = Len(s) + 1
      /\ \A i \in 1 .. Len(Append(s, x)) :
           Append(s, x)[i] = IF i <= Len(s) THEN s[i] ELSE x
  BY AppendProperties
<1>2. Len(s) \in Nat
  BY LenProperties
<1>3. Numbers(Append(s, x)) = Numbers(s) \cup {x.n}
  <2>1. ASSUME NEW m \in Numbers(Append(s, x)) PROVE m \in Numbers(s) \cup {x.n}
    <3>1. PICK i \in 1 .. Len(Append(s, x)) : m = Append(s, x)[i].n
      BY DEF Numbers
    <3>2. CASE i <= Len(s)
      BY <1>1, <1>2, <3>1, <3>2 DEF Numbers
    <3>3. CASE ~(i <= Len(s))
      BY <1>1, <1>2, <3>1, <3>3
    <3> QED
      BY <3>2, <3>3
  <2>2. ASSUME NEW m \in Numbers(s) PROVE m \in Numbers(Append(s, x))
    <3>1. PICK i \in 1 .. Len(s) : m = s[i].n
      BY DEF Numbers
    <3>2. i \in 1 .. Len(Append(s, x)) /\ Append(s, x)[i] = s[i]
      BY <1>1, <1>2
    <3> QED
      BY <3>1, <3>2 DEF Numbers
  <2>3. x.n \in Numbers(Append(s, x))
    <3>1. Len(s) + 1 \in 1 .. Len(Append(s, x)) /\ Append(s, x)[Len(s) + 1] = x
      BY <1>1, <1>2
    <3> QED
      BY <3>1 DEF Numbers
  <2> QED
    BY <2>1, <2>2, <2>3
<1>4. ASSUME Ascends(s), \A m \in Numbers(s) : m < x.n
      PROVE  Ascends(Append(s, x))
  <2> SUFFICES ASSUME NEW i \in 1 .. Len(Append(s, x)),
                      NEW j \in 1 .. Len(Append(s, x)), i < j
               PROVE  Append(s, x)[i].n < Append(s, x)[j].n
    BY DEF Ascends
  <2>1. i \in 1 .. Len(s) /\ Append(s, x)[i] = s[i]
    BY <1>1, <1>2
  <2>2. CASE j <= Len(s)
    BY <1>1, <1>2, <1>4, <2>1, <2>2 DEF Ascends
  <2>3. CASE ~(j <= Len(s))
    <3>1. s[i].n \in Numbers(s)
      BY <2>1 DEF Numbers
    <3> QED
      BY <1>1, <1>2, <1>4, <2>1, <2>3, <3>1
  <2> QED
    BY <2>2, <2>3
<1> QED
  BY <1>1, <1>3, <1>4

\* An item taken from the front.
LEMMA Taken ==
  ASSUME NEW s \in Seq(Items), s # <<>>
  PROVE  /\ Tail(s) \in Seq(Items) /\ Len(Tail(s)) = Len(s) - 1 /\ Len(s) \in Nat \ {0}
         /\ Head(s) \in Items /\ Head(s) = s[1]
         /\ \A i \in 1 .. Len(Tail(s)) : i + 1 \in 1 .. Len(s) /\ Tail(s)[i] = s[i + 1]
         /\ Numbers(s) = Numbers(Tail(s)) \cup {Head(s).n}
         /\ Ascends(s) => Ascends(Tail(s)) /\ \A m \in Numbers(Tail(s)) : Head(s).n < m
<1>1. /\ Tail(s) \in Seq(Items) /\ Len(Tail(s)) = Len(s) - 1 /\ Head(s) \in Items
      /\ \A i \in 1 .. Len(Tail(s)) : Tail(s)[i] = s[i + 1]
  BY HeadTailProperties
<1>2. Len(s) \in Nat \ {0}
  BY EmptySeq
<1>3. Head(s) = s[1]
  OBVIOUS
<1>4. \A i \in 1 .. Len(Tail(s)) : i + 1 \in 1 .. Len(s)
  BY <1>1, <1>2
<1>5. Numbers(s) = Numbers(Tail(s)) \cup {Head(s).n}
  <2>1. ASSUME NEW m \in Numbers(s) PROVE m \in Numbers(Tail(s)) \cup {Head(s).n}
    <3>1. PICK i \in 1 .. Len(s) : m = s[i].n
      BY DEF Numbers
    <3>2. CASE i = 1
      BY <1>3, <3>1, <3>2
    <3>3. CASE i # 1
      <4>1. i - 1 \in 1 .. Len(Tail(s)) /\ Tail(s)[i - 1] = s[i]
        BY <1>1, <1>2, <3>3
      <4> QED
        BY <3>1, <4>1 DEF Numbers
    <3> QED
      BY <3>2, <3>3
  <2>2. ASSUME NEW m \in Numbers(Tail(s)) PROVE m \in Numbers(s)
    <3>1. PICK i \in 1 .. Len(Tail(s)) : m = Tail(s)[i].n
      BY DEF Numbers
    <3> QED
      BY <1>1, <1>4, <3>1 DEF Numbers
  <2>3. Head(s).n \in Numbers(s)
    <3>1. 1 \in 1 .. Len(s)
      BY <1>2
    <3> QED
      BY <1>3, <3>1 DEF Numbers
  <2> QED
    BY <2>1, <2>2, <2>3
<1>6. ASSUME Ascends(s) PROVE Ascends(Tail(s))
  <2> SUFFICES ASSUME NEW i \in 1 .. Len(Tail(s)), NEW j \in 1 .. Len(Tail(s)), i < j
               PROVE  Tail(s)[i].n < Tail(s)[j].n
    BY DEF Ascends
  <2>1. s[i + 1].n < s[j + 1].n
    BY <1>4, <1>6 DEF Ascends
  <2> QED
    BY <1>1, <2>1
<1>7. ASSUME Ascends(s), NEW m \in Numbers(Tail(s)) PROVE Head(s).n < m
  <2>1. PICK i \in 1 .. Len(Tail(s)) : m = Tail(s)[i].n
    BY DEF Numbers
  <2>2. 1 \in 1 .. Len(s) /\ 1 < i + 1
    BY <1>2
  <2>3. s[1].n < s[i + 1].n
    BY <1>4, <1>7, <2>2 DEF Ascends
  <2> QED
    BY <1>1, <1>3, <2>1, <2>3
<1> QED
  BY <1>1, <1>2, <1>3, <1>4, <1>5, <1>6, <1>7

\* No item, and one item.
LEMMA Nothing == Numbers(<<>>) = {} /\ Ascends(<<>>) /\ <<>> \in Seq(Items) /\ Len(<<>>) = 0
BY EmptySeq DEF Numbers, Ascends

\* A hand holds one item: two readings of that.
LEMMA Single ==
  ASSUME NEW s \in Seq(Items), Len(s) = 1
  PROVE  s[1] \in Items /\ s = <<s[1]>> /\ Numbers(s) = {s[1].n} /\ s # <<>>
<1>1. s[1] \in Items
  BY ElementOfSeq
<1>2. s = <<s[1]>>
  <2>1. <<s[1]>> \in Seq(Items) /\ Len(<<s[1]>>) = 1
    BY <1>1
  <2> QED
    BY <2>1, SeqEqual
<1>3. Numbers(s) = {s[1].n}
  BY DEF Numbers
<1> QED
  BY <1>1, <1>2, <1>3, EmptySeq

\* Taking an item makes such a sequence.
LEMMA One ==
  ASSUME NEW x \in Items
  PROVE  /\ <<x>> \in Seq(Items) /\ Len(<<x>>) = 1 /\ <<x>>[1] = x
         /\ Numbers(<<x>>) = {x.n}
<1>1. <<x>> \in Seq(Items) /\ Len(<<x>>) = 1 /\ <<x>>[1] = x
  OBVIOUS
<1> QED
  BY <1>1 DEF Numbers

\* Nothing is in v that is not in w.
Within(v, w) == \A i \in 1 .. Len(v) : \E j \in 1 .. Len(w) : v[i] = w[j]

\* A part of the output is dropped: the front t, or the rear u.
LEMMA Thinned ==
  ASSUME NEW s \in Seq(Items), NEW t \in Seq(Items), NEW u \in Seq(Items),
         NEW v, v = s \o <<>> \o u \/ v = s \o t \o <<>>
  PROVE  /\ Ascends(s \o t \o u) => Ascends(v)
         /\ Within(v, s \o t \o u)
<1> DEFINE w == s \o t \o u
<1>1. Len(s) \in Nat /\ Len(t) \in Nat /\ Len(u) \in Nat
  BY LenProperties
<1>2. /\ s \o t \in Seq(Items) /\ Len(s \o t) = Len(s) + Len(t)
      /\ \A i \in 1 .. Len(s) + Len(t) :
           (s \o t)[i] = IF i <= Len(s) THEN s[i] ELSE t[i - Len(s)]
  BY ConcatProperties
<1>3. /\ Len(w) = Len(s) + Len(t) + Len(u)
      /\ \A i \in 1 .. Len(s) + Len(t) + Len(u) :
           w[i] = IF i <= Len(s) + Len(t) THEN (s \o t)[i] ELSE u[i - (Len(s) + Len(t))]
  BY <1>2, ConcatProperties
<1>4. CASE v = s \o <<>> \o u
  <2> DEFINE at(i) == IF i <= Len(s) THEN i ELSE i + Len(t)
  <2>1. v = s \o u
    BY <1>4, ConcatEmptySeq
  <2>2. /\ Len(v) = Len(s) + Len(u)
        /\ \A i \in 1 .. Len(s) + Len(u) : v[i] = IF i <= Len(s) THEN s[i] ELSE u[i - Len(s)]
    BY <2>1, ConcatProperties
  <2>3. ASSUME NEW i \in 1 .. Len(v) PROVE at(i) \in 1 .. Len(w) /\ v[i] = w[at(i)]
    <3>1. CASE i <= Len(s)
      BY <1>1, <1>2, <1>3, <2>2, <3>1
    <3>2. CASE ~(i <= Len(s))
      <4>1. /\ i + Len(t) \in 1 .. Len(s) + Len(t) + Len(u)
            /\ ~(i + Len(t) <= Len(s) + Len(t))
            /\ i + Len(t) - (Len(s) + Len(t)) = i - Len(s)
        BY <1>1, <2>2, <3>2
      <4> QED
        BY <1>3, <2>2, <3>2, <4>1
    <3> QED
      BY <3>1, <3>2
  <2>4. \A i, j \in 1 .. Len(v) : i < j => at(i) < at(j)
    BY <1>1, <2>2
  <2>5. Ascends(w) => Ascends(v)
    <3> HIDE DEF w, at
    <3> QED
      BY <2>3, <2>4 DEF Ascends
  <2> QED
    BY <2>3, <2>5 DEF Within
<1>5. CASE v = s \o t \o <<>>
  <2>1. v = s \o t
    BY <1>2, <1>5, ConcatEmptySeq
  <2>2. ASSUME NEW i \in 1 .. Len(v) PROVE i \in 1 .. Len(w) /\ v[i] = w[i]
    BY <1>1, <1>2, <1>3, <2>1
  <2>3. Ascends(w) => Ascends(v)
    <3> HIDE DEF w
    <3> QED
      BY <2>2 DEF Ascends
  <2> QED
    BY <2>2, <2>3 DEF Within
<1> QED
  BY <1>4, <1>5

\* The same for the packets inside the codec.
LEMMA HeldAdded ==
  ASSUME NEW s \in Seq(Nat), NEW n \in Nat
  PROVE  /\ Append(s, n) \in Seq(Nat)
         /\ Elements(Append(s, n)) = Elements(s) \cup {n}
         /\ Climbs(s) /\ (\A m \in Elements(s) : m < n) => Climbs(Append(s, n))
<1>1. /\ Append(s, n) \in Seq(Nat) /\ Len(Append(s, n)) = Len(s) + 1
      /\ \A i \in 1 .. Len(s) : Append(s, n)[i] = s[i]
      /\ Append(s, n)[Len(s) + 1] = n
  BY AppendProperties
<1>2. Len(s) \in Nat
  BY LenProperties
<1>3. \A i \in 1 .. Len(Append(s, n)) : i \in 1 .. Len(s) \/ i = Len(s) + 1
  BY <1>1, <1>2
<1>4. Elements(Append(s, n)) = Elements(s) \cup {n}
  BY <1>1, <1>2, <1>3 DEF Elements
<1>5. ASSUME Climbs(s), \A m \in Elements(s) : m < n
      PROVE  Climbs(Append(s, n))
  <2>1. \A i \in 1 .. Len(s) : s[i] < n
    BY <1>5 DEF Elements
  <2> QED
    BY <1>1, <1>2, <1>3, <1>5, <2>1 DEF Climbs
<1> QED
  BY <1>1, <1>4, <1>5

\* ... and the packet that comes out next.
LEMMA HeldTaken ==
  ASSUME NEW s \in Seq(Nat), s # <<>>
  PROVE  /\ Tail(s) \in Seq(Nat) /\ Head(s) \in Nat
         /\ Elements(s) = Elements(Tail(s)) \cup {Head(s)}
         /\ Climbs(s) => Climbs(Tail(s)) /\ \A m \in Elements(Tail(s)) : Head(s) < m
<1>1. /\ Tail(s) \in Seq(Nat) /\ Len(Tail(s)) = Len(s) - 1 /\ Head(s) \in Nat
      /\ \A i \in 1 .. Len(Tail(s)) : Tail(s)[i] = s[i + 1]
  BY HeadTailProperties
<1>2. Len(s) \in Nat \ {0} /\ Head(s) = s[1]
  BY EmptySeq
<1>3. \A i \in 1 .. Len(Tail(s)) : i + 1 \in 1 .. Len(s) /\ 1 < i + 1
  BY <1>1, <1>2
<1>4. Elements(s) = Elements(Tail(s)) \cup {Head(s)}
  <2>1. \A i \in 1 .. Len(s) : i = 1 \/ (i - 1 \in 1 .. Len(Tail(s)) /\ Tail(s)[i - 1] = s[i])
    BY <1>1, <1>2
  <2>2. 1 \in 1 .. Len(s)
    BY <1>2
  <2> QED
    BY <1>1, <1>2, <1>3, <2>1, <2>2 DEF Elements
<1>5. Climbs(s) => Climbs(Tail(s))
  BY <1>1, <1>2, <1>3 DEF Climbs
<1>6. Climbs(s) => \A m \in Elements(Tail(s)) : Head(s) < m
  BY <1>1, <1>2, <1>3 DEF Climbs, Elements
<1> QED
  BY <1>1, <1>4, <1>5, <1>6

-----------------------------------------------------------------------------
(* What leaves the parts of the invariant alone.                           *)

\* The parts make up the type invariant.
LEMMA TypeParts == TypeOK <=> Switches /\ Contents /\ Locations
<1>1. codec \in [held : Seq(Nat), eof : Nat, asked : BOOLEAN] <=>
        /\ codec = [held |-> codec.held, eof |-> codec.eof, asked |-> codec.asked]
        /\ codec.held \in Seq(Nat) /\ codec.eof \in Nat /\ codec.asked \in BOOLEAN
  OBVIOUS
<1> QED
  BY <1>1 DEF TypeOK, Switches, Contents, Locations

\* The output is a sequence of items.
LEMMA OutputType == Contents => Output \in Seq(Items)
<1> SUFFICES ASSUME Contents PROVE Output \in Seq(Items)
  OBVIOUS
<1>1. delivered \in Seq(Items) /\ taken \in Seq(Items) /\ frames \in Seq(Items)
  BY DEF Contents
<1>2. delivered \o taken \in Seq(Items)
  BY <1>1, ConcatProperties
<1> QED
  BY <1>1, <1>2, ConcatProperties DEF Output

\* A step that moves nothing along the line.
Quiet ==
  /\ Output' = Output /\ packets' = packets /\ accepted' = accepted
  /\ codec'.held = codec.held /\ codec'.eof = codec.eof
  /\ hand' = hand
  /\ Emitting' = Emitting /\ Ending' = Ending /\ Acting' = Acting
  /\ Working' => Working
  /\ stopping => stopping'

\* Nothing is missing that was not missing before.
LEMMA CoveredFrame ==
  ASSUME Covered, Working' => Working, stopping => stopping',
         accepted' = accepted, Line' = Line
  PROVE  Covered'
<1> HIDE DEF Line, Working
<1>1. \A n, S : Complete(n, S)' <=> Complete(n, S)
  BY DEF Complete, SameEpoch
<1> QED
  BY <1>1 DEF Covered, Complete, SameEpoch

\* The output stays complete as long as it stays.
LEMMA EmittedFrame ==
  ASSUME Emitted, stopping => stopping', accepted' = accepted, Out' = Out
  PROVE  Emitted'
BY DEF Emitted, Complete, SameEpoch

\* A quiet step keeps all that is said of the line.
LEMMA QuietKeeps ==
  ASSUME Named, Ordered, Covered, Emitted, Quiet
  PROVE  Named' /\ Ordered' /\ Covered' /\ Emitted'
<1>1. Out' = Out /\ Held' = Held /\ Queued' = Queued /\ Line' = Line
  BY DEF Quiet, Out, Held, Queued, Line, Numbers, Elements
<1>2. Named'
  BY <1>1 DEF Quiet, Named, Known
<1>3. Ordered'
  BY <1>1 DEF Quiet, Ordered, Ascends, Climbs, Below
<1>4. Covered'
  BY <1>1, CoveredFrame DEF Quiet
<1>5. Emitted'
  BY <1>1, EmittedFrame DEF Quiet
<1> QED
  BY <1>2, <1>3, <1>4, <1>5

\* The constructor establishes the invariant.
LEMMA InitKeeps == Init => IInv
<1> SUFFICES ASSUME Init PROVE IInv
  OBVIOUS
<1>1. <<>> \in Seq(Items) /\ <<>> \in Seq(Nat) /\ <<>> \in Seq(Kinds) /\ Len(<<>>) = 0
  BY EmptySeq
<1>2. Switches /\ Contents /\ Locations
  <2>1. Switches
    BY DEF Init, Switches, Fresh
  <2>2. Contents
    BY <1>1, DecoderAssumption DEF Init, Contents, Fresh
  <2>3. Locations
    BY DEF Init, Locations
  <2> QED
    BY <2>1, <2>2, <2>3
<1>3. Output = <<>>
  BY <1>1, ConcatEmptySeq DEF Init, Output
<1>4. Out = {} /\ Emitting = {} /\ Held = {} /\ Ending = {} /\ Acting = {} /\ Queued = {}
  BY <1>1, <1>3, Nothing DEF Init, Out, Emitting, Held, Ending, Draining, Acting, Queued, Elements, Fresh
<1>5. Placed
  BY <1>1 DEF Init, Placed
<1>6. Named
  BY <1>1, <1>3, <1>4 DEF Init, Named, Fresh
<1>7. Ordered
  BY <1>1, <1>3, <1>4, Nothing DEF Init, Ordered, Below, Climbs, Fresh
<1>8. Covered
  BY <1>1, <1>4 DEF Init, Covered, Complete, Line
<1>9. Emitted
  BY <1>4 DEF Emitted
<1> QED
  BY <1>2, <1>5, <1>6, <1>7, <1>8, <1>9 DEF IInv

-----------------------------------------------------------------------------
(* The producer.                                                           *)

\* An accepted item is the greatest and is on the line.
LEMMA AdmitKeeps ==
  ASSUME IInv, NEW kind \in Kinds, Admit(kind), Len(packets) < PacketCapacity,
         ProducerOnly, producer' \in {"idle"} \cup Kinds
  PROVE  IInv'
<1> USE DEF IInv
<1>01. PICK n : n = Len(accepted) + 1
  OBVIOUS
<1>02. PICK x : x = [kind |-> kind, n |-> n]
  OBVIOUS
<1>1. accepted \in Seq(Kinds) /\ packets \in Seq(Items) /\ Len(accepted) \in Nat /\ Len(packets) \in Nat
  BY LenProperties DEF Contents
<1>2. n \in Nat /\ x \in Items /\ x.n = n /\ x.kind = kind
  BY <1>1, <1>01, <1>02 DEF Items
<1>3. /\ packets' = Append(packets, x)
      /\ accepted' = Append(accepted, kind)
      /\ submittedEof' = (kind = "eof")
  BY <1>01, <1>02 DEF Admit
<1>4. UNCHANGED <<stopping, error, packetsClosed, frames, framesClosed, worker,
                  started, drained, hand, codec, reader, waits, taken, result,
                  delivered, stopper>>
  BY DEF ProducerOnly, workerVars, readerVars
<1>5. /\ accepted' \in Seq(Kinds) /\ Len(accepted') = n
      /\ \A p \in 1 .. Len(accepted) : accepted'[p] = accepted[p]
      /\ accepted'[n] = kind
  BY <1>1, <1>3, <1>01, AppendProperties
<1>6. /\ packets' \in Seq(Items) /\ Len(packets') = Len(packets) + 1
      /\ \A i \in 1 .. Len(packets') : packets'[i] = IF i <= Len(packets) THEN packets[i] ELSE x
      /\ Numbers(packets') = Numbers(packets) \cup {n}
      /\ Ascends(packets) /\ (\A m \in Numbers(packets) : m < n) => Ascends(packets')
  BY <1>1, <1>2, <1>3, Added
<1>7. /\ Output' = Output /\ Out' = Out /\ Emitting' = Emitting /\ Held' = Held
      /\ Ending' = Ending /\ Acting' = Acting /\ Queued' = Queued \cup {n}
  BY <1>4, <1>6 DEF Output, Out, Emitting, Held, Ending, Draining, Working, Acting, Queued, Numbers, Elements
<1>8. \A m \in Line : m \in 1 .. Len(accepted)
  <2>1. \A m \in Out : m \in 1 .. Len(accepted)
    BY DEF Out, Numbers, Named, Known
  <2>2. \A m \in Emitting \cup Acting : m \in 1 .. Len(accepted)
    BY DEF Emitting, Acting, Numbers, Named, Known
  <2>3. \A m \in Held \cup Ending : m \in 1 .. Len(accepted)
    BY DEF Ending, Draining, Named, Known
  <2>4. \A m \in Queued : m \in 1 .. Len(accepted)
    BY DEF Queued, Numbers, Named, Known
  <2> QED
    BY <2>1, <2>2, <2>3, <2>4 DEF Line
<1>9. Line' = Line \cup {n}
  BY <1>7 DEF Line
<1>10. \A m, k : Known(m, k) => Known(m, k)'
  BY <1>1, <1>5, <1>01 DEF Known
<1>11. Switches' /\ Contents' /\ Locations'
  <2>1. Switches'
    BY <1>3, <1>4 DEF Switches
  <2>2. Len(packets') <= PacketCapacity
    BY <1>1, <1>6, DecoderAssumption
  <2>3. Contents'
    BY <1>4, <1>5, <1>6, <2>2 DEF Contents
  <2>4. Locations'
    BY <1>4 DEF Locations
  <2> QED
    BY <2>1, <2>3, <2>4
<1>12. Placed'
  BY <1>4 DEF Placed
<1>13. Named'
  <2>1. Known(x.n, x.kind)'
    BY <1>1, <1>2, <1>5, <1>01 DEF Known
  <2>2. (\A i \in 1 .. Len(packets) : Known(packets[i].n, packets[i].kind))'
    BY <1>1, <1>6, <1>10, <2>1 DEF Named
  <2>3. (\A i \in 1 .. Len(Output) : Known(Output[i].n, Output[i].kind))'
    BY <1>7, <1>10 DEF Named
  <2>4. (\A i \in 1 .. Len(hand) : Known(hand[i].n, hand[i].kind))'
    BY <1>4, <1>10 DEF Named
  <2>5. (\A m \in Held : Known(m, "packet"))'
    BY <1>7, <1>10 DEF Named
  <2>6. (codec.eof # 0 => Known(codec.eof, "eof"))'
    BY <1>4, <1>10 DEF Named
  <2> QED
    BY <2>2, <2>3, <2>4, <2>5, <2>6 DEF Named
<1>14. Ordered'
  <2>1. \A m \in Line : m < n
    BY <1>1, <1>8, <1>01
  <2>2. Ascends(packets')
    BY <1>6, <2>1 DEF Ordered, Line, Queued
  <2>3. Ascends(Output)' /\ Climbs(codec'.held)
    BY <1>4, <1>7 DEF Ordered, Ascends, Climbs
  <2> QED
    BY <1>7, <2>1, <2>2, <2>3 DEF Ordered, Below, Line
<1>15. \A S : \A m \in 1 .. Len(accepted) : Complete(m, S) => Complete(m, S)'
  BY <1>1, <1>5 DEF Complete, SameEpoch
<1>16. Covered'
  <2> SUFFICES ASSUME Working, ~stopping
               PROVE  /\ \A m \in Line' : accepted'[m] = "eof" => Complete(m, Line)'
                      /\ Complete(Len(accepted), Line)'
    BY <1>4 DEF Covered, Working
  <2>1. Complete(Len(accepted), Line)
    BY DEF Covered
  <2>2. Complete(n, Line)'
    <3> SUFFICES ASSUME NEW p \in 1 .. n, accepted'[p] = "packet", SameEpoch(p, n)'
                 PROVE  p \in Line'
      BY DEF Complete
    <3>1. CASE p = n
      BY <1>9, <3>1
    <3>2. CASE p # n
      <4>1. p \in 1 .. Len(accepted) /\ accepted[p] = "packet"
        BY <1>1, <1>5, <3>2, <1>01
      <4>2. SameEpoch(p, Len(accepted))
        BY <1>1, <1>5, <4>1, <1>01 DEF SameEpoch
      <4> QED
        BY <1>9, <2>1, <4>1, <4>2 DEF Complete
    <3> QED
      BY <3>1, <3>2
  <2>3. ASSUME NEW m \in Line', accepted'[m] = "eof" PROVE Complete(m, Line)'
    <3>1. CASE m = n
      BY <2>2, <3>1
    <3>2. CASE m # n
      <4>1. m \in Line /\ m \in 1 .. Len(accepted) /\ accepted[m] = "eof"
        BY <1>5, <1>8, <1>9, <2>3, <3>2
      <4>2. Complete(m, Line)
        BY <4>1 DEF Covered
      <4>3. Complete(m, Line)'
        BY <1>9, <1>15, <4>1, <4>2 DEF Complete, SameEpoch
      <4> QED
        BY <1>9, <4>3 DEF Complete
    <3> QED
      BY <3>1, <3>2
  <2> QED
    BY <1>5, <2>2, <2>3
<1>17. Emitted'
  <2> SUFFICES ASSUME ~stopping, NEW m \in Out, accepted'[m] = "eof"
               PROVE  Complete(m, Out)'
    BY <1>4, <1>7 DEF Emitted, Complete, SameEpoch
  <2>1. m \in 1 .. Len(accepted)
    BY <1>8 DEF Line
  <2>2. Complete(m, Out)
    BY <1>5, <2>1 DEF Emitted
  <2> QED
    BY <1>5, <1>7, <1>15, <2>1, <2>2 DEF Complete, SameEpoch
<1> QED
  BY <1>11, <1>12, <1>13, <1>14, <1>16, <1>17

\* A submission is accepted, or starts to wait.
LEMMA PushKeeps ==
  ASSUME IInv, NEW kind \in Kinds, NEW wait \in BOOLEAN, Push(kind, wait)
  PROVE  IInv'
<1>1. CASE wait /\ producer' = kind /\ UNCHANGED <<packets, accepted, submittedEof>>
  <2>1. UNCHANGED <<stopping, error, submittedEof, packets, packetsClosed, frames,
                    framesClosed, worker, started, drained, hand, codec, reader,
                    waits, taken, result, delivered, stopper, accepted>>
    BY <1>1 DEF Push, ProducerOnly, workerVars, readerVars
  <2>2. Quiet
    BY <2>1 DEF Quiet, Output, Emitting, Ending, Draining, Acting, Working, Numbers
  <2>3. Switches' /\ Contents' /\ Locations' /\ Placed'
    <3> HIDE DEF Push
    <3>1. Switches'
      BY <2>1 DEF IInv, Switches
    <3>2. Contents'
      BY <2>1 DEF IInv, Contents
    <3>3. Locations'
      BY <1>1, <2>1 DEF IInv, Locations
    <3>4. Placed'
      BY <2>1 DEF IInv, Placed
    <3> QED
      BY <3>1, <3>2, <3>3, <3>4
  <2> QED
    BY <2>2, <2>3, QuietKeeps DEF IInv
<1>2. CASE /\ ~wait /\ ~packetsClosed /\ Len(packets) < PacketCapacity
           /\ Admit(kind) /\ UNCHANGED producer
  <2>1. producer' \in {"idle"} \cup Kinds
    BY <1>2 DEF IInv, Locations
  <2> QED
    BY <1>2, <2>1, AdmitKeeps DEF Push
<1> QED
  BY <1>1, <1>2 DEF Push

\* A waiting submission is accepted, or meets a closed queue.
LEMMA PushWaitsKeeps ==
  ASSUME IInv, PushWaits
  PROVE  IInv'
<1>1. CASE packetsClosed /\ UNCHANGED <<packets, accepted, submittedEof>>
  <2>1. UNCHANGED <<stopping, error, submittedEof, packets, packetsClosed, frames,
                    framesClosed, worker, started, drained, hand, codec, reader,
                    waits, taken, result, delivered, stopper, accepted>>
    BY <1>1 DEF PushWaits, ProducerOnly, workerVars, readerVars
  <2>2. Quiet
    BY <2>1 DEF Quiet, Output, Emitting, Ending, Draining, Acting, Working, Numbers
  <2>3. Switches' /\ Contents' /\ Locations' /\ Placed'
    BY <2>1 DEF PushWaits, IInv, Switches, Contents, Locations, Placed
  <2> QED
    BY <2>2, <2>3, QuietKeeps DEF IInv
<1>2. CASE ~packetsClosed /\ Len(packets) < PacketCapacity /\ Admit(producer)
  <2>1. producer \in Kinds /\ producer' \in {"idle"} \cup Kinds
    BY DEF PushWaits, IInv, Locations
  <2> QED
    BY <1>2, <2>1, AdmitKeeps DEF PushWaits
<1> QED
  BY <1>1, <1>2 DEF PushWaits

-----------------------------------------------------------------------------
(* Run.                                                                    *)

\* Items vanish, and Run is over or a stop was requested.
LEMMA DropKeeps ==
  ASSUME Named, Ordered, Emitted, accepted' = accepted,
         Within(Output', Output),
         Ascends(Output'),
         packets' = packets \/ packets' = <<>>,
         hand' = hand \/ hand' = <<>>,
         codec'.held = codec.held, codec'.eof = codec.eof,
         Emitting' \subseteq Emitting, Ending' \subseteq Ending, Acting' \subseteq Acting,
         ~Working' \/ stopping', stopping => stopping',
         Out' = Out \/ stopping'
  PROVE  Named' /\ Ordered' /\ Covered' /\ Emitted'
<1>1. Out' \subseteq Out
  BY DEF Out, Numbers, Within
<1>2. /\ Queued' \subseteq Queued /\ (Ascends(packets) => Ascends(packets'))
      /\ packets' = <<>> => Len(packets') = 0
  BY Nothing DEF Queued
<1>3. Held' = Held /\ (Climbs(codec.held) => Climbs(codec'.held))
  BY DEF Held, Elements, Climbs
<1>4. Named'
  <2>1. (\A i \in 1 .. Len(Output) : Known(Output[i].n, Output[i].kind))'
    BY DEF Named, Known, Within
  <2>2. (\A i \in 1 .. Len(hand) : Known(hand[i].n, hand[i].kind))'
    BY Nothing DEF Named, Known
  <2>3. (\A i \in 1 .. Len(packets) : Known(packets[i].n, packets[i].kind))'
    BY Nothing DEF Named, Known
  <2>4. (\A n \in Held : Known(n, "packet"))'
    BY <1>3 DEF Named, Known
  <2>5. (codec.eof # 0 => Known(codec.eof, "eof"))'
    BY DEF Named, Known
  <2> QED
    BY <2>1, <2>2, <2>3, <2>4, <2>5 DEF Named
<1>5. Ordered'
  BY <1>1, <1>2, <1>3 DEF Ordered, Below
<1>6. Covered'
  BY DEF Covered
<1>7. Emitted'
  BY EmittedFrame DEF Emitted
<1> QED
  BY <1>4, <1>5, <1>6, <1>7

\* Run ends, asks the codec for a frame or waits for an item.
LEMMA LookKeeps == IInv /\ Look => IInv'
<1> SUFFICES ASSUME IInv, Look PROVE IInv'
  OBVIOUS
<1>1. UNCHANGED <<stopping, error, submittedEof, packets, packetsClosed, frames,
                  framesClosed, producer, started, drained, hand, codec, reader,
                  waits, taken, result, delivered, stopper, accepted>>
  BY DEF Look, WorkerOnly, readerVars
<1>2. /\ worker = "look" /\ worker' \in {"exited", "receive", "pop"}
      /\ worker' = "receive" => ~drained
  BY DEF Look, Receives
<1>3. CASE worker' # "exited"
  <2>1. Quiet
    BY <1>1, <1>2, <1>3 DEF Quiet, Output, Emitting, Ending, Draining, Acting, Working, Numbers
  <2>2. Switches' /\ Contents' /\ Locations' /\ Placed'
    BY <1>1, <1>2 DEF IInv, Switches, Contents, Locations, Placed
  <2> QED
    BY <2>1, <2>2, QuietKeeps DEF IInv
<1>4. CASE worker' = "exited"
  <2>1. Output' = Output /\ Out' = Out
    BY <1>1 DEF Output, Out, Numbers
  <2>2. Emitting' = {} /\ Ending' = {} /\ Acting' = {} /\ ~Working'
    BY <1>4 DEF Emitting, Ending, Draining, Acting, Working
  <2>3. Switches' /\ Contents' /\ Locations' /\ Placed'
    BY <1>1, <1>2, <1>4 DEF IInv, Switches, Contents, Locations, Placed
  <2>4. Named' /\ Ordered' /\ Covered' /\ Emitted'
    BY <1>1, <2>1, <2>2, DropKeeps DEF IInv, Ordered, Within
  <2> QED
    BY <2>3, <2>4 DEF IInv
<1> QED
  BY <1>3, <1>4

\* A frame or the EOF leaves the codec into the hand of Run.
LEMMA ReceiveKeeps == IInv /\ Receive => IInv'
<1> SUFFICES ASSUME IInv, Receive PROVE IInv'
  OBVIOUS
<1> USE DEF IInv
<1>1. /\ UNCHANGED <<stopping, error, submittedEof, packets, packetsClosed, frames,
                     framesClosed, producer, started, drained, reader, waits,
                     taken, result, delivered, stopper, accepted>>
      /\ worker = "receive"
  BY DEF Receive, WorkerOnly, readerVars
<1>2. /\ Output' = Output /\ Out' = Out /\ Queued' = Queued
      /\ Emitting = {} /\ Acting = {} /\ ~drained
      /\ Ending = IF codec.eof # 0 THEN {codec.eof} ELSE {}
      /\ hand \in Seq(Items) /\ Len(hand) = 0
  BY <1>1 DEF Output, Out, Queued, Numbers, Emitting, Acting, Placed, Ending,
              Draining, Working, Contents
<1>3. CASE /\ codec.held # <<>>
           /\ hand' = <<[kind |-> "packet", n |-> Head(codec.held)]>>
           /\ codec' = [codec EXCEPT !.held = Tail(@)]
           /\ worker' = "emit"
  <2>1. PICK x : x = [kind |-> "packet", n |-> Head(codec.held)]
    OBVIOUS
  <2>2. codec.held \in Seq(Nat)
    BY DEF Contents
  <2>3. /\ Tail(codec.held) \in Seq(Nat) /\ Head(codec.held) \in Nat
        /\ Held = Elements(Tail(codec.held)) \cup {Head(codec.held)}
        /\ Climbs(Tail(codec.held))
        /\ \A m \in Elements(Tail(codec.held)) : Head(codec.held) < m
    BY <1>3, <2>2, HeldTaken DEF Held, Ordered
  <2>4. x \in Items /\ x.kind = "packet" /\ x.n = Head(codec.held)
    BY <2>1, <2>3 DEF Items, Kinds
  <2>5. hand' \in Seq(Items) /\ Len(hand') = 1 /\ hand'[1] = x /\ Numbers(hand') = {x.n}
    <3>1. hand' = <<x>>
      BY <1>3, <2>1
    <3> QED
      BY <2>4, <3>1, One
  <2>6. /\ codec'.held = Tail(codec.held) /\ codec'.eof = codec.eof
        /\ codec'.asked = codec.asked
        /\ codec' = [held |-> codec'.held, eof |-> codec'.eof, asked |-> codec'.asked]
    BY <1>3 DEF Contents
  <2>7. /\ Held' = Elements(Tail(codec.held)) /\ Emitting' = {Head(codec.held)}
        /\ Acting' = {} /\ Ending' = Ending
    BY <1>1, <1>2, <1>3, <2>4, <2>5, <2>6
       DEF Held, Emitting, Acting, Ending, Draining, Working
  <2>8. Line' = Line
    BY <1>2, <2>3, <2>7 DEF Line
  <2>9. Switches'
    BY <1>1, <2>6 DEF Switches
  <2>10. Contents'
    BY <1>1, <2>3, <2>5, <2>6 DEF Contents
  <2>11. Locations' /\ Placed'
    BY <1>1, <1>2, <1>3, <2>4, <2>5 DEF Locations, Placed
  <2>12. Named'
    <3>1. Known(x.n, x.kind)'
      BY <1>1, <2>3, <2>4 DEF Named, Known
    <3>2. (\A i \in 1 .. Len(Output) : Known(Output[i].n, Output[i].kind))'
      BY <1>1, <1>2 DEF Named, Known
    <3>3. (\A i \in 1 .. Len(hand) : Known(hand[i].n, hand[i].kind))'
      BY <2>5, <3>1 DEF Known
    <3>4. (\A i \in 1 .. Len(packets) : Known(packets[i].n, packets[i].kind))'
      BY <1>1 DEF Named, Known
    <3>5. (\A n \in Held : Known(n, "packet"))' /\ (codec.eof # 0 => Known(codec.eof, "eof"))'
      BY <1>1, <2>3, <2>6, <2>7 DEF Named, Known
    <3> QED
      BY <3>2, <3>3, <3>4, <3>5 DEF Named
  <2>13. Ordered'
    <3>1. Ascends(Output)' /\ Ascends(packets)' /\ Climbs(codec'.held)
      BY <1>1, <1>2, <2>3, <2>6 DEF Ordered, Ascends
    <3>2. /\ Held = Held' \cup Emitting' /\ Below(Emitting', Held')
          /\ Ending' = Ending /\ Acting' = Acting /\ Queued' = Queued /\ Out' = Out
      BY <1>2, <2>3, <2>7 DEF Below
    <3> QED
      BY <3>1, <3>2 DEF Ordered, Below
  <2>14. Covered'
    BY <1>1, <2>8, CoveredFrame DEF Working
  <2>15. Emitted'
    BY <1>1, <1>2, EmittedFrame
  <2> QED
    BY <2>9, <2>10, <2>11, <2>12, <2>13, <2>14, <2>15
<1>4. CASE /\ codec.held = <<>> /\ codec.eof # 0
           /\ hand' = <<[kind |-> "eof", n |-> codec.eof]>>
           /\ worker' = "emit" /\ UNCHANGED codec
  <2>1. PICK x : x = [kind |-> "eof", n |-> codec.eof]
    OBVIOUS
  <2>2. x \in Items /\ x.kind = "eof" /\ x.n = codec.eof
    BY <2>1 DEF Items, Kinds, Contents
  <2>3. hand' \in Seq(Items) /\ Len(hand') = 1 /\ hand'[1] = x /\ Numbers(hand') = {x.n}
    <3>1. hand' = <<x>>
      BY <1>4, <2>1
    <3> QED
      BY <2>2, <3>1, One
  <2>4. /\ Held' = Held /\ Emitting' = {codec.eof} /\ Acting' = {} /\ Ending' = {}
        /\ Held = {} /\ Ending = {codec.eof}
    BY <1>1, <1>2, <1>4, <2>2, <2>3, EmptySeq
       DEF Held, Elements, Emitting, Acting, Ending, Draining, Working
  <2>5. Line' = Line
    BY <1>2, <2>4 DEF Line
  <2>6. Switches' /\ Contents'
    BY <1>1, <1>4, <2>3 DEF Switches, Contents
  <2>7. Locations' /\ Placed'
    BY <1>1, <1>2, <1>4, <2>2, <2>3 DEF Locations, Placed
  <2>8. Named'
    <3>1. Known(x.n, x.kind)'
      BY <1>1, <1>4, <2>2 DEF Named, Known
    <3>2. (\A i \in 1 .. Len(Output) : Known(Output[i].n, Output[i].kind))'
      BY <1>1, <1>2 DEF Named, Known
    <3>3. (\A i \in 1 .. Len(hand) : Known(hand[i].n, hand[i].kind))'
      BY <2>3, <3>1 DEF Known
    <3>4. (\A i \in 1 .. Len(packets) : Known(packets[i].n, packets[i].kind))'
      BY <1>1 DEF Named, Known
    <3>5. (\A n \in Held : Known(n, "packet"))' /\ (codec.eof # 0 => Known(codec.eof, "eof"))'
      BY <1>1, <1>4, <2>4 DEF Named, Known
    <3> QED
      BY <3>2, <3>3, <3>4, <3>5 DEF Named
  <2>9. Ordered'
    BY <1>1, <1>2, <1>4, <2>4 DEF Ordered, Below, Ascends, Climbs
  <2>10. Covered'
    BY <1>1, <2>5, CoveredFrame DEF Working
  <2>11. Emitted'
    BY <1>1, <1>2, EmittedFrame
  <2> QED
    BY <2>6, <2>7, <2>8, <2>9, <2>10, <2>11
<1>5. CASE /\ Len(codec.held) <= Delay /\ codec.eof = 0
           /\ codec' = [codec EXCEPT !.asked = TRUE]
           /\ worker' = "pop" /\ UNCHANGED hand
  <2>1. /\ codec'.held = codec.held /\ codec'.eof = codec.eof /\ codec'.asked = TRUE
        /\ codec' = [held |-> codec'.held, eof |-> codec'.eof, asked |-> codec'.asked]
    BY <1>5 DEF Contents
  <2>2. Emitting' = {} /\ Acting' = {} /\ Ending' = Ending
    BY <1>1, <1>2, <1>5, <2>1 DEF Emitting, Acting, Ending, Draining, Working
  <2>3. Quiet
    BY <1>1, <1>2, <1>5, <2>1, <2>2 DEF Quiet, Working
  <2>4. Switches'
    BY <1>1, <2>1 DEF Switches
  <2>5. Contents'
    BY <1>1, <1>5, <2>1 DEF Contents
  <2>6. Locations' /\ Placed'
    BY <1>1, <1>5, <2>1 DEF Locations, Placed
  <2> QED
    BY <2>3, <2>4, <2>5, <2>6, QuietKeeps
<1>6. CASE worker' = "fail" /\ UNCHANGED <<hand, codec>>
  <2>1. Emitting' = {} /\ Ending' = {} /\ Acting' = {} /\ ~Working'
    BY <1>6 DEF Emitting, Ending, Draining, Acting, Working
  <2>2. Switches' /\ Contents' /\ Locations' /\ Placed'
    BY <1>1, <1>6 DEF Switches, Contents, Locations, Placed
  <2>3. Named' /\ Ordered' /\ Covered' /\ Emitted'
    BY <1>1, <1>2, <1>6, <2>1, DropKeeps DEF Ordered, Within
  <2> QED
    BY <2>2, <2>3
<1> QED
  BY <1>3, <1>4, <1>5, <1>6 DEF Receive

\* What is put into the queue of frames comes at the end of the output.
LEMMA Concatenated ==
  ASSUME NEW s \in Seq(Items), NEW t \in Seq(Items), NEW u \in Seq(Items), NEW x \in Items
  PROVE  s \o t \o (u \o <<x>>) = Append(s \o t \o u, x)
<1>1. s \o t \in Seq(Items) /\ <<x>> \in Seq(Items)
  BY ConcatProperties
<1>2. (s \o t) \o (u \o <<x>>) = ((s \o t) \o u) \o <<x>>
  BY <1>1, ConcatAssociative
<1>3. (s \o t) \o u \in Seq(Items)
  BY <1>1, ConcatProperties
<1>4. ((s \o t) \o u) \o <<x>> = Append((s \o t) \o u, x)
  BY <1>1, <1>3, AppendIsConcat
<1> QED
  BY <1>2, <1>4

\* What Run holds becomes the end of the output; an EOF is complete there,
\* because everything on the line before it is in the output.
LEMMA EmitKeeps == IInv /\ Emit => IInv'
<1> SUFFICES ASSUME IInv, Emit PROVE IInv'
  OBVIOUS
<1> USE DEF IInv
<1>1. /\ UNCHANGED <<stopping, error, submittedEof, packets, packetsClosed,
                     framesClosed, producer, started, codec, reader, waits,
                     taken, result, delivered, stopper, accepted>>
      /\ worker = "emit" /\ hand' = <<>> /\ ~drained
  BY DEF Emit, WorkerOnly, readerVars, Placed
<1>2. /\ hand \in Seq(Items) /\ Len(hand) = 1 /\ hand[1].kind \in {"packet", "eof"}
      /\ hand[1].kind = "eof" => codec.held = <<>> /\ codec.eof # 0
  BY <1>1 DEF Contents, Placed
<1>3. PICK x : x = hand[1]
  OBVIOUS
<1>4. /\ x \in Items /\ hand = <<x>> /\ Numbers(hand) = {x.n}
      /\ Emitting = {x.n} /\ Acting = {} /\ Known(x.n, x.kind)
  BY <1>1, <1>2, <1>3, Single DEF Emitting, Acting, Named
<1>5. CASE framesClosed /\ worker' = "exited" /\ UNCHANGED <<frames, drained>>
  <2>1. Output' = Output /\ Out' = Out
    BY <1>1, <1>5 DEF Output, Out, Numbers
  <2>2. Emitting' = {} /\ Ending' = {} /\ Acting' = {} /\ ~Working'
    BY <1>5 DEF Emitting, Ending, Draining, Acting, Working
  <2>3. Switches' /\ Contents' /\ Locations' /\ Placed'
    BY <1>1, <1>5, Nothing DEF Switches, Contents, Locations, Placed
  <2>4. Named' /\ Ordered' /\ Covered' /\ Emitted'
    BY <1>1, <2>1, <2>2, DropKeeps DEF Ordered, Within
  <2> QED
    BY <2>3, <2>4
<1>6. CASE /\ ~framesClosed /\ Len(frames) < FrameCapacity
           /\ frames' = frames \o hand
           /\ drained' = (hand[1].kind = "eof")
           /\ worker' = "look"
  <2>1. delivered \in Seq(Items) /\ taken \in Seq(Items) /\ frames \in Seq(Items)
    BY DEF Contents
  <2>2. Output' = Append(Output, x)
    BY <1>1, <1>4, <1>6, <2>1, Concatenated DEF Output
  <2>3. Output \in Seq(Items)
    BY OutputType
  <2>4. /\ Len(Output') = Len(Output) + 1
        /\ \A i \in 1 .. Len(Output') : Output'[i] = IF i <= Len(Output) THEN Output[i] ELSE x
        /\ Out' = Out \cup {x.n}
        /\ Ascends(Output) /\ (\A m \in Out : m < x.n) => Ascends(Output')
    BY <1>4, <2>2, <2>3, Added DEF Out
  <2>5. frames' \in Seq(Items) /\ Len(frames') = Len(frames) + 1
    <3>1. frames' = frames \o hand
      BY <1>6
    <3> QED
      <4>1. hand \in Seq(Items) /\ frames \in Seq(Items)
        BY <1>2, <2>1
      <4>2. frames \o hand \in Seq(Items) /\ Len(frames \o hand) = Len(frames) + Len(hand)
        BY <4>1, ConcatProperties
      <4> QED
        BY <1>2, <3>1, <4>2
  <2>6. Queued' = Queued /\ Held' = Held /\ Emitting' = {} /\ Acting' = {}
    BY <1>1, <1>6 DEF Queued, Held, Numbers, Elements, Emitting, Acting
  <2>7. Ending' = Ending
    BY <1>1, <1>2, <1>6 DEF Ending, Draining, Working
  <2>8. Line' = Line
    BY <1>4, <2>4, <2>6, <2>7 DEF Line
  <2>9. Switches'
    <3>1. drained' \in BOOLEAN
      BY <1>6
    <3> QED
      BY <1>1, <3>1 DEF Switches
  <2>10. Contents'
    <3>1. Len(frames') <= FrameCapacity
      BY <1>6, <2>1, <2>5, DecoderAssumption, LenProperties
    <3> QED
      BY <1>1, <2>5, <3>1, Nothing DEF Contents
  <2>11. Locations'
    BY <1>1, <1>6 DEF Locations
  <2>12. Placed'
    <3>1. drained' => codec'.held = <<>> /\ codec'.eof # 0
      BY <1>1, <1>2, <1>6
    <3>2. worker' = "look"
      BY <1>6
    <3> QED
      BY <1>1, <3>1, <3>2, Nothing DEF Placed
  <2>13. Named'
    <3>1. (\A i \in 1 .. Len(Output) : Known(Output[i].n, Output[i].kind))'
      <4>1. Len(Output) \in Nat
        BY <2>3, LenProperties
      <4> QED
        BY <1>1, <1>4, <2>4, <4>1 DEF Named, Known
    <3>2. (\A i \in 1 .. Len(hand) : Known(hand[i].n, hand[i].kind))'
      BY <1>1, Nothing
    <3>3. /\ (\A i \in 1 .. Len(packets) : Known(packets[i].n, packets[i].kind))'
          /\ (\A n \in Held : Known(n, "packet"))'
          /\ (codec.eof # 0 => Known(codec.eof, "eof"))'
      BY <1>1, <2>6 DEF Named, Known
    <3> QED
      BY <3>1, <3>2, <3>3 DEF Named
  <2>14. Ordered'
    <3>1. \A m \in Out : m < x.n
      BY <1>4 DEF Ordered, Below
    <3> QED
      BY <1>1, <1>4, <2>4, <2>6, <2>7, <3>1 DEF Ordered, Below, Ascends, Climbs
  <2>15. Covered'
    BY <1>1, <2>8, CoveredFrame DEF Working
  <2>16. Emitted'
    <3> SUFFICES ASSUME ~stopping, NEW m \in Out', accepted[m] = "eof",
                        NEW p \in 1 .. m, accepted[p] = "packet", SameEpoch(p, m)
                 PROVE  p \in Out'
      BY <1>1 DEF Emitted, Complete, SameEpoch
    <3>1. m \in Line
      BY <1>4, <2>4 DEF Line
    <3>2. Complete(m, Line)
      BY <1>1, <3>1 DEF Covered, Working
    <3>3. p \in Line'
      BY <2>8, <3>2 DEF Complete
    <3>4. m # p
      OBVIOUS
    <3>5. m \in Nat
      BY <1>4, <2>4, <3>1 DEF Out, Numbers, Named, Known
    <3>6. p < m
      BY <3>4, <3>5
    <3>7. \A q \in Line' : q \in Out' \/ m < q
      BY <2>6, <2>14 DEF Ordered, Below, Line
    <3>8. ~(m < p)
      BY <3>5, <3>6
    <3> QED
      BY <3>3, <3>7, <3>8
  <2> QED
    BY <2>9, <2>10, <2>11, <2>12, <2>13, <2>14, <2>15, <2>16
<1> QED
  BY <1>5, <1>6 DEF Emit

\* The item at the front of the queue comes into the hand of Run.
LEMMA PopKeeps == IInv /\ Pop => IInv'
<1> SUFFICES ASSUME IInv, Pop PROVE IInv'
  OBVIOUS
<1> USE DEF IInv
<1>1. /\ UNCHANGED <<stopping, error, submittedEof, packetsClosed, frames,
                     framesClosed, producer, started, drained, codec, reader,
                     waits, taken, result, delivered, stopper, accepted>>
      /\ worker = "pop"
  BY DEF Pop, WorkerOnly, readerVars
<1>2. /\ Output' = Output /\ Out' = Out /\ Held' = Held
      /\ Emitting = {} /\ Acting = {}
      /\ hand \in Seq(Items) /\ Len(hand) = 0
      /\ packets \in Seq(Items) /\ Len(packets) <= PacketCapacity
  BY <1>1 DEF Output, Out, Numbers, Held, Elements, Emitting, Acting, Placed, Contents
<1>3. CASE /\ packets # <<>>
           /\ hand' = <<Head(packets)>> /\ packets' = Tail(packets)
           /\ worker' = "act"
  <2>1. PICK x : x = Head(packets)
    OBVIOUS
  <2>2. /\ packets' \in Seq(Items) /\ Len(packets') = Len(packets) - 1
        /\ Len(packets) \in Nat \ {0} /\ x \in Items /\ x = packets[1]
        /\ \A i \in 1 .. Len(packets') : i + 1 \in 1 .. Len(packets) /\ packets'[i] = packets[i + 1]
        /\ Queued = Queued' \cup {x.n}
        /\ Ascends(packets') /\ \A m \in Queued' : x.n < m
    BY <1>2, <1>3, <2>1, Taken DEF Queued, Ordered
  <2>3. hand' \in Seq(Items) /\ Len(hand') = 1 /\ hand'[1] = x /\ Numbers(hand') = {x.n}
    <3>1. hand' = <<x>>
      BY <1>3, <2>1
    <3> QED
      BY <2>2, <3>1, One
  <2>4. Emitting' = {} /\ Acting' = {x.n} /\ Ending' = Ending
    BY <1>1, <1>3, <2>3 DEF Emitting, Acting, Ending, Draining, Working
  <2>5. Line' = Line
    BY <1>2, <2>2, <2>4 DEF Line
  <2>6. Switches'
    BY <1>1 DEF Switches
  <2>7. Contents'
    <3>1. Len(packets') <= PacketCapacity
      BY <1>2, <2>2, DecoderAssumption
    <3> QED
      BY <1>1, <2>2, <2>3, <3>1 DEF Contents
  <2>8. Locations' /\ Placed'
    BY <1>1, <1>2, <1>3, <2>3 DEF Locations, Placed
  <2>9. Named'
    <3>1. 1 \in 1 .. Len(packets)
      BY <2>2
    <3>2. Known(x.n, x.kind)'
      BY <1>1, <2>2, <3>1 DEF Named, Known
    <3>3. (\A i \in 1 .. Len(packets) : Known(packets[i].n, packets[i].kind))'
      <4>1. \A i \in 1 .. Len(packets) : Known(packets[i].n, packets[i].kind)
        BY DEF Named
      <4>2. \A i \in 1 .. Len(packets') : Known(packets'[i].n, packets'[i].kind)
        BY <2>2, <4>1
      <4> QED
        BY <1>1, <4>2 DEF Known
    <3>4. (\A i \in 1 .. Len(hand) : Known(hand[i].n, hand[i].kind))'
      BY <2>3, <3>2 DEF Known
    <3>5. (\A i \in 1 .. Len(Output) : Known(Output[i].n, Output[i].kind))'
      BY <1>1, <1>2 DEF Named, Known
    <3>6. (\A n \in Held : Known(n, "packet"))' /\ (codec.eof # 0 => Known(codec.eof, "eof"))'
      BY <1>1, <1>2 DEF Named, Known
    <3> QED
      BY <3>3, <3>4, <3>5, <3>6 DEF Named
  <2>10. Ordered'
    <3>1. Ascends(Output)' /\ Ascends(packets)' /\ Climbs(codec'.held)
      BY <1>1, <1>2, <2>2 DEF Ordered, Ascends
    <3>2. Queued = Queued' \cup Acting' /\ Below(Acting', Queued')
      BY <2>2, <2>4 DEF Below
    <3> QED
      BY <1>2, <2>4, <3>1, <3>2 DEF Ordered, Below
  <2>11. Covered'
    BY <1>1, <2>5, CoveredFrame DEF Working
  <2>12. Emitted'
    BY <1>1, <1>2, EmittedFrame
  <2> QED
    BY <2>6, <2>7, <2>8, <2>9, <2>10, <2>11, <2>12
<1>4. CASE packets = <<>> /\ packetsClosed /\ worker' = "exited" /\ UNCHANGED <<hand, packets>>
  <2>1. Emitting' = {} /\ Ending' = {} /\ Acting' = {} /\ ~Working'
    BY <1>4 DEF Emitting, Ending, Draining, Acting, Working
  <2>2. Switches' /\ Contents' /\ Locations' /\ Placed'
    BY <1>1, <1>4 DEF Switches, Contents, Locations, Placed
  <2>3. Named' /\ Ordered' /\ Covered' /\ Emitted'
    BY <1>1, <1>2, <1>4, <2>1, DropKeeps DEF Ordered, Within
  <2> QED
    BY <2>2, <2>3
<1> QED
  BY <1>3, <1>4 DEF Pop

\* A Reset ends the epoch of everything before it.
LEMMA CutOff ==
  ASSUME NEW r \in Nat, accepted[r] = "reset", NEW n \in Nat, r <= n,
         NEW S, NEW T, Complete(n, S), \A m \in S : m \in T \/ m <= r
  PROVE  Complete(n, T)
<1> SUFFICES ASSUME NEW p \in 1 .. n, accepted[p] = "packet", SameEpoch(p, n)
             PROVE  p \in T
  BY DEF Complete
<1>1. p \in S
  BY DEF Complete
<1>2. ~(p <= r)
  BY DEF SameEpoch
<1> QED
  BY <1>1, <1>2

\* The codec takes an item, refuses it, or is flushed by a Reset, which cuts off
\* what is inside.
LEMMA ActKeeps == IInv /\ Act => IInv'
<1> SUFFICES ASSUME IInv, Act PROVE IInv'
  OBVIOUS
<1> USE DEF IInv
<1>1. /\ UNCHANGED <<stopping, error, submittedEof, packets, packetsClosed, frames,
                     framesClosed, producer, reader, waits, taken, result,
                     delivered, stopper, accepted>>
      /\ worker = "act" /\ hand' = <<>>
  BY DEF Act, WorkerOnly, readerVars
<1>2. /\ Output' = Output /\ Out' = Out /\ Queued' = Queued
      /\ hand \in Seq(Items) /\ Len(hand) = 1
  BY <1>1 DEF Output, Out, Numbers, Queued, Placed, Contents
<1>3. PICK x : x = hand[1]
  OBVIOUS
<1>4. /\ x \in Items /\ Acting = {x.n} /\ Emitting = {} /\ Known(x.n, x.kind)
      /\ Emitting' = {} \/ worker' = "emit"
  BY <1>1, <1>2, <1>3, Single DEF Emitting, Acting, Named
<1>5. x.n \in Nat /\ x.kind \in Kinds
  BY <1>4 DEF Items
<1>6. CASE /\ worker' \in {"exited", "fail"} /\ UNCHANGED <<started, drained, codec>>
  <2>1. Emitting' = {} /\ Ending' = {} /\ Acting' = {} /\ ~Working'
    BY <1>6 DEF Emitting, Ending, Draining, Acting, Working
  <2>2. Switches' /\ Contents' /\ Locations' /\ Placed'
    <3>1. Switches'
      BY <1>1, <1>6 DEF Switches
    <3>2. Contents'
      BY <1>1, <1>6, Nothing DEF Contents
    <3>3. Locations'
      BY <1>1, <1>6 DEF Locations
    <3>4. Placed'
      BY <1>1, <1>6, Nothing DEF Placed
    <3> QED
      BY <3>1, <3>2, <3>3, <3>4
  <2>3. Named' /\ Ordered' /\ Covered' /\ Emitted'
    BY <1>1, <1>2, <1>6, <2>1, DropKeeps DEF Ordered, Within
  <2> QED
    BY <2>2, <2>3
<1>7. CASE /\ hand[1].kind = "reset" /\ worker' = "look"
           /\ codec' = Fresh /\ started' = FALSE /\ drained' = FALSE
  <2>1. /\ codec'.held = <<>> /\ codec'.eof = 0 /\ codec'.asked = TRUE
        /\ codec' = [held |-> codec'.held, eof |-> codec'.eof, asked |-> codec'.asked]
    BY <1>7 DEF Fresh
  <2>2. Emitting' = {} /\ Acting' = {} /\ Ending' = {} /\ Held' = {}
    BY <1>7, <2>1, Nothing DEF Emitting, Acting, Ending, Draining, Held, Elements
  <2>3. Line' = Out \cup Queued
    BY <1>2, <2>2 DEF Line
  <2>4. Switches'
    BY <1>1, <1>7, <2>1 DEF Switches
  <2>5. Contents'
    BY <1>1, <2>1, Nothing, EmptySeq DEF Contents
  <2>6. Locations' /\ Placed'
    BY <1>1, <1>7, <2>1, Nothing DEF Locations, Placed
  <2>7. Named'
    <3>1. (\A i \in 1 .. Len(Output) : Known(Output[i].n, Output[i].kind))'
      BY <1>1, <1>2 DEF Named, Known
    <3>2. (\A i \in 1 .. Len(hand) : Known(hand[i].n, hand[i].kind))'
      BY <1>1, Nothing
    <3>3. (\A i \in 1 .. Len(packets) : Known(packets[i].n, packets[i].kind))'
      BY <1>1 DEF Named, Known
    <3> QED
      BY <2>1, <2>2, <3>1, <3>2, <3>3 DEF Named
  <2>8. Ordered'
    <3>1. Ascends(Output)' /\ Ascends(packets)' /\ Climbs(codec'.held)
      BY <1>1, <1>2, <2>1, Nothing DEF Ordered, Ascends, Climbs
    <3> QED
      BY <1>2, <2>2, <3>1 DEF Ordered, Below
  <2>9. /\ accepted[x.n] = "reset"
        /\ \A m \in Line : m \in Line' \/ m <= x.n
        /\ \A m \in Queued : x.n < m
    <3>1. accepted[x.n] = "reset"
      BY <1>3, <1>4, <1>7 DEF Known
    <3>2. \A m \in Held \cup Ending : m < x.n
      BY <1>4 DEF Ordered, Below
    <3>3. \A m \in Queued : x.n < m
      BY <1>4 DEF Ordered, Below
    <3>4. \A m \in Held \cup Ending \cup Acting : m <= x.n
      BY <1>4, <1>5, <3>2 DEF Named, Known, Ending
    <3> QED
      BY <1>4, <2>3, <3>1, <3>3, <3>4 DEF Line
  <2>10. Covered'
    <3> SUFFICES ASSUME ~stopping
                 PROVE  /\ \A m \in Line' : accepted[m] = "eof" => Complete(m, Line)'
                        /\ Complete(Len(accepted), Line)'
      BY <1>1 DEF Covered
    <3>1. /\ \A m \in Line : accepted[m] = "eof" => Complete(m, Line)
          /\ Complete(Len(accepted), Line)
      BY <1>1 DEF Covered, Working
    <3>2. \A m : Complete(m, Line)' <=> Complete(m, Line')
      BY <1>1 DEF Complete, SameEpoch
    <3>3. x.n <= Len(accepted) /\ Len(accepted) \in Nat
      BY <1>4, LenProperties DEF Known, Contents
    <3>4. Complete(Len(accepted), Line')
      BY <1>5, <2>9, <3>1, <3>3, CutOff
    <3>5. ASSUME NEW m \in Line', accepted[m] = "eof" PROVE Complete(m, Line')
      <4>1. m \in Line /\ Complete(m, Line)
        BY <2>3, <3>1, <3>5 DEF Line
      <4>2. CASE m \in Queued
        <5>1. m \in Nat
          BY <4>2 DEF Queued, Numbers, Named, Known
        <5>2. x.n <= m
          BY <1>5, <2>9, <4>2, <5>1
        <5>3. Complete(m, Line)
          BY <4>1
        <5>4. accepted[x.n] = "reset" /\ \A k \in Line : k \in Line' \/ k <= x.n
          BY <2>9
        <5> HIDE DEF Line, IInv
        <5> QED
          BY ONLY <1>5, <5>1, <5>2, <5>3, <5>4, CutOff
      <4>3. CASE m \in Out
        <5>1. Complete(m, Out)
          BY <3>5, <4>3 DEF Emitted
        <5> QED
          BY <2>3, <5>1 DEF Complete
      <4> QED
        BY <2>3, <4>2, <4>3
    <3> QED
      BY <1>1, <3>2, <3>4, <3>5 DEF Complete, SameEpoch
  <2>11. Emitted'
    BY <1>1, <1>2, EmittedFrame
  <2> QED
    BY <2>4, <2>5, <2>6, <2>7, <2>8, <2>10, <2>11
<1>8. CASE /\ hand[1].kind # "reset" /\ Accepts
           /\ codec' = Sent(hand[1]) /\ started' = TRUE
           /\ worker' = "look" /\ UNCHANGED drained
  <2>1. codec.eof = 0 /\ ~drained /\ Ending = {} /\ codec.held \in Seq(Nat)
    BY <1>8 DEF Accepts, Placed, Ending, Draining, Contents
  <2>2. Emitting' = {} /\ Acting' = {}
    BY <1>8 DEF Emitting, Acting
  <2>3. \A m \in Held : m < x.n
    BY <1>4 DEF Ordered, Below
  <2>4. CASE x.kind = "eof"
    <3>1. /\ codec'.held = codec.held /\ codec'.eof = x.n /\ codec'.asked = FALSE
          /\ codec' = [held |-> codec'.held, eof |-> codec'.eof, asked |-> codec'.asked]
      BY <1>3, <1>8, <2>4 DEF Sent, Contents
    <3>2. x.n # 0
      BY <1>4 DEF Known
    <3>3. Held' = Held /\ Ending' = {x.n}
      BY <1>8, <2>1, <3>1, <3>2 DEF Held, Elements, Ending, Draining, Working
    <3>4. Line' = Line
      BY <1>2, <1>4, <2>1, <2>2, <3>3 DEF Line
    <3>5. Switches'
      BY <1>1, <1>8, <3>1 DEF Switches
    <3>6. Contents'
      BY <1>1, <1>5, <2>1, <3>1, Nothing DEF Contents
    <3>7. Locations' /\ Placed'
      BY <1>1, <1>8, <2>1, Nothing DEF Locations, Placed
    <3>8. Named'
      <4>1. (\A i \in 1 .. Len(Output) : Known(Output[i].n, Output[i].kind))'
        BY <1>1, <1>2 DEF Named, Known
      <4>2. (\A i \in 1 .. Len(hand) : Known(hand[i].n, hand[i].kind))'
        BY <1>1, Nothing
      <4>3. (\A i \in 1 .. Len(packets) : Known(packets[i].n, packets[i].kind))'
        BY <1>1 DEF Named, Known
      <4>4. (\A n \in Held : Known(n, "packet"))' /\ (codec.eof # 0 => Known(codec.eof, "eof"))'
        BY <1>1, <1>4, <2>4, <3>1, <3>3 DEF Named, Known
      <4> QED
        BY <4>1, <4>2, <4>3, <4>4 DEF Named
    <3>9. Ordered'
      <4>1. Ascends(Output)' /\ Ascends(packets)' /\ Climbs(codec'.held)
        BY <1>1, <1>2, <3>1 DEF Ordered, Ascends
      <4> QED
        BY <1>2, <1>4, <2>1, <2>2, <3>3, <4>1 DEF Ordered, Below
    <3>10. Covered'
      BY <1>1, <3>4, CoveredFrame DEF Working
    <3>11. Emitted'
      BY <1>1, <1>2, EmittedFrame
    <3> QED
      BY <3>5, <3>6, <3>7, <3>8, <3>9, <3>10, <3>11
  <2>5. CASE x.kind = "packet"
    <3>1. /\ codec'.held = Append(codec.held, x.n) /\ codec'.eof = 0 /\ codec'.asked = FALSE
          /\ codec' = [held |-> codec'.held, eof |-> codec'.eof, asked |-> codec'.asked]
      BY <1>3, <1>8, <2>1, <2>5 DEF Sent, Contents
    <3>2. /\ codec'.held \in Seq(Nat) /\ Held' = Held \cup {x.n}
          /\ Climbs(codec'.held)
      BY <1>5, <2>1, <2>3, <3>1, HeldAdded DEF Held, Ordered
    <3>3. Ending' = {}
      BY <3>1 DEF Ending, Draining
    <3>4. Line' = Line
      BY <1>2, <1>4, <2>1, <2>2, <3>2, <3>3 DEF Line
    <3>5. Switches'
      BY <1>1, <1>8, <3>1 DEF Switches
    <3>6. Contents'
      BY <1>1, <3>1, <3>2, Nothing DEF Contents
    <3>7. Locations' /\ Placed'
      BY <1>1, <1>8, <2>1, Nothing DEF Locations, Placed
    <3>8. Named'
      <4>1. (\A i \in 1 .. Len(Output) : Known(Output[i].n, Output[i].kind))'
        BY <1>1, <1>2 DEF Named, Known
      <4>2. (\A i \in 1 .. Len(hand) : Known(hand[i].n, hand[i].kind))'
        BY <1>1, Nothing
      <4>3. (\A i \in 1 .. Len(packets) : Known(packets[i].n, packets[i].kind))'
        BY <1>1 DEF Named, Known
      <4>4. (\A n \in Held : Known(n, "packet"))' /\ codec'.eof = 0
        BY <1>1, <1>4, <2>5, <3>1, <3>2 DEF Named, Known
      <4> QED
        BY <4>1, <4>2, <4>3, <4>4 DEF Named
    <3>9. Ordered'
      <4>1. Ascends(Output)' /\ Ascends(packets)' /\ Climbs(codec'.held)
        BY <1>1, <1>2, <3>2 DEF Ordered, Ascends
      <4> QED
        BY <1>2, <1>4, <2>1, <2>2, <3>2, <3>3, <4>1 DEF Ordered, Below
    <3>10. Covered'
      BY <1>1, <3>4, CoveredFrame DEF Working
    <3>11. Emitted'
      BY <1>1, <1>2, EmittedFrame
    <3> QED
      BY <3>5, <3>6, <3>7, <3>8, <3>9, <3>10, <3>11
  <2> QED
    BY <1>3, <1>5, <1>8, <2>4, <2>5 DEF Kinds
<1> QED
  BY <1>6, <1>7, <1>8 DEF Act

\* Failing loses what is on the line, but nothing that was put out.
LEMMA FailureKeeps ==
  ASSUME IInv, Fail \/ FailPackets \/ FailFrames
  PROVE  IInv'
<1> USE DEF IInv
<1>1. /\ UNCHANGED <<stopping, submittedEof, frames, producer, started, drained,
                     codec, reader, waits, taken, result, delivered, stopper, accepted>>
      /\ packets' = packets \/ packets' = <<>>
      /\ hand' = hand \/ hand' = <<>>
      /\ worker \in {"fail", "close", "close frames"}
      /\ worker' \in {"close", "close frames", "exited"}
  BY DEF Fail, FailPackets, FailFrames, readerVars, queues
<1>2. /\ UNCHANGED error \/ error' = TRUE
      /\ UNCHANGED packetsClosed \/ packetsClosed' = TRUE
      /\ UNCHANGED framesClosed \/ framesClosed' = TRUE
  BY DEF Fail, FailPackets, FailFrames, queues
<1>3. Output' = Output /\ Out' = Out
  BY <1>1 DEF Output, Out, Numbers
<1>4. Emitting' = {} /\ Ending' = {} /\ Acting' = {} /\ ~Working'
  BY <1>1 DEF Emitting, Ending, Draining, Acting, Working
<1>5. Switches'
  BY <1>1, <1>2 DEF Switches
<1>6. Contents'
  <2>1. packets' \in Seq(Items) /\ Len(packets') <= PacketCapacity
    <3>1. CASE packets' = packets
      BY <3>1 DEF Contents
    <3>2. CASE packets' = <<>>
      <4>1. Len(packets') = 0 /\ packets' \in Seq(Items)
        BY <3>2, Nothing
      <4> QED
        BY <4>1, DecoderAssumption
    <3> QED
      BY <1>1, <3>1, <3>2
  <2>2. hand' \in Seq(Items)
    BY <1>1, Nothing DEF Contents
  <2> QED
    BY <1>1, <2>1, <2>2 DEF Contents
<1>7. Locations'
  BY <1>1 DEF Locations
<1>8. Placed'
  BY <1>1, Nothing DEF Placed
<1>9. Named' /\ Ordered' /\ Covered' /\ Emitted'
  BY <1>1, <1>3, <1>4, DropKeeps DEF Ordered, Within
<1> QED
  BY <1>5, <1>6, <1>7, <1>8, <1>9

-----------------------------------------------------------------------------
(* The reader.                                                             *)

\* A read begins, or sees the stop.
LEMMA ReadKeeps ==
  ASSUME IInv, NEW wait \in BOOLEAN, Read(wait)
  PROVE  IInv'
<1> USE DEF IInv
<1>1. /\ UNCHANGED <<stopping, error, submittedEof, packets, packetsClosed, frames,
                     framesClosed, producer, worker, started, drained, hand, codec,
                     taken, delivered, stopper, accepted>>
      /\ waits' = wait /\ reader = "idle" /\ reader' \in {"idle", "pop"}
      /\ result' \in {"null", result}
  BY DEF Read, ReaderOnly, workerVars
<1>2. Quiet
  BY <1>1 DEF Quiet, Output, Emitting, Ending, Draining, Acting, Working, Numbers
<1>3. Switches' /\ Contents' /\ Locations'
  BY <1>1 DEF Switches, Contents, Locations
<1>4. Placed'
  BY <1>1 DEF Placed
<1> QED
  BY <1>2, <1>3, <1>4, QuietKeeps

\* A read moves an item within the output.
LEMMA ReadPopKeeps == IInv /\ ReadPop => IInv'
<1> SUFFICES ASSUME IInv, ReadPop PROVE IInv'
  OBVIOUS
<1> USE DEF IInv
<1>1. /\ UNCHANGED <<stopping, error, submittedEof, packets, packetsClosed,
                     framesClosed, producer, worker, started, drained, hand, codec,
                     waits, result, delivered, stopper, accepted>>
      /\ reader = "pop" /\ reader' = "check" /\ taken = <<>>
  BY DEF ReadPop, ReaderOnly, workerVars, Placed
<1>2. delivered \in Seq(Items) /\ frames \in Seq(Items) /\ Len(frames) <= FrameCapacity
  BY DEF Contents
<1>3. /\ Output' = Output /\ taken' \in Seq(Items) /\ frames' \in Seq(Items)
      /\ Len(frames') <= FrameCapacity
  <2>1. CASE frames # <<>> /\ taken' = <<Head(frames)>> /\ frames' = Tail(frames)
    <3>1. PICK x : x = Head(frames)
      OBVIOUS
    <3>2. /\ frames' \in Seq(Items) /\ Len(frames') = Len(frames) - 1
          /\ Len(frames) \in Nat \ {0} /\ x \in Items /\ x = frames[1]
          /\ \A i \in 1 .. Len(frames') : frames'[i] = frames[i + 1]
      BY <1>2, <2>1, <3>1, Taken
    <3>3. /\ taken' = <<x>> /\ taken' \in Seq(Items) /\ Len(taken') = 1 /\ taken'[1] = x
      BY <2>1, <3>1, <3>2, One
    <3>4. taken' \o frames' = frames
      <4>1. /\ taken' \o frames' \in Seq(Items) /\ Len(taken' \o frames') = Len(frames)
            /\ \A i \in 1 .. Len(frames) :
                 (taken' \o frames')[i] = IF i <= 1 THEN taken'[i] ELSE frames'[i - 1]
        BY <3>2, <3>3, ConcatProperties
      <4>2. \A i \in 1 .. Len(frames) : (taken' \o frames')[i] = frames[i]
        BY <3>2, <3>3, <4>1
      <4> QED
        BY <1>2, <4>1, <4>2, SeqEqual
    <3>5. Output = delivered \o frames
      BY <1>1, <1>2, ConcatEmptySeq DEF Output
    <3>6. Output' = delivered \o frames
      <4>1. (delivered \o taken') \o frames' = delivered \o (taken' \o frames')
        BY <1>2, <3>2, <3>3, ConcatAssociative
      <4> QED
        BY <1>1, <3>4, <4>1 DEF Output
    <3>7. Len(frames') <= FrameCapacity
      BY <1>2, <3>2, DecoderAssumption
    <3> QED
      BY <3>2, <3>3, <3>5, <3>6, <3>7
  <2>2. CASE UNCHANGED <<taken, frames>>
    BY <1>1, <1>2, <2>2, Nothing DEF Output
  <2> QED
    BY <2>1, <2>2 DEF ReadPop
<1>4. Quiet
  BY <1>1, <1>3 DEF Quiet, Emitting, Ending, Draining, Acting, Working, Numbers
<1>5. Switches' /\ Contents' /\ Locations'
  BY <1>1, <1>3 DEF Switches, Contents, Locations
<1>6. Placed'
  BY <1>1 DEF Placed
<1> QED
  BY <1>4, <1>5, <1>6, QuietKeeps

\* A read delivers what it took; only a stop lets it drop that.
LEMMA ReadCheckKeeps == IInv /\ ReadCheck => IInv'
<1> SUFFICES ASSUME IInv, ReadCheck PROVE IInv'
  OBVIOUS
<1> USE DEF IInv
<1>1. /\ UNCHANGED <<stopping, error, submittedEof, packets, packetsClosed, frames,
                     framesClosed, producer, worker, started, drained, hand, codec,
                     waits, stopper, accepted>>
      /\ reader' = "idle" /\ taken' = <<>>
      /\ result' \in {"null", "eof", "frame"}
      /\ \/ (stopping \/ taken = <<>>) /\ delivered' = delivered
         \/ ~stopping /\ delivered' = delivered \o taken
  BY DEF ReadCheck, ReaderOnly, workerVars, StopSeen
<1>2. delivered \in Seq(Items) /\ taken \in Seq(Items) /\ frames \in Seq(Items)
  BY DEF Contents
<1>3. Switches' /\ Locations'
  BY <1>1 DEF Switches, Locations
<1>4. Contents'
  <2>1. delivered' \in Seq(Items)
    BY <1>1, <1>2, ConcatProperties
  <2> QED
    BY <1>1, <2>1, Nothing DEF Contents
<1>5. Placed'
  BY <1>1 DEF Placed
<1>6. CASE stopping /\ delivered' = delivered
  <2>1. Output' = delivered \o <<>> \o frames
    BY <1>1, <1>6 DEF Output
  <2>2. /\ Ascends(Output')
        /\ Within(Output', Output)
    <3>1. Ascends(delivered \o taken \o frames)
      BY DEF Output, Ordered
    <3>2. PICK v : v = delivered \o <<>> \o frames
      OBVIOUS
    <3>3. v = delivered \o <<>> \o frames \/ v = delivered \o taken \o <<>>
      BY <3>2
    <3>4. /\ Ascends(v)
         /\ Within(v, delivered \o taken \o frames)
      BY ONLY <1>2, <3>1, <3>3, Thinned
    <3> QED
      BY <2>1, <3>2, <3>4 DEF Output
  <2>3. Emitting' = Emitting /\ Ending' = Ending /\ Acting' = Acting
    BY <1>1 DEF Emitting, Ending, Draining, Acting, Working, Numbers
  <2>4. Named' /\ Ordered' /\ Covered' /\ Emitted'
    BY <1>1, <1>6, <2>2, <2>3, DropKeeps
  <2> QED
    BY <1>3, <1>4, <1>5, <2>4
<1>7. CASE delivered' = delivered \o taken
  <2>1. Output' = Output
    <3>1. delivered' \in Seq(Items)
      BY <1>2, <1>7, ConcatProperties
    <3>2. delivered' \o <<>> = delivered'
      BY <3>1, ConcatEmptySeq
    <3> QED
      BY <1>1, <1>7, <3>2 DEF Output
  <2>2. Quiet
    BY <1>1, <2>1 DEF Quiet, Emitting, Ending, Draining, Acting, Working, Numbers
  <2> QED
    BY <1>3, <1>4, <1>5, <2>2, QuietKeeps
<1>8. taken = <<>> => delivered \o taken = delivered
  BY <1>2, ConcatEmptySeq
<1> QED
  BY <1>1, <1>6, <1>7, <1>8

-----------------------------------------------------------------------------
(* Stop.                                                                   *)

\* Stopping closes the queues and moves nothing.
LEMMA StopKeeps ==
  ASSUME IInv, NEW p \in Stoppers, RequestStop(p) \/ StopPackets(p) \/ StopFrames(p)
  PROVE  IInv'
<1> USE DEF IInv
<1>1. UNCHANGED <<error, submittedEof, packets, frames, producer, worker, started,
                  drained, hand, codec, reader, waits, taken, result, delivered,
                  accepted>>
  BY DEF RequestStop, StopPackets, StopFrames, StopOnly, queues, workerVars, readerVars
<1>2. /\ stopper' \in [Stoppers -> {"idle", "packets", "frames", "join", "discard", "done"}]
      /\ stopping' \in {stopping, TRUE} /\ packetsClosed' \in {packetsClosed, TRUE}
      /\ framesClosed' \in {framesClosed, TRUE}
      /\ \A q \in Stoppers : stopper'[q] # "idle" => stopping'
  <2>1. CASE RequestStop(p)
    BY <2>1 DEF RequestStop, queues, Locations
  <2>2. CASE StopPackets(p)
    BY <2>2 DEF StopPackets, Locations, Placed
  <2>3. CASE StopFrames(p)
    BY <2>3 DEF StopFrames, Locations, Placed
  <2> QED
    BY <2>1, <2>2, <2>3
<1>3. stopping => stopping'
  BY <1>2
<1>4. Quiet
  BY <1>1, <1>3 DEF Quiet, Output, Emitting, Ending, Draining, Acting, Working, Numbers
<1>5. Switches'
  BY <1>1, <1>2 DEF Switches
<1>6. Contents' /\ Locations'
  BY <1>1, <1>2 DEF Contents, Locations
<1>7. Placed'
  BY <1>1, <1>2 DEF Placed
<1> QED
  BY <1>4, <1>5, <1>6, <1>7, QuietKeeps

\* Stop discards both queues.
LEMMA JoinKeeps == IInv /\ Join => IInv'
<1> SUFFICES ASSUME IInv, Join PROVE IInv'
  OBVIOUS
<1> USE DEF IInv
<1>1. /\ UNCHANGED <<stopping, error, submittedEof, packetsClosed, framesClosed,
                     producer, worker, started, drained, hand, codec, reader, waits,
                     taken, result, delivered, accepted>>
      /\ packets' = <<>> /\ frames' = <<>>
      /\ stopper' = [stopper EXCEPT !["owner"] = "done"]
      /\ stopping
  BY DEF Join, StopOnly, workerVars, readerVars, Placed, Stoppers
<1>2. delivered \in Seq(Items) /\ taken \in Seq(Items) /\ frames \in Seq(Items)
  BY DEF Contents
<1>3. Switches'
  BY <1>1 DEF Switches
<1>4. Contents'
  BY <1>1, Nothing, DecoderAssumption DEF Contents
<1>5. Locations'
  BY <1>1 DEF Locations
<1>6. Placed'
  BY <1>1 DEF Placed
<1>7. Output' = delivered \o taken \o <<>>
  BY <1>1 DEF Output
<1>8. /\ Ascends(Output')
      /\ Within(Output', Output)
  <2>1. Ascends(delivered \o taken \o frames)
    BY DEF Output, Ordered
  <2>2. PICK v : v = delivered \o taken \o <<>>
    OBVIOUS
  <2>3. v = delivered \o <<>> \o frames \/ v = delivered \o taken \o <<>>
    BY <2>2
  <2>4. /\ Ascends(v)
       /\ Within(v, delivered \o taken \o frames)
    BY ONLY <1>2, <2>1, <2>3, Thinned
  <2> QED
    BY <1>7, <2>2, <2>4 DEF Output
<1>9. Emitting' = Emitting /\ Ending' = Ending /\ Acting' = Acting
  BY <1>1 DEF Emitting, Ending, Draining, Acting, Working, Numbers
<1>10. Named' /\ Ordered' /\ Covered' /\ Emitted'
  BY <1>1, <1>8, <1>9, DropKeeps
<1> QED
  BY <1>3, <1>4, <1>5, <1>6, <1>10

-----------------------------------------------------------------------------
(* The theorems.                                                           *)

\* Nothing changes.
LEMMA StutterKeeps == IInv /\ UNCHANGED vars => IInv'
<1> SUFFICES ASSUME IInv, UNCHANGED vars PROVE IInv'
  OBVIOUS
<1> USE DEF IInv
<1>1. UNCHANGED <<stopping, error, submittedEof, packets, packetsClosed, frames,
                  framesClosed, producer, worker, started, drained, hand, codec,
                  reader, waits, taken, result, delivered, stopper, accepted>>
  BY DEF vars, queues, workerVars, readerVars
<1>2. Quiet
  BY <1>1 DEF Quiet, Output, Emitting, Ending, Draining, Acting, Working, Numbers
<1>3. Switches' /\ Contents'
  BY <1>1 DEF Switches, Contents
<1>4. Locations' /\ Placed'
  BY <1>1 DEF Locations, Placed
<1> QED
  BY <1>2, <1>3, <1>4, QuietKeeps

\* All steps together.
LEMMA Invariance == Spec => []IInv
<1>1. IInv /\ [Next]_vars => IInv'
  <2> SUFFICES ASSUME IInv, [Next]_vars PROVE IInv'
    OBVIOUS
  <2>1. CASE \E kind \in Kinds, wait \in BOOLEAN : Push(kind, wait)
    BY <2>1, PushKeeps
  <2>2. CASE PushWaits
    BY <2>2, PushWaitsKeeps
  <2>3. CASE Worker
    BY <2>3, LookKeeps, ReceiveKeeps, EmitKeeps, PopKeeps, ActKeeps, FailureKeeps
       DEF Worker
  <2>4. CASE (\E wait \in BOOLEAN : Read(wait)) \/ ReadPop \/ ReadCheck
    BY <2>4, ReadKeeps, ReadPopKeeps, ReadCheckKeeps
  <2>5. CASE \E p \in Stoppers : RequestStop(p) \/ StopStep(p)
    BY <2>5, StopKeeps DEF StopStep
  <2>6. CASE Join
    BY <2>6, JoinKeeps
  <2>7. CASE UNCHANGED vars
    BY <2>7, StutterKeeps
  <2> QED
    BY <2>1, <2>2, <2>3, <2>4, <2>5, <2>6, <2>7 DEF Next
<1> QED
  BY <1>1, InitKeeps, PTL DEF Spec

\* Output follows the order of submission, and an EOF comes after the frame of
\* every packet submitted since the last Reset, for any delay of the codec and
\* any interleaving with a failure or a stop (Push, Run, Emit); all types are kept.
THEOREM FramesBeforeEof == Spec => []EofAfterFrames
<1>1. ASSUME IInv PROVE EofAfterFrames
  <2> USE <1>1 DEF IInv
  <2>1. TypeOK
    BY TypeParts
  <2>2. Output \in Seq(Items) /\ DOMAIN Output = 1 .. Len(Output) /\ Len(Output) \in Nat
    BY OutputType, LenProperties
  <2>3. \A i, j \in DOMAIN Output : i < j => Output[i].n < Output[j].n
    BY <2>2 DEF Ordered, Ascends
  <2>4. ASSUME ~stopping, NEW j \in DOMAIN Output, Output[j].kind = "eof",
               NEW p \in 1 .. Output[j].n, accepted[p] = "packet",
               SameEpoch(p, Output[j].n)
        PROVE  \E i \in 1 .. j : Output[i].n = p
    <3>1. Output[j].n \in Out /\ accepted[Output[j].n] = "eof" /\ Output[j].n \in Nat
      BY <2>2, <2>4 DEF Out, Numbers, Named, Known
    <3>2. p \in Out
      BY <2>4, <3>1 DEF Emitted, Complete
    <3>3. PICK i \in 1 .. Len(Output) : p = Output[i].n
      BY <3>2 DEF Out, Numbers
    <3>4. CASE i <= j
      BY <2>2, <3>3, <3>4
    <3>5. CASE j < i
      <4>1. Output[j].n < Output[i].n
        BY <2>2, <2>3, <3>5
      <4> QED
        BY <2>4, <3>1, <3>3, <4>1
    <3> QED
      BY <2>2, <3>4, <3>5
  <2> QED
    BY <2>1, <2>3, <2>4 DEF EofAfterFrames
<1>2. IInv => EofAfterFrames
  BY <1>1
<1> QED
  BY <1>2, Invariance, PTL

\* Nothing is delivered once a stop is requested, whatever the read has taken
\* before (ReadFrame).
THEOREM StoppedReadsNothing == Spec => StopSilences
<1>1. [Next]_vars => [stopping => delivered' = delivered]_vars
  <2> SUFFICES ASSUME Next, stopping PROVE delivered' = delivered
    BY DEF vars, readerVars
  <2>1. CASE ReadCheck
    BY <2>1 DEF ReadCheck, StopSeen
  <2>2. CASE ~ReadCheck
    BY <2>2 DEF Next, Push, PushWaits, ProducerOnly, Worker, WorkerOnly, Look,
         Receive, Emit, Pop, Act, Fail, FailPackets, FailFrames, Read, ReadPop,
         RequestStop, StopStep, StopPackets, StopFrames, Join, StopOnly, readerVars
  <2> QED
    BY <2>1, <2>2
<1> QED
  BY <1>1, PTL DEF Spec, StopSilences

=============================================================================
