---------------------- MODULE RtpFrameOrganizerProofs ----------------------
(***************************************************************************)
(* Proofs about RtpFrameOrganizer, for every range of sequence numbers,    *)
(* first number, length of the queue and of the cache, and for a network   *)
(* that loses, doubles and delays.                                         *)
(***************************************************************************)
EXTENDS RtpFrameOrganizer, FiniteSetTheorems, WellFoundedInduction, TLAPS

\* The members of an organizer whose queue holds packets of a set, and what
\* one call hands out of them.
Org(S) ==
  [m_RtpQueue : Seq(S), m_RtpAudioQueue : 0..MaxAudio, m_unCurFrameNum : Nat,
   m_unLastDequeueSeq : Seq16 \cup {INVALID_RTP_SEQ},
   m_bSeqReversal : BOOLEAN, m_unSeqReversalPos : Nat]

\* A frame handed out as complete is in sequence, and only its last packet may
\* have a marker.
InSequence(f) ==
  ~f.lost =>
    \A i \in 1..(Len(f.packets) - 1) :
      LET p == f.packets[i]
          q == f.packets[i + 1]
      IN /\ ~p.bMarker
         /\ q.usSeq = IF p.usSeq = MAX_RTP_SEQ THEN IF q.usSeq = 0 THEN 0 ELSE 1
                      ELSE p.usSeq + 1
Frame(S) == {f \in [packets : Seq(S), lost : BOOLEAN] : InSequence(f)}

\* A frame handed out after number s, up to number t: without a loss it starts
\* with the number that comes after s.
Steps(s, f, t) ==
  /\ Len(f.packets) >= 1
  /\ t = f.packets[Len(f.packets)].usSeq
  /\ ~f.lost /\ s # INVALID_RTP_SEQ => f.packets[1].usSeq = (s + 1) % (MAX_RTP_SEQ + 1)

\* What one checkFrame hands out, if anything, when m_unLastDequeueSeq goes from
\* s to t; and what two of them hand out in one call of insertRtpPacket.
One(s, frames, t) ==
  \/ frames = <<>> /\ t = s
  \/ \E f : frames = <<f>> /\ Steps(s, f, t)
Two(S, s, frames, t) ==
  \E a, b \in Seq(Frame(S)) : frames = a \o b /\ \E u : One(s, a, u) /\ One(u, b, t)

\* The frames are whole when the last place handed out before them was place,
\* and the last place after them.
Wholes(place, frames) ==
  \A k \in DOMAIN frames :
    Whole(frames[k], IF k = 1 THEN place ELSE Last(frames[k - 1].packets).place)
After(place, frames) == IF frames = <<>> THEN place ELSE Last(Last(frames).packets).place

\* Sets of packets that are closed under what EndFrame does to a packet.
Marked(p) == [p EXCEPT !.bMarker = TRUE]
Closed(S) == S \subseteq Packet /\ \A p \in S : Marked(p) \in S

\* The numbers fall at the place of the wrap and nowhere else.
WrapKnown(o) ==
  LET q == o.m_RtpQueue IN
  /\ o.m_bSeqReversal => o.m_unSeqReversalPos \in 1..(Len(q) - 1)
  /\ \A i \in 1..(Len(q) - 1) :
       q[i].usSeq > q[i + 1].usSeq <=> o.m_bSeqReversal /\ i = o.m_unSeqReversalPos

\* The count of complete frames is the markers.
Marks(q) == {i \in 1..Len(q) : q[i].bMarker}
CountKnown(o) == o.m_unCurFrameNum = Cardinality(Marks(o.m_RtpQueue))

\* The markers that go with the first packets.
Gone(o, c) == {i \in 1..c : o.m_RtpQueue[i].bMarker}

\* What the organizer keeps beside its queue is true of it.
Known(o) == WrapKnown(o) /\ CountKnown(o)

\* The k-th packet of r is p, and the others are q.
Inserted(r, q, k, p) ==
  /\ k \in 1..(Len(q) + 1)
  /\ Len(r) = Len(q) + 1
  /\ r[k] = p
  /\ \A i \in 1..(k - 1) : r[i] = q[i]
  /\ \A i \in k..Len(q) : r[i + 1] = q[i]

\* The number of the k-th packet of a stream that goes on with skip after the
\* largest one.
Number(k, skip) ==
  IF First + k - 1 <= MAX_RTP_SEQ THEN First + k - 1
  ELSE First + k - 1 - (MAX_RTP_SEQ + 1) + skip

\* The packets of a stream up to a place, T being its time stamps, with or
\* without a marker that is not the sender's; one without a marker is followed
\* by another of its frame.
Genuine(place, skip, T) ==
  {p \in Packet : /\ p.place <= place
                  /\ p.usSeq = Number(p.place, skip)
                  /\ p.unTimestamp = T[p.place]
                  /\ ~p.bMarker => T[p.place + 1] = p.unTimestamp}

\* m_unLastDequeueSeq is the number of the packet at the place handed out last,
\* of those up to limit, or INVALID_RTP_SEQ when there is none.
NumberOut(number, place, skip, limit) ==
  IF place = 0 THEN number = INVALID_RTP_SEQ
  ELSE place \in 1..limit /\ number = Number(place, skip)

\* What is under way, queued or handed out last is of one stream, which the
\* sender goes on with.
Stamps == [1..(MaxSent + 1) -> Nat]

OfStream(skip, T) ==
  /\ sent.usSeq = Number(sent.place + 1, skip)
  /\ sent.unTimestamp = T[sent.place + 1]
  /\ net \subseteq Genuine(sent.place, skip, T)
  /\ org.m_RtpQueue \in Seq(Genuine(sent.place, skip, T))
  /\ NumberOut(org.m_unLastDequeueSeq, LastOut, skip, sent.place)

StreamInv == \E skip \in 0..1, T \in Stamps : OfStream(skip, T)

QueueInv == Known(org) /\ org.m_unCurFrameNum <= MAX_RTP_FRAME_CACHE_NUM

\* The inductive invariant.
IInv == TypeOK /\ QueueInv /\ StreamInv /\ WholeFrames
-----------------------------------------------------------------------------
(* Lemmas about queues.                                                    *)

\* A set of natural numbers that is not empty has a least element: the first
\* marker, and the place a packet out of order belongs to.
LEMMA LeastIsIn ==
  ASSUME NEW S \in SUBSET Nat, S # {}
  PROVE  Min(S) \in S /\ \A x \in S : Min(S) <= x
<1>1. \E x \in S : \A y \in S : x =< y
  <2>1. PICK x \in S : \A y \in S : ~ (<<y, x>> \in OpToRel(<,Nat))
    BY NatLessThanWellFounded, WFMin, Zenon
  <2>2. \A y \in S : ~ (y < x)
    BY <2>1 DEF OpToRel
  <2> QED
    BY <2>2
<1> QED
  BY <1>1 DEF Min

\* The places of the markers can be counted.
LEMMA MarksAreFinite ==
  ASSUME NEW S, NEW q \in Seq(S)
  PROVE  IsFiniteSet(Marks(q)) /\ Cardinality(Marks(q)) \in Nat
<1>1. IsFiniteSet(1..Len(q))
  BY FS_Interval
<1>2. Marks(q) \subseteq 1..Len(q)
  BY DEF Marks
<1> QED
  BY <1>1, <1>2, FS_Subset, FS_CardinalityType

\* Inserting a packet adds its marker to them.
LEMMA InsertedMarks ==
  ASSUME NEW S, NEW q \in Seq(S), NEW r \in Seq(S), NEW p, NEW k \in Nat,
         Inserted(r, q, k, p)
  PROVE  Cardinality(Marks(r)) = Cardinality(Marks(q)) + (IF p.bMarker THEN 1 ELSE 0)
<1> DEFINE up(i) == IF i < k THEN i ELSE i + 1
           f == [i \in Marks(q) |-> up(i)]
           Old == Marks(r) \ {k}
<1>1. \A i \in Marks(q) : up(i) \in Old
  BY DEF Marks, Inserted
<1>2. \A j \in Old : \E i \in Marks(q) : up(i) = j
  <2> SUFFICES ASSUME NEW j \in Old PROVE \E i \in Marks(q) : up(i) = j
    OBVIOUS
  <2>1. CASE j < k
    BY <2>1 DEF Marks, Inserted
  <2>2. CASE j > k
    <3>1. j - 1 \in k..Len(q) /\ r[(j - 1) + 1] = q[j - 1] /\ (j - 1) + 1 = j
      BY <2>2 DEF Marks, Inserted
    <3>2. j - 1 \in Marks(q)
      <4>1. j - 1 \in 1..Len(q)
        BY <3>1 DEF Inserted
      <4>2. q[j - 1].bMarker
        BY <3>1 DEF Marks
      <4> QED
        BY <4>1, <4>2 DEF Marks
    <3>3. up(j - 1) = j
      BY <3>1
    <3> QED
      BY <3>2, <3>3
  <2> QED
    BY <2>1, <2>2 DEF Marks
<1>3. ExistsBijection(Marks(q), Old)
  <2>1. \A i, j \in Marks(q) : up(i) = up(j) => i = j
    BY DEF Marks
  <2> HIDE DEF up, Old
  <2>2. f \in Bijection(Marks(q), Old)
    BY <1>1, <1>2, <2>1 DEF Bijection, Injection, Surjection, IsInjective
  <2> QED
    BY <2>2 DEF ExistsBijection
<1>4. IsFiniteSet(Marks(q)) /\ IsFiniteSet(Marks(r)) /\ Cardinality(Marks(r)) \in Nat
  BY MarksAreFinite
<1>5. IsFiniteSet(Old) /\ Cardinality(Old) = Cardinality(Marks(q))
  BY <1>3, <1>4, FS_Bijection
<1>6. Cardinality(Old) = IF k \in Marks(r) THEN Cardinality(Marks(r)) - 1
                         ELSE Cardinality(Marks(r))
  BY <1>4, FS_RemoveElement
<1>7. k \in Marks(r) <=> p.bMarker
  BY DEF Marks, Inserted
<1> QED
  BY <1>4, <1>5, <1>6, <1>7

\* What is left of a queue when its first packets have been released.
LEMMA RestOfQueue ==
  ASSUME NEW S, NEW q \in Seq(S), NEW c \in 0..Len(q)
  PROVE  LET r == SubSeq(q, c + 1, Len(q)) IN
         r \in Seq(S) /\ Len(r) = Len(q) - c /\ \A i \in 1..Len(r) : r[i] = q[i + c]
<1> DEFINE r == SubSeq(q, c + 1, Len(q))
<1>1. r \in Seq(S) /\ Len(r) = Len(q) - c
  OBVIOUS
<1>2. ASSUME NEW i \in 1..Len(r) PROVE r[i] = q[i + c]
  <2>1. i \in 1..(Len(q) - (c + 1) + 1) /\ (c + 1) + i - 1 = i + c
    BY <1>1
  <2>2. r[i] = q[(c + 1) + i - 1]
    BY <2>1
  <2> QED
    BY <2>1, <2>2
<1> QED
  BY <1>1, <1>2

\* Releasing the first packets takes away their markers.
LEMMA ReleasedMarks ==
  ASSUME NEW S, NEW q \in Seq(S), NEW c \in 0..Len(q)
  PROVE  LET gone == {i \in 1..c : q[i].bMarker} IN
         /\ Cardinality(gone) \in Nat
         /\ Cardinality(Marks(q)) =
              Cardinality(gone) + Cardinality(Marks(SubSeq(q, c + 1, Len(q))))
<1> DEFINE r == SubSeq(q, c + 1, Len(q))
           gone == {i \in 1..c : q[i].bMarker}
           rest == Marks(q) \ gone
           f == [i \in rest |-> i - c]
<1>1. Len(r) = Len(q) - c /\ \A i \in 1..Len(r) : r[i] = q[i + c]
  BY RestOfQueue
<1>2. gone \subseteq Marks(q) /\ \A i \in rest : i \in (c + 1)..Len(q) /\ q[i].bMarker
  BY DEF Marks
<1> HIDE DEF r, gone
<1>3. \A i \in rest : i - c \in Marks(r)
  <2> SUFFICES ASSUME NEW i \in rest PROVE i - c \in Marks(r)
    OBVIOUS
  <2>1. i - c \in 1..Len(r) /\ (i - c) + c = i
    BY <1>1, <1>2
  <2> QED
    BY <2>1, <1>1, <1>2 DEF Marks
<1>4. \A j \in Marks(r) : j + c \in rest /\ (j + c) - c = j
  BY <1>1 DEF Marks, gone
<1>5. ExistsBijection(rest, Marks(r))
  <2>1. \A i, j \in rest : i - c = j - c => i = j
    BY <1>2
  <2>2. \A j \in Marks(r) : \E i \in rest : i - c = j
    BY <1>4
  <2> HIDE DEF rest
  <2>3. f \in Bijection(rest, Marks(r))
    BY <1>3, <2>1, <2>2 DEF Bijection, Injection, Surjection, IsInjective
  <2> QED
    BY <2>3 DEF ExistsBijection
<1>6. IsFiniteSet(Marks(q)) /\ Cardinality(Marks(q)) \in Nat
  BY MarksAreFinite
<1>7. IsFiniteSet(gone) /\ IsFiniteSet(rest)
  BY <1>2, <1>6, FS_Subset
<1>8. Cardinality(rest) = Cardinality(Marks(r))
  BY <1>5, <1>7, FS_Bijection
<1>9. Cardinality(gone \cup rest) = Cardinality(gone) + Cardinality(rest)
  <2>1. Cardinality(gone \cup rest) =
          Cardinality(gone) + Cardinality(rest) - Cardinality(gone \cap rest)
    BY <1>7, FS_Union
  <2>2. Cardinality(gone \cap rest) = 0
    BY FS_EmptySet
  <2> QED
    BY <2>1, <2>2, <1>7, FS_CardinalityType
<1>10. gone \cup rest = Marks(q)
  BY <1>2
<1> QED
  BY <1>7, <1>8, <1>9, <1>10, FS_CardinalityType DEF r, gone

\* The elements of two queues put together.
LEMMA Concatenated ==
  ASSUME NEW S, NEW a \in Seq(S), NEW b \in Seq(S)
  PROVE  /\ a \o b \in Seq(S) /\ Len(a \o b) = Len(a) + Len(b)
         /\ \A i \in 1..Len(a) : (a \o b)[i] = a[i]
         /\ \A i \in 1..Len(b) : (a \o b)[Len(a) + i] = b[i]
OBVIOUS

\* What InsertAt does, and the two ends of the queue as cases of it.
LEMMA InsertAtInserts ==
  ASSUME NEW S, NEW q \in Seq(S), NEW p \in S, NEW k \in 1..(Len(q) + 1)
  PROVE  InsertAt(q, k, p) \in Seq(S) /\ Inserted(InsertAt(q, k, p), q, k, p)
<1> DEFINE left == SubSeq(q, 1, k - 1)
           right == SubSeq(q, k, Len(q))
           front == left \o <<p>>
           r == InsertAt(q, k, p)
<1>1. left \in Seq(S) /\ Len(left) = k - 1 /\ \A i \in 1..(k - 1) : left[i] = q[i]
  OBVIOUS
<1>2. /\ right \in Seq(S) /\ Len(right) = Len(q) - k + 1
      /\ \A i \in 1..Len(right) : right[i] = q[i + k - 1]
  OBVIOUS
<1>3. r = front \o right
  BY DEF InsertAt
<1> HIDE DEF left, right, r
<1>4. /\ front \in Seq(S) /\ Len(front) = k
      /\ front[k] = p
      /\ \A i \in 1..(k - 1) : front[i] = q[i]
  <2>1. <<p>> \in Seq(S) /\ Len(<<p>>) = 1 /\ <<p>>[1] = p /\ 1 \in 1..1
    OBVIOUS
  <2>2. /\ front \in Seq(S) /\ Len(front) = Len(left) + 1
        /\ \A i \in 1..Len(left) : front[i] = left[i]
        /\ front[Len(left) + 1] = p
    <3>1. left \in Seq(S) /\ <<p>> \in Seq(S)
      BY <1>1, <2>1
    <3>2. /\ front \in Seq(S) /\ Len(front) = Len(left) + Len(<<p>>)
          /\ \A i \in 1..Len(left) : front[i] = left[i]
          /\ \A i \in 1..Len(<<p>>) : front[Len(left) + i] = <<p>>[i]
      BY <3>1, Concatenated
    <3> QED
      BY <2>1, <3>2
  <2> HIDE DEF front
  <2> QED
    BY <1>1, <2>2
<1> HIDE DEF front
<1>9. /\ r \in Seq(S) /\ Len(r) = Len(front) + Len(right)
      /\ \A i \in 1..Len(front) : r[i] = front[i]
      /\ \A i \in 1..Len(right) : r[Len(front) + i] = right[i]
  <2>1. front \in Seq(S) /\ right \in Seq(S)
    BY <1>2, <1>4
  <2> QED
    BY <1>3, <2>1, Concatenated
<1>5. r \in Seq(S) /\ Len(r) = Len(q) + 1
  BY <1>2, <1>4, <1>9
<1>6. \A i \in 1..k : r[i] = front[i]
  BY <1>4, <1>9
<1>7. \A i \in 1..Len(right) : r[k + i] = right[i]
  BY <1>4, <1>9
<1>8. \A i \in k..Len(q) : r[i + 1] = q[i]
  <2> SUFFICES ASSUME NEW i \in k..Len(q) PROVE r[i + 1] = q[i]
    OBVIOUS
  <2>1. i - k + 1 \in 1..Len(right) /\ k + (i - k + 1) = i + 1 /\ (i - k + 1) + k - 1 = i
    BY <1>2
  <2> QED
    BY <2>1, <1>2, <1>7
<1> QED
  BY <1>4, <1>5, <1>6, <1>8 DEF Inserted, r

LEMMA EndsInsert ==
  ASSUME NEW S, NEW q \in Seq(S), NEW p \in S
  PROVE  /\ Append(q, p) \in Seq(S) /\ Inserted(Append(q, p), q, Len(q) + 1, p)
         /\ <<p>> \o q \in Seq(S) /\ Inserted(<<p>> \o q, q, 1, p)
BY DEF Inserted

\* The fields of a packet.
LEMMA PacketFields ==
  \A p \in Packet : /\ p.place \in 1..MaxSent /\ p.usSeq \in Seq16 /\ p.usSeq \in Nat
                    /\ p.usSeq <= MAX_RTP_SEQ
                    /\ p.unTimestamp \in Nat /\ p.bMarker \in BOOLEAN
BY RtpFrameOrganizerAssumption DEF Packet, Seq16

\* Where insertRange puts a packet: among from..to, or behind, so that the
\* packet in front of it there is smaller or equal, and the one behind is not
\* smaller.
LEMMA InsertRangeInserts ==
  ASSUME NEW S \in SUBSET Packet, NEW q \in Seq(S), NEW p \in S,
         NEW to \in 1..Len(q), NEW from \in 1..to
  PROVE  LET r == InsertRange(q, p, from, to) IN
         /\ r \in Seq(S)
         /\ \E k \in from..(to + 1) :
              /\ Inserted(r, q, k, p)
              /\ k > from => q[k - 1].usSeq <= p.usSeq
              /\ k <= to => p.usSeq <= q[k].usSeq
              /\ k = to + 1 <=> p.usSeq >= q[to].usSeq
<1> DEFINE larger == {i \in from..to : p.usSeq <= q[i].usSeq}
<1>1. p.usSeq \in Nat /\ \A i \in 1..Len(q) : q[i].usSeq \in Nat
  <2>1. p \in Packet /\ \A i \in 1..Len(q) : q[i] \in Packet
    OBVIOUS
  <2> QED
    BY <2>1, PacketFields
<1>2. CASE p.usSeq >= q[to].usSeq
  <2>1. InsertRange(q, p, from, to) = InsertAt(q, to + 1, p)
    BY <1>2 DEF InsertRange
  <2>2. to + 1 \in 1..(Len(q) + 1) /\ to + 1 \in from..(to + 1) /\ (to + 1) - 1 = to
    OBVIOUS
  <2> DEFINE r == InsertRange(q, p, from, to)
  <2>3. r \in Seq(S) /\ Inserted(r, q, to + 1, p)
    BY <2>1, <2>2, InsertAtInserts
  <2>4. q[to].usSeq <= p.usSeq
    BY <1>1, <1>2
  <2> HIDE DEF r
  <2>5. \E k \in from..(to + 1) :
          /\ Inserted(r, q, k, p)
          /\ k > from => q[k - 1].usSeq <= p.usSeq
          /\ k <= to => p.usSeq <= q[k].usSeq
          /\ k = to + 1 <=> p.usSeq >= q[to].usSeq
    <3> WITNESS to + 1 \in from..(to + 1)
    <3> QED
      BY <1>2, <2>2, <2>3, <2>4
  <2> QED
    BY <2>3, <2>5 DEF r
<1>3. CASE ~ (p.usSeq >= q[to].usSeq)
  <2>1. to \in larger /\ larger \subseteq Nat
    BY <1>1, <1>3
  <2> HIDE DEF larger
  <2>2. Min(larger) \in larger /\ \A i \in larger : Min(larger) <= i
    BY <2>1, LeastIsIn
  <2> DEFINE k == Min(larger)
  <2>3. k \in from..to /\ p.usSeq <= q[k].usSeq
    BY <2>2 DEF larger
  <2>4. k > from => q[k - 1].usSeq <= p.usSeq
    <3> SUFFICES ASSUME k > from, ~ (q[k - 1].usSeq <= p.usSeq) PROVE FALSE
      OBVIOUS
    <3>1. k - 1 \in from..to /\ k - 1 \in 1..Len(q)
      BY <2>3
    <3>2. k - 1 \in larger
      BY <1>1, <3>1 DEF larger
    <3> QED
      BY <2>2, <2>3, <3>2
  <2>5. InsertRange(q, p, from, to) = InsertAt(q, k, p)
    BY <1>3 DEF InsertRange, larger
  <2> HIDE DEF k
  <2>6. k \in 1..(Len(q) + 1) /\ k \in from..(to + 1) /\ k # to + 1
    BY <2>3
  <2> QED
    BY <1>3, <2>3, <2>4, <2>5, <2>6, InsertAtInserts
<1> QED
  BY <1>2, <1>3

\* Half of the numbers, the distance at which a wrap is seen.
LEMMA HalfOfThem ==
  Half \in Nat /\ Half + Half <= MAX_RTP_SEQ /\ MaxSent \in Nat /\ MaxSent < Half
BY RtpFrameOrganizerAssumption DEF Half

\* Where the numbers fall when a packet has been put in: where they fell, or in
\* front of it or behind it.
LEMMA InsertedFalls ==
  ASSUME NEW S \in SUBSET Packet, NEW q \in Seq(S), NEW r \in Seq(S), NEW p \in S,
         NEW k \in Nat, Inserted(r, q, k, p), NEW i \in 1..(Len(r) - 1)
  PROVE  r[i].usSeq > r[i + 1].usSeq <=>
           \/ i < k - 1 /\ q[i].usSeq > q[i + 1].usSeq
           \/ i = k - 1 /\ q[k - 1].usSeq > p.usSeq
           \/ i = k /\ p.usSeq > q[k].usSeq
           \/ i > k /\ q[i - 1].usSeq > q[i].usSeq
<1> USE DEF Inserted
<1>1. CASE i < k - 1
  <2>1. r[i] = q[i] /\ r[i + 1] = q[i + 1]
    BY <1>1
  <2> QED
    BY <1>1, <2>1
<1>2. CASE i = k - 1
  <2>1. r[i] = q[k - 1] /\ r[i + 1] = p
    BY <1>2
  <2> QED
    BY <1>2, <2>1
<1>3. CASE i = k
  <2>1. r[i] = p /\ r[i + 1] = q[k]
    BY <1>3
  <2> QED
    BY <1>3, <2>1
<1>4. CASE i > k
  <2>1. r[(i - 1) + 1] = q[i - 1] /\ r[i + 1] = q[i] /\ (i - 1) + 1 = i
    BY <1>4
  <2> QED
    BY <1>4, <2>1
<1> QED
  BY <1>1, <1>2, <1>3, <1>4
-----------------------------------------------------------------------------
(* The operations on the queue keep what is known of it.                   *)

\* The fields of an organizer.
LEMMA OrgFields ==
  ASSUME NEW S, NEW o \in Org(S)
  PROVE  /\ o.m_RtpQueue \in Seq(S) /\ o.m_RtpAudioQueue \in 0..MaxAudio
         /\ o.m_unCurFrameNum \in Nat
         /\ o.m_unLastDequeueSeq \in Seq16 \cup {INVALID_RTP_SEQ}
         /\ o.m_bSeqReversal \in BOOLEAN /\ o.m_unSeqReversalPos \in Nat
BY DEF Org

\* An organizer with another queue and another place of the wrap.
With(o, q, reversal, pos) ==
  [o EXCEPT !.m_RtpQueue = q, !.m_bSeqReversal = reversal, !.m_unSeqReversalPos = pos]

\* Where the branches of insert put a packet.
Placed(S, o, p, r, k, reversal, pos) ==
  /\ Place(o, p) = With(o, r, reversal, pos)
  /\ r \in Seq(S) /\ reversal \in BOOLEAN /\ pos \in Nat
  /\ k \in Nat /\ Inserted(r, o.m_RtpQueue, k, p)

\* The places around the wrap in the queue and a packet put into it are such
\* that the numbers fall at the wrap only.
FallsAtWrap(o, p, k, reversal, pos) ==
  LET q == o.m_RtpQueue
      n == Len(q)
  IN /\ reversal => pos \in 1..n
     /\ k > 1 => (q[k - 1].usSeq > p.usSeq <=> reversal /\ pos = k - 1)
     /\ k <= n => (p.usSeq > q[k].usSeq <=> reversal /\ pos = k)
     /\ \A i \in 1..(n - 1) :
          /\ i < k - 1 => (q[i].usSeq > q[i + 1].usSeq <=> reversal /\ pos = i)
          /\ i >= k => (q[i].usSeq > q[i + 1].usSeq <=> reversal /\ pos = i + 1)

LEMMA InsertedWrap ==
  ASSUME NEW S \in SUBSET Packet, NEW o \in Org(S), NEW p \in S, NEW r \in Seq(S), NEW k \in Nat,
         NEW reversal \in BOOLEAN, NEW pos \in Nat,
         Inserted(r, o.m_RtpQueue, k, p), FallsAtWrap(o, p, k, reversal, pos)
  PROVE  WrapKnown(With(o, r, reversal, pos))
<1> DEFINE q == o.m_RtpQueue
           n == Len(q)
<1>1. q \in Seq(S) /\ n \in Nat
  BY OrgFields
<1>2. Len(r) = n + 1 /\ k \in 1..(n + 1)
  BY DEF Inserted
<1>3. /\ With(o, r, reversal, pos).m_RtpQueue = r
      /\ With(o, r, reversal, pos).m_bSeqReversal = reversal
      /\ With(o, r, reversal, pos).m_unSeqReversalPos = pos
  BY DEF With, Org
<1>4. ASSUME NEW i \in 1..(Len(r) - 1)
      PROVE  r[i].usSeq > r[i + 1].usSeq <=> reversal /\ i = pos
  <2>1. r[i].usSeq > r[i + 1].usSeq <=>
           \/ i < k - 1 /\ q[i].usSeq > q[i + 1].usSeq
           \/ i = k - 1 /\ q[k - 1].usSeq > p.usSeq
           \/ i = k /\ p.usSeq > q[k].usSeq
           \/ i > k /\ q[i - 1].usSeq > q[i].usSeq
    BY <1>1, InsertedFalls
  <2>2. CASE i < k - 1
    <3>1. i \in 1..(n - 1)
      BY <1>2, <2>2
    <3> QED
      BY <2>1, <2>2, <3>1, <1>2 DEF FallsAtWrap
  <2>3. CASE i = k - 1
    BY <2>1, <2>3, <1>2 DEF FallsAtWrap
  <2>4. CASE i = k
    BY <2>1, <2>4, <1>2 DEF FallsAtWrap
  <2>5. CASE i > k
    <3>1. i - 1 \in 1..(n - 1) /\ i - 1 >= k /\ (i - 1) + 1 = i
      BY <1>2, <2>5
    <3>2. q[i - 1].usSeq > q[(i - 1) + 1].usSeq <=> reversal /\ pos = (i - 1) + 1
      BY <3>1 DEF FallsAtWrap
    <3>3. r[i].usSeq > r[i + 1].usSeq <=> q[i - 1].usSeq > q[i].usSeq
      BY <1>2, <2>1, <2>5
    <3>4. i = pos <=> pos = (i - 1) + 1
      BY <3>1
    <3> QED
      BY <3>1, <3>2, <3>3, <3>4
  <2> QED
    BY <1>2, <2>2, <2>3, <2>4, <2>5
<1>5. reversal => pos \in 1..(Len(r) - 1)
  BY <1>1, <1>2 DEF FallsAtWrap
<1> QED
  BY <1>3, <1>4, <1>5 DEF WrapKnown

\* One case per branch of insert.
LEMMA PlaceIsPlaced ==
  ASSUME NEW S \in SUBSET Packet, NEW o \in Org(S), NEW p \in S, WrapKnown(o)
  PROVE  \E r, k, reversal, pos :
           Placed(S, o, p, r, k, reversal, pos) /\ FallsAtWrap(o, p, k, reversal, pos)
<1> DEFINE q == o.m_RtpQueue
           n == Len(q)
           wrap == o.m_unSeqReversalPos
<1>1. /\ q \in Seq(S) /\ n \in Nat /\ wrap \in Nat /\ o.m_bSeqReversal \in BOOLEAN
      /\ Half \in Nat
  BY OrgFields, HalfOfThem
<1>2. p.usSeq \in Nat /\ \A i \in 1..n : q[i].usSeq \in Nat
  <2>1. p \in Packet /\ \A i \in 1..n : q[i] \in Packet
    BY <1>1
  <2> QED
    BY <2>1, PacketFields
<1>3. /\ ~o.m_bSeqReversal => \A r : With(o, r, FALSE, wrap) = [o EXCEPT !.m_RtpQueue = r]
      /\ o.m_bSeqReversal =>
           \A r, pos : With(o, r, TRUE, pos) =
                         [o EXCEPT !.m_RtpQueue = r, !.m_unSeqReversalPos = pos]
      /\ o.m_bSeqReversal => \A r : With(o, r, TRUE, wrap) = [o EXCEPT !.m_RtpQueue = r]
  BY <1>1 DEF With, Org
<1>4. /\ o.m_bSeqReversal => wrap \in 1..(n - 1)
      /\ \A i \in 1..(n - 1) :
           q[i].usSeq > q[i + 1].usSeq <=> o.m_bSeqReversal /\ i = wrap
  BY DEF WrapKnown
<1>5. q # <<>> => n # 0
  BY <1>1
<1>11. /\ Append(q, p) \in Seq(S) /\ Inserted(Append(q, p), q, n + 1, p)
       /\ <<p>> \o q \in Seq(S) /\ Inserted(<<p>> \o q, q, 1, p)
  BY <1>1, EndsInsert
<1>12. \A to \in 1..n : \A from \in 1..to :
         LET r == InsertRange(q, p, from, to) IN
         /\ r \in Seq(S)
         /\ \E k \in from..(to + 1) :
              /\ Inserted(r, q, k, p)
              /\ k > from => q[k - 1].usSeq <= p.usSeq
              /\ k <= to => p.usSeq <= q[k].usSeq
              /\ k = to + 1 <=> p.usSeq >= q[to].usSeq
  BY <1>1, InsertRangeInserts
<1>13. q = o.m_RtpQueue /\ n = Len(q) /\ wrap = o.m_unSeqReversalPos
  OBVIOUS
<1> HIDE DEF q, n, wrap
<1> USE <1>13
<1>6. CASE q = <<>>
  <2>1. ~o.m_bSeqReversal /\ n = 0
    BY <1>4, <1>6
  <2>2. Place(o, p) = [o EXCEPT !.m_RtpQueue = <<p>>]
    BY <1>6, <2>1 DEF Place
  <2>3. <<p>> \in Seq(S) /\ Inserted(<<p>>, q, 1, p)
    BY <1>6 DEF Inserted
  <2>4. Placed(S, o, p, <<p>>, 1, FALSE, wrap)
    BY <1>1, <1>3, <2>1, <2>2, <2>3 DEF Placed
  <2>5. FallsAtWrap(o, p, 1, FALSE, wrap)
    BY <2>1 DEF FallsAtWrap
  <2> QED
    BY <2>4, <2>5
<1>7. CASE q # <<>> /\ ~o.m_bSeqReversal /\ p.usSeq >= q[n].usSeq
  <2>1. n \in 1..n
    BY <1>1, <1>5, <1>7
  <2>2. CASE p.usSeq - q[1].usSeq > Half
    <3>1. Place(o, p) = With(o, <<p>> \o q, TRUE, 1)
      BY <1>1, <1>2, <1>7, <2>1, <2>2 DEF Place, With
    <3>2. Placed(S, o, p, <<p>> \o q, 1, TRUE, 1)
      BY <1>1, <1>11, <3>1 DEF Placed
    <3>3. FallsAtWrap(o, p, 1, TRUE, 1)
      BY <1>1, <1>2, <1>4, <1>7, <2>1, <2>2 DEF FallsAtWrap
    <3> QED
      BY <3>2, <3>3
  <2>3. CASE ~ (p.usSeq - q[1].usSeq > Half)
    <3>1. Place(o, p) = [o EXCEPT !.m_RtpQueue = Append(q, p)]
      BY <1>1, <1>2, <1>7, <2>1, <2>3 DEF Place
    <3>4. Place(o, p) = With(o, Append(q, p), FALSE, wrap)
      BY <1>3, <1>7, <3>1
    <3>2. Placed(S, o, p, Append(q, p), n + 1, FALSE, wrap)
      BY <1>1, <1>11, <3>4 DEF Placed
    <3>3. FallsAtWrap(o, p, n + 1, FALSE, wrap)
      BY <1>1, <1>2, <1>4, <1>7, <2>1 DEF FallsAtWrap
    <3> QED
      BY <3>2, <3>3
  <2> QED
    BY <2>2, <2>3
<1>8. CASE q # <<>> /\ ~o.m_bSeqReversal /\ ~ (p.usSeq >= q[n].usSeq)
  <2>1. n \in 1..n /\ p.usSeq < q[n].usSeq
    BY <1>1, <1>2, <1>5, <1>8
  <2>2. CASE q[n].usSeq - p.usSeq > Half
    <3>1. Place(o, p) = With(o, Append(q, p), TRUE, n)
      BY <1>8, <2>1, <2>2 DEF Place, With
    <3>2. Placed(S, o, p, Append(q, p), n + 1, TRUE, n)
      BY <1>1, <1>11, <3>1 DEF Placed
    <3>3. FallsAtWrap(o, p, n + 1, TRUE, n)
      BY <1>1, <1>2, <1>4, <1>8, <2>1 DEF FallsAtWrap
    <3> QED
      BY <3>2, <3>3
  <2>3. CASE ~ (q[n].usSeq - p.usSeq > Half)
    <3> DEFINE r == InsertRange(q, p, 1, n)
    <3>1. Place(o, p) = [o EXCEPT !.m_RtpQueue = r]
      BY <1>8, <2>1, <2>3 DEF Place
    <3>2. /\ r \in Seq(S)
          /\ \E k \in 1..(n + 1) :
               /\ Inserted(r, q, k, p)
               /\ k > 1 => q[k - 1].usSeq <= p.usSeq
               /\ k <= n => p.usSeq <= q[k].usSeq
      BY <1>1, <1>12, <2>1
    <3> HIDE DEF r
    <3>3. PICK k \in 1..(n + 1) : /\ Inserted(r, q, k, p)
                                  /\ k > 1 => q[k - 1].usSeq <= p.usSeq
                                  /\ k <= n => p.usSeq <= q[k].usSeq
      BY <3>2
    <3>6. Place(o, p) = With(o, r, FALSE, wrap)
      BY <1>3, <1>8, <3>1
    <3>4. Placed(S, o, p, r, k, FALSE, wrap)
      BY <1>1, <2>1, <3>2, <3>3, <3>6 DEF Placed
    <3>5. FallsAtWrap(o, p, k, FALSE, wrap)
      <4>1. k > 1 => k - 1 \in 1..n
        OBVIOUS
      <4>2. k <= n => k \in 1..n
        OBVIOUS
      <4>3. k > 1 => ~ (q[k - 1].usSeq > p.usSeq)
        BY <1>2, <3>3, <4>1
      <4>4. k <= n => ~ (p.usSeq > q[k].usSeq)
        BY <1>2, <3>3, <4>2
      <4>5. \A i \in 1..(n - 1) : ~ (q[i].usSeq > q[i + 1].usSeq)
        BY <1>4, <1>8
      <4> QED
        BY <4>3, <4>4, <4>5 DEF FallsAtWrap
    <3> QED
      BY <3>4, <3>5
  <2> QED
    BY <2>2, <2>3
<1>9. CASE o.m_bSeqReversal
  <2> DEFINE first == (p.usSeq >= q[1].usSeq /\ p.usSeq <= q[wrap].usSeq)
                        \/ p.usSeq >= q[wrap].usSeq
  <2>1. /\ wrap \in 1..(n - 1) /\ wrap \in 1..n /\ 1 \in 1..wrap
        /\ n \in 1..n /\ wrap + 1 \in 1..n /\ q # <<>>
        /\ q[wrap].usSeq > q[wrap + 1].usSeq
    BY <1>1, <1>4, <1>9
  <2>2. CASE first
    <3> DEFINE r == InsertRange(q, p, 1, wrap)
    <3>1. Place(o, p) = [o EXCEPT !.m_RtpQueue = r, !.m_unSeqReversalPos = wrap + 1]
      BY <1>9, <2>1, <2>2 DEF Place
    <3>2. /\ r \in Seq(S)
          /\ \E k \in 1..(wrap + 1) :
               /\ Inserted(r, q, k, p)
               /\ k > 1 => q[k - 1].usSeq <= p.usSeq
               /\ k <= wrap => p.usSeq <= q[k].usSeq
               /\ k = wrap + 1 <=> p.usSeq >= q[wrap].usSeq
      BY <1>1, <1>12, <2>1
    <3> HIDE DEF r
    <3>3. PICK k \in 1..(wrap + 1) : /\ Inserted(r, q, k, p)
                                     /\ k > 1 => q[k - 1].usSeq <= p.usSeq
                                     /\ k <= wrap => p.usSeq <= q[k].usSeq
                                     /\ k = wrap + 1 <=> p.usSeq >= q[wrap].usSeq
      BY <3>2, Zenon
    <3>6. Place(o, p) = With(o, r, TRUE, wrap + 1)
      <4>1. \A x, pos : With(o, x, TRUE, pos) =
                         [o EXCEPT !.m_RtpQueue = x, !.m_unSeqReversalPos = pos]
        BY <1>3, <1>9
      <4> QED
        BY <3>1, <4>1
    <3>4. Placed(S, o, p, r, k, TRUE, wrap + 1)
      BY <1>1, <2>1, <3>2, <3>3, <3>6 DEF Placed
    <3>5. FallsAtWrap(o, p, k, TRUE, wrap + 1)
      <4>1. k > 1 => k - 1 \in 1..n
        BY <2>1
      <4>2. k <= n => k \in 1..n
        OBVIOUS
      <4>3. k > 1 => ~ (q[k - 1].usSeq > p.usSeq) /\ wrap + 1 # k - 1
        <5>1. wrap + 1 # k - 1
          BY <1>1
        <5>2. k > 1 => ~ (q[k - 1].usSeq > p.usSeq)
          BY <1>2, <3>3, <4>1
        <5> QED
          BY <5>1, <5>2
      <4>4. k <= n => (p.usSeq > q[k].usSeq <=> wrap + 1 = k)
        <5>1. CASE k = wrap + 1
          <6>1. /\ p.usSeq >= q[wrap].usSeq /\ q[wrap].usSeq > q[wrap + 1].usSeq
                /\ q[wrap].usSeq \in Nat /\ q[wrap + 1].usSeq \in Nat
            BY <1>2, <2>1, <3>3, <5>1
          <6> QED
            BY <1>2, <5>1, <6>1
        <5>2. CASE k # wrap + 1
          <6>1. k <= wrap
            BY <1>1, <5>2
          <6>2. p.usSeq <= q[k].usSeq /\ k \in 1..n
            BY <2>1, <3>3, <6>1
          <6> QED
            BY <1>1, <1>2, <5>2, <6>2
        <5> QED
          BY <5>1, <5>2
      <4>5. \A i \in 1..(n - 1) :
              /\ i < k - 1 => (q[i].usSeq > q[i + 1].usSeq <=> wrap + 1 = i)
              /\ i >= k => (q[i].usSeq > q[i + 1].usSeq <=> wrap + 1 = i + 1)
        <5> SUFFICES ASSUME NEW i \in 1..(n - 1)
                     PROVE  /\ i < k - 1 => (q[i].usSeq > q[i + 1].usSeq <=> wrap + 1 = i)
                            /\ i >= k => (q[i].usSeq > q[i + 1].usSeq <=> wrap + 1 = i + 1)
          OBVIOUS
        <5>1. q[i].usSeq > q[i + 1].usSeq <=> wrap = i
          BY <1>4, <1>9
        <5>2. /\ i < k - 1 => wrap # i /\ wrap + 1 # i
              /\ wrap = i <=> wrap + 1 = i + 1
          BY <1>1
        <5> QED
          BY <5>1, <5>2
      <4> QED
        BY <1>1, <2>1, <4>3, <4>4, <4>5 DEF FallsAtWrap
    <3> QED
      BY <3>4, <3>5
  <2>3. CASE ~first
    <3> DEFINE r == InsertRange(q, p, wrap + 1, n)
    <3>1. Place(o, p) = [o EXCEPT !.m_RtpQueue = r]
      BY <1>9, <2>1, <2>3 DEF Place
    <3>2. /\ r \in Seq(S)
          /\ \E k \in (wrap + 1)..(n + 1) :
               /\ Inserted(r, q, k, p)
               /\ k > wrap + 1 => q[k - 1].usSeq <= p.usSeq
               /\ k <= n => p.usSeq <= q[k].usSeq
      BY <1>1, <1>12, <2>1
    <3> HIDE DEF r
    <3>3. PICK k \in (wrap + 1)..(n + 1) : /\ Inserted(r, q, k, p)
                                           /\ k > wrap + 1 => q[k - 1].usSeq <= p.usSeq
                                           /\ k <= n => p.usSeq <= q[k].usSeq
      BY <3>2
    <3>6. Place(o, p) = With(o, r, TRUE, wrap)
      BY <1>3, <1>9, <3>1
    <3>4. Placed(S, o, p, r, k, TRUE, wrap)
      BY <1>1, <2>1, <3>2, <3>3, <3>6 DEF Placed
    <3>5. FallsAtWrap(o, p, k, TRUE, wrap)
      <4>1. k > 1 /\ k - 1 \in 1..n
        BY <2>1
      <4>2. k <= n => k \in 1..n
        BY <2>1
      <4>3. p.usSeq < q[wrap].usSeq
        <5>1. p.usSeq \in Nat /\ q[wrap].usSeq \in Nat
          BY <1>2, <2>1
        <5>2. ~ (p.usSeq >= q[wrap].usSeq)
          BY <2>3
        <5> QED
          BY <5>1, <5>2
      <4>4. q[k - 1].usSeq > p.usSeq <=> wrap = k - 1
        <5>1. CASE k = wrap + 1
          BY <1>1, <1>2, <2>1, <4>3, <5>1
        <5>2. CASE k # wrap + 1
          <6>1. k > wrap + 1
            BY <1>1, <5>2
          <6>2. q[k - 1].usSeq <= p.usSeq /\ wrap # k - 1
            BY <1>1, <3>3, <6>1
          <6> QED
            BY <1>2, <4>1, <6>2
        <5> QED
          BY <5>1, <5>2
      <4>5. k <= n => ~ (p.usSeq > q[k].usSeq) /\ wrap # k
        BY <1>1, <1>2, <3>3, <4>2
      <4>6. \A i \in 1..(n - 1) :
              /\ i < k - 1 => (q[i].usSeq > q[i + 1].usSeq <=> wrap = i)
              /\ i >= k => (q[i].usSeq > q[i + 1].usSeq <=> wrap = i + 1)
        <5> SUFFICES ASSUME NEW i \in 1..(n - 1)
                     PROVE  /\ i < k - 1 => (q[i].usSeq > q[i + 1].usSeq <=> wrap = i)
                            /\ i >= k => (q[i].usSeq > q[i + 1].usSeq <=> wrap = i + 1)
          OBVIOUS
        <5>1. q[i].usSeq > q[i + 1].usSeq <=> wrap = i
          BY <1>4, <1>9
        <5>2. i >= k => wrap # i /\ wrap # i + 1
          BY <1>1
        <5> QED
          BY <5>1, <5>2
      <4> QED
        BY <1>1, <2>1, <4>4, <4>5, <4>6 DEF FallsAtWrap
    <3> QED
      BY <3>4, <3>5
  <2> QED
    BY <2>2, <2>3
<1> QED
  BY <1>1, <1>6, <1>7, <1>8, <1>9

\* A packet is never refused for the place of the wrap, and where it is put the
\* numbers still fall at the wrap only; its marker is yet to be counted.
LEMMA PlaceKeeps ==
  ASSUME NEW S \in SUBSET Packet, NEW o \in Org(S), NEW p \in S, Known(o)
  PROVE  /\ ~WrapLost(o)
         /\ Place(o, p) \in Org(S)
         /\ WrapKnown(Place(o, p))
         /\ Len(Place(o, p).m_RtpQueue) = Len(o.m_RtpQueue) + 1
         /\ Place(o, p).m_unCurFrameNum = o.m_unCurFrameNum
         /\ Place(o, p).m_unLastDequeueSeq = o.m_unLastDequeueSeq
         /\ Cardinality(Marks(Place(o, p).m_RtpQueue)) =
              o.m_unCurFrameNum + (IF p.bMarker THEN 1 ELSE 0)
<1>1. PICK r, k, reversal, pos :
        Placed(S, o, p, r, k, reversal, pos) /\ FallsAtWrap(o, p, k, reversal, pos)
  BY PlaceIsPlaced DEF Known
<1>2. /\ r \in Seq(S) /\ reversal \in BOOLEAN /\ pos \in Nat /\ k \in Nat
      /\ Inserted(r, o.m_RtpQueue, k, p)
      /\ Place(o, p) = With(o, r, reversal, pos)
  BY <1>1 DEF Placed
<1>3. /\ With(o, r, reversal, pos) \in Org(S)
      /\ With(o, r, reversal, pos).m_RtpQueue = r
      /\ With(o, r, reversal, pos).m_unCurFrameNum = o.m_unCurFrameNum
      /\ With(o, r, reversal, pos).m_unLastDequeueSeq = o.m_unLastDequeueSeq
  BY <1>2 DEF With, Org
<1>4. WrapKnown(With(o, r, reversal, pos))
  BY <1>1, <1>2, InsertedWrap
<1>5. o.m_RtpQueue \in Seq(S)
  BY OrgFields
<1>6. Cardinality(Marks(r)) = Cardinality(Marks(o.m_RtpQueue)) + (IF p.bMarker THEN 1 ELSE 0)
  BY <1>2, <1>5, InsertedMarks
<1>7. ~WrapLost(o)
  BY DEF Known, WrapKnown, WrapLost
<1> QED
  BY <1>2, <1>3, <1>4, <1>6, <1>7 DEF Known, CountKnown, Inserted

\* Releasing packets keeps what is known, and takes their markers off the count.
LEMMA ReleaseKeeps ==
  ASSUME NEW S \in SUBSET Packet, NEW o \in Org(S), Known(o),
         NEW c \in 0..Len(o.m_RtpQueue)
  PROVE  LET r == ReleaseRtpPacket(o, c) IN /\ r \in Org(S)
            /\ Known(r)
            /\ Len(r.m_RtpQueue) = Len(o.m_RtpQueue) - c
            /\ Cardinality(Gone(o, c)) \in Nat
            /\ r.m_unCurFrameNum = o.m_unCurFrameNum - Cardinality(Gone(o, c))
<1> DEFINE q == o.m_RtpQueue
           r == ReleaseRtpPacket(o, c)
           gone == {i \in 1..c : q[i].bMarker}
           rest == SubSeq(q, c + 1, Len(q))
           stays == o.m_bSeqReversal /\ o.m_unSeqReversalPos > c
           num == IF o.m_unCurFrameNum < Cardinality(gone) THEN 0
                  ELSE o.m_unCurFrameNum - Cardinality(gone)
           pos == IF stays THEN o.m_unSeqReversalPos - c ELSE 0
<1>1. /\ q \in Seq(S) /\ o.m_unCurFrameNum \in Nat /\ o.m_unSeqReversalPos \in Nat
      /\ o.m_bSeqReversal \in BOOLEAN
  BY OrgFields
<1>2. /\ Cardinality(gone) \in Nat
      /\ Cardinality(Marks(q)) = Cardinality(gone) + Cardinality(Marks(rest))
  BY <1>1, ReleasedMarks
<1>3. /\ rest \in Seq(S) /\ Len(rest) = Len(q) - c
      /\ \A i \in 1..Len(rest) : rest[i] = q[i + c]
  BY <1>1, RestOfQueue
<1>4. Cardinality(Marks(rest)) \in Nat
  BY <1>3, MarksAreFinite
<1>5. num = o.m_unCurFrameNum - Cardinality(gone) /\ num = Cardinality(Marks(rest))
  BY <1>1, <1>2, <1>4 DEF Known, CountKnown
<1>6. r = [o EXCEPT !.m_RtpQueue = rest, !.m_RtpAudioQueue = 0, !.m_unCurFrameNum = num,
                    !.m_bSeqReversal = stays, !.m_unSeqReversalPos = pos]
  BY DEF ReleaseRtpPacket, Org
<1>7. num \in Nat /\ pos \in Nat /\ stays \in BOOLEAN /\ 0 \in 0..MaxAudio
  BY <1>1, <1>4, <1>5, RtpFrameOrganizerAssumption
<1> HIDE DEF rest, num, pos, stays, r, gone
<1>8. /\ r \in Org(S) /\ r.m_RtpQueue = rest /\ r.m_unCurFrameNum = num
      /\ r.m_bSeqReversal = stays /\ r.m_unSeqReversalPos = pos
  BY <1>3, <1>6, <1>7 DEF Org
<1>9. WrapKnown(r)
  <2>1. stays => pos \in 1..(Len(rest) - 1)
    BY <1>1, <1>3 DEF Known, WrapKnown, stays, pos
  <2>2. ASSUME NEW i \in 1..(Len(rest) - 1)
        PROVE  rest[i].usSeq > rest[i + 1].usSeq <=> stays /\ i = pos
    <3>1. i + c \in 1..(Len(q) - 1) /\ (i + 1) + c = (i + c) + 1 /\ i + 1 \in 1..Len(rest)
      <4>1. Len(q) \in Nat /\ Len(rest) = Len(q) - c /\ c \in Nat
        BY <1>1, <1>3
      <4> QED
        BY <4>1
    <3>2. rest[i] = q[i + c] /\ rest[i + 1] = q[(i + c) + 1]
      BY <1>3, <3>1
    <3>3. q[i + c].usSeq > q[(i + c) + 1].usSeq
            <=> o.m_bSeqReversal /\ i + c = o.m_unSeqReversalPos
      BY <3>1 DEF Known, WrapKnown
    <3>4. o.m_bSeqReversal /\ i + c = o.m_unSeqReversalPos <=> stays /\ i = pos
      BY <1>1 DEF stays, pos
    <3> QED
      BY <3>2, <3>3, <3>4
  <2> QED
    BY <1>8, <2>1, <2>2 DEF WrapKnown
<1> QED
  BY <1>2, <1>3, <1>5, <1>8, <1>9 DEF Known, CountKnown, Gone, r, gone, q

\* The same when the last number handed out has changed before.
LEMMA ReleaseAfter ==
  ASSUME NEW S \in SUBSET Packet, NEW o \in Org(S), Known(o),
         NEW last \in Seq16 \cup {INVALID_RTP_SEQ}, NEW c \in 0..Len(o.m_RtpQueue)
  PROVE  LET r == ReleaseRtpPacket([o EXCEPT !.m_unLastDequeueSeq = last], c) IN /\ r \in Org(S)
            /\ Known(r)
            /\ Len(r.m_RtpQueue) = Len(o.m_RtpQueue) - c
            /\ Cardinality(Gone(o, c)) \in Nat
            /\ r.m_unCurFrameNum = o.m_unCurFrameNum - Cardinality(Gone(o, c))
<1> DEFINE n == [o EXCEPT !.m_unLastDequeueSeq = last]
<1>1. /\ n \in Org(S) /\ n.m_RtpQueue = o.m_RtpQueue
      /\ n.m_unCurFrameNum = o.m_unCurFrameNum
      /\ n.m_bSeqReversal = o.m_bSeqReversal
      /\ n.m_unSeqReversalPos = o.m_unSeqReversalPos
  BY DEF Org
<1> HIDE DEF n
<1>2. Known(n)
  BY <1>1 DEF Known, WrapKnown, CountKnown
<1>3. Gone(n, c) = Gone(o, c)
  BY <1>1 DEF Gone
<1>4. LET r == ReleaseRtpPacket(n, c) IN
         /\ r \in Org(S)
         /\ Known(r)
         /\ Len(r.m_RtpQueue) = Len(n.m_RtpQueue) - c
         /\ Cardinality(Gone(n, c)) \in Nat
         /\ r.m_unCurFrameNum = n.m_unCurFrameNum - Cardinality(Gone(n, c))
  BY <1>1, <1>2, ReleaseKeeps
<1> QED
  BY <1>1, <1>3, <1>4 DEF n

\* Releasing packets leaves the last number handed out as it is.
LEMMA ReleaseLast ==
  ASSUME NEW S, NEW o \in Org(S), NEW last, NEW c
  PROVE  ReleaseRtpPacket([o EXCEPT !.m_unLastDequeueSeq = last], c).m_unLastDequeueSeq = last
BY DEF ReleaseRtpPacket, Org

\* checkFrame hands out and releases the packets up to the first marker; it
\* does so for a frame with a loss as soon as the cache is full.
LEMMA CheckFrameKeeps ==
  ASSUME NEW S \in SUBSET Packet, NEW o \in Org(S), Known(o)
  PROVE  LET r == CheckFrame(o) IN
         /\ r.o \in Org(S)
         /\ Known(r.o)
         /\ r.frames \in Seq(Frame(S))
         /\ Len(r.o.m_RtpQueue) <= Len(o.m_RtpQueue)
         /\ r.o.m_unCurFrameNum <= o.m_unCurFrameNum
         /\ ~Waits(o) => r.o.m_unCurFrameNum = o.m_unCurFrameNum - 1
         /\ One(o.m_unLastDequeueSeq, r.frames, r.o.m_unLastDequeueSeq)
<1> DEFINE q == o.m_RtpQueue
           n == Len(q)
           ends == {i \in DOMAIN q : q[i].bMarker}
           last == Min(ends)
           lost == \E i \in 1..last : q[i].usSeq # Expected(o, i)
           released == ReleaseRtpPacket([o EXCEPT !.m_unLastDequeueSeq = q[last].usSeq], last)
           frame == [packets |-> SubSeq(q, 1, last), lost |-> lost]
<1>1. q \in Seq(S) /\ n \in Nat /\ DOMAIN q = 1..n /\ o.m_unCurFrameNum \in Nat
  BY OrgFields
<1>2. ends = Marks(q)
  BY <1>1 DEF Marks
<1>3. CheckFrame(o) = IF ends = {} \/ (lost /\ Waits(o)) THEN [o |-> o, frames |-> <<>>]
                      ELSE [o |-> released, frames |-> <<frame>>]
  BY DEF CheckFrame
<1> HIDE DEF q, n, ends, released, frame, lost, last
<1>4. CASE ends = {} \/ (lost /\ Waits(o))
  <2>1. CheckFrame(o).o = o /\ CheckFrame(o).frames = <<>>
    BY <1>3, <1>4
  <2>2. Waits(o)
    <3>1. CASE ends = {}
      <4>1. o.m_unCurFrameNum = 0
        BY <1>2, <3>1, FS_EmptySet DEF Known, CountKnown, q
      <4> QED
        BY <4>1, RtpFrameOrganizerAssumption DEF Waits
    <3> QED
      BY <1>4, <3>1
  <2> QED
    BY <1>1, <2>1, <2>2 DEF q, n, One
<1>5. CASE ~ (ends = {} \/ (lost /\ Waits(o)))
  <2>1. last \in ends /\ \A i \in ends : last <= i
    <3>1. ends \subseteq Nat
      BY <1>1 DEF ends
    <3> QED
      BY <1>5, <3>1, LeastIsIn DEF last
  <2>2. last \in 1..n /\ q[last].bMarker /\ \A i \in 1..(last - 1) : ~q[i].bMarker
    <3>1. last \in 1..n /\ q[last].bMarker
      BY <1>1, <2>1 DEF ends
    <3>2. ASSUME NEW i \in 1..(last - 1), q[i].bMarker PROVE FALSE
      <4>1. i \in ends
        BY <1>1, <3>1, <3>2 DEF ends
      <4> QED
        BY <2>1, <3>1, <4>1
    <3> QED
      BY <3>1, <3>2
  <2>3. \A i \in 1..n : q[i] \in Packet /\ q[i].usSeq \in Seq16 /\ q[i].usSeq \in Nat
    BY <1>1, PacketFields
  <2>4. CheckFrame(o).o = released /\ CheckFrame(o).frames = <<frame>>
    BY <1>3, <1>5
  <2>5. {i \in 1..last : q[i].bMarker} = {last}
    BY <2>2
  <2>6. Cardinality(Gone(o, last)) = 1
    BY <2>5, FS_Singleton DEF Gone, q
  <2>7. last \in 0..Len(o.m_RtpQueue) /\ q[last].usSeq \in Seq16 \cup {INVALID_RTP_SEQ}
    BY <1>1, <2>2, <2>3 DEF n, q
  <2>8. /\ released \in Org(S) /\ Known(released)
        /\ Len(released.m_RtpQueue) = n - last
        /\ released.m_unCurFrameNum = o.m_unCurFrameNum - 1
    BY <2>6, <2>7, ReleaseAfter DEF released, q, n
  <2>9. frame \in Frame(S)
    <3>1. /\ SubSeq(q, 1, last) \in Seq(S) /\ Len(SubSeq(q, 1, last)) = last
          /\ \A i \in 1..last : SubSeq(q, 1, last)[i] = q[i]
      BY <1>1, <2>2
    <3>2. lost \in BOOLEAN
      BY DEF lost
    <3>3. frame.packets = SubSeq(q, 1, last) /\ frame.lost = lost
          /\ frame \in [packets : Seq(S), lost : BOOLEAN]
      BY <3>1, <3>2 DEF frame
    <3>4. ASSUME ~lost, NEW i \in 1..(last - 1)
          PROVE  /\ ~q[i].bMarker
                 /\ q[i + 1].usSeq = IF q[i].usSeq = MAX_RTP_SEQ
                                     THEN IF q[i + 1].usSeq = 0 THEN 0 ELSE 1
                                     ELSE q[i].usSeq + 1
      <4>1. i + 1 \in 1..last /\ i + 1 # 1 /\ (i + 1) - 1 = i
        BY <2>2
      <4>2. q[i + 1].usSeq = Expected(o, i + 1)
        BY <3>4, <4>1 DEF lost
      <4> QED
        BY <2>2, <4>1, <4>2 DEF Expected, q
    <3>5. InSequence(frame)
      <4> SUFFICES ASSUME ~lost, NEW i \in 1..(last - 1)
                   PROVE  LET p == frame.packets[i]
                              s == frame.packets[i + 1]
                          IN /\ ~p.bMarker
                             /\ s.usSeq = IF p.usSeq = MAX_RTP_SEQ
                                          THEN IF s.usSeq = 0 THEN 0 ELSE 1
                                          ELSE p.usSeq + 1
        BY <3>1, <3>3 DEF InSequence
      <4>1. i \in 1..last /\ i + 1 \in 1..last
        BY <2>2
      <4>2. frame.packets[i] = q[i] /\ frame.packets[i + 1] = q[i + 1]
        BY <3>1, <3>3, <4>1
      <4> QED
        BY <3>4, <4>2
    <3> QED
      BY <3>3, <3>5 DEF Frame
  <2>10. released.m_unLastDequeueSeq = q[last].usSeq
    BY ReleaseLast DEF released
  <2>11. Steps(o.m_unLastDequeueSeq, frame, q[last].usSeq)
    <3>1. /\ SubSeq(q, 1, last) \in Seq(S) /\ Len(SubSeq(q, 1, last)) = last
          /\ SubSeq(q, 1, last)[1] = q[1] /\ SubSeq(q, 1, last)[last] = q[last]
      BY <1>1, <2>2
    <3>2. frame.packets = SubSeq(q, 1, last) /\ frame.lost = lost
      BY DEF frame
    <3>3. ~lost => q[1].usSeq = Expected(o, 1)
      BY <2>2 DEF lost
    <3> QED
      BY <2>2, <3>1, <3>2, <3>3 DEF Steps, Expected, q
  <2> QED
    BY <1>1, <2>2, <2>4, <2>8, <2>9, <2>10, <2>11 DEF n, q, One
<1> QED
  BY <1>4, <1>5

\* A full queue is emptied.
LEMMA MakeRoomKeeps ==
  ASSUME NEW S \in SUBSET Packet, NEW o \in Org(S), Known(o),
         Len(o.m_RtpQueue) <= MAX_RTP_QUEUE_NUM
  PROVE  LET r == MakeRoom(o) IN
         /\ r \in Org(S) /\ Known(r)
         /\ Len(r.m_RtpQueue) < MAX_RTP_QUEUE_NUM
         /\ r.m_unCurFrameNum <= o.m_unCurFrameNum
         /\ r.m_unLastDequeueSeq = IF Full(o) THEN INVALID_RTP_SEQ ELSE o.m_unLastDequeueSeq
<1>1. o.m_RtpQueue \in Seq(S) /\ Len(o.m_RtpQueue) \in Nat /\ o.m_unCurFrameNum \in Nat
  BY OrgFields
<1>2. MAX_RTP_QUEUE_NUM \in Nat \ {0}
  BY RtpFrameOrganizerAssumption
<1>3. CASE Full(o)
  <2>1. Len(o.m_RtpQueue) \in 0..Len(o.m_RtpQueue)
    BY <1>1
  <2>2. INVALID_RTP_SEQ \in Seq16 \cup {INVALID_RTP_SEQ}
    OBVIOUS
  <2>3. LET r == ReleaseRtpPacket([o EXCEPT !.m_unLastDequeueSeq = INVALID_RTP_SEQ],
                                  Len(o.m_RtpQueue)) IN
        /\ r \in Org(S)
        /\ Known(r)
        /\ Len(r.m_RtpQueue) = Len(o.m_RtpQueue) - Len(o.m_RtpQueue)
        /\ Cardinality(Gone(o, Len(o.m_RtpQueue))) \in Nat
        /\ r.m_unCurFrameNum =
             o.m_unCurFrameNum - Cardinality(Gone(o, Len(o.m_RtpQueue)))
    BY <2>1, <2>2, ReleaseAfter
  <2>4. MakeRoom(o) = ReleaseRtpPacket([o EXCEPT !.m_unLastDequeueSeq = INVALID_RTP_SEQ],
                                       Len(o.m_RtpQueue))
    BY <1>3 DEF MakeRoom
  <2>5. MakeRoom(o).m_unLastDequeueSeq = INVALID_RTP_SEQ
    BY <2>4, ReleaseLast
  <2> QED
    BY <1>1, <1>2, <1>3, <2>3, <2>4, <2>5
<1>4. CASE ~Full(o)
  BY <1>1, <1>2, <1>4 DEF MakeRoom, Full
<1> QED
  BY <1>3, <1>4

\* A marker set on the last packet is counted.
LEMMA MarkKeeps ==
  ASSUME NEW S, Closed(S), NEW o \in Org(S), Known(o), o.m_RtpQueue # <<>>,
         ~ o.m_RtpQueue[Len(o.m_RtpQueue)].bMarker
  PROVE  LET r == [o EXCEPT !.m_RtpQueue[Len(o.m_RtpQueue)].bMarker = TRUE,
                            !.m_unCurFrameNum = @ + 1] IN
         /\ r \in Org(S) /\ Known(r)
         /\ Len(r.m_RtpQueue) = Len(o.m_RtpQueue)
         /\ r.m_unCurFrameNum = o.m_unCurFrameNum + 1
         /\ r.m_unLastDequeueSeq = o.m_unLastDequeueSeq
<1> DEFINE q == o.m_RtpQueue
           n == Len(q)
           m == [q EXCEPT ![n] = Marked(q[n])]
           r == [o EXCEPT !.m_RtpQueue[n].bMarker = TRUE, !.m_unCurFrameNum = @ + 1]
<1>1. /\ q \in Seq(S) /\ n \in Nat /\ n \in 1..n /\ q[n] \in S /\ S \subseteq Packet
      /\ o.m_unCurFrameNum \in Nat
  BY OrgFields DEF Closed
<1>2. Marked(q[n]) \in S /\ Marked(q[n]).bMarker /\ Marked(q[n]).usSeq = q[n].usSeq
  BY <1>1 DEF Closed, Marked, Packet
<1>3. /\ m \in Seq(S) /\ Len(m) = n
      /\ \A i \in 1..n : m[i] = IF i = n THEN Marked(q[n]) ELSE q[i]
  BY <1>1, <1>2
<1>4. /\ r.m_RtpQueue = m /\ r.m_unCurFrameNum = o.m_unCurFrameNum + 1
      /\ r.m_bSeqReversal = o.m_bSeqReversal
      /\ r.m_unSeqReversalPos = o.m_unSeqReversalPos
      /\ r.m_unLastDequeueSeq = o.m_unLastDequeueSeq
  BY DEF Marked, Org
<1>5. r \in Org(S)
  <2>1. r = [[o EXCEPT !.m_RtpQueue = m] EXCEPT !.m_unCurFrameNum = @ + 1]
    BY DEF Marked, Org
  <2> HIDE DEF m, r
  <2>2. o.m_unCurFrameNum + 1 \in Nat /\ m \in Seq(S)
    BY <1>1, <1>3
  <2>3. [o EXCEPT !.m_RtpQueue = m] \in Org(S)
    BY <2>2 DEF Org
  <2>4. [o EXCEPT !.m_RtpQueue = m].m_unCurFrameNum = o.m_unCurFrameNum
    BY DEF Org
  <2> QED
    BY <2>1, <2>2, <2>3, <2>4 DEF Org
<1> HIDE DEF m, r, q, n
<1>6. \A i \in 1..n : m[i].usSeq = q[i].usSeq /\ (m[i].bMarker <=> q[i].bMarker \/ i = n)
  BY <1>2, <1>3
<1>7. WrapKnown(r)
  <2>1. \A i \in 1..(n - 1) : m[i].usSeq = q[i].usSeq /\ m[i + 1].usSeq = q[i + 1].usSeq
    BY <1>1, <1>6
  <2> QED
    BY <1>3, <1>4, <2>1 DEF Known, WrapKnown, q, n
<1>8. Cardinality(Marks(m)) = Cardinality(Marks(q)) + 1
  <2>1. Marks(m) = Marks(q) \cup {n} /\ n \notin Marks(q)
    BY <1>1, <1>3, <1>6 DEF Marks, n, q
  <2>2. IsFiniteSet(Marks(q))
    BY <1>1, MarksAreFinite
  <2> QED
    BY <2>1, <2>2, FS_AddElement
<1> QED
  BY <1>3, <1>4, <1>5, <1>7, <1>8 DEF Known, CountKnown, r, q, n

\* The end of a frame without a marker lets no more frames wait than the cache
\* is meant for.
LEMMA EndFrameKeeps ==
  ASSUME NEW S, Closed(S), NEW o \in Org(S), Known(o), NEW p,
         o.m_unCurFrameNum <= MAX_RTP_FRAME_CACHE_NUM
  PROVE  LET r == EndFrame(o, p) IN
         /\ r.o \in Org(S)
         /\ Known(r.o)
         /\ r.frames \in Seq(Frame(S))
         /\ Len(r.o.m_RtpQueue) <= Len(o.m_RtpQueue)
         /\ r.o.m_unCurFrameNum <= MAX_RTP_FRAME_CACHE_NUM
         /\ One(o.m_unLastDequeueSeq, r.frames, r.o.m_unLastDequeueSeq)
<1> DEFINE q == o.m_RtpQueue
           m == [o EXCEPT !.m_RtpQueue[Len(q)].bMarker = TRUE, !.m_unCurFrameNum = @ + 1]
<1>1. /\ S \in SUBSET Packet /\ o.m_unCurFrameNum \in Nat /\ Len(q) \in Nat
      /\ MAX_RTP_FRAME_CACHE_NUM \in Nat
  BY OrgFields, RtpFrameOrganizerAssumption DEF Closed
<1>2. CASE EndFrame(o, p) = [o |-> o, frames |-> <<>>]
  BY <1>1, <1>2 DEF One
<1>3. CASE EndFrame(o, p) = CheckFrame(o)
  <2>1. LET r == CheckFrame(o) IN
        /\ r.o \in Org(S)
        /\ Known(r.o)
        /\ r.frames \in Seq(Frame(S))
        /\ Len(r.o.m_RtpQueue) <= Len(o.m_RtpQueue)
        /\ r.o.m_unCurFrameNum <= o.m_unCurFrameNum
        /\ One(o.m_unLastDequeueSeq, r.frames, r.o.m_unLastDequeueSeq)
    BY <1>1, CheckFrameKeeps
  <2>2. CheckFrame(o).o.m_unCurFrameNum \in Nat
    BY <2>1, OrgFields
  <2> QED
    BY <1>1, <1>3, <2>1, <2>2
<1>4. CASE EndFrame(o, p) = CheckFrame(m) /\ q # <<>> /\ ~q[Len(q)].bMarker
  <2>1. /\ m \in Org(S) /\ Known(m)
        /\ Len(m.m_RtpQueue) = Len(o.m_RtpQueue)
        /\ m.m_unCurFrameNum = o.m_unCurFrameNum + 1
        /\ m.m_unLastDequeueSeq = o.m_unLastDequeueSeq
    BY <1>4, MarkKeeps
  <2> HIDE DEF m
  <2>2. LET r == CheckFrame(m) IN
        /\ r.o \in Org(S)
        /\ Known(r.o)
        /\ r.frames \in Seq(Frame(S))
        /\ Len(r.o.m_RtpQueue) <= Len(m.m_RtpQueue)
        /\ r.o.m_unCurFrameNum <= m.m_unCurFrameNum
        /\ ~Waits(m) => r.o.m_unCurFrameNum = m.m_unCurFrameNum - 1
        /\ One(m.m_unLastDequeueSeq, r.frames, r.o.m_unLastDequeueSeq)
    BY <1>1, <2>1, CheckFrameKeeps
  <2>3. CheckFrame(m).o.m_unCurFrameNum \in Nat
    BY <2>2, OrgFields
  <2>4. Waits(m) <=> m.m_unCurFrameNum <= MAX_RTP_FRAME_CACHE_NUM
    BY DEF Waits
  <2> QED
    BY <1>1, <1>4, <2>1, <2>2, <2>3, <2>4
<1> QED
  BY <1>2, <1>3, <1>4 DEF EndFrame

\* A whole call of insertRtpPacket for a video packet.
LEMMA InsertKeeps ==
  ASSUME NEW S, Closed(S), NEW o \in Org(S), Known(o), NEW p \in S,
         Len(o.m_RtpQueue) <= MAX_RTP_QUEUE_NUM,
         o.m_unCurFrameNum <= MAX_RTP_FRAME_CACHE_NUM
  PROVE  LET r == Insert(o, p) IN
         /\ r.o \in Org(S)
         /\ Known(r.o)
         /\ r.frames \in Seq(Frame(S))
         /\ Len(r.o.m_RtpQueue) <= MAX_RTP_QUEUE_NUM
         /\ r.o.m_unCurFrameNum <= MAX_RTP_FRAME_CACHE_NUM
         /\ IF Overdue(o, p) THEN r = [o |-> o, frames |-> <<>>]
            ELSE Two(S, MakeRoom(o).m_unLastDequeueSeq, r.frames, r.o.m_unLastDequeueSeq)
<1> DEFINE ended == EndFrame(MakeRoom(o), p)
           placed == Place(ended.o, p)
           counted == [placed EXCEPT !.m_unCurFrameNum = IF p.bMarker THEN @ + 1 ELSE @]
           checked == IF counted.m_unCurFrameNum > 1 THEN CheckFrame(counted)
                      ELSE [o |-> counted, frames |-> <<>>]
<1>1. /\ S \in SUBSET Packet /\ o.m_unCurFrameNum \in Nat
      /\ MAX_RTP_FRAME_CACHE_NUM \in Nat \ {0} /\ MAX_RTP_QUEUE_NUM \in Nat \ {0}
      /\ p.bMarker \in BOOLEAN
  BY OrgFields, PacketFields, RtpFrameOrganizerAssumption DEF Closed
<1>2. /\ MakeRoom(o) \in Org(S) /\ Known(MakeRoom(o))
      /\ Len(MakeRoom(o).m_RtpQueue) < MAX_RTP_QUEUE_NUM
      /\ MakeRoom(o).m_unCurFrameNum <= o.m_unCurFrameNum
  BY <1>1, MakeRoomKeeps
<1>3. /\ ended.o \in Org(S) /\ Known(ended.o) /\ ended.frames \in Seq(Frame(S))
      /\ Len(ended.o.m_RtpQueue) < MAX_RTP_QUEUE_NUM
      /\ ended.o.m_unCurFrameNum <= MAX_RTP_FRAME_CACHE_NUM
      /\ One(MakeRoom(o).m_unLastDequeueSeq, ended.frames, ended.o.m_unLastDequeueSeq)
  <2>1. /\ MakeRoom(o).m_unCurFrameNum \in Nat /\ Len(MakeRoom(o).m_RtpQueue) \in Nat
        /\ MakeRoom(o).m_unCurFrameNum <= MAX_RTP_FRAME_CACHE_NUM
    BY <1>1, <1>2, OrgFields
  <2>2. /\ ended.o \in Org(S) /\ Known(ended.o) /\ ended.frames \in Seq(Frame(S))
        /\ Len(ended.o.m_RtpQueue) <= Len(MakeRoom(o).m_RtpQueue)
        /\ ended.o.m_unCurFrameNum <= MAX_RTP_FRAME_CACHE_NUM
        /\ One(MakeRoom(o).m_unLastDequeueSeq, ended.frames, ended.o.m_unLastDequeueSeq)
    BY <1>2, <2>1, EndFrameKeeps
  <2>3. Len(ended.o.m_RtpQueue) \in Nat
    BY <2>2, OrgFields
  <2> QED
    BY <1>1, <1>2, <2>1, <2>2, <2>3
<1>4. Insert(o, p) = IF Overdue(o, p) THEN [o |-> o, frames |-> <<>>]
                     ELSE IF WrapLost(ended.o) THEN ended
                     ELSE [o |-> checked.o, frames |-> ended.frames \o checked.frames]
  BY DEF Insert
<1> HIDE DEF ended
<1>5. /\ ended.o.m_unCurFrameNum \in Nat /\ Len(ended.o.m_RtpQueue) \in Nat
  BY <1>3, OrgFields
<1>6. /\ ~WrapLost(ended.o) /\ placed \in Org(S) /\ WrapKnown(placed)
      /\ Len(placed.m_RtpQueue) = Len(ended.o.m_RtpQueue) + 1
      /\ placed.m_unCurFrameNum = ended.o.m_unCurFrameNum
      /\ placed.m_unLastDequeueSeq = ended.o.m_unLastDequeueSeq
      /\ Cardinality(Marks(placed.m_RtpQueue)) =
           ended.o.m_unCurFrameNum + (IF p.bMarker THEN 1 ELSE 0)
  BY <1>1, <1>3, PlaceKeeps
<1> HIDE DEF placed
<1>7. /\ counted.m_RtpQueue = placed.m_RtpQueue
      /\ counted.m_bSeqReversal = placed.m_bSeqReversal
      /\ counted.m_unSeqReversalPos = placed.m_unSeqReversalPos
      /\ counted.m_unLastDequeueSeq = ended.o.m_unLastDequeueSeq
      /\ counted.m_unCurFrameNum = ended.o.m_unCurFrameNum + (IF p.bMarker THEN 1 ELSE 0)
  BY <1>6 DEF Org
<1>8. counted \in Org(S)
  <2> DEFINE num == IF p.bMarker THEN placed.m_unCurFrameNum + 1 ELSE placed.m_unCurFrameNum
  <2>1. counted = [placed EXCEPT !.m_unCurFrameNum = num]
    BY <1>6 DEF Org
  <2>2. num \in Nat
    BY <1>5, <1>6
  <2> HIDE DEF num, counted
  <2> QED
    BY <1>6, <2>1, <2>2 DEF Org
<1> HIDE DEF counted
<1>9. Known(counted)
  BY <1>6, <1>7 DEF Known, WrapKnown, CountKnown
<1>10. /\ checked.o \in Org(S) /\ Known(checked.o) /\ checked.frames \in Seq(Frame(S))
       /\ Len(checked.o.m_RtpQueue) <= Len(counted.m_RtpQueue)
       /\ checked.o.m_unCurFrameNum <= MAX_RTP_FRAME_CACHE_NUM
       /\ One(counted.m_unLastDequeueSeq, checked.frames, checked.o.m_unLastDequeueSeq)
  <2>1. counted.m_unCurFrameNum \in Nat /\ Len(counted.m_RtpQueue) \in Nat
    BY <1>8, OrgFields
  <2>2. CASE counted.m_unCurFrameNum > 1
    <3>1. LET r == CheckFrame(counted) IN
          /\ r.o \in Org(S)
          /\ Known(r.o)
          /\ r.frames \in Seq(Frame(S))
          /\ Len(r.o.m_RtpQueue) <= Len(counted.m_RtpQueue)
          /\ r.o.m_unCurFrameNum <= counted.m_unCurFrameNum
          /\ ~Waits(counted) => r.o.m_unCurFrameNum = counted.m_unCurFrameNum - 1
          /\ One(counted.m_unLastDequeueSeq, r.frames, r.o.m_unLastDequeueSeq)
      BY <1>1, <1>8, <1>9, CheckFrameKeeps
    <3>2. CheckFrame(counted).o.m_unCurFrameNum \in Nat
      BY <3>1, OrgFields
    <3>3. checked = CheckFrame(counted)
      BY <2>2
    <3>4. counted.m_unCurFrameNum <= MAX_RTP_FRAME_CACHE_NUM + 1
      BY <1>1, <1>3, <1>5, <1>7
    <3>5. CheckFrame(counted).o.m_unCurFrameNum <= MAX_RTP_FRAME_CACHE_NUM
      <4>1. CASE Waits(counted)
        BY <1>1, <2>1, <3>1, <3>2, <4>1 DEF Waits
      <4>2. CASE ~Waits(counted)
        BY <1>1, <2>1, <3>1, <3>2, <3>4, <4>2
      <4> QED
        BY <4>1, <4>2
    <3> QED
      BY <3>1, <3>3, <3>5
  <2>3. CASE ~ (counted.m_unCurFrameNum > 1)
    <3>1. checked = [o |-> counted, frames |-> <<>>]
      BY <2>3
    <3> QED
      BY <1>1, <1>8, <1>9, <2>1, <2>3, <3>1 DEF One
  <2> QED
    BY <2>2, <2>3
<1> HIDE DEF checked
<1>11. Len(checked.o.m_RtpQueue) <= MAX_RTP_QUEUE_NUM
  <2>1. Len(checked.o.m_RtpQueue) \in Nat
    BY <1>10, OrgFields
  <2> QED
    BY <1>1, <1>3, <1>5, <1>6, <1>7, <1>10, <2>1
<1>12. CASE Overdue(o, p)
  <2>1. Insert(o, p) = [o |-> o, frames |-> <<>>]
    BY <1>4, <1>12
  <2> QED
    BY <1>12, <2>1
<1>13. CASE ~Overdue(o, p)
  <2> DEFINE frames == ended.frames \o checked.frames
  <2>1. Insert(o, p) = [o |-> checked.o, frames |-> frames]
    BY <1>4, <1>6, <1>13, Zenon
  <2>2. frames \in Seq(Frame(S))
    BY <1>3, <1>10
  <2>3. Two(S, MakeRoom(o).m_unLastDequeueSeq, frames, checked.o.m_unLastDequeueSeq)
    BY <1>3, <1>7, <1>10 DEF Two
  <2> HIDE DEF frames
  <2>4. Insert(o, p).o = checked.o /\ Insert(o, p).frames = frames
    BY <2>1
  <2> QED
    BY <1>10, <1>11, <1>13, <2>2, <2>3, <2>4
<1> QED
  BY <1>12, <1>13
-----------------------------------------------------------------------------
(* The stream.                                                             *)

\* Two packets of a stream that checkFrame finds in sequence are next to each
\* other in it, or the packet numbered 0 is between them.
LEMMA NextInStream ==
  ASSUME NEW j \in 1..MaxSent, NEW k \in 1..MaxSent, NEW skip \in 0..1,
         Number(k, skip) =
           IF Number(j, skip) = MAX_RTP_SEQ THEN IF Number(k, skip) = 0 THEN 0 ELSE 1
           ELSE Number(j, skip) + 1
  PROVE  k = j + 1 \/ (Number(j, skip) = MAX_RTP_SEQ /\ Number(k, skip) = 1)
<1>1. /\ MAX_RTP_SEQ \in Nat /\ First \in 0..MAX_RTP_SEQ /\ Half \in Nat
      /\ Half + Half <= MAX_RTP_SEQ /\ MaxSent \in Nat /\ MaxSent < Half
  BY RtpFrameOrganizerAssumption, HalfOfThem
<1>2. CASE First + j - 1 <= MAX_RTP_SEQ /\ First + k - 1 <= MAX_RTP_SEQ
  BY <1>1, <1>2 DEF Number
<1>3. CASE First + j - 1 <= MAX_RTP_SEQ /\ First + k - 1 > MAX_RTP_SEQ
  BY <1>1, <1>3 DEF Number
<1>4. CASE First + j - 1 > MAX_RTP_SEQ /\ First + k - 1 <= MAX_RTP_SEQ
  BY <1>1, <1>4 DEF Number
<1>5. CASE First + j - 1 > MAX_RTP_SEQ /\ First + k - 1 > MAX_RTP_SEQ
  BY <1>1, <1>5 DEF Number
<1> QED
  BY <1>1, <1>2, <1>3, <1>4, <1>5

\* The numbers of a stream are numbers, none of them invalid.
LEMMA NumberIsSeq ==
  ASSUME NEW k \in 1..MaxSent, NEW skip \in 0..1
  PROVE  Number(k, skip) \in Seq16
<1>1. /\ MAX_RTP_SEQ \in Nat /\ First \in 0..MAX_RTP_SEQ /\ Half \in Nat
      /\ Half + Half <= MAX_RTP_SEQ /\ MaxSent \in Nat /\ MaxSent < Half
  BY RtpFrameOrganizerAssumption, HalfOfThem
<1> QED
  BY <1>1 DEF Number, Seq16

\* The number that comes next when none is skipped is that of the next packet.
LEMMA NextPlace ==
  ASSUME NEW j \in 1..MaxSent, NEW k \in 1..MaxSent, NEW skip \in 0..1,
         Number(k, skip) = (Number(j, skip) + 1) % (MAX_RTP_SEQ + 1)
  PROVE  k = j + 1
<1>1. /\ MAX_RTP_SEQ \in Nat /\ First \in 0..MAX_RTP_SEQ /\ Half \in Nat
      /\ Half + Half <= MAX_RTP_SEQ /\ MaxSent \in Nat /\ MaxSent < Half
  BY RtpFrameOrganizerAssumption, HalfOfThem
<1>2. \A n \in 0..MAX_RTP_SEQ :
        (n + 1) % (MAX_RTP_SEQ + 1) = IF n = MAX_RTP_SEQ THEN 0 ELSE n + 1
  BY <1>1
<1>3. Number(j, skip) \in 0..MAX_RTP_SEQ
  BY NumberIsSeq DEF Seq16
<1>4. Number(k, skip) = IF Number(j, skip) = MAX_RTP_SEQ THEN 0 ELSE Number(j, skip) + 1
  BY <1>2, <1>3
<1>5. CASE Number(j, skip) = MAX_RTP_SEQ
  <2>1. Number(k, skip) = 0
    BY <1>4, <1>5
  <2> QED
    BY <1>1, <1>5, <2>1 DEF Number
<1>6. CASE Number(j, skip) # MAX_RTP_SEQ
  BY <1>1, <1>4, <1>6 DEF Number
<1> QED
  BY <1>5, <1>6

\* A marker set by EndFrame leaves a packet genuine.
LEMMA GenuineIsClosed ==
  ASSUME NEW place, NEW skip, NEW T
  PROVE  Closed(Genuine(place, skip, T)) /\ Closed(Packet)
BY DEF Closed, Genuine, Marked, Packet

\* q follows p in the stream, or the number 0 at the wrap is lost between them.
Follows(p, q) ==
  \/ q.place = p.place + 1 /\ q.unTimestamp = p.unTimestamp
  \/ p.usSeq = MAX_RTP_SEQ /\ q.usSeq = 1

\* Inside a frame of genuine packets without a loss, every packet is followed by
\* the next one of the stream, but for the number 0.
LEMMA InsideOfFrames ==
  ASSUME NEW place, NEW skip \in 0..1, NEW T, NEW f \in Frame(Genuine(place, skip, T)),
         ~f.lost, NEW i \in 1..(Len(f.packets) - 1)
  PROVE  Follows(f.packets[i], f.packets[i + 1])
<1> DEFINE p == f.packets[i]
           q == f.packets[i + 1]
<1>1. f.packets \in Seq(Genuine(place, skip, T)) /\ InSequence(f)
  BY DEF Frame
<1>2. p \in Genuine(place, skip, T) /\ q \in Genuine(place, skip, T)
  BY <1>1
<1>3. /\ ~p.bMarker
      /\ q.usSeq = IF p.usSeq = MAX_RTP_SEQ THEN IF q.usSeq = 0 THEN 0 ELSE 1
                   ELSE p.usSeq + 1
  BY <1>1 DEF InSequence
<1> HIDE DEF p, q
<1>4. /\ p.place \in 1..MaxSent /\ p.usSeq = Number(p.place, skip)
      /\ p.unTimestamp = T[p.place] /\ T[p.place + 1] = p.unTimestamp
      /\ q.place \in 1..MaxSent /\ q.usSeq = Number(q.place, skip)
      /\ q.unTimestamp = T[q.place]
  BY <1>2, <1>3, PacketFields DEF Genuine
<1>5. q.place = p.place + 1 \/ (p.usSeq = MAX_RTP_SEQ /\ q.usSeq = 1)
  BY <1>3, <1>4, NextInStream
<1> QED
  BY <1>4, <1>5 DEF p, q, Follows

\* What one checkFrame hands out goes on where out is the place handed out last.
LEMMA OneGoesOn ==
  ASSUME NEW limit \in 0..MaxSent, NEW skip \in 0..1, NEW T, NEW out, NEW s, NEW t,
         NumberOut(s, out, skip, limit),
         NEW frames \in Seq(Frame(Genuine(limit, skip, T))), One(s, frames, t)
  PROVE  Wholes(out, frames) /\ NumberOut(t, After(out, frames), skip, limit)
<1> DEFINE S == Genuine(limit, skip, T)
<1>1. CASE frames = <<>> /\ t = s
  BY <1>1 DEF Wholes, After
<1>2. ASSUME NEW f, frames = <<f>>, Steps(s, f, t)
      PROVE  Wholes(out, frames) /\ NumberOut(t, After(out, frames), skip, limit)
  <2> DEFINE n == Len(f.packets)
  <2>1. f \in Frame(S)
    <3>1. Len(<<f>>) = 1 /\ <<f>>[1] = f /\ 1 \in 1..1
      OBVIOUS
    <3>2. \A i \in 1..Len(frames) : frames[i] \in Frame(S)
      OBVIOUS
    <3> HIDE DEF S
    <3> QED
      BY <1>2, <3>1, <3>2
  <2>2. f.packets \in Seq(S) /\ n \in Nat /\ n >= 1 /\ t = f.packets[n].usSeq
    BY <1>2, <2>1 DEF Frame, Steps
  <2>3. f.packets[1] \in S /\ f.packets[n] \in S
    <3> HIDE DEF S
    <3> QED
      BY <2>2
  <2>4. /\ f.packets[1].place \in 1..MaxSent /\ f.packets[n].place \in 1..limit
        /\ f.packets[1].usSeq = Number(f.packets[1].place, skip)
        /\ f.packets[n].usSeq = Number(f.packets[n].place, skip)
    <3>1. \A g \in S : /\ g.place \in 1..MaxSent /\ g.place <= limit
                        /\ g.usSeq = Number(g.place, skip)
      BY PacketFields DEF Genuine
    <3>2. limit \in Nat /\ MaxSent \in Nat
      BY HalfOfThem
    <3> HIDE DEF S
    <3> QED
      BY <2>3, <3>1, <3>2
  <2>5. ~f.lost /\ out # 0 => f.packets[1].place = out + 1
    <3> SUFFICES ASSUME ~f.lost, out # 0 PROVE f.packets[1].place = out + 1
      OBVIOUS
    <3>1. out \in 1..MaxSent /\ s = Number(out, skip)
      BY HalfOfThem DEF NumberOut
    <3>2. s # INVALID_RTP_SEQ
      BY <3>1, NumberIsSeq, RtpFrameOrganizerAssumption DEF INVALID_RTP_SEQ, Seq16
    <3>3. f.packets[1].usSeq = (s + 1) % (MAX_RTP_SEQ + 1)
      BY <1>2, <3>2 DEF Steps
    <3> QED
      BY <2>4, <3>1, <3>3, NextPlace
  <2>6. Whole(f, out)
    <3>1. ASSUME ~f.lost, NEW i \in 1..(Len(f.packets) - 1)
          PROVE  Follows(f.packets[i], f.packets[i + 1])
      <4>1. f \in Frame(Genuine(limit, skip, T))
        BY <2>1
      <4> QED
        BY <3>1, <4>1, InsideOfFrames
    <3> HIDE DEF S
    <3> QED
      BY <2>5, <3>1 DEF Whole, Follows
  <2>7. frames = <<f>> /\ DOMAIN frames = 1..1 /\ frames[1] = f /\ Len(frames) = 1
    BY <1>2
  <2>8. Wholes(out, frames)
    BY <2>6, <2>7 DEF Wholes
  <2>9. After(out, frames) = f.packets[n].place
    BY <2>7 DEF After, Last
  <2> QED
    BY <2>2, <2>4, <2>8, <2>9 DEF NumberOut
<1> QED
  BY <1>1, <1>2 DEF One

\* So does what one call of insertRtpPacket hands out.
LEMMA TwoGoesOn ==
  ASSUME NEW limit \in 0..MaxSent, NEW skip \in 0..1, NEW T, NEW out, NEW s, NEW t,
         NumberOut(s, out, skip, limit), NEW frames,
         Two(Genuine(limit, skip, T), s, frames, t)
  PROVE  Wholes(out, frames) /\ NumberOut(t, After(out, frames), skip, limit)
<1> DEFINE F == Frame(Genuine(limit, skip, T))
<1>1. PICK a \in Seq(F), b \in Seq(F) :
        frames = a \o b /\ \E u : One(s, a, u) /\ One(u, b, t)
  BY DEF Two
<1>2. PICK u : frames = a \o b /\ One(s, a, u) /\ One(u, b, t)
  BY <1>1
<1> HIDE DEF F
<1>3. Wholes(out, a) /\ NumberOut(u, After(out, a), skip, limit)
  BY <1>2, OneGoesOn DEF F
<1>4. Wholes(After(out, a), b) /\ NumberOut(t, After(After(out, a), b), skip, limit)
  BY <1>2, <1>3, OneGoesOn DEF F
<1>5. CASE a = <<>>
  <2>1. frames = b /\ After(out, a) = out
    BY <1>2, <1>5 DEF After
  <2> QED
    BY <1>4, <2>1
<1>6. CASE b = <<>>
  <2>1. frames = a /\ After(After(out, a), b) = After(out, a)
    BY <1>2, <1>6 DEF After
  <2> QED
    BY <1>3, <1>4, <2>1
<1>7. CASE a # <<>> /\ b # <<>>
  <2>1. PICK f, g : a = <<f>> /\ b = <<g>>
    BY <1>2, <1>7 DEF One
  <2>2. /\ frames \in Seq(F) /\ DOMAIN frames = 1..2 /\ Len(frames) = 2
        /\ frames[1] = f /\ frames[2] = g
    <3>1. a[1] = f /\ b[1] = g /\ Len(a) = 1 /\ Len(b) = 1
      BY <2>1
    <3>2. /\ frames \in Seq(F) /\ Len(frames) = Len(a) + Len(b)
          /\ \A i \in 1..Len(a) : frames[i] = a[i]
          /\ \A i \in 1..Len(b) : frames[Len(a) + i] = b[i]
      BY <1>2, Concatenated
    <3> QED
      BY <3>1, <3>2
  <2>3. After(out, a) = Last(f.packets).place /\ Whole(f, out)
    <3>1. a[1] = f /\ Len(a) = 1 /\ 1 \in DOMAIN a
      BY <2>1
    <3> QED
      BY <1>3, <1>7, <3>1 DEF After, Wholes, Last
  <2>4. /\ After(After(out, a), b) = Last(g.packets).place
        /\ Whole(g, Last(f.packets).place)
    <3>1. b[1] = g /\ Len(b) = 1 /\ 1 \in DOMAIN b
      BY <2>1
    <3> QED
      BY <1>4, <1>7, <2>3, <3>1 DEF After, Wholes, Last
  <2>5. Wholes(out, frames)
    <3> SUFFICES ASSUME NEW k \in 1..2
                 PROVE  Whole(frames[k], IF k = 1 THEN out ELSE Last(frames[k - 1].packets).place)
      BY <2>2 DEF Wholes
    <3>1. CASE k = 1
      BY <2>2, <2>3, <3>1
    <3>2. CASE k = 2
      <4>1. k # 1 /\ frames[k - 1] = f /\ frames[k] = g
        BY <2>2, <3>2
      <4> QED
        BY <2>4, <4>1
    <3> QED
      BY <3>1, <3>2
  <2>6. After(out, frames) = Last(g.packets).place
    <3>1. frames # <<>>
      <4>1. 1 \in DOMAIN frames /\ DOMAIN <<>> = 1..0
        BY <2>2
      <4> QED
        BY <4>1
    <3>2. Last(frames) = g
      BY <2>2 DEF Last
    <3> QED
      BY <3>1, <3>2 DEF After
  <2> QED
    BY <1>4, <2>4, <2>5, <2>6
<1> QED
  BY <1>5, <1>6, <1>7

-----------------------------------------------------------------------------
(* The invariant.                                                          *)

\* The organizer starts with nothing.
LEMMA InitIInv == Init => IInv
<1> SUFFICES ASSUME Init PROVE IInv
  OBVIOUS
<1> USE DEF Init
<1>1. /\ MAX_RTP_SEQ \in Nat /\ First \in 0..MAX_RTP_SEQ /\ MaxSent \in Nat /\ MaxAudio \in Nat
      /\ MAX_RTP_QUEUE_NUM \in Nat /\ MAX_RTP_FRAME_CACHE_NUM \in Nat
  BY RtpFrameOrganizerAssumption, HalfOfThem
<1>2. TypeOK
  BY <1>1 DEF TypeOK, Seq16
<1>3. QueueInv
  <2>1. org.m_RtpQueue = <<>> /\ org.m_unCurFrameNum = 0 /\ org.m_bSeqReversal = FALSE
    OBVIOUS
  <2>2. Len(org.m_RtpQueue) = 0 /\ 1..(0 - 1) = {}
    BY <2>1
  <2>3. Marks(org.m_RtpQueue) = {}
    BY <2>2 DEF Marks
  <2>4. CountKnown(org)
    BY <2>1, <2>3, FS_EmptySet DEF CountKnown
  <2>5. WrapKnown(org)
    BY <2>1, <2>2 DEF WrapKnown
  <2> QED
    BY <1>1, <2>1, <2>4, <2>5 DEF QueueInv, Known
<1>4. StreamInv
  <2> DEFINE T == [k \in 1..(MaxSent + 1) |-> 0]
  <2>1. T \in Stamps /\ T[1] = 0
    BY <1>1 DEF Stamps
  <2>2. Number(1, 0) = First
    BY <1>1 DEF Number
  <2>3. NumberOut(org.m_unLastDequeueSeq, LastOut, 0, sent.place)
    BY DEF NumberOut, LastOut
  <2>4. OfStream(0, T)
    BY <2>1, <2>2, <2>3 DEF OfStream
  <2> QED
    BY <2>1, <2>4 DEF StreamInv
<1>5. WholeFrames
  BY DEF WholeFrames
<1> QED
  BY <1>2, <1>3, <1>4, <1>5 DEF IInv

\* A video packet.
LEMMA InsertIInv == IInv /\ InsertRtpPacket => IInv'
<1> SUFFICES ASSUME IInv, InsertRtpPacket PROVE IInv'
  OBVIOUS
<1>1. PICK p \in net : /\ org' = Insert(org, p).o /\ handed' = Insert(org, p).frames
                       /\ before' = IF ~Overdue(org, p) /\ Full(org) THEN 0 ELSE LastOut
                       /\ net' \in {net, net \ {p}} /\ UNCHANGED sent
  BY DEF InsertRtpPacket
<1>2. /\ org \in Org(Packet) /\ Len(org.m_RtpQueue) <= MAX_RTP_QUEUE_NUM
      /\ net \subseteq Packet /\ sent \in [place : 0..MaxSent, usSeq : Seq16, unTimestamp : Nat]
      /\ Known(org) /\ org.m_unCurFrameNum <= MAX_RTP_FRAME_CACHE_NUM
  BY DEF IInv, TypeOK, QueueInv, Org
<1>3. PICK skip \in 0..1, T \in Stamps : OfStream(skip, T)
  BY DEF IInv, StreamInv
<1> DEFINE S == Genuine(sent.place, skip, T)
<1>4. p \in S /\ Closed(S) /\ S \subseteq Packet
  <2>1. Closed(S)
    BY GenuineIsClosed
  <2>2. net \subseteq S
    BY <1>3 DEF OfStream
  <2> HIDE DEF S
  <2> QED
    BY <2>1, <2>2 DEF Closed
<1>5. org \in Org(S)
  BY <1>2, <1>3 DEF Org, OfStream
<1> HIDE DEF S
<1>6. /\ org' \in Org(S) /\ Known(org') /\ handed' \in Seq(Frame(S))
      /\ Len(org'.m_RtpQueue) <= MAX_RTP_QUEUE_NUM
      /\ org'.m_unCurFrameNum <= MAX_RTP_FRAME_CACHE_NUM
  BY <1>1, <1>2, <1>4, <1>5, InsertKeeps
<1>7. /\ Wholes(before', handed')
       /\ NumberOut(org'.m_unLastDequeueSeq, After(before', handed'), skip, sent.place)
       /\ before' \in 0..MaxSent
  <2>1. /\ NumberOut(org.m_unLastDequeueSeq, LastOut, skip, sent.place)
        /\ sent.place \in 0..MaxSent /\ MaxSent \in Nat
    BY <1>2, <1>3, HalfOfThem DEF OfStream
  <2>2. LastOut \in 0..MaxSent
    BY <2>1 DEF NumberOut
  <2>3. CASE Overdue(org, p)
    <3>1. org' = org /\ handed' = <<>> /\ before' = LastOut
      <4>1. Insert(org, p) = [o |-> org, frames |-> <<>>]
        BY <2>3 DEF Insert
      <4> QED
        BY <1>1, <2>3, <4>1
    <3> QED
      BY <2>1, <2>2, <3>1 DEF Wholes, After
  <2>4. CASE ~Overdue(org, p)
    <3> DEFINE s == MakeRoom(org).m_unLastDequeueSeq
    <3>1. s = IF Full(org) THEN INVALID_RTP_SEQ ELSE org.m_unLastDequeueSeq
      BY <1>2, <1>4, <1>5, MakeRoomKeeps
    <3>2. Two(S, s, handed', org'.m_unLastDequeueSeq)
      BY <1>1, <1>2, <1>4, <1>5, <2>4, InsertKeeps
    <3> HIDE DEF s
    <3>3. NumberOut(s, before', skip, sent.place)
      BY <1>1, <2>1, <2>4, <3>1 DEF NumberOut
    <3> QED
      BY <1>1, <2>1, <2>2, <2>4, <3>2, <3>3, TwoGoesOn DEF S
  <2> QED
    BY <2>3, <2>4
<1>8. TypeOK'
  <2>1. Seq(S) \subseteq Seq(Packet)
    BY <1>4
  <2>2. org' \in Org(Packet)
    BY <1>6, <2>1 DEF Org
  <2> DEFINE Handed == [packets : Seq(Packet), lost : BOOLEAN]
  <2>3. Frame(S) \subseteq Handed
    BY <2>1 DEF Frame
  <2> HIDE DEF Handed
  <2>4. handed' \in Seq(Handed)
    BY <1>6, <2>3
  <2>5. net' \subseteq Packet /\ sent' = sent
    BY <1>1, <1>2
  <2> QED
    BY <1>2, <1>6, <1>7, <2>2, <2>4, <2>5 DEF TypeOK, Org, Handed
<1>9. QueueInv'
  BY <1>6 DEF QueueInv, Known, WrapKnown, CountKnown
<1>10. StreamInv'
  <2>1. org'.m_RtpQueue \in Seq(S)
    BY <1>6, OrgFields
  <2>2. NumberOut(org.m_unLastDequeueSeq, LastOut, skip, sent.place)'
    BY <1>1, <1>7 DEF LastOut, After, NumberOut
  <2>3. OfStream(skip, T)'
    BY <1>1, <1>3, <2>1, <2>2 DEF OfStream, S
  <2> QED
    BY <2>3 DEF StreamInv
<1>11. WholeFrames'
  BY <1>7 DEF WholeFrames, Wholes
<1> QED
  BY <1>8, <1>9, <1>10, <1>11 DEF IInv

\* An audio packet, which is only counted.
LEMMA AudioIInv == IInv /\ InsertAudioPacket => IInv'
<1> SUFFICES ASSUME IInv, InsertAudioPacket PROVE IInv'
  OBVIOUS
<1>1. /\ org.m_RtpAudioQueue < MaxAudio
      /\ org' = [org EXCEPT !.m_RtpAudioQueue = @ + 1]
      /\ handed' = <<>> /\ before' = LastOut /\ sent' = sent /\ net' = net
  BY DEF InsertAudioPacket
<1>2. org \in Org(Packet) /\ MaxAudio \in Nat
  BY RtpFrameOrganizerAssumption DEF IInv, TypeOK, Org
<1>3. /\ org'.m_RtpQueue = org.m_RtpQueue
      /\ org'.m_unCurFrameNum = org.m_unCurFrameNum
      /\ org'.m_bSeqReversal = org.m_bSeqReversal
      /\ org'.m_unSeqReversalPos = org.m_unSeqReversalPos
      /\ org'.m_unLastDequeueSeq = org.m_unLastDequeueSeq
  BY <1>1, <1>2 DEF Org
<1>4. org' \in Org(Packet)
  <2>1. org.m_RtpAudioQueue + 1 \in 0..MaxAudio
    BY <1>1, <1>2, OrgFields
  <2> QED
    BY <1>1, <1>2, <2>1 DEF Org
<1>5. PICK skip \in 0..1, T \in Stamps : OfStream(skip, T)
  BY DEF IInv, StreamInv
<1>6. TypeOK'
  <2>1. LastOut \in 0..MaxSent
    BY <1>5, HalfOfThem DEF OfStream, NumberOut, IInv, TypeOK
  <2> QED
    BY <1>1, <1>3, <1>4, <2>1 DEF IInv, TypeOK, Org
<1>7. QueueInv'
  BY <1>3 DEF IInv, QueueInv, Known, WrapKnown, CountKnown
<1>8. StreamInv'
  <2>1. NumberOut(org.m_unLastDequeueSeq, LastOut, skip, sent.place)'
    BY <1>1, <1>3, <1>5 DEF OfStream, NumberOut, LastOut
  <2>2. OfStream(skip, T)'
    BY <1>1, <1>3, <1>5, <2>1 DEF OfStream
  <2> QED
    BY <2>2 DEF StreamInv
<1>9. WholeFrames'
  BY <1>1 DEF WholeFrames
<1> QED
  BY <1>6, <1>7, <1>8, <1>9 DEF IInv

\* The sender: the skip becomes known when it sends the largest number, the
\* next time stamp when it sends anything.
LEMMA SendIInv == IInv /\ Send => IInv'
<1> SUFFICES ASSUME IInv, Send PROVE IInv'
  OBVIOUS
<1>1. PICK marker \in BOOLEAN :
        LET p == [place |-> sent.place + 1, usSeq |-> sent.usSeq,
                  unTimestamp |-> sent.unTimestamp, bMarker |-> marker]
        IN /\ net' = {q \in net : q.place + Window > p.place} \cup {p}
           /\ \E next \in IF p.usSeq = MAX_RTP_SEQ THEN {0, 1} ELSE {p.usSeq + 1} :
                sent' = [place |-> p.place, usSeq |-> next,
                         unTimestamp |-> p.unTimestamp + (IF marker THEN 1 ELSE 0)]
  BY DEF Send
<1> DEFINE p == [place |-> sent.place + 1, usSeq |-> sent.usSeq,
                 unTimestamp |-> sent.unTimestamp, bMarker |-> marker]
           stamp == sent.unTimestamp + (IF marker THEN 1 ELSE 0)
<1>2. PICK next \in IF sent.usSeq = MAX_RTP_SEQ THEN {0, 1} ELSE {sent.usSeq + 1} :
        sent' = [place |-> sent.place + 1, usSeq |-> next, unTimestamp |-> stamp]
  BY <1>1
<1>3. org' = org /\ handed' = handed /\ before' = before /\ sent.place < MaxSent
  BY DEF Send
<1>4. /\ sent.place \in 0..MaxSent /\ sent.usSeq \in Seq16 /\ sent.unTimestamp \in Nat
      /\ net \subseteq Packet /\ MAX_RTP_SEQ \in Nat /\ MAX_RTP_SEQ >= 1 /\ MaxSent \in Nat
      /\ First \in 0..MAX_RTP_SEQ /\ Half \in Nat /\ Half + Half <= MAX_RTP_SEQ /\ MaxSent < Half
  BY RtpFrameOrganizerAssumption, HalfOfThem DEF IInv, TypeOK
<1>5. p \in Packet
  BY <1>3, <1>4 DEF Packet
<1>6. next \in Seq16 /\ stamp \in Nat
  BY <1>2, <1>4 DEF Seq16
<1> HIDE DEF p, stamp
<1>7. /\ sent'.place = sent.place + 1 /\ sent'.usSeq = next /\ sent'.unTimestamp = stamp
      /\ net' \subseteq net \cup {p}
  BY <1>1, <1>2 DEF p
<1>8. TypeOK'
  <2>1. sent' \in [place : 0..MaxSent, usSeq : Seq16, unTimestamp : Nat]
    BY <1>2, <1>3, <1>4, <1>6
  <2> QED
    BY <1>3, <1>4, <1>5, <1>7, <2>1 DEF IInv, TypeOK
<1>9. QueueInv' /\ WholeFrames'
  BY <1>3 DEF IInv, QueueInv, Known, WrapKnown, CountKnown, WholeFrames
<1>10. StreamInv'
  <2>1. PICK skip \in 0..1, T \in Stamps : OfStream(skip, T)
    BY DEF IInv, StreamInv
  <2>2. PICK skip2 \in 0..1 : skip2 = IF sent.usSeq = MAX_RTP_SEQ THEN next ELSE skip
    BY <1>2
  <2>3. PICK T2 \in Stamps : /\ T2[sent.place + 2] = stamp
                             /\ \A k \in 1..(sent.place + 1) : T2[k] = T[k]
    <3> DEFINE E == [T EXCEPT ![sent.place + 2] = stamp]
    <3>1. /\ E \in Stamps /\ E[sent.place + 2] = stamp
          /\ \A k \in 1..(sent.place + 1) : E[k] = T[k]
      <4>1. sent.place + 2 \in 1..(MaxSent + 1)
        BY <1>3, <1>4
      <4>2. 1..(sent.place + 1) \subseteq 1..(MaxSent + 1)
        BY <1>3, <1>4
      <4>3. \A k \in 1..(sent.place + 1) : k # sent.place + 2
        BY <1>4
      <4>4. T \in [1..(MaxSent + 1) -> Nat]
        BY <2>1 DEF Stamps
      <4> QED
        BY <1>6, <4>1, <4>2, <4>3, <4>4 DEF Stamps
    <3> HIDE DEF E
    <3> QED
      BY <3>1
  <2> DEFINE Old == Genuine(sent.place, skip, T)
             New == Genuine(sent.place + 1, skip2, T2)
  <2>4. \A k \in 1..(sent.place + 1) : Number(k, skip2) = Number(k, skip)
    <3>1. sent.usSeq = Number(sent.place + 1, skip)
      BY <2>1 DEF OfStream
    <3>2. CASE First + sent.place <= MAX_RTP_SEQ
      BY <1>4, <3>2 DEF Number
    <3>3. CASE First + sent.place > MAX_RTP_SEQ
      <4>1. sent.usSeq # MAX_RTP_SEQ
        BY <1>3, <1>4, <2>1, <3>1, <3>3 DEF Number
      <4> QED
        BY <2>2, <4>1
    <3> QED
      BY <1>4, <3>2, <3>3
  <2>5. next = Number(sent.place + 2, skip2)
    <3>1. sent.usSeq = Number(sent.place + 1, skip)
      BY <2>1 DEF OfStream
    <3>2. /\ Number(sent.place + 1, skip) = IF First + sent.place <= MAX_RTP_SEQ
                                            THEN First + sent.place
                                            ELSE First + sent.place - (MAX_RTP_SEQ + 1) + skip
          /\ Number(sent.place + 2, skip2) = IF First + sent.place + 1 <= MAX_RTP_SEQ
                                             THEN First + sent.place + 1
                                             ELSE First + sent.place - MAX_RTP_SEQ + skip2
      BY <1>4 DEF Number
    <3>3. CASE sent.usSeq = MAX_RTP_SEQ
      <4>1. First + sent.place = MAX_RTP_SEQ
        BY <1>3, <1>4, <2>1, <3>1, <3>2, <3>3
      <4> QED
        BY <1>4, <2>2, <3>2, <3>3, <4>1
    <3>4. CASE sent.usSeq # MAX_RTP_SEQ
      <4>1. next = sent.usSeq + 1 /\ skip2 = skip
        BY <1>2, <2>2, <3>4
      <4> QED
        BY <1>4, <2>1, <3>1, <3>2, <3>4, <4>1
    <3> QED
      BY <3>3, <3>4
  <2>6. Old \subseteq New
    <3> SUFFICES ASSUME NEW g \in Old PROVE g \in New
      OBVIOUS
    <3>1. /\ g \in Packet /\ g.place <= sent.place /\ g.usSeq = Number(g.place, skip)
          /\ g.unTimestamp = T[g.place] /\ (~g.bMarker => T[g.place + 1] = g.unTimestamp)
      BY DEF Genuine
    <3>2. g.place \in 1..(sent.place + 1) /\ g.place + 1 \in 1..(sent.place + 1)
      BY <1>4, <3>1, PacketFields
    <3> QED
      BY <1>4, <2>3, <2>4, <3>1, <3>2 DEF Genuine
  <2>7. p \in New
    <3>1. /\ p.place = sent.place + 1 /\ p.usSeq = sent.usSeq
          /\ p.unTimestamp = sent.unTimestamp /\ p.bMarker = marker
      BY DEF p
    <3>2. sent.place + 1 \in 1..(sent.place + 1) /\ (sent.place + 1) + 1 = sent.place + 2
      BY <1>4
    <3>3. p.usSeq = Number(p.place, skip2) /\ p.unTimestamp = T2[p.place]
      BY <2>1, <2>3, <2>4, <3>1, <3>2 DEF OfStream
    <3>4. ~marker => stamp = sent.unTimestamp
      BY <1>4 DEF stamp
    <3> QED
      BY <1>4, <1>5, <2>3, <3>1, <3>2, <3>3, <3>4 DEF Genuine
  <2>8. OfStream(skip2, T2)'
    <3>1. net' \subseteq New
      BY <1>7, <2>1, <2>6, <2>7 DEF OfStream
    <3>2. org'.m_RtpQueue \in Seq(New)
      <4>1. org.m_RtpQueue \in Seq(Old)
        BY <2>1 DEF OfStream
      <4> HIDE DEF Old, New
      <4> QED
        BY <1>3, <2>6, <4>1
    <3>3. sent'.place + 1 = sent.place + 2
      BY <1>4, <1>7
    <3>4. NumberOut(org.m_unLastDequeueSeq, LastOut, skip2, sent.place)'
      <4>1. NumberOut(org.m_unLastDequeueSeq, LastOut, skip, sent.place)
        BY <2>1 DEF OfStream
      <4>2. LastOut' = LastOut
        BY <1>3 DEF LastOut
      <4> QED
        BY <1>3, <1>4, <1>7, <2>4, <4>1, <4>2 DEF NumberOut
    <3> QED
      BY <1>7, <2>3, <2>5, <3>1, <3>2, <3>3, <3>4 DEF OfStream
  <2> QED
    BY <2>8 DEF StreamInv
<1> QED
  BY <1>8, <1>9, <1>10 DEF IInv

\* Every step keeps the invariant.
LEMMA NextIInv == IInv /\ [Next]_vars => IInv'
<1> SUFFICES ASSUME IInv, [Next]_vars PROVE IInv'
  OBVIOUS
<1>1. CASE InsertRtpPacket
  BY <1>1, InsertIInv
<1>2. CASE InsertAudioPacket
  BY <1>2, AudioIInv
<1>3. CASE Send
  BY <1>3, SendIInv
<1>4. CASE UNCHANGED vars
  <2>1. org' = org /\ handed' = handed /\ before' = before /\ sent' = sent /\ net' = net
    BY <1>4 DEF vars
  <2>2. StreamInv'
    <3>1. PICK skip \in 0..1, T \in Stamps : OfStream(skip, T)
      BY DEF IInv, StreamInv
    <3>2. OfStream(skip, T)'
      BY <2>1, <3>1 DEF OfStream, NumberOut, LastOut
    <3> QED
      BY <3>2 DEF StreamInv
  <2> QED
    BY <2>1, <2>2 DEF IInv, TypeOK, QueueInv, Known, WrapKnown, CountKnown, WholeFrames
<1> QED
  BY <1>1, <1>2, <1>3, <1>4 DEF Next

-----------------------------------------------------------------------------
(* Theorems.                                                               *)

\* The inductive invariant holds of every state.
THEOREM Invariant == Spec => []IInv
BY InitIInv, NextIInv, PTL DEF Spec

\* Every variable keeps its type, and the queue its bound, however broken the
\* stream.
THEOREM TypeCorrect == Spec => []TypeOK
<1>1. IInv => TypeOK
  BY DEF IInv
<1> QED
  BY <1>1, Invariant, PTL

\* The place of the wrap, the flag and the count of complete frames are true of
\* the queue, and a loss holds back no more frames than the cache is meant for.
THEOREM TheQueueIsKnown == Spec => []QueueIsKnown
<1>1. IInv => QueueIsKnown
  <2> SUFFICES ASSUME IInv PROVE QueueIsKnown
    OBVIOUS
  <2> DEFINE q == org.m_RtpQueue
             falls == {i \in 1..(Len(q) - 1) : q[i].usSeq > q[i + 1].usSeq}
  <2>1. q \in Seq(Packet) /\ DOMAIN q = 1..Len(q) /\ org.m_bSeqReversal \in BOOLEAN
    BY DEF IInv, TypeOK
  <2>2. falls = IF org.m_bSeqReversal THEN {org.m_unSeqReversalPos} ELSE {}
    BY <2>1 DEF IInv, QueueInv, Known, WrapKnown
  <2>3. {i \in DOMAIN q : q[i].bMarker} = Marks(q)
    BY <2>1 DEF Marks
  <2> QED
    BY <2>2, <2>3 DEF IInv, QueueInv, Known, CountKnown, QueueIsKnown
<1> QED
  BY <1>1, Invariant, PTL

\* So insert never refuses a packet because the place of the wrap is lost
\* (RtpFrameOrganizer.cpp:348), whatever packet comes next.
THEOREM NoPacketIsRefused ==
  Spec => [](\A p \in Packet : ~WrapLost(EndFrame(MakeRoom(org), p).o))
<1>1. IInv => \A p \in Packet : ~WrapLost(EndFrame(MakeRoom(org), p).o)
  <2> SUFFICES ASSUME IInv, NEW p \in Packet PROVE ~WrapLost(EndFrame(MakeRoom(org), p).o)
    OBVIOUS
  <2> DEFINE r == MakeRoom(org)
  <2>1. /\ org \in Org(Packet) /\ Known(org) /\ Len(org.m_RtpQueue) <= MAX_RTP_QUEUE_NUM
        /\ org.m_unCurFrameNum <= MAX_RTP_FRAME_CACHE_NUM
        /\ MAX_RTP_FRAME_CACHE_NUM \in Nat
    BY RtpFrameOrganizerAssumption DEF IInv, TypeOK, QueueInv, Org
  <2>2. r \in Org(Packet) /\ Known(r) /\ r.m_unCurFrameNum <= org.m_unCurFrameNum
    BY <2>1, MakeRoomKeeps
  <2> HIDE DEF r
  <2>3. r.m_unCurFrameNum <= MAX_RTP_FRAME_CACHE_NUM
    BY <2>1, <2>2, OrgFields
  <2>4. EndFrame(r, p).o \in Org(Packet) /\ Known(EndFrame(r, p).o)
    BY <2>2, <2>3, EndFrameKeeps, GenuineIsClosed
  <2> QED
    BY <2>4, PlaceKeeps DEF r
<1> QED
  BY <1>1, Invariant, PTL

\* A frame handed out without a loss is contiguous, but for the number 0 at the
\* wrap, and goes on where the frame handed out before it stopped, if the
\* organizer has a number to compare with.
THEOREM FramesAreWhole == Spec => []WholeFrames
<1>1. IInv => WholeFrames
  BY DEF IInv
<1> QED
  BY <1>1, Invariant, PTL
=============================================================================
