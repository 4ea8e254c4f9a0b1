-------------------------- MODULE RtpFrameOrganizer --------------------------
(***************************************************************************)
(* CRtpFrameOrganizer (RtpFrameOrganizer.cpp): puts RTP packets that come  *)
(* late, twice or not at all back into the order of their wrapping         *)
(* sequence numbers, and hands them out frame by frame.                    *)
(*                                                                         *)
(* The queue is sorted.  When the numbers wrap inside it, m_bSeqReversal   *)
(* is set and m_unSeqReversalPos packets are from before the wrap.  Every  *)
(* call is one action: CPs2EsProcessor::receviePacket holds its mutex.     *)
(* The sender and the network are the environment; a packet that parses is *)
(* its place in the sender's stream, its number, time stamp and marker.    *)
(***************************************************************************)
EXTENDS Naturals, Sequences, FiniteSets, FiniteSetsExt, SequencesExt

CONSTANTS MAX_RTP_SEQ,
          MAX_RTP_FRAME_CACHE_NUM,
          MAX_RTP_QUEUE_NUM,
          First,       \* the sender's first sequence number
          Window,      \* bound: a packet is late by less than this many others
          MaxSent,     \* bound: packets sent
          MaxAudio     \* bound: audio packets waiting

Half == MAX_RTP_SEQ \div 2

\* The packets under way at any time span less than half the numbers, the
\* distance at which the code tells a wrap from a packet out of order.
ASSUME RtpFrameOrganizerAssumption ==
  /\ MAX_RTP_SEQ \in Nat /\ MAX_RTP_FRAME_CACHE_NUM \in Nat \ {0}
  /\ MAX_RTP_QUEUE_NUM \in Nat \ {0}
  /\ First \in 0..MAX_RTP_SEQ
  /\ Window \in Nat \ {0} /\ MaxAudio \in Nat
  /\ MaxSent \in 0..(Half - 1)

INVALID_RTP_SEQ == MAX_RTP_SEQ + 1
Seq16 == 0..MAX_RTP_SEQ

VARIABLES
  org,     \* the members of the organizer
  handed,  \* history: the frames the last call handed to the handler
  before,  \* history: the place of the packet handed out before them, 0 if
           \* the organizer has nothing it can compare the next one with
  sent,    \* the sender: packets so far, the last one's number and frame
  net      \* packets under way

vars == <<org, handed, before, sent, net>>

Packet == [place : 1..MaxSent, usSeq : Seq16, unTimestamp : Nat, bMarker : BOOLEAN]

\* The type of every variable; the queue is thrown away before it could grow
\* beyond MAX_RTP_QUEUE_NUM packets, however many a broken stream sends.
TypeOK ==
  /\ org \in [m_RtpQueue : Seq(Packet), m_RtpAudioQueue : 0..MaxAudio,
              m_unCurFrameNum : Nat, m_unLastDequeueSeq : Seq16 \cup {INVALID_RTP_SEQ},
              m_bSeqReversal : BOOLEAN, m_unSeqReversalPos : Nat]
  /\ Len(org.m_RtpQueue) <= MAX_RTP_QUEUE_NUM
  /\ handed \in Seq([packets : Seq(Packet), lost : BOOLEAN])
  /\ before \in 0..MaxSent
  /\ sent \in [place : 0..MaxSent, usSeq : Seq16, unTimestamp : Nat]
  /\ net \subseteq Packet

Init ==
  /\ org = [m_RtpQueue |-> <<>>, m_RtpAudioQueue |-> 0, m_unCurFrameNum |-> 0,
            m_unLastDequeueSeq |-> INVALID_RTP_SEQ, m_bSeqReversal |-> FALSE,
            m_unSeqReversalPos |-> 0]
  /\ handed = <<>> /\ before = 0
  /\ sent = [place |-> 0, usSeq |-> First, unTimestamp |-> 0]
  /\ net = {}

-----------------------------------------------------------------------------
(* The organizer, as functions from its members to its members.            *)

\* Mutant: the place of the wrap is not moved when packets are released.
ReleaseRtpPacketMutant(o, count) ==
  LET markers == Cardinality({i \in 1..count : o.m_RtpQueue[i].bMarker}) IN
  [o EXCEPT !.m_RtpQueue = SubSeq(@, count + 1, Len(@)),
            !.m_RtpAudioQueue = 0,
            !.m_unCurFrameNum = IF @ < markers THEN 0 ELSE @ - markers]

\* releaseRtpPacket: the first count packets, and all of the audio.
ReleaseRtpPacket(o, count) ==
  LET markers == Cardinality({i \in 1..count : o.m_RtpQueue[i].bMarker})
      wrapStays == o.m_bSeqReversal /\ o.m_unSeqReversalPos > count
  IN [o EXCEPT !.m_RtpQueue = SubSeq(@, count + 1, Len(@)),
               !.m_RtpAudioQueue = 0,
               !.m_unCurFrameNum = IF @ < markers THEN 0 ELSE @ - markers,
               !.m_bSeqReversal = wrapStays,
               !.m_unSeqReversalPos = IF wrapStays THEN @ - count ELSE 0]

\* Mutant: a loss between two frames goes unnoticed.
ExpectedMutant(o, i) ==
  LET q == o.m_RtpQueue IN
  IF i = 1 THEN q[1].usSeq
  ELSE IF q[i - 1].usSeq = MAX_RTP_SEQ THEN IF q[i].usSeq = 0 THEN 0 ELSE 1
  ELSE q[i - 1].usSeq + 1

\* The number the i-th packet must have when none is lost before it.  The
\* sender may wrap to 0 or to 1, so a lost 0 goes unnoticed.
Expected(o, i) ==
  LET q == o.m_RtpQueue IN
  IF i = 1 THEN IF o.m_unLastDequeueSeq = INVALID_RTP_SEQ THEN q[1].usSeq
                ELSE (o.m_unLastDequeueSeq + 1) % (MAX_RTP_SEQ + 1)
  ELSE IF q[i - 1].usSeq = MAX_RTP_SEQ THEN IF q[i].usSeq = 0 THEN 0 ELSE 1
  ELSE q[i - 1].usSeq + 1

\* A gap in the first frame is waited out as long as few frames are cached.
Waits(o) == o.m_unCurFrameNum <= MAX_RTP_FRAME_CACHE_NUM

\* checkFrame: the packets up to the first marker go to the handler and are
\* released, unless one is missing and the cache has room to wait for it.
\* Returns the members and the frames handed out.
CheckFrame(o) ==
  LET q == o.m_RtpQueue
      ends == {i \in DOMAIN q : q[i].bMarker}
      last == Min(ends)
      lost == \E i \in 1..last : q[i].usSeq # Expected(o, i)
  IN IF ends = {} \/ (lost /\ Waits(o))
     THEN [o |-> o, frames |-> <<>>]
     ELSE [o |-> ReleaseRtpPacket([o EXCEPT !.m_unLastDequeueSeq = q[last].usSeq], last),
           frames |-> << [packets |-> SubSeq(q, 1, last), lost |-> lost] >>]

\* Older than what was handed out last, and not numbered after a wrap.
Overdue(o, p) ==
  /\ o.m_unLastDequeueSeq # INVALID_RTP_SEQ
  /\ p.usSeq < o.m_unLastDequeueSeq
  /\ o.m_unLastDequeueSeq - p.usSeq < Half

\* Mutant: a full queue is not emptied.
FullMutant(o) == FALSE

Full(o) == Len(o.m_RtpQueue) >= MAX_RTP_QUEUE_NUM

\* A full queue is thrown away, and any number accepted next.
MakeRoom(o) ==
  IF Full(o)
  THEN ReleaseRtpPacket([o EXCEPT !.m_unLastDequeueSeq = INVALID_RTP_SEQ], Len(o.m_RtpQueue))
  ELSE o

\* A packet of another frame ends the frame of the last packet in the queue,
\* whose marker may have been lost.
EndFrame(o, p) ==
  LET q == o.m_RtpQueue
      n == Len(q)
  IN IF q = <<>> THEN [o |-> o, frames |-> <<>>]
     ELSE IF p.unTimestamp = q[n].unTimestamp THEN [o |-> o, frames |-> <<>>]
     ELSE CheckFrame(IF q[n].bMarker THEN o
                     ELSE [o EXCEPT !.m_RtpQueue[n].bMarker = TRUE,
                                    !.m_unCurFrameNum = @ + 1])

\* insertRange: where p belongs among the sorted packets from..to.
InsertRange(q, p, from, to) ==
  InsertAt(q, IF p.usSeq >= q[to].usSeq THEN to + 1
              ELSE Min({i \in from..to : p.usSeq <= q[i].usSeq}), p)

\* The place of the wrap is not inside the queue: every packet is refused.
WrapLost(o) ==
  o.m_bSeqReversal /\ o.m_RtpQueue # <<>> /\ o.m_unSeqReversalPos \notin 1..(Len(o.m_RtpQueue) - 1)

\* The end of insert: a new largest, a wrap behind or in front of the queue, a
\* packet out of order, or one that goes before or after the wrap.
Place(o, p) ==
  LET q == o.m_RtpQueue
      n == Len(q)
      pos == o.m_unSeqReversalPos
      Wrapped(queue, place) == [o EXCEPT !.m_RtpQueue = queue, !.m_bSeqReversal = TRUE,
                                         !.m_unSeqReversalPos = place]
  IN CASE q = <<>> -> [o EXCEPT !.m_RtpQueue = <<p>>]
       [] q # <<>> /\ ~o.m_bSeqReversal /\ p.usSeq >= q[n].usSeq ->
            IF p.usSeq - q[1].usSeq > Half THEN Wrapped(<<p>> \o q, 1)
            ELSE [o EXCEPT !.m_RtpQueue = Append(q, p)]
       [] q # <<>> /\ ~o.m_bSeqReversal /\ p.usSeq < q[n].usSeq ->
            IF q[n].usSeq - p.usSeq > Half THEN Wrapped(Append(q, p), n)
            ELSE [o EXCEPT !.m_RtpQueue = InsertRange(q, p, 1, n)]
       [] o.m_bSeqReversal ->
            IF (p.usSeq >= q[1].usSeq /\ p.usSeq <= q[pos].usSeq) \/ p.usSeq >= q[pos].usSeq
            THEN [o EXCEPT !.m_RtpQueue = InsertRange(q, p, 1, pos),
                           !.m_unSeqReversalPos = pos + 1]
            ELSE [o EXCEPT !.m_RtpQueue = InsertRange(q, p, pos + 1, n)]

\* insertRtpPacket for a video packet, audio having gone its own way.
Insert(o, p) ==
  LET ended == EndFrame(MakeRoom(o), p)
      placed == Place(ended.o, p)
      counted == [placed EXCEPT !.m_unCurFrameNum = IF p.bMarker THEN @ + 1 ELSE @]
      checked == IF counted.m_unCurFrameNum > 1 THEN CheckFrame(counted)
                 ELSE [o |-> counted, frames |-> <<>>]
  IN IF Overdue(o, p) THEN [o |-> o, frames |-> <<>>]
     ELSE IF WrapLost(ended.o) THEN ended
     ELSE [o |-> checked.o, frames |-> ended.frames \o checked.frames]

-----------------------------------------------------------------------------
\* The place of the packet handed out last.
LastOut == IF handed = <<>> THEN before ELSE Last(Last(handed).packets).place

InsertRtpPacket ==
  \E p \in net :
    /\ LET r == Insert(org, p) IN org' = r.o /\ handed' = r.frames
    /\ before' = IF ~Overdue(org, p) /\ Full(org) THEN 0 ELSE LastOut
    /\ net' \in {net, net \ {p}}
    /\ UNCHANGED sent

InsertAudioPacket ==
  /\ org.m_RtpAudioQueue < MaxAudio
  /\ org' = [org EXCEPT !.m_RtpAudioQueue = @ + 1]
  /\ handed' = <<>> /\ before' = LastOut
  /\ UNCHANGED <<sent, net>>

\* The sender marks the last packet of every frame and goes on with 0 or with 1
\* after the largest number; what is too late is lost.
Send ==
  /\ sent.place < MaxSent
  /\ \E marker \in BOOLEAN :
       LET p == [place |-> sent.place + 1, usSeq |-> sent.usSeq,
                 unTimestamp |-> sent.unTimestamp, bMarker |-> marker]
       IN /\ net' = {q \in net : q.place + Window > p.place} \cup {p}
          /\ \E next \in IF p.usSeq = MAX_RTP_SEQ THEN {0, 1} ELSE {p.usSeq + 1} :
               sent' = [place |-> p.place, usSeq |-> next,
                        unTimestamp |-> p.unTimestamp + (IF marker THEN 1 ELSE 0)]
  /\ UNCHANGED <<org, handed, before>>

Next == InsertRtpPacket \/ InsertAudioPacket \/ Send

Spec == Init /\ [][Next]_vars

-----------------------------------------------------------------------------
(* Properties.                                                             *)

\* The queue is in the order of the sender's stream: a packet is put before or
\* after the wrap as it was sent (RtpFrameOrganizer.cpp:355: decide whether the
\* new number is from before or after the wrap).
QueueIsInOrder ==
  LET q == org.m_RtpQueue IN
  \A i, j \in DOMAIN q : i < j => q[i].place <= q[j].place

\* What the organizer keeps beside its queue is true of the queue.  The flag
\* and the place of the wrap say exactly where the numbers fall, also after
\* packets were put in before it and released, or every packet would be
\* refused or sorted into the wrong part.  The count of complete frames is the
\* markers, those set for a packet of another frame included, and a lost
\* packet holds back no more frames than the cache is meant for.
QueueIsKnown ==
  LET q == org.m_RtpQueue
      falls == {i \in 1..(Len(q) - 1) : q[i].usSeq > q[i + 1].usSeq}
  IN /\ falls = IF org.m_bSeqReversal THEN {org.m_unSeqReversalPos} ELSE {}
     /\ org.m_unCurFrameNum = Cardinality({i \in DOMAIN q : q[i].bMarker})
     /\ org.m_unCurFrameNum <= MAX_RTP_FRAME_CACHE_NUM

\* A frame handed out without a loss is contiguous, and goes on where the frame
\* handed out before it stopped, prev being the place of that one's last packet.
\* The exception is a packet numbered 0 lost at the wrap inside a frame.
Whole(f, prev) ==
  ~f.lost =>
    /\ \A i \in 1..(Len(f.packets) - 1) :
         LET p == f.packets[i]
             q == f.packets[i + 1]
         IN \/ q.place = p.place + 1 /\ q.unTimestamp = p.unTimestamp
            \/ p.usSeq = MAX_RTP_SEQ /\ q.usSeq = 1
    /\ prev # 0 => f.packets[1].place = prev + 1

\* What is lost is reported, over the calls, releases and wraps between two
\* frames: no frame is handed out without a loss when a packet is missing inside
\* it or between it and what was handed out last (checkFrame).  It does not say
\* that a frame without a loss has all of its packets.  When the last ones are
\* lost, EndFrame makes the packet in front of them the last
\* (RtpFrameOrganizer.cpp:287-296) and the loss shows on the next frame; and
\* packets lost at the head of the stream, or of what comes first after a full
\* queue was thrown away, are not reported at all.
WholeFrames ==
  \A k \in DOMAIN handed :
    Whole(handed[k], IF k = 1 THEN before ELSE Last(handed[k - 1].packets).place)

\* No packet of a frame handed out without a loss is still under way, as the
\* comment at checkFrame has it ("check whether a frame has been received
\* completely", RtpFrameOrganizer.cpp:418).
FramesAreComplete ==
  \A f \in ToSet(handed), p \in net :
    ~f.lost /\ p.unTimestamp = f.packets[1].unTimestamp =>
      \E i \in DOMAIN f.packets : f.packets[i].place = p.place
=============================================================================
