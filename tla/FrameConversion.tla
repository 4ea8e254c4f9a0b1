--------------------------- MODULE FrameConversion ---------------------------
(***************************************************************************)
(* What the RTP library hands to the application of one H.264 frame.       *)
(* CEs2PsProcessor cuts the frame out of the RTP packets of RFC 3984,      *)
(* CPs2EsProcessor out of the byte stream of a program stream.             *)
(*                                                                         *)
(* A unit (NALU) is its header followed by the parts of its payload.  A    *)
(* buffer handed out is a sequence of units: the code writes a start code  *)
(* before each.  A unit of several packets is fragmented (FU-A).  The size *)
(* of the frame's cache is left out, and so are bytes that do not parse.   *)
(***************************************************************************)
EXTENDS Naturals, FiniteSetsExt, SequencesExt

CONSTANT MaxCells   \* cells in the parser's buffers, more than any frame has

Parameters == {"SPS", "PPS", "SEI"}   \* the units the code treats alone
Picture    == {"IDR", "SLICE"}

Type(unit) == unit[1].TYPE

-----------------------------------------------------------------------------
(* CEs2PsProcessor: a packet has its TYPE, a fragment the flag E of its end,  *)
(* and head and data are the unit's header and the part the packet bears.  *)

\* The first packet at which parseSingleNalu leaves its loop.
Rest(packets) ==
  Min({Len(packets) + 1} \cup
      {i \in DOMAIN packets : \/ packets[i].TYPE = "FU_A"
                              \/ packets[i].TYPE \in Parameters /\ i = Len(packets)})

\* The packets handed out alone; the others before Rest are thrown away.
parseSingleNalu(packets) ==
  {i \in 1..(Rest(packets) - 1) : \/ packets[i].TYPE \in Parameters
                                  \/ packets[i].TYPE = "SLICE" /\ i = Len(packets)}

handleSingleNalu(p) == <<<<p.head, p.data>>>>

\* A slip: a second field is written as if it went on with the first.
WritePacketMutant(st, p, isLast) ==
  [buffer |-> IF p.TYPE = "FU_A" /\ ~st.bRemoveHead
              THEN [st.buffer EXCEPT ![Len(st.buffer)] = Append(@, p.data)]
              ELSE [st.buffer EXCEPT ![Len(st.buffer)] = @ \o <<p.head, p.data>>],
   bRemoveHead |-> FALSE, bFuStop |-> FALSE]

\* Writes one packet behind what is written, and after the end of a field
\* starts the unit of the next one.
WritePacket(st, p, isLast) ==
  LET isFu == p.TYPE = "FU_A"
      bytes == IF isFu /\ ~st.bRemoveHead THEN <<p.data>> ELSE <<p.head, p.data>>
      written == [st.buffer EXCEPT ![Len(st.buffer)] = @ \o bytes]
      bFuStop == st.bFuStop \/ (isFu /\ p.E)
  IN CASE ~isFu /\ p.TYPE \notin Parameters -> st
       [] bFuStop /\ ~isLast ->
            [buffer |-> Append(written, <<>>), bRemoveHead |-> TRUE, bFuStop |-> FALSE]
       [] OTHER ->
            [buffer |-> written, bRemoveHead |-> st.bRemoveHead /\ ~isFu, bFuStop |-> bFuStop]

\* The buffers of a frame, in the order of the callbacks.
handleVideoRtpFrame(packets) ==
  LET alone == SetToSortSeq(parseSingleNalu(packets), <)
      left  == [i \in 1..(Len(packets) + 1 - Rest(packets)) |-> Rest(packets) + i - 1]
      start == [buffer |-> <<<<>>>>, bRemoveHead |-> TRUE, bFuStop |-> FALSE]
  IN [i \in DOMAIN alone |-> handleSingleNalu(packets[alone[i]])] \o
     IF left = <<>> THEN <<>>
     ELSE <<FoldLeft(LAMBDA st, i : WritePacket(st, packets[i], i = Len(packets)),
                     start, left).buffer>>

-----------------------------------------------------------------------------
(* CPs2EsProcessor: the stream is the sequence of the frame's units.         *)

\* The unit at which parseSingleNalu stops.
LastParsed(units) ==
  Min({Len(units)} \cup {i \in DOMAIN units : Type(units[i]) \in Picture})

\* Where pCopyPoint is before unit i is read.
CopyPoint(units, i) ==
  Max({1} \cup {j \in 1..(i - 1) : Type(units[j]) \in Parameters \cup Picture})

\* The units at which what lies behind the copy point is cut off.
Cuts(units) ==
  {i \in 2..LastParsed(units) : Type(units[i]) \in Picture \cup {"SEI", "PPS"}}

\* A frame that ends in none of the known units is thrown away as a whole.
parseH264frame(units) ==
  LET cuts == SetToSortSeq(Cuts(units), <)
      end  == LastParsed(units)
  IN IF Type(units[end]) \notin Parameters \cup Picture THEN <<>>
     ELSE [k \in DOMAIN cuts |-> SubSeq(units, CopyPoint(units, cuts[k]), cuts[k] - 1)]
          \o <<SubSeq(units, CopyPoint(units, end + 1), Len(units))>>

-----------------------------------------------------------------------------
(* CHstPESParse and its caller take the units out of the program stream: a   *)
(* frame is a sequence of packs, a pack (the first may lack its header) one  *)
(* of PES packets, each with the id of its stream and its data.              *)

Stale == [nal |-> 0, TYPE |-> "STALE", part |-> 1]   \* what the memory held before
Blank == [i \in 1..MaxCells |-> Stale]

Write(buf, at, data) ==
  [i \in DOMAIN buf |-> IF i \in (at + 1)..(at + Len(data)) THEN data[i - at] ELSE buf[i]]

\* Sound is written where the next packet's data will be: only pictures move
\* the place on.
ParsePESHeader(frame, pes) ==
  LET written == Write(frame.buf, frame.length, pes.data)
  IN CASE pes.id = "VIDEO" -> [frame EXCEPT !.buf = written, !.length = @ + Len(pes.data)]
       [] pes.id = "AUDIO" -> [frame EXCEPT !.buf = written, !.audio_length = @ + Len(pes.data)]
       [] OTHER            -> frame

\* A pack starts the buffer again; audio_length goes on.
ParsePSPacket(frame, pack) == FoldLeft(ParsePESHeader, [frame EXCEPT !.length = 0], pack)

HSPspkt2ESFrm(packs) ==
  LET Pack(es, pack) ==
        LET stPSFrame == ParsePSPacket(es.stPSFrame, pack)
        IN [stPSFrame |-> stPSFrame,
            payload |-> Write(es.payload, es.video,
                              SubSeq(stPSFrame.buf, 1, stPSFrame.length + stPSFrame.audio_length)),
            video |-> es.video + stPSFrame.length,
            audio |-> es.audio + stPSFrame.audio_length]
  IN FoldLeft(Pack, [stPSFrame |-> [buf |-> Blank, length |-> 0, audio_length |-> 0],
                     payload |-> Blank, video |-> 0, audio |-> 0], packs)

\* The bytes as units, cut before each start code.
UnitsOf(cells) ==
  LET starts == SetToSortSeq({i \in DOMAIN cells : cells[i].part = 0}, <)
      End(k) == IF k = Len(starts) THEN Len(cells) ELSE starts[k + 1] - 1
  IN [k \in DOMAIN starts |-> SubSeq(cells, starts[k], End(k))]

\* What the application gets of a frame: buffers of pictures, then sound.
handleMediaFrame(packs) ==
  LET es == HSPspkt2ESFrm(packs)
  IN [video |-> IF es.video = 0 THEN <<>>
                ELSE parseH264frame(UnitsOf(SubSeq(es.payload, 1, es.video))),
      audio |-> SubSeq(es.payload, es.video + 1, es.video + es.audio)]

-----------------------------------------------------------------------------
(* The frames the comments speak of (Es2PsProcessor.cpp:489-491): parameter  *)
(* units of a packet each, then an IDR frame or the two fields of one, or a  *)
(* P frame, which may fit into one packet.                                   *)

Unit(n, type, parts) == [k \in 1..(parts + 1) |-> [nal |-> n, TYPE |-> type, part |-> k - 1]]

Shapes ==
  LET before == {<<>>, <<"SEI">>, <<"SPS", "PPS">>, <<"SPS", "PPS", "SEI">>}
      after  == {<<>>} \cup
                {<<<<"IDR", n>>>> : n \in 2..3} \cup
                {<<<<"IDR", n>>, <<"IDR", m>>>> : n \in 2..3, m \in 2..3} \cup
                {<<<<"SLICE", n>>>> : n \in 1..3}
  IN {[i \in DOMAIN b |-> <<b[i], 1>>] \o a : b \in before, a \in after} \ {<<>>}

Frames == {[n \in DOMAIN s |-> Unit(n, s[n][1], s[n][2])] : s \in Shapes}

\* The packets the sender makes of a unit.
PacketsOf(unit) ==
  IF Len(unit) = 2 THEN <<[TYPE |-> Type(unit), head |-> unit[1], data |-> unit[2]]>>
  ELSE [k \in 1..(Len(unit) - 1) |->
          [TYPE |-> "FU_A", head |-> unit[1], data |-> unit[k + 1],
           E |-> k = Len(unit) - 1]]

Sound == <<[nal |-> 0, TYPE |-> "AUDIO", part |-> 1], [nal |-> 0, TYPE |-> "AUDIO", part |-> 2]>>

\* The program streams that carry frame f: the map, the picture in one PES
\* packet or cut into two anywhere, sound before or behind any of them or none,
\* in one pack or two.
Streams(f) ==
  LET cells == FlattenSeq(f)
      video(d) == [id |-> "VIDEO", data |-> d]
      whole == {<<video(cells)>>} \cup
               {<<video(SubSeq(cells, 1, k)), video(SubSeq(cells, k + 1, Len(cells)))>> :
                  k \in 1..(Len(cells) - 1)}
      pes == whole \cup UNION {{InsertAt(w, i, [id |-> "AUDIO", data |-> Sound]) :
                                    i \in 1..(Len(w) + 1)} : w \in whole}
      packs(p) == {<<p>>} \cup {<<SubSeq(p, 1, k), SubSeq(p, k + 1, Len(p))>> : k \in 1..(Len(p) - 1)}
  IN UNION {packs(<<[id |-> "MAP", data |-> <<>>]>> \o p) : p \in pes}

\* The application gets every byte of frame f once and in order, a parameter
\* unit that is not the last unit in a buffer of its own, and the same buffers
\* whether f came as packets or in a program stream, however that is cut and
\* whatever sound lies between; and the sound, if it closes the stream.
ReachesTheApplication(f, packs) ==
  LET packets == FlattenSeq([n \in DOMAIN f |-> PacketsOf(f[n])])
      buffers == handleVideoRtpFrame(packets)
      parsed  == handleMediaFrame(packs)
  IN /\ FlattenSeq(buffers) = f
     /\ \A b \in ToSet(buffers) : Type(b[1]) \in Parameters => Len(b) = 1
     /\ parsed.video = buffers
     /\ Last(Last(packs)).id = "AUDIO" => parsed.audio = Sound
=============================================================================
