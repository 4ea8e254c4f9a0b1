----------------------------- MODULE MCRtpFrames -----------------------------
(***************************************************************************)
(* The organizer, and the conversion of what it hands out.  The converters *)
(* keep nothing from one frame to the next, so instead of converting every *)
(* frame of every stream, one frame of each shape is converted at the      *)
(* start of the stream.                                                    *)
(***************************************************************************)
EXTENDS RtpFrameOrganizer, FrameConversion

VARIABLES
  frame,    \* the frame that was converted, if any
  stream    \* the program stream that carried it

MCInit == Init /\ frame = <<>> /\ stream = <<>>

Convert ==
  /\ frame = <<>> /\ sent.place = 0
  /\ frame' \in Frames
  /\ stream' \in Streams(frame')
  /\ UNCHANGED vars

MCNext == Convert \/ (frame = <<>> /\ Next /\ UNCHANGED <<frame, stream>>)

MCSpec == MCInit /\ [][MCNext]_<<vars, frame, stream>>

\* Of a frame of one of the Shapes (which units, in how many fragments), the
\* application gets every byte once and in order, and the same from
\* CEs2PsProcessor and from CPs2EsProcessor, however the program stream is cut;
\* and the sound that closes the stream.
UnitsAreHandedOut == frame # <<>> => ReachesTheApplication(frame, stream)

\* The sound of every program stream is handed out, as the comment at
\* HstPESParse.cpp:983-985 has it ("get out the payload media bytes").
SoundIsHandedOut ==
  (\E p \in ToSet(FlattenSeq(stream)) : p.id = "AUDIO") => handleMediaFrame(stream).audio = Sound
=============================================================================
