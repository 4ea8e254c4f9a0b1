---------------------------- MODULE MissionQueue ----------------------------
(***************************************************************************)
(* What a caller of CSipStackTask::RequestToPu or RespondToPu is promised: *)
(* a first-in first-out queue with one consumer.  A mission is taken from  *)
(* the head, one at a time, only while the stack thread runs; while it     *)
(* does not run, a contiguous part of the queue may be thrown away.        *)
(***************************************************************************)
EXTENDS Naturals, Sequences

CONSTANTS Mission,    \* the objects handed to the queue
          NoMission   \* the empty hand

VARIABLES queue,    \* accepted missions, oldest first
          hand,     \* the mission being executed
          running   \* the stack thread exists

vars == <<queue, hand, running>>

Init ==
  /\ queue = <<>>
  /\ hand = NoMission
  /\ running = FALSE

Put ==
  /\ \E m \in Mission : queue' = Append(queue, m)
  /\ UNCHANGED <<hand, running>>

Take ==
  /\ running
  /\ hand = NoMission
  /\ queue # <<>>
  /\ hand' = Head(queue)
  /\ queue' = Tail(queue)
  /\ UNCHANGED running

Finish ==
  /\ hand # NoMission
  /\ hand' = NoMission
  /\ UNCHANGED <<queue, running>>

StartOrStop ==
  /\ hand = NoMission
  /\ running' = ~running
  /\ UNCHANGED <<queue, hand>>

Discard ==
  /\ ~running
  /\ \E n \in 0..Len(queue) :
        \/ queue' = SubSeq(queue, n + 1, Len(queue))
        \/ queue' = SubSeq(queue, 1, n)
  /\ UNCHANGED <<hand, running>>

Next == Put \/ Take \/ Finish \/ StartOrStop \/ Discard

Spec == Init /\ [][Next]_vars
=============================================================================
