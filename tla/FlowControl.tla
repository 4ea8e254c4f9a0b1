---------------------------- MODULE FlowControl -----------------------------
(***************************************************************************)
(* CSipStackCtrlMsgMgr (sipstack_msg_ctrl.cpp): the overload levels of the *)
(* receive queue.  m_mapCtrlMsg maps a queue length to the message kinds   *)
(* still let through at that length; it is the pair of sequences           *)
(* Thresholds and Allowed, and the iterator m_itCurrentCondition is an     *)
(* index into them, 0 standing for end().                                  *)
(***************************************************************************)
EXTENDS Naturals, Sequences

CONSTANTS Kind,         \* message kinds the control lists can name
          Thresholds,   \* the keys of m_mapCtrlMsg, in the map's order
          Allowed       \* the kinds listed at each key

ASSUME FlowControlAssumption ==
  /\ Thresholds \in Seq(Nat) /\ Len(Thresholds) >= 1
  /\ Allowed \in Seq(SUBSET Kind) /\ Len(Allowed) = Len(Thresholds)
  /\ \A i, j \in 1..Len(Thresholds) : i < j => Thresholds[i] < Thresholds[j]

EndLevel == 0
Level == 0..Len(Thresholds)

\* LoadConfig leaves the iterator at begin().
LoadedLevel == 1

\* UpdateCondition: one step up when the count reaches the next key.  The
\* branch for a count at or below the current key never moves the iterator.
UpdateCondition(level, count) ==
  LET current == IF level = EndLevel THEN 1 ELSE level
  IN  IF /\ count > Thresholds[current]
         /\ current < Len(Thresholds)
         /\ count >= Thresholds[current + 1]
      THEN current + 1
      ELSE current

\* IsControl2Drop: is a request of this kind answered 503 and dropped?
IsControl2Drop(level, kind) ==
  /\ level # EndLevel
  /\ ~(Thresholds[level] = 0 /\ Allowed[level] = {})
  /\ \A i \in level..Len(Thresholds) : kind \notin Allowed[i]
=============================================================================
