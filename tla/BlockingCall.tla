----------------------------- MODULE BlockingCall -----------------------------
(***************************************************************************)
(* What an application that calls SyncSendInviteEx, SyncSendMsgEx or       *)
(* SendRegister is promised: the call is made in one piece.  A call is     *)
(* refused before its request is out, or it ends, at one instant, with the *)
(* last message given to it by then, or with none if there is none.  While *)
(* it has not ended every message for it is given to it; only later ones   *)
(* are dropped, and none is given to a call of another Call-ID.            *)
(***************************************************************************)
CONSTANTS Caller,     \* threads, each in one call at a time
          Call,       \* calls, each made once
          NoCall,
          Message,
          NoMessage,
          CallOf      \* the call a message is for

VARIABLES making,     \* per thread: its call
          phase,      \* per call: where it is
          box,        \* per call: the message given to it last
          answer,     \* per call: what it ends with
          seen        \* messages given or dropped

vars == <<making, phase, box, answer, seen>>

Init ==
  /\ making = [t \in Caller |-> NoCall]
  /\ phase = [c \in Call |-> "new"]
  /\ box = [c \in Call |-> NoMessage]
  /\ answer = [c \in Call |-> NoMessage]
  /\ seen = {}

Turn(c, from, to) == phase[c] = from /\ phase' = [phase EXCEPT ![c] = to]

Begin(t, c) ==
  /\ making[t] = NoCall
  /\ making' = [making EXCEPT ![t] = c]
  /\ Turn(c, "new", "begun")
  /\ UNCHANGED <<box, answer, seen>>

\* The stack takes the request, or does not.
Ask(t, c) ==
  /\ making[t] = c
  /\ Turn(c, "begun", "asked") \/ Turn(c, "begun", "refused")
  /\ UNCHANGED <<making, box, answer, seen>>

Give(m) ==
  /\ m \notin seen
  /\ phase[CallOf[m]] = "asked"
  /\ box' = [box EXCEPT ![CallOf[m]] = m]
  /\ seen' = seen \cup {m}
  /\ UNCHANGED <<making, phase, answer>>

Drop(m) ==
  /\ m \notin seen
  /\ phase[CallOf[m]] = "ended"
  /\ seen' = seen \cup {m}
  /\ UNCHANGED <<making, phase, box, answer>>

\* The call's instant: an answer, or its time is up.
End(t, c) ==
  /\ making[t] = c
  /\ Turn(c, "asked", "ended")
  /\ answer' = [answer EXCEPT ![c] = box[c]]
  /\ box' = [box EXCEPT ![c] = NoMessage]
  /\ UNCHANGED <<making, seen>>

Leave(t, c) ==
  /\ making[t] = c
  /\ phase[c] \in {"refused", "ended"}
  /\ making' = [making EXCEPT ![t] = NoCall]
  /\ UNCHANGED <<phase, box, answer, seen>>

Next ==
  \/ \E t \in Caller, c \in Call : Begin(t, c) \/ Ask(t, c) \/ End(t, c) \/ Leave(t, c)
  \/ \E m \in Message : Give(m) \/ Drop(m)

Spec == Init /\ [][Next]_vars
=============================================================================
