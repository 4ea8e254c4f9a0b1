----------------------------- MODULE ResponseIds -----------------------------
(***************************************************************************)
(* What the application is promised of the response IDs it is given, and   *)
(* the peer of its requests.                                               *)
(*                                                                         *)
(* An ID is given out once for a call or a request and is live until it is *)
(* used for a BYE or an answer, or is too old.  One used for an ACK is     *)
(* kept: it does not get too old.  One that is spent is never used again.  *)
(* A BYE goes out only for a call that was acknowledged.  A request of the *)
(* peer is handled once, and is either answered or given an ID to be       *)
(* answered by, or neither.                                                *)
(***************************************************************************)
EXTENDS Naturals

CONSTANTS Call, Req, NoOne

VARIABLES id,         \* of each call and request: none, live, kept or spent
          using,      \* the use that is being made of an ID, and whose ID it is
          acked,      \* calls whose 200 was acknowledged
          sent,       \* ACKs and BYEs, with their calls
          seen,       \* requests handled
          answers     \* final answers to each request

vars == <<id, using, acked, sent, seen, answers>>

Idle == [use |-> "idle", of |-> NoOne]

Init ==
  /\ id = [x \in Call \cup Req |-> "none"]
  /\ using = Idle
  /\ acked = {}
  /\ sent = {}
  /\ seen = {}
  /\ answers = [r \in Req |-> 0]

Give(x) ==
  /\ id[x] = "none"
  /\ id' = [id EXCEPT ![x] = "live"]

Answer(r) ==
  /\ answers[r] = 0
  /\ answers' = [answers EXCEPT ![r] = 1]

\* The 200 of a call is reported.
Succeed(c) ==
  /\ Give(c)
  /\ UNCHANGED <<using, acked, sent, seen, answers>>

Handle(r) ==
  /\ r \notin seen
  /\ seen' = seen \cup {r}
  /\ \/ Give(r) /\ UNCHANGED answers
     \/ Answer(r) /\ UNCHANGED id
     \/ UNCHANGED <<id, answers>>
  /\ UNCHANGED <<using, acked, sent>>

\* IDs that are live and not kept may get too old, several at once.
Expire(S) ==
  /\ \A x \in S : id[x] = "live"
  /\ id' = [x \in Call \cup Req |-> IF x \in S THEN "spent" ELSE id[x]]
  /\ UNCHANGED <<using, acked, sent, seen, answers>>

Use(x, use) ==
  /\ using = Idle
  /\ id[x] \in {"live", "kept"}
  /\ id' = [id EXCEPT ![x] = IF use = "ACK" THEN "kept" ELSE "spent"]
  /\ using' = [use |-> use, of |-> x]
  /\ UNCHANGED <<acked, sent, seen, answers>>

\* The use is over; what it sends may not get out.
MaySend == sent' \in {sent, sent \cup {<<using.use, using.of>>}}

Used ==
  /\ \/ /\ using.use = "ACK"
        /\ acked' \in {acked, acked \cup {using.of}}
        /\ MaySend
        /\ UNCHANGED answers
     \/ /\ using.use = "BYE"
        /\ (using.of \in acked /\ MaySend) \/ UNCHANGED sent
        /\ UNCHANGED <<acked, answers>>
     \/ /\ using.use = "ANSWER"
        /\ Answer(using.of) \/ UNCHANGED answers
        /\ UNCHANGED <<acked, sent>>
  /\ using' = Idle
  /\ UNCHANGED <<id, seen>>

Next ==
  \/ \E c \in Call : Succeed(c) \/ (\E use \in {"ACK", "BYE"} : Use(c, use))
  \/ \E r \in Req : Handle(r) \/ Use(r, "ANSWER")
  \/ \E S \in SUBSET (Call \cup Req) : Expire(S)
  \/ Used

Spec == Init /\ [][Next]_vars
=============================================================================
