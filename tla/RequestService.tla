---------------------------- MODULE RequestService ----------------------------
(***************************************************************************)
(* What the application is promised of the requests it hands to CSipStack. *)
(*                                                                         *)
(* A request is sent once, or refused, and while it waits, in the          *)
(* registration it was sent in, it ends in one way: it is answered,        *)
(* redirected to a server not used before, or, with all the others that    *)
(* wait, cleared by the UNREGISTER that ends the registration.  In the     *)
(* meantime it may be challenged: a copy more is sent for each challenge,  *)
(* and every request that is answered renews the number of challenges the  *)
(* requests together may meet.                                             *)
(***************************************************************************)
EXTENDS Naturals

CONSTANTS Request,
          Server, LoginServer,
          Limit          \* challenges that may be met after the first

VARIABLES outcome,       \* of each request
          copies,        \* of each request, sent
          sentIn,        \* the registration each request was sent in
          registration,  \* the present one
          challenges,    \* met since the last answer
          used           \* servers

vars == <<outcome, copies, sentIn, registration, challenges, used>>

Init ==
  /\ outcome = [r \in Request |-> "unsent"]
  /\ copies = [r \in Request |-> 0]
  /\ sentIn = [r \in Request |-> 0]
  /\ registration = 0
  /\ challenges = 0
  /\ used = {LoginServer}

Refuse(r) ==
  /\ outcome[r] = "unsent"
  /\ outcome' = [outcome EXCEPT ![r] = "refused"]
  /\ UNCHANGED <<copies, sentIn, registration, challenges, used>>

Sent(r) ==
  /\ outcome[r] = "unsent"
  /\ copies' = [copies EXCEPT ![r] = 1]
  /\ sentIn' = [sentIn EXCEPT ![r] = registration]
  /\ UNCHANGED <<challenges, used>>

Send(r) ==
  /\ Sent(r)
  /\ outcome' = [outcome EXCEPT ![r] = "waiting"]
  /\ UNCHANGED registration

Unregister(r) ==
  /\ Sent(r)
  /\ outcome' = [q \in Request |->
                   IF q = r \/ outcome[q] = "waiting" THEN "cleared" ELSE outcome[q]]
  /\ registration' = registration + 1

Waits(r) == outcome[r] = "waiting" /\ sentIn[r] = registration

Challenge(r) ==
  /\ Waits(r)
  /\ challenges <= Limit
  /\ challenges' = challenges + 1
  /\ copies' = [copies EXCEPT ![r] = @ + 1]
  /\ UNCHANGED <<outcome, sentIn, registration, used>>

\* The first half of a redirect, the choice of a server, may also come with an
\* answer that is then reported.
Answer(r) ==
  /\ Waits(r)
  /\ \/ /\ \E o \in {"succeeded", "failed", "silent"} :
             outcome' = [outcome EXCEPT ![r] = o]
        /\ UNCHANGED used
     \/ /\ \E o \in {"succeeded", "failed", "silent", "redirected"} :
             outcome' = [outcome EXCEPT ![r] = o]
        /\ \E s \in Server \ used : used' = used \cup {s}
  /\ challenges' = 0
  /\ UNCHANGED <<copies, sentIn, registration>>

Next ==
  \E r \in Request :
    Refuse(r) \/ Send(r) \/ Unregister(r) \/ Challenge(r) \/ Answer(r)

Spec == Init /\ [][Next]_vars
=============================================================================
