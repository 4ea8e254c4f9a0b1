------------------------------ MODULE WorkQueue ------------------------------
(***************************************************************************)
(* What the MiniSip library, which reports messages, and the client, which *)
(* handles them, are promised of the agent server: a first-in first-out    *)
(* queue with several workers and a limit.                                 *)
(*                                                                         *)
(* Every item is offered once, and accepted or refused there and then.  It *)
(* is refused only when as many items as the limit allows wait or are in   *)
(* the workers' hands, or when the queue is closed; and an accepted one is *)
(* given to one worker, in the order of acceptance.  The queue is closed   *)
(* over empty hands, and nothing is taken from it afterwards.              *)
(***************************************************************************)
EXTENDS Naturals, Sequences, FiniteSets

CONSTANTS Item,
          NoItem,     \* the empty hand
          Worker,
          Limit       \* items that may wait

VARIABLES queue,      \* accepted items, oldest first
          hand,       \* the item of each worker
          offered,    \* items accepted or refused so far
          open

vars == <<queue, hand, offered, open>>

Occupied == {w \in Worker : hand[w] # NoItem}

Init ==
  /\ queue = <<>>
  /\ hand = [w \in Worker |-> NoItem]
  /\ offered = {}
  /\ open = TRUE

Accept(i) ==
  /\ open
  /\ i \notin offered
  /\ Len(queue) < Limit
  /\ queue' = Append(queue, i)
  /\ offered' = offered \cup {i}
  /\ UNCHANGED <<hand, open>>

Refuse(i) ==
  /\ i \notin offered
  /\ open => Len(queue) + Cardinality(Occupied) >= Limit
  /\ offered' = offered \cup {i}
  /\ UNCHANGED <<queue, hand, open>>

Take(w) ==
  /\ open
  /\ hand[w] = NoItem
  /\ queue # <<>>
  /\ hand' = [hand EXCEPT ![w] = Head(queue)]
  /\ queue' = Tail(queue)
  /\ UNCHANGED <<offered, open>>

Finish(w) ==
  /\ hand[w] # NoItem
  /\ hand' = [hand EXCEPT ![w] = NoItem]
  /\ UNCHANGED <<queue, offered, open>>

Close ==
  /\ open
  /\ Occupied = {}
  /\ open' = FALSE
  /\ UNCHANGED <<queue, hand, offered>>

Next ==
  \/ \E i \in Item : Accept(i) \/ Refuse(i)
  \/ \E w \in Worker : Take(w) \/ Finish(w)
  \/ Close

Spec == Init /\ [][Next]_vars
=============================================================================
