------------------------- MODULE SipStackTaskProofs -------------------------
(***************************************************************************)
(* Proofs about SipStackTask, for every set of producers and missions,     *)
(* every number of sessions and every overload table: an inductive         *)
(* invariant, the owners of missions, and the refinement of MissionQueue.  *)
(***************************************************************************)
EXTENDS SipStackTask, SequenceTheorems, TLAPS

\* What a producer inside a call has fixed.  While it holds the mutex the
\* read index cannot move, so the list it will append to stays the other one.
CallInv ==
  \A p \in Producer :
    /\ prod[p].at # "out" => prod[p].mission \in Mission
    /\ prod[p].at = "locked" =>
         /\ prod[p].queue \in Chan
         /\ m_to_pu_q_mutex[prod[p].queue] = p
         /\ prod[p].write = 1 - m_to_pu_q_read_ui[prod[p].queue]

\* What the thread has found out without a lock stays true until it acts.
WorkerInv ==
  /\ wat = "swap" => ReadList(wchan) = <<>>
  /\ wat = "pop" => ReadList(wchan) # <<>>
  /\ hand # NoMission <=> wat \in {"execute", "recv"}

\* The thread exists only between Spawn and FiniWait.
LifeInv ==
  /\ cat \in {"spawn", "clear"} => wat = "off"
  /\ cat = "idle" /\ ~m_init_b => wat = "off"
  /\ cat \in {"wait", "clear"} => m_init_b
  /\ cat \in {"spawn", "ready"} => ~m_init_b

\* The counter, and when the first Fini may already have emptied the queue.
CountInv ==
  /\ CounterCoversQueue
  /\ sessions = 0 => cleared = 0 /\ cat = "idle" /\ ~m_init_b
  /\ sessions <= 1 /\ cleared > 0 => cat = "clear" \/ (cat = "idle" /\ ~m_init_b)

IInv == TypeOK /\ CallInv /\ WorkerInv /\ LifeInv /\ CountInv

-----------------------------------------------------------------------------
(* The operators of the model.                                             *)

\* The overload level stays an index into the table.
LEMMA UpdateConditionLevel ==
  ASSUME NEW l \in Level, NEW n \in Nat
  PROVE  UpdateCondition(l, n) \in Level
BY FlowControlAssumption DEF UpdateCondition, Level, EndLevel

\* A list with an element has a head of its type, and its tail is a list one
\* shorter.
LEMMA HeadTail ==
  ASSUME NEW S, NEW list \in Seq(S), list # <<>>
  PROVE  /\ Head(list) \in S
         /\ Tail(list) \in Seq(S)
         /\ Len(list) \in Nat \ {0}
         /\ Len(Tail(list)) = Len(list) - 1
OBVIOUS

-----------------------------------------------------------------------------
(* The inductive invariant.                                                *)

\* The initial states satisfy the invariant.
LEMMA InitIInv == Init => IInv
<1> SUFFICES ASSUME Init PROVE IInv
  OBVIOUS
<1>1. TypeOK
  <2>1. QueueTypeOK
    BY DEF Init, QueueTypeOK
  <2>2. prod \in [Producer -> Call]
    <3>1. NoCall \in Call
      BY SMT DEF NoCall, Call, Queue, Chan
    <3> QED
      BY <3>1 DEF Init
  <2>3. WorkerTypeOK
    BY FlowControlAssumption
       DEF Init, WorkerTypeOK, Level, EndLevel, WorkerPlace, Chan
  <2>4. ControlTypeOK
    BY SipStackTaskAssumption DEF Init, ControlTypeOK, ControlPlace
  <2>5. FlagTypeOK
    BY Zenon DEF Init, FlagTypeOK
  <2>6. fate \in [Mission -> Fate]
    BY DEF Init, Fate
  <2> QED
    BY <2>1, <2>2, <2>3, <2>4, <2>5, <2>6 DEF TypeOK
<1>2. CallInv
  <2>1. \A p \in Producer : prod[p] = NoCall
    BY DEF Init
  <2>2. NoCall.at = "out"
    BY DEF NoCall
  <2> QED
    BY <2>1, <2>2 DEF CallInv
<1>3. WorkerInv /\ LifeInv /\ CountInv
  BY DEF Init, WorkerInv, LifeInv, CountInv, CounterCoversQueue
<1> QED
  BY <1>1, <1>2, <1>3 DEF IInv

\* A call that has only begun, of either kind of queue.
LEMMA OfferIInv ==
  ASSUME IInv, NEW p \in Producer, NEW d \in Queue, Offer(p, d)
  PROVE  IInv'
<1>1. /\ UNCHANGED <<queueVars, workerVars, controlVars>>
      /\ prod[p].at = "out"
  BY DEF Offer
<1>2. PICK m \in Mission :
        IF m_init_b
        THEN /\ prod' = [prod EXCEPT ![p] =
                   [at |-> "checked", queue |-> d, mission |-> m, write |-> 0]]
             /\ fate' = [fate EXCEPT ![m] = "offered"]
        ELSE /\ fate' = [fate EXCEPT ![m] = "returned"]
             /\ UNCHANGED prod
  BY DEF Offer
<1>3. (QueueTypeOK /\ WorkerTypeOK /\ ControlTypeOK /\ FlagTypeOK)'
  BY <1>1 DEF IInv, TypeOK, QueueTypeOK, WorkerTypeOK, ControlTypeOK, FlagTypeOK,
              queueVars, workerVars, controlVars
<1>4. (WorkerInv /\ LifeInv /\ CountInv)'
  BY <1>1 DEF IInv, WorkerInv, LifeInv, CountInv, CounterCoversQueue,
              ReadList, queueVars, workerVars, controlVars
<1>5. (prod \in [Producer -> Call])' /\ CallInv'
  <2> DEFINE call == [at |-> "checked", queue |-> d, mission |-> m, write |-> 0]
  <2>1. call \in Call /\ call.at = "checked" /\ call.mission = m
    BY DEF Call
  <2>2. prod' = prod \/ prod' = [prod EXCEPT ![p] = call]
    BY <1>2
  <2>3. UNCHANGED <<m_to_pu_q_mutex, m_to_pu_q_read_ui>>
    BY <1>1 DEF queueVars
  <2>4. prod \in [Producer -> Call] /\ CallInv
    BY DEF IInv, TypeOK
  <2>5. (prod \in [Producer -> Call])'
    BY <2>1, <2>2, <2>4
  <2>6. CallInv'
    BY <2>1, <2>2, <2>3, <2>4 DEF CallInv
  <2> QED
    BY <2>5, <2>6
<1>6. (fate \in [Mission -> Fate])'
  BY <1>2 DEF IInv, TypeOK, Fate
<1> QED
  BY <1>3, <1>4, <1>5, <1>6 DEF IInv, TypeOK

\* Taking the mutex: nobody else is inside, so no other producer's claim on it
\* is touched.
LEMMA LockIInv ==
  ASSUME IInv, NEW p \in Producer, Lock(p)
  PROVE  IInv'
<1> DEFINE d == prod[p].queue
           call == [prod[p] EXCEPT !.at = "locked", !.write = WriteIndex(d)]
<1>1. /\ prod[p].at = "checked"
      /\ d \in Chan
      /\ m_to_pu_q_mutex[d] = NoProducer
      /\ m_to_pu_q_mutex' = [m_to_pu_q_mutex EXCEPT ![d] = p]
      /\ prod' = [prod EXCEPT ![p] = call]
      /\ UNCHANGED <<m_to_pu_q, m_to_pu_q_read_ui, m_post_to_app_q,
                     m_post_to_app_q_ui, workerVars, controlVars, fate>>
  BY DEF Lock
<1>2. /\ prod \in [Producer -> Call]
      /\ m_to_pu_q_read_ui \in [Chan -> 0..1]
      /\ m_to_pu_q_mutex \in [Chan -> Producer \cup {NoProducer}]
  BY DEF IInv, TypeOK, QueueTypeOK
<1>3. QueueTypeOK'
  BY <1>1, <1>2 DEF IInv, TypeOK, QueueTypeOK
<1>4. (WorkerTypeOK /\ ControlTypeOK /\ FlagTypeOK)'
  BY <1>1 DEF IInv, TypeOK, WorkerTypeOK, ControlTypeOK, FlagTypeOK,
              workerVars, controlVars
<1>5. (WorkerInv /\ LifeInv /\ CountInv)'
  BY <1>1 DEF IInv, WorkerInv, LifeInv, CountInv, CounterCoversQueue, ReadList,
              workerVars, controlVars
<1>6. /\ call \in Call
      /\ call.queue = d
      /\ call.mission = prod[p].mission
      /\ call.write = 1 - m_to_pu_q_read_ui[d]
  <2>1. WriteIndex(d) = 1 - m_to_pu_q_read_ui[d] /\ WriteIndex(d) \in 0..1
    <3>1. m_to_pu_q_read_ui[d] \in 0..1
      BY <1>1, <1>2
    <3> QED
      BY <3>1 DEF WriteIndex
  <2>2. prod[p] \in Call
    BY <1>2
  <2> HIDE DEF d
  <2> QED
    BY <2>1, <2>2 DEF Call, d
<1>7. (prod \in [Producer -> Call])'
  BY <1>1, <1>2, <1>6
<1>8. CallInv'
  <2> SUFFICES ASSUME NEW r \in Producer
               PROVE  /\ prod'[r].at # "out" => prod'[r].mission \in Mission
                      /\ prod'[r].at = "locked" =>
                           /\ prod'[r].queue \in Chan
                           /\ m_to_pu_q_mutex'[prod'[r].queue] = r
                           /\ prod'[r].write = 1 - m_to_pu_q_read_ui'[prod'[r].queue]
    BY DEF CallInv
  <2>1. CASE r = p
    <3>1. prod'[r] = call
      BY <1>1, <1>2, <2>1
    <3>2. prod[p].mission \in Mission
      BY <1>1 DEF IInv, CallInv
    <3> QED
      BY <1>1, <1>2, <1>6, <2>1, <3>1, <3>2
  <2>2. CASE r # p
    <3>1. prod'[r] = prod[r]
      BY <1>1, <1>2, <2>2
    <3>2. prod[r].at = "locked" => prod[r].queue # d
      BY <1>1, SipStackTaskAssumption DEF IInv, CallInv
    <3> QED
      BY <1>1, <1>2, <2>2, <3>1, <3>2 DEF IInv, CallInv
  <2> QED
    BY <2>1, <2>2
<1> QED
  BY <1>1, <1>3, <1>4, <1>5, <1>7, <1>8 DEF IInv, TypeOK

\* Appending to the other list leaves what the thread knows of its own.
LEMMA PushIInv ==
  ASSUME IInv, NEW p \in Producer, Push(p)
  PROVE  IInv'
<1> DEFINE d == prod[p].queue
           m == prod[p].mission
           w == prod[p].write
<1>1. /\ prod[p].at = "locked"
      /\ m_to_pu_q' = [m_to_pu_q EXCEPT ![d][w] = Append(@, m)]
      /\ m_to_pu_q_mutex' = [m_to_pu_q_mutex EXCEPT ![d] = NoProducer]
      /\ prod' = [prod EXCEPT ![p] = NoCall]
      /\ fate' = [fate EXCEPT ![m] = "queued"]
      /\ UNCHANGED <<m_to_pu_q_read_ui, m_post_to_app_q, m_post_to_app_q_ui,
                     workerVars, controlVars>>
  BY DEF Push
<1>2. /\ prod \in [Producer -> Call]
      /\ m_to_pu_q \in [Chan -> [0..1 -> Seq(Mission)]]
      /\ m_to_pu_q_read_ui \in [Chan -> 0..1]
      /\ m_to_pu_q_mutex \in [Chan -> Producer \cup {NoProducer}]
  BY DEF IInv, TypeOK, QueueTypeOK
<1>3. /\ m \in Mission
      /\ d \in Chan
      /\ m_to_pu_q_mutex[d] = p
      /\ w = 1 - m_to_pu_q_read_ui[d]
  BY <1>1 DEF IInv, CallInv
<1>4. w \in 0..1 /\ w # m_to_pu_q_read_ui[d]
  <2> HIDE DEF d, w
  <2>1. m_to_pu_q_read_ui[d] \in 0..1
    BY <1>2, <1>3
  <2> QED
    BY <1>3, <2>1
<1>5. QueueTypeOK'
  <2>1. m_to_pu_q' \in [Chan -> [0..1 -> Seq(Mission)]]
    <3> HIDE DEF d, m, w
    <3>1. Append(m_to_pu_q[d][w], m) \in Seq(Mission)
      BY <1>2, <1>3, <1>4
    <3> QED
      BY <1>1, <1>2, <1>3, <1>4, <3>1
  <2> QED
    BY <1>1, <1>2, <2>1 DEF IInv, TypeOK, QueueTypeOK
<1>6. (WorkerTypeOK /\ ControlTypeOK /\ FlagTypeOK)'
  BY <1>1 DEF IInv, TypeOK, WorkerTypeOK, ControlTypeOK, FlagTypeOK,
              workerVars, controlVars
<1>7. NoCall \in Call /\ NoCall.at = "out"
  BY SMT DEF NoCall, Call, Queue, Chan
<1>8. (prod \in [Producer -> Call])' /\ (fate \in [Mission -> Fate])'
  BY <1>1, <1>2, <1>7 DEF IInv, TypeOK, Fate
<1>9. CallInv'
  <2>1. \A r \in Producer \ {p} :
          /\ prod'[r] = prod[r]
          /\ prod[r].at = "locked" => prod[r].queue # d
    BY <1>1, <1>2, <1>3 DEF IInv, CallInv
  <2>2. prod'[p] = NoCall
    BY <1>1, <1>2
  <2> QED
    BY <1>1, <1>2, <1>3, <1>7, <2>1, <2>2 DEF IInv, CallInv
<1>10. \A c \in Chan : ReadList(c)' = ReadList(c)
  BY <1>1, <1>2, <1>3, <1>4 DEF ReadList
<1>11. (WorkerInv /\ LifeInv /\ CountInv)'
  <2>1. wchan \in Chan
    BY DEF IInv, TypeOK, WorkerTypeOK
  <2> QED
    BY <1>1, <1>10, <2>1
       DEF IInv, WorkerInv, LifeInv, CountInv, CounterCoversQueue, workerVars,
           controlVars
<1> QED
  BY <1>5, <1>6, <1>8, <1>9, <1>11 DEF IInv, TypeOK

\* A datagram is appended and counted.
LEMMA PostToAppIInv ==
  ASSUME IInv, NEW p \in Producer, PostToApp(p)
  PROVE  IInv'
<1> DEFINE m == prod[p].mission
<1>1. /\ prod[p].at = "checked"
      /\ m_post_to_app_q' = Append(m_post_to_app_q, m)
      /\ m_post_to_app_q_ui' = m_post_to_app_q_ui + 1
      /\ prod' = [prod EXCEPT ![p] = NoCall]
      /\ fate' = [fate EXCEPT ![m] = "queued"]
      /\ UNCHANGED <<m_to_pu_q, m_to_pu_q_read_ui, m_to_pu_q_mutex, workerVars,
                     controlVars>>
  BY DEF PostToApp
<1>2. m \in Mission /\ prod \in [Producer -> Call]
  BY <1>1 DEF IInv, CallInv, TypeOK
<1>3. QueueTypeOK' /\ CountInv'
  <2>1. /\ m_post_to_app_q \in Seq(Mission)
        /\ m_post_to_app_q_ui \in Nat
        /\ Len(m_post_to_app_q) \in Nat
    BY DEF IInv, TypeOK, QueueTypeOK
  <2>2. m_post_to_app_q' \in Seq(Mission) /\ Len(m_post_to_app_q') = Len(m_post_to_app_q) + 1
    BY <1>1, <1>2, <2>1
  <2>3. CounterCoversQueue'
    BY <1>1, <2>1, <2>2 DEF IInv, CountInv, CounterCoversQueue, controlVars
  <2> QED
    BY <1>1, <2>1, <2>2, <2>3 DEF IInv, TypeOK, QueueTypeOK, CountInv, controlVars
<1>4. (WorkerTypeOK /\ ControlTypeOK /\ FlagTypeOK)'
  BY <1>1 DEF IInv, TypeOK, WorkerTypeOK, ControlTypeOK, FlagTypeOK,
              workerVars, controlVars
<1>5. NoCall \in Call /\ NoCall.at = "out"
  BY SMT DEF NoCall, Call, Queue, Chan
<1>6. (prod \in [Producer -> Call])' /\ (fate \in [Mission -> Fate])'
  BY <1>1, <1>2, <1>5 DEF IInv, TypeOK, Fate
<1>7. CallInv'
  BY <1>1, <1>2, <1>5 DEF IInv, CallInv
<1>8. (WorkerInv /\ LifeInv)'
  BY <1>1 DEF IInv, WorkerInv, LifeInv, ReadList, workerVars, controlVars
<1> QED
  BY <1>3, <1>4, <1>6, <1>7, <1>8 DEF IInv, TypeOK

-----------------------------------------------------------------------------
(* The steps of the stack thread.                                          *)

\* Steps that only move the thread and keep queues, producers and missions
\* as they are need no more than the place they lead to.
LEMMA WorkerMoves ==
  ASSUME IInv,
         UNCHANGED <<queueVars, controlVars, level, hand, prod, fate>>,
         wat' \in WorkerPlace, wchan' \in Chan, wat # "off",
         wat' = "swap" => ReadList(wchan)' = <<>>,
         wat' = "pop" => ReadList(wchan)' # <<>>,
         hand # NoMission <=> wat' \in {"execute", "recv"}
  PROVE  IInv'
<1>1. (QueueTypeOK /\ ControlTypeOK /\ FlagTypeOK)'
  BY DEF IInv, TypeOK, QueueTypeOK, ControlTypeOK, FlagTypeOK, queueVars, controlVars
<1>2. WorkerTypeOK'
  BY DEF IInv, TypeOK, WorkerTypeOK
<1>3. (prod \in [Producer -> Call])' /\ (fate \in [Mission -> Fate])'
  BY DEF IInv, TypeOK
<1>4. (CallInv /\ CountInv)'
  BY DEF IInv, CallInv, CountInv, CounterCoversQueue, queueVars, controlVars
<1>5. WorkerInv'
  BY DEF WorkerInv
<1>6. LifeInv'
  BY DEF IInv, LifeInv, controlVars
<1> QED
  BY <1>1, <1>2, <1>3, <1>4, <1>5, <1>6 DEF IInv, TypeOK

\* The thread begins a round, or ends.
LEMMA WhileIInv == IInv /\ While => IInv'
<1> SUFFICES ASSUME IInv, While PROVE IInv'
  OBVIOUS
<1>1. wat' \in {"test", "off"} /\ wchan' = "req" /\ wat = "while"
  BY DEF While
<1>2. hand = NoMission
  BY <1>1 DEF IInv, WorkerInv
<1> QED
  BY <1>1, <1>2, WorkerMoves DEF While, WorkerPlace, Chan

\* It looks at the list it reads.
LEMMA TestIInv == IInv /\ Test => IInv'
<1> SUFFICES ASSUME IInv, Test PROVE IInv'
  OBVIOUS
<1>1. /\ wat = "test"
      /\ wat' = IF ReadList(wchan) = <<>> THEN "swap" ELSE "recheck"
      /\ UNCHANGED <<queueVars, controlVars, level, wchan, hand, prod, fate>>
  BY DEF Test
<1>2. hand = NoMission /\ wchan \in Chan
  BY <1>1 DEF IInv, WorkerInv, TypeOK, WorkerTypeOK
<1>3. ReadList(wchan)' = ReadList(wchan)
  BY <1>1 DEF ReadList, queueVars
<1> QED
  BY <1>1, <1>2, <1>3, WorkerMoves DEF WorkerPlace

\* It looks again, after a swap.
LEMMA RecheckIInv == IInv /\ Recheck => IInv'
<1> SUFFICES ASSUME IInv, Recheck PROVE IInv'
  OBVIOUS
<1>1. /\ wat = "recheck"
      /\ UNCHANGED <<queueVars, controlVars, level, hand, prod, fate>>
      /\ \/ wat' = "pop" /\ wchan' = wchan /\ ReadList(wchan) # <<>>
         \/ wat' \in {"test", "post"} /\ wchan' \in {wchan, "resp"}
  BY DEF Recheck, Leave
<1>2. hand = NoMission /\ wchan \in Chan
  BY <1>1 DEF IInv, WorkerInv, TypeOK, WorkerTypeOK
<1>3. wchan' = wchan => ReadList(wchan)' = ReadList(wchan)
  BY <1>1 DEF ReadList, queueVars
<1> QED
  BY <1>1, <1>2, <1>3, WorkerMoves DEF WorkerPlace, Chan

\* Nobody holds the mutex, so no producer has fixed an index.
LEMMA SwapIInv == IInv /\ Swap => IInv'
<1> SUFFICES ASSUME IInv, Swap PROVE IInv'
  OBVIOUS
<1>1. /\ wat = "swap"
      /\ m_to_pu_q_mutex[wchan] = NoProducer
      /\ m_to_pu_q_read_ui' = [m_to_pu_q_read_ui EXCEPT ![wchan] = 1 - @]
      /\ wat' = "recheck"
      /\ UNCHANGED <<m_to_pu_q, m_to_pu_q_mutex, m_post_to_app_q,
                     m_post_to_app_q_ui, controlVars, level, wchan, hand, prod, fate>>
  BY DEF Swap
<1>2. /\ wchan \in Chan
      /\ m_to_pu_q_read_ui \in [Chan -> 0..1]
      /\ hand = NoMission
  BY <1>1 DEF IInv, TypeOK, QueueTypeOK, WorkerTypeOK, WorkerInv
<1>3. m_to_pu_q_read_ui' \in [Chan -> 0..1]
  <2>1. m_to_pu_q_read_ui[wchan] \in 0..1
    BY <1>2
  <2>2. 1 - m_to_pu_q_read_ui[wchan] \in 0..1
    BY <2>1
  <2> QED
    BY <1>1, <1>2, <2>2
<1>4. (QueueTypeOK /\ CountInv)'
  BY <1>1, <1>3 DEF IInv, TypeOK, QueueTypeOK, CountInv, CounterCoversQueue,
                    controlVars
<1>5. (WorkerTypeOK /\ ControlTypeOK /\ FlagTypeOK)'
  BY <1>1 DEF IInv, TypeOK, WorkerTypeOK, WorkerPlace, ControlTypeOK, FlagTypeOK,
              controlVars
<1>6. (prod \in [Producer -> Call])' /\ (fate \in [Mission -> Fate])'
  BY <1>1 DEF IInv, TypeOK
<1>7. CallInv'
  <2>1. \A p \in Producer : prod[p].at = "locked" => prod[p].queue # wchan
    BY <1>1, SipStackTaskAssumption DEF IInv, CallInv
  <2> QED
    BY <1>1, <1>2, <2>1 DEF IInv, CallInv
<1>8. (WorkerInv /\ LifeInv)'
  BY <1>1, <1>2 DEF IInv, WorkerInv, LifeInv, controlVars
<1> QED
  BY <1>4, <1>5, <1>6, <1>7, <1>8 DEF IInv, TypeOK

\* It takes the first mission of a list that has one.
LEMMA PopIInv == IInv /\ Pop => IInv'
<1> SUFFICES ASSUME IInv, Pop PROVE IInv'
  OBVIOUS
<1> DEFINE r == m_to_pu_q_read_ui[wchan]
<1>1. /\ wat = "pop"
      /\ hand' = Head(ReadList(wchan))
      /\ m_to_pu_q' = [m_to_pu_q EXCEPT ![wchan][r] = Tail(@)]
      /\ fate' = [fate EXCEPT ![hand'] = "held"]
      /\ wat' = "execute"
      /\ UNCHANGED <<m_to_pu_q_read_ui, m_to_pu_q_mutex, m_post_to_app_q,
                     m_post_to_app_q_ui, controlVars, level, wchan, prod>>
  BY DEF Pop
<1>2. /\ wchan \in Chan
      /\ m_to_pu_q \in [Chan -> [0..1 -> Seq(Mission)]]
      /\ m_to_pu_q_read_ui \in [Chan -> 0..1]
      /\ ReadList(wchan) # <<>>
  BY <1>1 DEF IInv, TypeOK, QueueTypeOK, WorkerTypeOK, WorkerInv
<1>3. /\ r \in 0..1
      /\ ReadList(wchan) \in Seq(Mission)
      /\ ReadList(wchan) = m_to_pu_q[wchan][r]
  BY <1>2 DEF ReadList
<1>4. hand' \in Mission /\ Tail(m_to_pu_q[wchan][r]) \in Seq(Mission)
  BY <1>1, <1>2, <1>3, HeadTail
<1>5. QueueTypeOK'
  <2>1. m_to_pu_q' \in [Chan -> [0..1 -> Seq(Mission)]]
    <3> HIDE DEF r
    <3> QED
      BY <1>1, <1>2, <1>3, <1>4
  <2> QED
    BY <1>1, <2>1 DEF IInv, TypeOK, QueueTypeOK
<1>6. (WorkerTypeOK /\ ControlTypeOK /\ FlagTypeOK)'
  BY <1>1, <1>4 DEF IInv, TypeOK, WorkerTypeOK, WorkerPlace, ControlTypeOK,
                    FlagTypeOK, controlVars
<1>7. (prod \in [Producer -> Call])' /\ (fate \in [Mission -> Fate])'
  BY <1>1, <1>4 DEF IInv, TypeOK, Fate
<1>8. (CallInv /\ CountInv)'
  BY <1>1 DEF IInv, CallInv, CountInv, CounterCoversQueue, controlVars
<1>9. (WorkerInv /\ LifeInv)'
  BY <1>1, <1>4, SipStackTaskAssumption DEF IInv, WorkerInv, LifeInv, controlVars
<1> QED
  BY <1>5, <1>6, <1>7, <1>8, <1>9 DEF IInv, TypeOK

\* Both ends of a mission: the hand becomes empty and the thread moves on.
LEMMA HandEmptied ==
  ASSUME IInv,
         UNCHANGED <<queueVars, controlVars, level, prod>>,
         wat' \in {"test", "post", "while"}, wchan' \in Chan, wat # "off",
         hand' = NoMission, (fate \in [Mission -> Fate])'
  PROVE  IInv'
<1>1. (QueueTypeOK /\ ControlTypeOK /\ FlagTypeOK)'
  BY DEF IInv, TypeOK, QueueTypeOK, ControlTypeOK, FlagTypeOK, queueVars, controlVars
<1>2. WorkerTypeOK'
  BY DEF IInv, TypeOK, WorkerTypeOK, WorkerPlace
<1>3. (prod \in [Producer -> Call])' /\ (CallInv /\ CountInv)'
  BY DEF IInv, TypeOK, CallInv, CountInv, CounterCoversQueue, queueVars,
         controlVars
<1>4. (WorkerInv /\ LifeInv)'
  BY DEF IInv, WorkerInv, LifeInv, controlVars
<1> QED
  BY <1>1, <1>2, <1>3, <1>4 DEF IInv, TypeOK

\* It carries the mission out and deletes it.
LEMMA ExecuteIInv == IInv /\ Execute => IInv'
<1> SUFFICES ASSUME IInv, Execute PROVE IInv'
  OBVIOUS
<1>1. /\ wat = "execute"
      /\ fate' = [fate EXCEPT ![hand] = "executed"]
      /\ hand' = NoMission
      /\ wat' \in {"test", "post"} /\ wchan' \in {wchan, "resp"}
      /\ UNCHANGED <<queueVars, controlVars, level, prod>>
  BY DEF Execute, Leave
<1>2. wchan \in Chan /\ (fate \in [Mission -> Fate])'
  BY <1>1 DEF IInv, TypeOK, WorkerTypeOK, Fate
<1> QED
  BY <1>1, <1>2, HandEmptied DEF Chan

\* It carries out the datagram, or refuses it.
LEMMA HandleRecvMessionIInv == IInv /\ HandleRecvMession => IInv'
<1> SUFFICES ASSUME IInv, HandleRecvMession PROVE IInv'
  OBVIOUS
<1>1. /\ wat = "recv"
      /\ hand' = NoMission
      /\ wat' = "while"
      /\ UNCHANGED <<queueVars, controlVars, level, wchan, prod>>
  BY DEF HandleRecvMession
<1>2. PICK f \in {"refused", "executed"} : fate' = [fate EXCEPT ![hand] = f]
  BY DEF HandleRecvMession
<1>3. wchan \in Chan /\ (fate \in [Mission -> Fate])'
  BY <1>2 DEF IInv, TypeOK, WorkerTypeOK, Fate
<1> QED
  BY <1>1, <1>3, HandEmptied

\* It takes a datagram, and counts one less.
LEMMA TakePostIInv == IInv /\ TakePost => IInv'
<1> SUFFICES ASSUME IInv, TakePost PROVE IInv'
  OBVIOUS
<1>1. /\ wat = "post"
      /\ UNCHANGED <<m_to_pu_q, m_to_pu_q_read_ui, m_to_pu_q_mutex, controlVars,
                     wchan, prod>>
  BY DEF TakePost
<1>2. CASE m_post_to_app_q = <<>>
  <2>1. wat' = "while"
        /\ UNCHANGED <<m_post_to_app_q, m_post_to_app_q_ui, level, hand, fate>>
    BY <1>2 DEF TakePost
  <2>2. hand = NoMission /\ wchan \in Chan
    BY <1>1 DEF IInv, WorkerInv, TypeOK, WorkerTypeOK
  <2> QED
    BY <1>1, <2>1, <2>2, WorkerMoves DEF WorkerPlace, queueVars
<1>3. CASE m_post_to_app_q # <<>>
  <2>1. /\ hand' = Head(m_post_to_app_q)
        /\ m_post_to_app_q' = Tail(m_post_to_app_q)
        /\ m_post_to_app_q_ui' = m_post_to_app_q_ui - 1
        /\ level' = UpdateCondition(level, m_post_to_app_q_ui')
        /\ fate' = [fate EXCEPT ![hand'] = "held"]
        /\ wat' = "recv"
    BY <1>3 DEF TakePost
  <2>2. /\ m_post_to_app_q \in Seq(Mission)
        /\ m_post_to_app_q_ui \in Nat
        /\ m_post_to_app_q_ui >= Len(m_post_to_app_q)
        /\ level \in Level
    BY DEF IInv, TypeOK, QueueTypeOK, WorkerTypeOK, CountInv, CounterCoversQueue
  <2>3. /\ hand' \in Mission
        /\ m_post_to_app_q' \in Seq(Mission)
        /\ m_post_to_app_q_ui' \in Nat
        /\ Len(m_post_to_app_q) \in Nat
        /\ Len(m_post_to_app_q') = Len(m_post_to_app_q) - 1
    BY <1>3, <2>1, <2>2, HeadTail
  <2>4. level' \in Level
    BY <2>1, <2>2, <2>3, UpdateConditionLevel
  <2>5. (QueueTypeOK /\ CountInv)'
    <3>1. CounterCoversQueue /\ UNCHANGED <<sessions, cleared>>
      BY <1>1 DEF IInv, CountInv, controlVars
    <3>2. m_post_to_app_q_ui' = m_post_to_app_q_ui - 1
      BY <2>1
    <3>3. CounterCoversQueue'
      BY <2>2, <2>3, <3>1, <3>2 DEF CounterCoversQueue
    <3> QED
      BY <1>1, <2>3, <3>3 DEF IInv, TypeOK, QueueTypeOK, CountInv, controlVars
  <2>6. (WorkerTypeOK /\ ControlTypeOK /\ FlagTypeOK)'
    BY <1>1, <2>1, <2>3, <2>4 DEF IInv, TypeOK, WorkerTypeOK, WorkerPlace,
                                  ControlTypeOK, FlagTypeOK, controlVars
  <2>7. (prod \in [Producer -> Call])' /\ (fate \in [Mission -> Fate])'
    BY <1>1, <2>1, <2>3 DEF IInv, TypeOK, Fate
  <2>8. CallInv'
    BY <1>1 DEF IInv, CallInv
  <2>9. (WorkerInv /\ LifeInv)'
    BY <1>1, <2>1, <2>3, SipStackTaskAssumption
       DEF IInv, WorkerInv, LifeInv, controlVars
  <2> QED
    BY <2>5, <2>6, <2>7, <2>8, <2>9 DEF IInv, TypeOK
<1> QED
  BY <1>2, <1>3

-----------------------------------------------------------------------------
(* The steps of Init and Fini.                                             *)

\* Every step of Init and Fini that leaves the queues alone.
LEMMA ControlMoves ==
  ASSUME IInv,
         UNCHANGED <<queueVars, wchan, hand, prod, fate>>,
         (ControlTypeOK /\ FlagTypeOK)', level' \in Level,
         wat' = wat \/ (wat = "off" /\ wat' = "while"),
         LifeInv', CountInv'
  PROVE  IInv'
<1>1. (QueueTypeOK /\ CallInv)'
  BY DEF IInv, TypeOK, QueueTypeOK, CallInv, queueVars
<1>2. (prod \in [Producer -> Call])' /\ (fate \in [Mission -> Fate])'
  BY DEF IInv, TypeOK
<1>3. WorkerTypeOK'
  BY DEF IInv, TypeOK, WorkerTypeOK, WorkerPlace
<1>4. WorkerInv'
  BY DEF IInv, WorkerInv, ReadList, queueVars
<1> QED
  BY <1>1, <1>2, <1>3, <1>4 DEF IInv, TypeOK

\* Init begins, with no thread running.
LEMMA InitBeginIInv == IInv /\ InitBegin => IInv'
<1> SUFFICES ASSUME IInv, InitBegin PROVE IInv'
  OBVIOUS
<1>1. /\ cat = "idle" /\ ~m_init_b /\ sessions < MaxSessions
      /\ level' = LoadedLevel
      /\ sessions' = sessions + 1
      /\ cat' = "spawn"
      /\ UNCHANGED <<queueVars, wat, wchan, hand, m_init_b, cleared, prod, fate>>
  BY DEF InitBegin
<1>2. ControlTypeOK'
  BY <1>1, SipStackTaskAssumption DEF IInv, TypeOK, ControlTypeOK, ControlPlace
<1>3. FlagTypeOK'
  BY Zenon DEF InitBegin, IInv, TypeOK, FlagTypeOK
<1>4. level' \in Level
  BY <1>1, FlowControlAssumption DEF LoadedLevel, Level
<1>5. LifeInv'
  BY <1>1 DEF IInv, LifeInv
<1>6. CountInv'
  BY <1>1 DEF IInv, TypeOK, ControlTypeOK, CountInv, CounterCoversQueue, queueVars
<1>7. /\ UNCHANGED <<queueVars, wchan, hand, prod, fate>>
      /\ wat' = wat \/ (wat = "off" /\ wat' = "while")
  BY <1>1
<1> QED
  BY ONLY IInv, <1>2, <1>3, <1>4, <1>5, <1>6, <1>7, ControlMoves

\* The thread is started, or not.
LEMMA SpawnIInv == IInv /\ Spawn => IInv'
<1> SUFFICES ASSUME IInv, Spawn PROVE IInv'
  OBVIOUS
<1>1. /\ cat = "spawn"
      /\ \/ wat' = "while" /\ cat' = "ready"
         \/ cat' = "idle" /\ wat' = wat
      /\ UNCHANGED <<queueVars, level, wchan, hand, m_init_b, cleared, sessions,
                     prod, fate>>
  BY Zenon DEF Spawn
<1>2. wat = "off" /\ ~m_init_b
  BY <1>1 DEF IInv, LifeInv
<1>3. ControlTypeOK'
  BY <1>1 DEF IInv, TypeOK, ControlTypeOK, ControlPlace
<1>4. FlagTypeOK'
  BY Zenon DEF Spawn, IInv, TypeOK, FlagTypeOK
<1>5. level' \in Level
  BY <1>1 DEF IInv, TypeOK, WorkerTypeOK
<1>6. LifeInv'
  BY <1>1, <1>2 DEF LifeInv
<1>7. CountInv'
  BY <1>1, <1>2 DEF IInv, CountInv, CounterCoversQueue, queueVars
<1>8. /\ UNCHANGED <<queueVars, wchan, hand, prod, fate>>
      /\ wat' = wat \/ (wat = "off" /\ wat' = "while")
  BY <1>1, <1>2
<1> QED
  BY ONLY IInv, <1>2, <1>3, <1>4, <1>5, <1>6, <1>7, <1>8, ControlMoves

\* Init ends, and producers are let in.
LEMMA InitEndIInv == IInv /\ InitEnd => IInv'
<1> SUFFICES ASSUME IInv, InitEnd PROVE IInv'
  OBVIOUS
<1>1. /\ cat = "ready" /\ m_init_b' /\ cat' = "idle"
      /\ UNCHANGED <<queueVars, workerVars, m_work_b, cleared, sessions, prod, fate>>
  BY DEF InitEnd
<1>2. ControlTypeOK'
  BY <1>1 DEF IInv, TypeOK, ControlTypeOK, ControlPlace
<1>3. FlagTypeOK'
  BY Zenon DEF InitEnd, IInv, TypeOK, FlagTypeOK
<1>4. level' \in Level
  BY <1>1 DEF IInv, TypeOK, WorkerTypeOK, workerVars
<1>5. LifeInv'
  BY <1>1 DEF LifeInv
<1>6. CountInv'
  BY <1>1 DEF IInv, TypeOK, ControlTypeOK, CountInv, CounterCoversQueue, queueVars
<1>7. /\ UNCHANGED <<queueVars, wchan, hand, prod, fate>>
      /\ wat' = wat \/ (wat = "off" /\ wat' = "while")
  BY <1>1 DEF workerVars
<1> QED
  BY ONLY IInv, <1>2, <1>3, <1>4, <1>5, <1>6, <1>7, ControlMoves

\* Fini begins.
LEMMA FiniBeginIInv == IInv /\ FiniBegin => IInv'
<1> SUFFICES ASSUME IInv, FiniBegin PROVE IInv'
  OBVIOUS
<1>1. /\ cat = "idle" /\ m_init_b /\ cat' = "wait" /\ cleared' = 0
      /\ UNCHANGED <<queueVars, workerVars, m_init_b, sessions, prod, fate>>
  BY DEF FiniBegin
<1>2. ControlTypeOK'
  BY <1>1 DEF IInv, TypeOK, ControlTypeOK, ControlPlace
<1>3. FlagTypeOK'
  BY Zenon DEF FiniBegin, IInv, TypeOK, FlagTypeOK
<1>4. level' \in Level
  BY <1>1 DEF IInv, TypeOK, WorkerTypeOK, workerVars
<1>5. LifeInv'
  BY <1>1 DEF LifeInv
<1>6. CountInv'
  BY <1>1 DEF IInv, TypeOK, ControlTypeOK, CountInv, CounterCoversQueue, queueVars
<1>7. /\ UNCHANGED <<queueVars, wchan, hand, prod, fate>>
      /\ wat' = wat \/ (wat = "off" /\ wat' = "while")
  BY <1>1 DEF workerVars
<1> QED
  BY ONLY IInv, <1>2, <1>3, <1>4, <1>5, <1>6, <1>7, ControlMoves

\* Fini has joined the thread.
LEMMA FiniWaitIInv == IInv /\ FiniWait => IInv'
<1> SUFFICES ASSUME IInv, FiniWait PROVE IInv'
  OBVIOUS
<1>1. /\ cat = "wait" /\ wat = "off" /\ cat' = "clear"
      /\ UNCHANGED <<queueVars, workerVars, m_init_b, m_work_b, cleared, sessions,
                     prod, fate>>
  BY DEF FiniWait
<1>2. (ControlTypeOK /\ FlagTypeOK)'
  BY <1>1 DEF IInv, TypeOK, ControlTypeOK, FlagTypeOK, ControlPlace
<1>3. level' \in Level
  BY <1>1 DEF IInv, TypeOK, WorkerTypeOK, workerVars
<1>4. LifeInv'
  BY <1>1 DEF IInv, LifeInv, workerVars
<1>5. CountInv'
  BY <1>1 DEF IInv, CountInv, CounterCoversQueue, queueVars
<1>6. /\ UNCHANGED <<queueVars, wchan, hand, prod, fate>>
      /\ wat' = wat \/ (wat = "off" /\ wat' = "while")
  BY <1>1 DEF workerVars
<1> QED
  BY ONLY IInv, <1>2, <1>3, <1>4, <1>5, <1>6, ControlMoves

\* Fini ends, and producers are turned away.
LEMMA FiniEndIInv == IInv /\ FiniEnd => IInv'
<1> SUFFICES ASSUME IInv, FiniEnd PROVE IInv'
  OBVIOUS
<1>1. /\ cat = "clear" /\ cleared = 5 /\ ~m_init_b' /\ cat' = "idle"
      /\ UNCHANGED <<queueVars, workerVars, m_work_b, cleared, sessions, prod, fate>>
  BY DEF FiniEnd
<1>2. ControlTypeOK'
  BY <1>1 DEF IInv, TypeOK, ControlTypeOK, ControlPlace
<1>3. FlagTypeOK'
  BY Zenon DEF FiniEnd, IInv, TypeOK, FlagTypeOK
<1>4. level' \in Level
  BY <1>1 DEF IInv, TypeOK, WorkerTypeOK, workerVars
<1>5. LifeInv'
  BY <1>1 DEF IInv, LifeInv, workerVars
<1>6. CountInv'
  BY <1>1 DEF IInv, CountInv, CounterCoversQueue, queueVars
<1>7. /\ UNCHANGED <<queueVars, wchan, hand, prod, fate>>
      /\ wat' = wat \/ (wat = "off" /\ wat' = "while")
  BY <1>1 DEF workerVars
<1> QED
  BY ONLY IInv, <1>2, <1>3, <1>4, <1>5, <1>6, <1>7, ControlMoves

\* Emptying a list: the thread is not there to have looked at it.
LEMMA FiniClearIInv == IInv /\ FiniClear => IInv'
<1> SUFFICES ASSUME IInv, FiniClear PROVE IInv'
  OBVIOUS
<1>1. /\ cat = "clear" /\ cleared < 4 /\ cleared' = cleared + 1
      /\ UNCHANGED <<m_to_pu_q_read_ui, m_to_pu_q_mutex, m_post_to_app_q,
                     m_post_to_app_q_ui, workerVars, m_init_b, m_work_b, cat,
                     sessions, prod>>
  BY DEF FiniClear
<1>2. PICK d \in Chan, i \in 0..1 :
        /\ m_to_pu_q' = [m_to_pu_q EXCEPT ![d][i] = <<>>]
        /\ fate' = Discarded(m_to_pu_q[d][i])
  <2>1. cleared \in 0..3
    BY <1>1 DEF IInv, TypeOK, ControlTypeOK
  <2>2. ClearOrder[cleared + 1][1] \in Chan /\ ClearOrder[cleared + 1][2] \in 0..1
    BY <2>1 DEF ClearOrder, Chan
  <2> QED
    BY <2>2 DEF FiniClear
<1>3. QueueTypeOK'
  BY <1>1, <1>2 DEF IInv, TypeOK, QueueTypeOK
<1>4. (WorkerTypeOK /\ ControlTypeOK /\ FlagTypeOK)'
  BY <1>1 DEF IInv, TypeOK, WorkerTypeOK, ControlTypeOK, FlagTypeOK, workerVars
<1>5. (prod \in [Producer -> Call])' /\ (fate \in [Mission -> Fate])'
  BY <1>1, <1>2 DEF IInv, TypeOK, Discarded, Fate
<1>6. CallInv'
  BY <1>1 DEF IInv, CallInv
<1>7. (WorkerInv /\ LifeInv)'
  BY <1>1 DEF IInv, WorkerInv, LifeInv, workerVars
<1>8. CountInv'
  BY <1>1 DEF IInv, TypeOK, ControlTypeOK, CountInv, CounterCoversQueue
<1> QED
  BY <1>3, <1>4, <1>5, <1>6, <1>7, <1>8 DEF IInv, TypeOK

\* Fini empties the datagrams.
LEMMA FiniClearPostIInv == IInv /\ FiniClearPost => IInv'
<1> SUFFICES ASSUME IInv, FiniClearPost PROVE IInv'
  OBVIOUS
<1>1. /\ cat = "clear" /\ cleared' = 5
      /\ fate' = Discarded(m_post_to_app_q)
      /\ m_post_to_app_q' = <<>>
      /\ UNCHANGED <<m_to_pu_q, m_to_pu_q_read_ui, m_to_pu_q_mutex,
                     m_post_to_app_q_ui, workerVars, m_init_b, m_work_b, cat,
                     sessions, prod>>
  BY DEF FiniClearPost
<1>2. QueueTypeOK'
  BY <1>1 DEF IInv, TypeOK, QueueTypeOK
<1>3. (WorkerTypeOK /\ ControlTypeOK /\ FlagTypeOK)'
  BY <1>1 DEF IInv, TypeOK, WorkerTypeOK, ControlTypeOK, FlagTypeOK, workerVars
<1>4. (prod \in [Producer -> Call])' /\ (fate \in [Mission -> Fate])'
  BY <1>1 DEF IInv, TypeOK, Discarded, Fate
<1>5. CallInv'
  BY <1>1 DEF IInv, CallInv
<1>6. (WorkerInv /\ LifeInv)'
  BY <1>1 DEF IInv, WorkerInv, LifeInv, ReadList, workerVars
<1>7. CountInv'
  BY <1>1 DEF IInv, TypeOK, QueueTypeOK, CountInv, CounterCoversQueue
<1> QED
  BY <1>2, <1>3, <1>4, <1>5, <1>6, <1>7 DEF IInv, TypeOK

-----------------------------------------------------------------------------
(* The theorems.                                                           *)

\* Every step keeps the invariant.
LEMMA NextIInv == IInv /\ [Next]_vars => IInv'
<1> SUFFICES ASSUME IInv, [Next]_vars PROVE IInv'
  OBVIOUS
<1>1. ASSUME NEW p \in Producer,
             RequestToPu(p) \/ RespondToPu(p) \/ HandleRecv(p)
      PROVE  IInv'
  <2>1. PICK d \in Queue : Offer(p, d)
    BY <1>1 DEF RequestToPu, RespondToPu, HandleRecv, Queue, Chan
  <2> QED
    BY <2>1, OfferIInv
<1>2. ASSUME NEW p \in Producer, Lock(p) \/ Push(p) \/ PostToApp(p)
      PROVE  IInv'
  BY <1>2, LockIInv, PushIInv, PostToAppIInv
<1>3. CASE Worker
  BY <1>3, WhileIInv, TestIInv, SwapIInv, RecheckIInv, PopIInv, ExecuteIInv,
     TakePostIInv, HandleRecvMessionIInv DEF Worker
<1>4. CASE Control
  BY <1>4, InitBeginIInv, SpawnIInv, InitEndIInv, FiniBeginIInv, FiniWaitIInv,
     FiniClearIInv, FiniClearPostIInv, FiniEndIInv DEF Control
<1>5. CASE UNCHANGED vars
  <2>1. (QueueTypeOK /\ WorkerTypeOK /\ ControlTypeOK /\ FlagTypeOK)'
    BY <1>5 DEF IInv, TypeOK, QueueTypeOK, WorkerTypeOK, ControlTypeOK, FlagTypeOK,
                vars, queueVars, workerVars, controlVars
  <2>2. (prod \in [Producer -> Call])' /\ (fate \in [Mission -> Fate])'
    BY <1>5 DEF IInv, TypeOK, vars
  <2>3. (CallInv /\ WorkerInv /\ LifeInv)'
    BY <1>5 DEF IInv, CallInv, WorkerInv, LifeInv, ReadList,
                vars, queueVars, workerVars, controlVars
  <2>4. CountInv'
    BY <1>5 DEF IInv, CountInv, CounterCoversQueue, vars, queueVars, controlVars
  <2> QED
    BY <2>1, <2>2, <2>3, <2>4 DEF IInv, TypeOK
<1> QED
  BY <1>1, <1>2, <1>3, <1>4, <1>5 DEF Next, Producers

\* The inductive invariant holds of every reachable state.
THEOREM Inductive == Spec => []IInv
BY InitIInv, NextIInv, PTL DEF Spec

\* Every variable of the task keeps its type.
THEOREM TypeCorrect == Spec => []TypeOK
<1>1. IInv => TypeOK
  BY DEF IInv
<1> QED
  BY <1>1, Inductive, PTL

\* The lists the stack thread reads without the mutex are never the ones a
\* producer is appending to (svc and RequestToPu, RespondToPu), and it never
\* takes the front of an empty one.
THEOREM LockFreeReads == Spec => []ReadsAreSafe
<1>1. IInv => NoListRace
  <2> SUFFICES ASSUME IInv, NEW p \in Producer, prod[p].at = "locked"
               PROVE  /\ m_to_pu_q_mutex[prod[p].queue] = p
                      /\ wchan = prod[p].queue =>
                           prod[p].write # m_to_pu_q_read_ui[prod[p].queue]
    BY DEF NoListRace
  <2> DEFINE d == prod[p].queue
  <2>1. d \in Chan /\ m_to_pu_q_mutex[d] = p /\ prod[p].write = 1 - m_to_pu_q_read_ui[d]
    BY DEF IInv, CallInv
  <2>2. m_to_pu_q_read_ui[d] \in 0..1
    BY <2>1 DEF IInv, TypeOK, QueueTypeOK
  <2> HIDE DEF d
  <2>3. prod[p].write # m_to_pu_q_read_ui[d]
    BY <2>1, <2>2
  <2> QED
    BY <2>1, <2>3 DEF d
<1>2. IInv => PopFindsMission
  BY DEF IInv, WorkerInv, PopFindsMission
<1>3. IInv => ReadsAreSafe
  BY <1>1, <1>2 DEF ReadsAreSafe
<1> QED
  BY <1>3, Inductive, PTL

\* The datagram counter never wraps and covers the queue, also after a
\* restart that found datagrams in it.
THEOREM CounterCovers == Spec => []CounterCoversQueue
<1>1. IInv => CounterCoversQueue
  BY DEF IInv, CountInv
<1> QED
  BY <1>1, Inductive, PTL

\* When Fini has returned, the thread is gone and holds no mission.
THEOREM NothingRunsAfterFini == Spec => []StoppedAfterFini
<1>1. IInv => StoppedAfterFini
  BY DEF IInv, LifeInv, WorkerInv, StoppedAfterFini
<1> QED
  BY <1>1, Inductive, PTL

-----------------------------------------------------------------------------
(* Who owns a mission.  The five lists are taken as one function, so that  *)
(* what an operation does to ownership is a fact about sequences alone.    *)

Lists == [s \in Slot |-> ListAt(s)]
Unique(L) ==
  \A s, t \in Slot : \A i \in 1..Len(L[s]), j \in 1..Len(L[t]) :
    L[s][i] = L[t][j] => s = t /\ i = j
InList(list, m) == \E i \in 1..Len(list) : list[i] = m
Holds(L, m) == \E s \in Slot : InList(L[s], m)

\* Every mission is in one place at most, and its fate tells which; a producer
\* outside a call has none.
Owned(m) ==
  /\ fate[m] = "queued" <=> Holds(Lists, m)
  /\ fate[m] = "held" <=> hand = m
  /\ fate[m] = "offered" <=> \E p \in Producer : prod[p].mission = m
OfferedOnce ==
  \A p, r \in Producer :
    prod[p].mission = prod[r].mission /\ prod[p].at # "out" => p = r
OwnInv ==
  /\ Unique(Lists)
  /\ \A m \in Mission : Owned(m)
  /\ OfferedOnce
  /\ \A p \in Producer : prod[p].at = "out" => prod[p] = NoCall

\* A mission that is in no list may be appended to any.
LEMMA AppendKeepsUnique ==
  ASSUME NEW L \in [Slot -> Seq(Mission)], NEW s0 \in Slot, NEW m0 \in Mission,
         Unique(L), ~Holds(L, m0)
  PROVE  LET K == [L EXCEPT ![s0] = Append(@, m0)]
         IN  Unique(K) /\ \A m \in Mission : Holds(K, m) <=> Holds(L, m) \/ m = m0
<1> DEFINE K == [L EXCEPT ![s0] = Append(@, m0)]
<1>1. \A s \in Slot : s # s0 => K[s] = L[s]
  OBVIOUS
<1>2. /\ L[s0] \in Seq(Mission) /\ Len(L[s0]) \in Nat
      /\ K[s0] = Append(L[s0], m0)
      /\ Len(K[s0]) = Len(L[s0]) + 1
      /\ K[s0][Len(L[s0]) + 1] = m0
      /\ \A i \in 1..Len(L[s0]) : K[s0][i] = L[s0][i]
  OBVIOUS
<1> HIDE DEF K
<1>3. \A s \in Slot : \A i \in 1..Len(K[s]) :
        \/ i \in 1..Len(L[s]) /\ K[s][i] = L[s][i]
        \/ s = s0 /\ i = Len(L[s0]) + 1 /\ K[s][i] = m0
  BY <1>1, <1>2
<1>4. \A s \in Slot : \A i \in 1..Len(L[s]) :
        i \in 1..Len(K[s]) /\ K[s][i] = L[s][i] /\ L[s][i] # m0
  BY <1>1, <1>2 DEF Holds, InList
<1>5. Unique(K)
  <2> SUFFICES ASSUME NEW s \in Slot, NEW t \in Slot,
                      NEW i \in 1..Len(K[s]), NEW j \in 1..Len(K[t]), K[s][i] = K[t][j]
               PROVE  s = t /\ i = j
    BY DEF Unique
  <2>1. CASE i \in 1..Len(L[s]) /\ K[s][i] = L[s][i]
    <3>1. K[t][j] # m0
      BY <1>4, <2>1
    <3>2. j \in 1..Len(L[t]) /\ K[t][j] = L[t][j]
      BY <1>3, <3>1
    <3>3. L[s][i] = L[t][j]
      BY <2>1, <3>2
    <3>4. \A k \in 1..Len(L[s]), l \in 1..Len(L[t]) : L[s][k] = L[t][l] => s = t /\ k = l
      BY DEF Unique
    <3> QED
      BY <2>1, <3>2, <3>3, <3>4
  <2>2. CASE s = s0 /\ i = Len(L[s0]) + 1 /\ K[s][i] = m0
    <3>1. ~(j \in 1..Len(L[t]) /\ K[t][j] = L[t][j])
      BY <1>4, <2>2
    <3>2. t = s0 /\ j = Len(L[s0]) + 1
      BY <1>3, <3>1
    <3> QED
      BY <2>2, <3>2
  <2> QED
    BY <1>3, <2>1, <2>2
<1>6. \A m \in Mission : Holds(K, m) <=> Holds(L, m) \/ m = m0
  <2>1. Holds(K, m0)
    <3>1. Len(L[s0]) + 1 \in 1..Len(K[s0])
      BY <1>2
    <3> QED
      BY <1>2, <3>1 DEF Holds, InList
  <2>2. ASSUME NEW m \in Mission, Holds(L, m) PROVE Holds(K, m)
    BY <1>4, <2>2 DEF Holds, InList
  <2>3. ASSUME NEW m \in Mission, Holds(K, m), m # m0 PROVE Holds(L, m)
    BY <1>3, <2>3 DEF Holds, InList
  <2> QED
    BY <2>1, <2>2, <2>3
<1> QED
  BY <1>5, <1>6 DEF K

\* The head that is taken from a list is in none afterwards.
LEMMA TailKeepsUnique ==
  ASSUME NEW L \in [Slot -> Seq(Mission)], NEW s0 \in Slot, L[s0] # <<>>, Unique(L)
  PROVE  LET K == [L EXCEPT ![s0] = Tail(@)]
         IN  /\ Unique(K)
             /\ Holds(L, Head(L[s0]))
             /\ \A m \in Mission : Holds(K, m) <=> Holds(L, m) /\ m # Head(L[s0])
<1> DEFINE K == [L EXCEPT ![s0] = Tail(@)]
           h == Head(L[s0])
<1>1. \A s \in Slot : s # s0 => K[s] = L[s]
  OBVIOUS
<1>2. /\ L[s0] \in Seq(Mission) /\ Len(L[s0]) \in Nat \ {0}
      /\ K[s0] = Tail(L[s0])
      /\ Len(K[s0]) = Len(L[s0]) - 1
      /\ h = L[s0][1]
      /\ \A i \in 1..Len(K[s0]) : K[s0][i] = L[s0][i + 1]
  OBVIOUS
<1> HIDE DEF K, h
<1>3. /\ 1 \in 1..Len(L[s0])
      /\ \A i \in 1..Len(K[s0]) : i + 1 \in 1..Len(L[s0]) /\ i + 1 # 1
  BY <1>2
<1>4. \A i \in 1..Len(L[s0]) : i = 1 \/ (i - 1 \in 1..Len(K[s0]) /\ K[s0][i - 1] = L[s0][i])
  BY <1>2
<1>5. \A s \in Slot : \A i \in 1..Len(K[s]) :
        \/ s # s0 /\ i \in 1..Len(L[s]) /\ K[s][i] = L[s][i]
        \/ s = s0 /\ i + 1 \in 1..Len(L[s]) /\ i + 1 # 1 /\ K[s][i] = L[s][i + 1]
  BY <1>1, <1>2, <1>3
<1>6. \A s \in Slot : \A i \in 1..Len(K[s]) : K[s][i] # h
  BY <1>2, <1>3, <1>5 DEF Unique
<1>7. Unique(K)
  <2> SUFFICES ASSUME NEW s \in Slot, NEW t \in Slot,
                      NEW i \in 1..Len(K[s]), NEW j \in 1..Len(K[t]), K[s][i] = K[t][j]
               PROVE  s = t /\ i = j
    BY DEF Unique
  <2>1. CASE s = s0 /\ t = s0
    <3>1. i + 1 = j + 1
      BY <1>5, <2>1 DEF Unique
    <3> QED
      BY <2>1, <3>1, <1>2
  <2>2. CASE s = s0 /\ t # s0
    BY <1>5, <2>2 DEF Unique
  <2>3. CASE s # s0 /\ t = s0
    BY <1>5, <2>3 DEF Unique
  <2>4. CASE s # s0 /\ t # s0
    BY <1>5, <2>4 DEF Unique
  <2> QED
    BY <2>1, <2>2, <2>3, <2>4
<1>8. \A m \in Mission : Holds(K, m) <=> Holds(L, m) /\ m # h
  <2>1. ASSUME NEW m \in Mission, Holds(K, m) PROVE Holds(L, m) /\ m # h
    BY <1>5, <1>6, <2>1 DEF Holds, InList
  <2>2. ASSUME NEW m \in Mission, Holds(L, m), m # h PROVE Holds(K, m)
    <3>1. PICK s \in Slot : \E i \in 1..Len(L[s]) : L[s][i] = m
      BY <2>2 DEF Holds, InList
    <3>2. CASE s # s0
      BY <1>1, <3>1, <3>2 DEF Holds, InList
    <3>3. CASE s = s0
      <4>1. PICK i \in 1..Len(L[s0]) : L[s0][i] = m
        BY <3>1, <3>3
      <4>2. i # 1
        BY <1>2, <2>2, <4>1
      <4>3. i - 1 \in 1..Len(K[s0]) /\ K[s0][i - 1] = m
        BY <1>4, <4>1, <4>2
      <4> QED
        BY <4>3 DEF Holds, InList
    <3> QED
      BY <3>2, <3>3
  <2> QED
    BY <2>1, <2>2
<1>9. Holds(L, h)
  BY <1>2, <1>3 DEF Holds, InList
<1> QED
  BY <1>7, <1>8, <1>9 DEF K, h

\* Emptying a list keeps the others.
LEMMA EmptyKeepsUnique ==
  ASSUME NEW L \in [Slot -> Seq(Mission)], NEW s0 \in Slot, Unique(L)
  PROVE  LET K == [L EXCEPT ![s0] = <<>>]
         IN  /\ Unique(K)
             /\ \A m \in Mission : Holds(K, m) <=> Holds(L, m) /\ ~InList(L[s0], m)
<1> DEFINE K == [L EXCEPT ![s0] = <<>>]
<1>1. \A s \in Slot : s # s0 => K[s] = L[s]
  OBVIOUS
<1>2. K[s0] = <<>> /\ Len(K[s0]) = 0
  OBVIOUS
<1> HIDE DEF K
<1>3. \A s \in Slot : \A i \in 1..Len(K[s]) :
        s # s0 /\ i \in 1..Len(L[s]) /\ K[s][i] = L[s][i]
  BY <1>1, <1>2
<1>4. Unique(K)
  BY <1>3 DEF Unique
<1>5. \A m \in Mission : Holds(K, m) <=> Holds(L, m) /\ ~InList(L[s0], m)
  <2>1. ASSUME NEW m \in Mission, Holds(K, m) PROVE Holds(L, m) /\ ~InList(L[s0], m)
    <3>1. PICK s \in Slot : \E i \in 1..Len(K[s]) : K[s][i] = m
      BY <2>1 DEF Holds, InList
    <3>2. PICK i \in 1..Len(L[s]) : s # s0 /\ L[s][i] = m
      BY <1>3, <3>1
    <3>3. \A j \in 1..Len(L[s0]) : L[s0][j] # m
      BY <3>2 DEF Unique
    <3> QED
      BY <3>2, <3>3 DEF Holds, InList
  <2>2. ASSUME NEW m \in Mission, Holds(L, m), ~InList(L[s0], m) PROVE Holds(K, m)
    BY <1>1, <2>2 DEF Holds, InList
  <2> QED
    BY <2>1, <2>2
<1> QED
  BY <1>4, <1>5 DEF K

\* The function of lists is one of sequences of missions.
LEMMA ListsTyped == IInv => Lists \in [Slot -> Seq(Mission)]
BY DEF IInv, TypeOK, QueueTypeOK, Lists, ListAt, Slot

\* An operation on one of the double-buffered lists ...
LEMMA ListChanged ==
  ASSUME IInv, NEW d \in Chan, NEW i \in 0..1, NEW list,
         m_to_pu_q' = [m_to_pu_q EXCEPT ![d][i] = list], UNCHANGED m_post_to_app_q
  PROVE  <<d, i>> \in Slot /\ Lists[<<d, i>>] = m_to_pu_q[d][i]
         /\ Lists' = [Lists EXCEPT ![<<d, i>>] = list]
<1>1. m_to_pu_q \in [Chan -> [0..1 -> Seq(Mission)]]
  BY DEF IInv, TypeOK, QueueTypeOK
<1>2. /\ <<d, i>> \in Slot /\ <<d, i>> # <<"post", 0>>
      /\ \A s \in Slot : s # <<"post", 0>> => s[1] \in Chan /\ s[2] \in 0..1 /\ s = <<s[1], s[2]>>
  BY DEF Slot, Chan
<1>3. \A s \in Slot : ListAt(s)' = IF s = <<d, i>> THEN list ELSE ListAt(s)
  BY <1>1, <1>2 DEF ListAt
<1>4. Lists[<<d, i>>] = m_to_pu_q[d][i]
  BY <1>2 DEF Lists, ListAt
<1>5. Lists' = [s \in Slot |-> IF s = <<d, i>> THEN list ELSE ListAt(s)]
  BY <1>3 DEF Lists
<1> QED
  BY <1>2, <1>4, <1>5 DEF Lists

\* ... and one on the datagrams.
LEMMA PostChanged ==
  ASSUME NEW list, m_post_to_app_q' = list, UNCHANGED m_to_pu_q
  PROVE  <<"post", 0>> \in Slot /\ Lists[<<"post", 0>>] = m_post_to_app_q
         /\ Lists' = [Lists EXCEPT ![<<"post", 0>>] = list]
<1>1. <<"post", 0>> \in Slot
  BY DEF Slot
<1>2. \A s \in Slot : ListAt(s)' = IF s = <<"post", 0>> THEN list ELSE ListAt(s)
  BY DEF ListAt
<1> QED
  BY <1>1, <1>2 DEF Lists, ListAt

\* A producer that leaves its call has no mission any more, and nobody else
\* had that one.
LEMMA CallEnds ==
  ASSUME IInv, OwnInv, NEW p \in Producer, prod[p].at # "out",
         prod' = [prod EXCEPT ![p] = NoCall]
  PROVE  /\ OfferedOnce'
         /\ \A r \in Producer : prod'[r].at = "out" => prod'[r] = NoCall
         /\ fate[prod[p].mission] = "offered"
         /\ \A m \in Mission :
              (\E r \in Producer : prod[r].mission = m)' <=>
                (\E r \in Producer : prod[r].mission = m) /\ m # prod[p].mission
<1>1. /\ prod \in [Producer -> Call] /\ prod[p].mission \in Mission
      /\ \A r \in Producer : prod'[r] = IF r = p THEN NoCall ELSE prod[r]
  BY DEF IInv, TypeOK, CallInv
<1>2. NoCall.at = "out" /\ NoCall.mission = NoMission /\ NoMission \notin Mission
  BY SipStackTaskAssumption DEF NoCall
<1>3. fate[prod[p].mission] = "offered"
  BY <1>1 DEF OwnInv, Owned
<1>4. \A r \in Producer : r # p => prod[r].mission # prod[p].mission
  BY DEF OwnInv, OfferedOnce
<1>5. OfferedOnce'
  <2> SUFFICES ASSUME NEW q \in Producer, NEW r \in Producer,
                      prod'[q].mission = prod'[r].mission, prod'[q].at # "out"
               PROVE  q = r
    BY DEF OfferedOnce
  <2>1. q # p /\ prod[q].at # "out" /\ prod'[q] = prod[q]
    BY <1>1, <1>2
  <2>2. prod[q].mission \in Mission
    BY <2>1 DEF IInv, CallInv
  <2>3. r # p /\ prod'[r] = prod[r]
    BY <1>1, <1>2, <2>1, <2>2
  <2> QED
    BY <2>1, <2>3 DEF OwnInv, OfferedOnce
<1>6. \A r \in Producer : prod'[r].at = "out" => prod'[r] = NoCall
  BY <1>1 DEF OwnInv
<1> QED
  BY <1>1, <1>2, <1>3, <1>4, <1>5, <1>6

\* The steps that touch no list, no mission and no call.
LEMMA OwnUnchanged ==
  ASSUME OwnInv, UNCHANGED <<m_to_pu_q, m_post_to_app_q, fate, hand, prod>>
  PROVE  OwnInv'
BY DEF OwnInv, Owned, OfferedOnce, Lists, ListAt

\* A producer inside a call owns the mission it brought.
LEMMA OfferOwn ==
  ASSUME IInv, OwnInv, NEW p \in Producer, NEW d \in Queue, Offer(p, d)
  PROVE  OwnInv'
<1>1. /\ prod[p].at = "out"
      /\ UNCHANGED <<m_to_pu_q, m_post_to_app_q, hand>>
  BY DEF Offer, queueVars, workerVars
<1>2. PICK m0 \in Mission :
        /\ fate[m0] = "new"
        /\ \/ /\ prod' = [prod EXCEPT ![p] =
                           [at |-> "checked", queue |-> d, mission |-> m0, write |-> 0]]
              /\ fate' = [fate EXCEPT ![m0] = "offered"]
           \/ fate' = [fate EXCEPT ![m0] = "returned"] /\ UNCHANGED prod
  BY DEF Offer
<1>3. Lists' = Lists
  BY <1>1 DEF Lists, ListAt
<1>4. /\ fate \in [Mission -> Fate] /\ prod \in [Producer -> Call]
      /\ NoCall.mission = NoMission /\ NoMission \notin Mission
      /\ prod[p] = NoCall
  BY <1>1, SipStackTaskAssumption DEF IInv, TypeOK, OwnInv, NoCall
<1>5. /\ ~Holds(Lists, m0) /\ hand # m0
      /\ \A r \in Producer : prod[r].mission # m0
  BY <1>2 DEF OwnInv, Owned
<1>6. CASE UNCHANGED prod
  <2>1. fate' = [fate EXCEPT ![m0] = "returned"] \/ fate' = [fate EXCEPT ![m0] = "offered"]
    BY <1>2
  <2>2. prod # [prod EXCEPT ![p] =
                  [at |-> "checked", queue |-> d, mission |-> m0, write |-> 0]]
    BY <1>4, <1>5
  <2>3. fate' = [fate EXCEPT ![m0] = "returned"]
    BY <1>2, <1>6, <2>2
  <2>4. \A m \in Mission : Owned(m)'
    BY <1>1, <1>3, <1>4, <1>5, <1>6, <2>3 DEF OwnInv, Owned
  <2> QED
    BY <1>3, <1>6, <2>4 DEF OwnInv, OfferedOnce
<1>7. CASE /\ prod' = [prod EXCEPT ![p] =
                        [at |-> "checked", queue |-> d, mission |-> m0, write |-> 0]]
           /\ fate' = [fate EXCEPT ![m0] = "offered"]
  <2>1. \A r \in Producer : r # p => prod'[r] = prod[r]
    BY <1>7, <1>4
  <2>2. prod'[p].at = "checked" /\ prod'[p].mission = m0
    BY <1>7, <1>4
  <2>3. \A m \in Mission : Owned(m)'
    BY <1>1, <1>3, <1>4, <1>5, <1>7, <2>1, <2>2 DEF OwnInv, Owned
  <2>4. OfferedOnce'
    BY <1>5, <2>1, <2>2 DEF OwnInv, OfferedOnce
  <2>5. \A r \in Producer : prod'[r].at = "out" => prod'[r] = NoCall
    BY <2>1, <2>2 DEF OwnInv
  <2> QED
    BY <1>3, <2>3, <2>4, <2>5 DEF OwnInv
<1> QED
  BY <1>2, <1>6, <1>7

\* The mutex changes no owner.
LEMMA LockOwn ==
  ASSUME IInv, OwnInv, NEW p \in Producer, Lock(p)
  PROVE  OwnInv'
<1>1. /\ prod[p].at = "checked"
      /\ UNCHANGED <<m_to_pu_q, m_post_to_app_q, fate, hand>>
  BY DEF Lock, workerVars
<1>2. PICK w : prod' = [prod EXCEPT ![p] = [@ EXCEPT !.at = "locked", !.write = w]]
  BY DEF Lock
<1>3. prod \in [Producer -> Call]
  BY DEF IInv, TypeOK
<1>4. \A r \in Producer : prod'[r].mission = prod[r].mission /\ (prod'[r].at = "out" <=> prod[r].at = "out")
                          /\ (r # p => prod'[r] = prod[r])
  BY <1>1, <1>2, <1>3 DEF Call
<1>5. Lists' = Lists
  BY <1>1 DEF Lists, ListAt
<1>6. \A m \in Mission : Owned(m)'
  BY <1>1, <1>4, <1>5 DEF OwnInv, Owned
<1>7. OfferedOnce'
  BY <1>4 DEF OwnInv, OfferedOnce
<1>8. \A r \in Producer : prod'[r].at = "out" => prod'[r] = NoCall
  BY <1>1, <1>4 DEF OwnInv
<1> QED
  BY <1>5, <1>6, <1>7, <1>8 DEF OwnInv

\* A call that appends hands its mission over to the list.
LEMMA AppendOwn ==
  ASSUME IInv, OwnInv, NEW p \in Producer, prod[p].at # "out",
         NEW s \in Slot, UNCHANGED hand,
         Lists' = [Lists EXCEPT ![s] = Append(@, prod[p].mission)],
         prod' = [prod EXCEPT ![p] = NoCall],
         fate' = [fate EXCEPT ![prod[p].mission] = "queued"]
  PROVE  OwnInv'
<1> DEFINE m0 == prod[p].mission
<1>1. m0 \in Mission /\ fate \in [Mission -> Fate] /\ Lists \in [Slot -> Seq(Mission)]
  BY ListsTyped DEF IInv, TypeOK, CallInv
<1>2. /\ OfferedOnce'
      /\ \A r \in Producer : prod'[r].at = "out" => prod'[r] = NoCall
      /\ fate[m0] = "offered"
      /\ \A m \in Mission :
           (\E r \in Producer : prod[r].mission = m)' <=>
             (\E r \in Producer : prod[r].mission = m) /\ m # m0
  BY CallEnds
<1>3. ~Holds(Lists, m0) /\ hand # m0 /\ Unique(Lists)
  BY <1>1, <1>2 DEF OwnInv, Owned
<1>4. Unique(Lists') /\ \A m \in Mission : Holds(Lists', m) <=> Holds(Lists, m) \/ m = m0
  BY <1>1, <1>3, AppendKeepsUnique
<1>5. \A m \in Mission : fate'[m] = IF m = m0 THEN "queued" ELSE fate[m]
  BY <1>1
<1>6. \A m \in Mission : Owned(m)'
  <2> SUFFICES ASSUME NEW m \in Mission PROVE Owned(m)'
    OBVIOUS
  <2>1. Owned(m)
    BY DEF OwnInv
  <2>2. Holds(Lists, m)' <=> Holds(Lists, m) \/ m = m0
    BY <1>4
  <2>3. (\E r \in Producer : prod[r].mission = m)' <=>
          (\E r \in Producer : prod[r].mission = m) /\ m # m0
    BY <1>2
  <2> HIDE DEF m0
  <2> QED
    BY <1>2, <1>3, <1>5, <2>1, <2>2, <2>3 DEF Owned
<1>7. Unique(Lists)'
  BY <1>4
<1> QED
  BY <1>2, <1>6, <1>7 DEF OwnInv

\* Push gives the mission to a list ...
LEMMA PushOwn ==
  ASSUME IInv, OwnInv, NEW p \in Producer, Push(p)
  PROVE  OwnInv'
<1> DEFINE d == prod[p].queue
           i == prod[p].write
           m == prod[p].mission
<1>1. /\ prod[p].at = "locked"
      /\ m_to_pu_q' = [m_to_pu_q EXCEPT ![d][i] = Append(@, m)]
      /\ prod' = [prod EXCEPT ![p] = NoCall]
      /\ fate' = [fate EXCEPT ![m] = "queued"]
      /\ UNCHANGED <<m_post_to_app_q, hand>>
  BY DEF Push, workerVars
<1>2. d \in Chan /\ i \in 0..1 /\ prod \in [Producer -> Call]
  BY <1>1 DEF IInv, TypeOK, CallInv, Call
<1> HIDE DEF d, i, m
<1>3. m_to_pu_q' = [m_to_pu_q EXCEPT ![d][i] = Append(m_to_pu_q[d][i], m)]
  BY <1>1, <1>2 DEF IInv, TypeOK, QueueTypeOK
<1>4. /\ <<d, i>> \in Slot /\ Lists[<<d, i>>] = m_to_pu_q[d][i]
      /\ Lists' = [Lists EXCEPT ![<<d, i>>] = Append(m_to_pu_q[d][i], m)]
  <2> DEFINE list == Append(m_to_pu_q[d][i], m)
  <2>1. m_to_pu_q' = [m_to_pu_q EXCEPT ![d][i] = list] /\ UNCHANGED m_post_to_app_q
    BY <1>1, <1>3
  <2> HIDE DEF list
  <2>2. /\ <<d, i>> \in Slot /\ Lists[<<d, i>>] = m_to_pu_q[d][i]
        /\ Lists' = [Lists EXCEPT ![<<d, i>>] = list]
    BY <1>2, <2>1, ListChanged
  <2> QED
    BY <2>2 DEF list
<1>5. Lists' = [Lists EXCEPT ![<<d, i>>] = Append(@, m)]
  BY <1>4, ListsTyped
<1> QED
  BY <1>1, <1>4, <1>5, AppendOwn DEF m

\* ... and PostToApp to the datagrams.
LEMMA PostToAppOwn ==
  ASSUME IInv, OwnInv, NEW p \in Producer, PostToApp(p)
  PROVE  OwnInv'
<1> DEFINE m == prod[p].mission
<1>1. /\ prod[p].at = "checked"
      /\ m_post_to_app_q' = Append(m_post_to_app_q, m)
      /\ prod' = [prod EXCEPT ![p] = NoCall]
      /\ fate' = [fate EXCEPT ![m] = "queued"]
      /\ UNCHANGED <<m_to_pu_q, hand>>
  BY DEF PostToApp, workerVars
<1>2. /\ <<"post", 0>> \in Slot /\ Lists[<<"post", 0>>] = m_post_to_app_q
      /\ Lists' = [Lists EXCEPT ![<<"post", 0>>] = Append(m_post_to_app_q, m)]
  BY <1>1, PostChanged
<1>3. Lists' = [Lists EXCEPT ![<<"post", 0>>] = Append(@, m)]
  BY <1>2, ListsTyped
<1> QED
  BY <1>1, <1>2, <1>3, AppendOwn

\* The mission the thread takes from a list goes to its hand.
LEMMA TakeOwn ==
  ASSUME IInv, OwnInv, NEW s \in Slot, Lists[s] # <<>>, UNCHANGED prod,
         hand = NoMission, hand' = Head(Lists[s]),
         Lists' = [Lists EXCEPT ![s] = Tail(@)],
         fate' = [fate EXCEPT ![Head(Lists[s])] = "held"]
  PROVE  OwnInv'
<1> DEFINE m0 == Head(Lists[s])
<1>1. Lists \in [Slot -> Seq(Mission)] /\ fate \in [Mission -> Fate]
  BY ListsTyped DEF IInv, TypeOK
<1>2. m0 \in Mission
  BY <1>1
<1>3. /\ Unique(Lists') /\ Holds(Lists, m0)
      /\ \A m \in Mission : Holds(Lists', m) <=> Holds(Lists, m) /\ m # m0
  BY <1>1, TailKeepsUnique DEF OwnInv
<1>4. fate[m0] = "queued"
  BY <1>2, <1>3 DEF OwnInv, Owned
<1>5. \A m \in Mission : Owned(m)'
  <2> SUFFICES ASSUME NEW m \in Mission PROVE Owned(m)'
    OBVIOUS
  <2>1. Owned(m) /\ m # NoMission
    BY SipStackTaskAssumption DEF OwnInv
  <2>2. Holds(Lists, m)' <=> Holds(Lists, m) /\ m # m0
    BY <1>3
  <2>3. fate'[m] = (IF m = m0 THEN "held" ELSE fate[m]) /\ hand' = m0
    BY <1>1, <1>2
  <2> HIDE DEF m0
  <2> QED
    BY <1>4, <2>1, <2>2, <2>3 DEF Owned
<1>6. Unique(Lists)'
  BY <1>3
<1> QED
  BY <1>5, <1>6 DEF OwnInv, OfferedOnce

\* Pop gives it to the thread ...
LEMMA PopOwn == IInv /\ OwnInv /\ Pop => OwnInv'
<1> SUFFICES ASSUME IInv, OwnInv, Pop PROVE OwnInv'
  OBVIOUS
<1> DEFINE i == m_to_pu_q_read_ui[wchan]
<1>1. /\ wat = "pop"
      /\ hand' = Head(m_to_pu_q[wchan][i])
      /\ m_to_pu_q' = [m_to_pu_q EXCEPT ![wchan][i] = Tail(@)]
      /\ fate' = [fate EXCEPT ![hand'] = "held"]
      /\ UNCHANGED <<m_post_to_app_q, prod>>
  BY DEF Pop, ReadList
<1>2. wchan \in Chan /\ i \in 0..1 /\ hand = NoMission /\ m_to_pu_q[wchan][i] # <<>>
  BY <1>1 DEF IInv, TypeOK, QueueTypeOK, WorkerTypeOK, WorkerInv, ReadList
<1> HIDE DEF i
<1>3. m_to_pu_q' = [m_to_pu_q EXCEPT ![wchan][i] = Tail(m_to_pu_q[wchan][i])]
  BY <1>1, <1>2 DEF IInv, TypeOK, QueueTypeOK
<1>4. /\ <<wchan, i>> \in Slot /\ Lists[<<wchan, i>>] = m_to_pu_q[wchan][i]
      /\ Lists' = [Lists EXCEPT ![<<wchan, i>>] = Tail(m_to_pu_q[wchan][i])]
  BY <1>1, <1>2, <1>3, ListChanged
<1>5. Lists' = [Lists EXCEPT ![<<wchan, i>>] = Tail(@)]
  BY <1>4, ListsTyped
<1> QED
  BY <1>1, <1>2, <1>4, <1>5, TakeOwn

\* ... and so does the receive stage, if there is one.
LEMMA TakePostOwn == IInv /\ OwnInv /\ TakePost => OwnInv'
<1> SUFFICES ASSUME IInv, OwnInv, TakePost PROVE OwnInv'
  OBVIOUS
<1>1. wat = "post" /\ UNCHANGED <<m_to_pu_q, prod>>
  BY DEF TakePost
<1>2. CASE m_post_to_app_q = <<>>
  BY <1>1, <1>2, OwnUnchanged DEF TakePost
<1>3. CASE m_post_to_app_q # <<>>
  <2>1. /\ hand' = Head(m_post_to_app_q)
        /\ m_post_to_app_q' = Tail(m_post_to_app_q)
        /\ fate' = [fate EXCEPT ![hand'] = "held"]
    BY <1>3 DEF TakePost
  <2>2. /\ <<"post", 0>> \in Slot /\ Lists[<<"post", 0>>] = m_post_to_app_q
        /\ Lists' = [Lists EXCEPT ![<<"post", 0>>] = Tail(m_post_to_app_q)]
    BY <1>1, <2>1, PostChanged
  <2>3. Lists' = [Lists EXCEPT ![<<"post", 0>>] = Tail(@)]
    BY <2>2, ListsTyped
  <2>4. hand = NoMission
    BY <1>1 DEF IInv, WorkerInv
  <2> QED
    BY <1>1, <1>3, <2>1, <2>2, <2>3, <2>4, TakeOwn
<1> QED
  BY <1>2, <1>3

\* The mission in hand is released, by the one thread that has it.
LEMMA ReleaseOwn ==
  ASSUME IInv, OwnInv, hand # NoMission, NEW f \in {"executed", "refused"},
         fate' = [fate EXCEPT ![hand] = f], hand' = NoMission,
         UNCHANGED <<m_to_pu_q, m_post_to_app_q, prod>>
  PROVE  OwnInv'
<1>1. hand \in Mission /\ fate \in [Mission -> Fate]
  BY DEF IInv, TypeOK, WorkerTypeOK
<1>2. fate[hand] = "held" /\ Lists' = Lists
  BY <1>1 DEF OwnInv, Owned, Lists, ListAt
<1>3. \A m \in Mission : fate'[m] = (IF m = hand THEN f ELSE fate[m]) /\ m # NoMission
  BY <1>1, SipStackTaskAssumption
<1>4. \A m \in Mission : Owned(m)'
  BY <1>2, <1>3 DEF OwnInv, Owned
<1> QED
  BY <1>2, <1>4 DEF OwnInv, OfferedOnce

\* Fini releases what is in the list it empties, and nothing else.
LEMMA DiscardOwn ==
  ASSUME IInv, OwnInv, NEW s \in Slot, Lists' = [Lists EXCEPT ![s] = <<>>],
         fate' = Discarded(Lists[s]), UNCHANGED <<hand, prod>>
  PROVE  OwnInv'
<1>1. Lists \in [Slot -> Seq(Mission)] /\ Unique(Lists)
  BY ListsTyped DEF OwnInv
<1>2. Unique(Lists') /\ \A m \in Mission : Holds(Lists', m) <=> Holds(Lists, m) /\ ~InList(Lists[s], m)
  BY <1>1, EmptyKeepsUnique
<1>3. \A m \in Mission : InList(Lists[s], m) => fate[m] = "queued"
  BY DEF OwnInv, Owned, Holds
<1>4. \A m \in Mission : fate'[m] = IF InList(Lists[s], m) THEN "discarded" ELSE fate[m]
  BY DEF Discarded, InList
<1>5. \A m \in Mission : Owned(m)'
  <2> SUFFICES ASSUME NEW m \in Mission PROVE Owned(m)'
    OBVIOUS
  <2>1. Holds(Lists, m)' <=> Holds(Lists, m) /\ ~InList(Lists[s], m)
    BY <1>2
  <2> QED
    BY <1>3, <1>4, <2>1 DEF OwnInv, Owned
<1>6. Unique(Lists)'
  BY <1>2
<1> QED
  BY <1>5, <1>6 DEF OwnInv, OfferedOnce

\* Fini empties one of the four lists ...
LEMMA FiniClearOwn == IInv /\ OwnInv /\ FiniClear => OwnInv'
<1> SUFFICES ASSUME IInv, OwnInv, FiniClear PROVE OwnInv'
  OBVIOUS
<1>1. UNCHANGED <<m_post_to_app_q, hand, prod>>
  BY DEF FiniClear, workerVars
<1>2. PICK d \in Chan, i \in 0..1 :
        /\ m_to_pu_q' = [m_to_pu_q EXCEPT ![d][i] = <<>>]
        /\ fate' = Discarded(m_to_pu_q[d][i])
  <2>1. cleared \in 0..3
    BY DEF FiniClear, IInv, TypeOK, ControlTypeOK
  <2>2. ClearOrder[cleared + 1][1] \in Chan /\ ClearOrder[cleared + 1][2] \in 0..1
    BY <2>1 DEF ClearOrder, Chan
  <2> QED
    BY <2>2 DEF FiniClear
<1>3. /\ <<d, i>> \in Slot /\ Lists[<<d, i>>] = m_to_pu_q[d][i]
      /\ Lists' = [Lists EXCEPT ![<<d, i>>] = <<>>]
  BY <1>1, <1>2, ListChanged
<1> QED
  BY <1>1, <1>2, <1>3, DiscardOwn

\* ... and the datagrams.
LEMMA FiniClearPostOwn == IInv /\ OwnInv /\ FiniClearPost => OwnInv'
<1> SUFFICES ASSUME IInv, OwnInv, FiniClearPost PROVE OwnInv'
  OBVIOUS
<1>1. /\ fate' = Discarded(m_post_to_app_q)
      /\ m_post_to_app_q' = <<>>
      /\ UNCHANGED <<m_to_pu_q, hand, prod>>
  BY DEF FiniClearPost, workerVars
<1> QED
  BY <1>1, PostChanged, DiscardOwn

\* Every step keeps the owners apart.
LEMMA NextOwn == IInv /\ OwnInv /\ [Next]_vars => OwnInv'
<1> SUFFICES ASSUME IInv, OwnInv, [Next]_vars PROVE OwnInv'
  OBVIOUS
<1>1. ASSUME NEW p \in Producer,
             RequestToPu(p) \/ RespondToPu(p) \/ HandleRecv(p)
      PROVE  OwnInv'
  <2>1. PICK d \in Queue : Offer(p, d)
    BY <1>1 DEF RequestToPu, RespondToPu, HandleRecv, Queue, Chan
  <2> QED
    BY <2>1, OfferOwn
<1>2. ASSUME NEW p \in Producer, Lock(p) \/ Push(p) \/ PostToApp(p)
      PROVE  OwnInv'
  BY <1>2, LockOwn, PushOwn, PostToAppOwn
<1>3. CASE While \/ Test \/ Swap \/ Recheck
  BY <1>3, OwnUnchanged DEF While, Test, Swap, Recheck, queueVars
<1>4. CASE Pop \/ TakePost
  BY <1>4, PopOwn, TakePostOwn
<1>5. CASE Execute
  BY <1>5, ReleaseOwn DEF Execute, IInv, WorkerInv, queueVars
<1>6. CASE HandleRecvMession
  <2>1. /\ hand # NoMission /\ hand' = NoMission
        /\ UNCHANGED <<m_to_pu_q, m_post_to_app_q, prod>>
    BY <1>6 DEF HandleRecvMession, IInv, WorkerInv, queueVars
  <2>2. PICK f \in {"executed", "refused"} : fate' = [fate EXCEPT ![hand] = f]
    BY <1>6 DEF HandleRecvMession
  <2> QED
    BY <2>1, <2>2, ReleaseOwn
<1>7. CASE InitBegin \/ Spawn \/ InitEnd \/ FiniBegin \/ FiniWait \/ FiniEnd
  BY <1>7, OwnUnchanged
     DEF InitBegin, Spawn, InitEnd, FiniBegin, FiniWait, FiniEnd, queueVars, workerVars
<1>8. CASE FiniClear \/ FiniClearPost
  BY <1>8, FiniClearOwn, FiniClearPostOwn
<1>9. CASE UNCHANGED vars
  BY <1>9, OwnUnchanged DEF vars, queueVars, workerVars
<1> QED
  BY <1>1, <1>2, <1>3, <1>4, <1>5, <1>6, <1>7, <1>8, <1>9
     DEF Next, Producers, Worker, Control

\* At first nobody owns a mission.
LEMMA InitOwn == Init => OwnInv
<1> SUFFICES ASSUME Init PROVE OwnInv
  OBVIOUS
<1>1. \A s \in Slot : Lists[s] = <<>> /\ Len(Lists[s]) = 0
  BY DEF Init, Lists, ListAt, Slot, Chan
<1>2. Unique(Lists) /\ \A m \in Mission : ~Holds(Lists, m)
  BY <1>1 DEF Unique, Holds, InList
<1>3. /\ \A m \in Mission : fate[m] = "new" /\ hand # m
      /\ \A p \in Producer : prod[p] = NoCall
  BY SipStackTaskAssumption DEF Init
<1>4. NoCall.at = "out" /\ NoCall.mission = NoMission /\ NoMission \notin Mission
  BY SipStackTaskAssumption DEF NoCall
<1>5. \A m \in Mission : Owned(m)
  BY <1>2, <1>3, <1>4 DEF Owned
<1> QED
  BY <1>2, <1>3, <1>4, <1>5 DEF OwnInv, OfferedOnce

\* Every mission accepted is in exactly one list or in the thread's hand until
\* it is released (RequestToPu, RespondToPu, PostToApp, svc and Fini): none is
\* deleted twice, none is lost.
THEOREM MissionsHaveOneOwner == Spec => []OneOwner
<1>1. Init => IInv /\ OwnInv
  BY InitIInv, InitOwn
<1>2. (IInv /\ OwnInv) /\ [Next]_vars => (IInv /\ OwnInv)'
  BY NextIInv, NextOwn
<1>3. IInv /\ OwnInv => OneOwner
  <2> SUFFICES ASSUME IInv, OwnInv PROVE OneOwner
    OBVIOUS
  <2>1. \A s \in Slot : Lists[s] = ListAt(s)
    BY DEF Lists
  <2>2. \A s, t \in Slot : \A i \in 1..Len(ListAt(s)), j \in 1..Len(ListAt(t)) :
          ListAt(s)[i] = ListAt(t)[j] => s = t /\ i = j
    BY <2>1 DEF OwnInv, Unique
  <2>3. \A m \in Mission :
          Holds(Lists, m) <=> \E s \in Slot : \E i \in 1..Len(ListAt(s)) : ListAt(s)[i] = m
    BY <2>1 DEF Holds, InList
  <2>4. \A p, r \in Producer :
          prod[p].mission = prod[r].mission /\ prod[p] # NoCall => p = r
    BY DEF OwnInv, OfferedOnce
  <2> QED
    BY <2>2, <2>3, <2>4 DEF OneOwner, OwnInv, Owned
<1> QED
  BY <1>1, <1>2, <1>3, PTL DEF Spec

-----------------------------------------------------------------------------
(* The pair of lists, read without a lock, is one first-in first-out queue *)
(* with one consumer, for requests and for responses.  The argument is the *)
(* invariant and four facts about concatenation.                           *)

\* The abstract queue, hand and switch as state functions of the task.
Other(d) == m_to_pu_q[d][1 - m_to_pu_q_read_ui[d]]
Fifo(d) == ReadList(d) \o Other(d)
InHand(d) == IF wat = "execute" /\ wchan = d THEN hand ELSE NoMission
Running == wat # "off"

\* The steps of MissionQueue, and its stuttering, on those functions.
Stutters(d) == UNCHANGED <<Fifo(d), InHand(d), Running>>
Puts(d) ==
  /\ \E m \in Mission : Fifo(d)' = Append(Fifo(d), m)
  /\ UNCHANGED <<InHand(d), Running>>
Takes(d) ==
  /\ Running
  /\ InHand(d) = NoMission
  /\ Fifo(d) # <<>>
  /\ InHand(d)' = Head(Fifo(d))
  /\ Fifo(d)' = Tail(Fifo(d))
  /\ UNCHANGED Running
Finishes(d) ==
  /\ InHand(d) # NoMission
  /\ InHand(d)' = NoMission
  /\ UNCHANGED <<Fifo(d), Running>>
Switches(d) ==
  /\ InHand(d) = NoMission
  /\ Running' = ~Running
  /\ UNCHANGED <<Fifo(d), InHand(d)>>
Discards(d) ==
  /\ ~Running
  /\ \E n \in 0..Len(Fifo(d)) :
        \/ Fifo(d)' = SubSeq(Fifo(d), n + 1, Len(Fifo(d)))
        \/ Fifo(d)' = SubSeq(Fifo(d), 1, n)
  /\ UNCHANGED <<InHand(d), Running>>
FifoStep(d) == \/ Stutters(d) \/ Puts(d) \/ Takes(d) \/ Finishes(d)
               \/ Switches(d) \/ Discards(d)

-----------------------------------------------------------------------------
(* Concatenation.                                                          *)

\* Appending to the second of two lists appends to the queue they make.
LEMMA ConcatAppend ==
  ASSUME NEW S, NEW s \in Seq(S), NEW t \in Seq(S), NEW e \in S
  PROVE  s \o Append(t, e) = Append(s \o t, e)
<1>1. s \o t \in Seq(S) /\ <<e>> \in Seq(S)
  BY ConcatProperties
<1>2. Append(t, e) = t \o <<e>> /\ Append(s \o t, e) = (s \o t) \o <<e>>
  BY <1>1, AppendIsConcat
<1> QED
  BY <1>1, <1>2, ConcatAssociative

\* The head of the first list is the head of the queue they make.
LEMMA ConcatHeadTail ==
  ASSUME NEW S, NEW s \in Seq(S), NEW t \in Seq(S), s # <<>>
  PROVE  /\ s \o t # <<>>
         /\ Head(s \o t) = Head(s)
         /\ Tail(s \o t) = Tail(s) \o t
<1> DEFINE u == s \o t
<1>1. /\ u \in Seq(S)
      /\ Len(u) = Len(s) + Len(t)
      /\ \A i \in 1 .. Len(s) + Len(t) :
           u[i] = IF i <= Len(s) THEN s[i] ELSE t[i - Len(s)]
  BY ConcatProperties
<1>2. Len(s) \in Nat \ {0} /\ Len(t) \in Nat
  BY HeadTail, LenProperties
<1>3. u # <<>>
  BY ConcatEqualIffEmpty
<1>4. Head(u) = Head(s)
  BY <1>1, <1>2
<1>5. Tail(u) = Tail(s) \o t
  <2> DEFINE v == Tail(s) \o t
  <2>1. /\ Tail(s) \in Seq(S) /\ Len(Tail(s)) = Len(s) - 1
        /\ \A i \in 1 .. Len(Tail(s)) : Tail(s)[i] = s[i + 1]
    BY HeadTailProperties
  <2>2. /\ v \in Seq(S) /\ Len(v) = Len(s) - 1 + Len(t)
        /\ \A i \in 1 .. Len(s) - 1 + Len(t) :
             v[i] = IF i <= Len(s) - 1 THEN Tail(s)[i] ELSE t[i - (Len(s) - 1)]
    BY <2>1, ConcatProperties
  <2>3. /\ Tail(u) \in Seq(S) /\ Len(Tail(u)) = Len(u) - 1
        /\ \A i \in 1 .. Len(Tail(u)) : Tail(u)[i] = u[i + 1]
    BY <1>1, <1>3, HeadTailProperties
  <2> HIDE DEF u, v
  <2>4. Len(Tail(u)) = Len(v)
    BY <1>1, <1>2, <2>2, <2>3
  <2>5. \A i \in 1 .. Len(Tail(u)) : Tail(u)[i] = v[i]
    <3> SUFFICES ASSUME NEW i \in 1 .. Len(Tail(u)) PROVE Tail(u)[i] = v[i]
      OBVIOUS
    <3>1. i \in 1 .. Len(s) - 1 + Len(t) /\ i + 1 \in 1 .. Len(s) + Len(t)
      BY <1>1, <1>2, <2>3
    <3>2. Tail(u)[i] = IF i + 1 <= Len(s) THEN s[i + 1] ELSE t[i + 1 - Len(s)]
      BY <1>1, <2>3, <3>1
    <3>3. CASE i + 1 <= Len(s)
      BY <1>2, <2>1, <2>2, <3>1, <3>2, <3>3
    <3>4. CASE ~(i + 1 <= Len(s))
      <4>1. ~(i <= Len(s) - 1) /\ i + 1 - Len(s) = i - (Len(s) - 1)
        BY <1>2, <3>1, <3>4
      <4> QED
        BY <2>2, <3>1, <3>2, <3>4, <4>1
    <3> QED
      BY <3>3, <3>4
  <2>6. Tail(u) = v
    BY <2>2, <2>3, <2>4, <2>5, SeqEqual
  <2> QED
    BY <2>6 DEF u, v
<1> QED
  BY <1>3, <1>4, <1>5

\* Either part of a concatenation is a subsequence of it.
LEMMA ConcatParts ==
  ASSUME NEW S, NEW s \in Seq(S), NEW t \in Seq(S)
  PROVE  /\ Len(s) \in 0 .. Len(s \o t)
         /\ s = SubSeq(s \o t, 1, Len(s))
         /\ t = SubSeq(s \o t, Len(s) + 1, Len(s \o t))
<1> DEFINE u == s \o t
<1>1. /\ u \in Seq(S)
      /\ Len(u) = Len(s) + Len(t)
      /\ \A i \in 1 .. Len(s) + Len(t) :
           u[i] = IF i <= Len(s) THEN s[i] ELSE t[i - Len(s)]
  BY ConcatProperties
<1>2. Len(s) \in Nat /\ Len(t) \in Nat
  BY LenProperties
<1>3. \A i \in 1 .. Len(u) : u[i] \in S
  BY <1>1, ElementOfSeq
<1> HIDE DEF u
<1>4. s = SubSeq(u, 1, Len(s))
  <2> DEFINE v == SubSeq(u, 1, Len(s))
  <2>1. \A i \in 1 .. Len(s) : u[i] \in S
    BY <1>1, <1>2, <1>3
  <2>2. /\ v \in Seq(S)
        /\ Len(v) = IF 1 <= Len(s) THEN Len(s) - 1 + 1 ELSE 0
        /\ \A i \in 1 .. Len(s) - 1 + 1 : v[i] = u[1 + i - 1]
    BY <1>2, <2>1, SubSeqProperties
  <2> HIDE DEF v
  <2>3. Len(v) = Len(s)
    BY <1>2, <2>2
  <2>4. \A i \in 1 .. Len(s) : v[i] = s[i]
    BY <1>1, <1>2, <2>2
  <2>5. s = v
    BY <2>2, <2>3, <2>4, SeqEqual
  <2> QED
    BY <2>5 DEF v
<1>5. t = SubSeq(u, Len(s) + 1, Len(u))
  <2> DEFINE v == SubSeq(u, Len(s) + 1, Len(u))
  <2>1. \A i \in Len(s) + 1 .. Len(u) : u[i] \in S
    BY <1>1, <1>2, <1>3
  <2>2. /\ v \in Seq(S)
        /\ Len(v) = IF Len(s) + 1 <= Len(u) THEN Len(u) - (Len(s) + 1) + 1 ELSE 0
        /\ \A i \in 1 .. Len(u) - (Len(s) + 1) + 1 : v[i] = u[Len(s) + 1 + i - 1]
    BY <1>1, <1>2, <2>1, SubSeqProperties
  <2> HIDE DEF v
  <2>3. Len(v) = Len(t)
    BY <1>1, <1>2, <2>2
  <2>4. \A i \in 1 .. Len(t) : v[i] = t[i]
    <3> SUFFICES ASSUME NEW i \in 1 .. Len(t) PROVE v[i] = t[i]
      OBVIOUS
    <3>1. /\ i \in 1 .. Len(u) - (Len(s) + 1) + 1
          /\ Len(s) + 1 + i - 1 = Len(s) + i
          /\ Len(s) + i \in 1 .. Len(s) + Len(t)
          /\ ~(Len(s) + i <= Len(s))
          /\ Len(s) + i - Len(s) = i
      BY <1>1, <1>2
    <3> QED
      BY <1>1, <2>2, <3>1
  <2>5. t = v
    BY <2>2, <2>3, <2>4, SeqEqual
  <2> QED
    BY <2>5 DEF v
<1>6. Len(s) \in 0 .. Len(u)
  BY <1>1, <1>2
<1> QED
  BY <1>4, <1>5, <1>6 DEF u

-----------------------------------------------------------------------------
(* Every step of the task is a step of the queue.                          *)

\* The two lists of a queue, as the invariant types them.
LEMMA ListTypes ==
  ASSUME IInv, NEW d \in Chan
  PROVE  /\ m_to_pu_q_read_ui[d] \in 0..1
         /\ 1 - m_to_pu_q_read_ui[d] \in 0..1
         /\ 1 - m_to_pu_q_read_ui[d] # m_to_pu_q_read_ui[d]
         /\ ReadList(d) \in Seq(Mission)
         /\ Other(d) \in Seq(Mission)
         /\ Fifo(d) \in Seq(Mission)
<1>1. /\ m_to_pu_q \in [Chan -> [0..1 -> Seq(Mission)]]
      /\ m_to_pu_q_read_ui[d] \in 0..1
  BY DEF IInv, TypeOK, QueueTypeOK
<1>2. 1 - m_to_pu_q_read_ui[d] \in 0..1 /\ 1 - m_to_pu_q_read_ui[d] # m_to_pu_q_read_ui[d]
  BY <1>1
<1>3. ReadList(d) \in Seq(Mission) /\ Other(d) \in Seq(Mission)
  BY <1>1, <1>2 DEF ReadList, Other
<1> QED
  BY <1>1, <1>2, <1>3, ConcatProperties DEF Fifo

\* Steps that keep the queues, the hand and the thread's existence.
LEMMA QuietStep ==
  ASSUME NEW d \in Chan,
         UNCHANGED <<m_to_pu_q, m_to_pu_q_read_ui>>,
         InHand(d)' = InHand(d), Running' = Running
  PROVE  FifoStep(d)
BY DEF FifoStep, Stutters, Fifo, ReadList, Other

\* An append goes to the list that is not read, so to the end of the queue.
LEMMA PushStep ==
  ASSUME IInv, NEW d \in Chan, NEW p \in Producer, Push(p)
  PROVE  FifoStep(d)
<1> DEFINE c == prod[p].queue
           m == prod[p].mission
           w == prod[p].write
<1>1. /\ prod[p].at = "locked"
      /\ m_to_pu_q' = [m_to_pu_q EXCEPT ![c][w] = Append(@, m)]
      /\ UNCHANGED <<m_to_pu_q_read_ui, wat, wchan, hand>>
  BY DEF Push, workerVars
<1>2. m \in Mission /\ c \in Chan /\ w = 1 - m_to_pu_q_read_ui[c]
  BY <1>1 DEF IInv, CallInv
<1>3. m_to_pu_q \in [Chan -> [0..1 -> Seq(Mission)]]
  BY DEF IInv, TypeOK, QueueTypeOK
<1>4. UNCHANGED <<InHand(d), Running>>
  BY <1>1 DEF InHand, Running
<1> HIDE DEF c, m, w
<1>5. CASE d = c
  <2>1. ReadList(d)' = ReadList(d) /\ Other(d)' = Append(Other(d), m)
    BY <1>1, <1>2, <1>3, <1>5, ListTypes DEF ReadList, Other
  <2>2. Fifo(d)' = Append(Fifo(d), m)
    BY <1>2, <2>1, ListTypes, ConcatAppend DEF Fifo
  <2> QED
    BY <1>2, <1>4, <2>2 DEF FifoStep, Puts
<1>6. CASE d # c
  <2>1. Fifo(d)' = Fifo(d)
    BY <1>1, <1>2, <1>3, <1>6, ListTypes DEF Fifo, ReadList, Other
  <2> QED
    BY <1>4, <2>1 DEF FifoStep, Stutters
<1> QED
  BY <1>5, <1>6

\* The lists change places only while the one read is empty.
LEMMA SwapStep ==
  ASSUME IInv, NEW d \in Chan, Swap
  PROVE  FifoStep(d)
<1>1. /\ wat = "swap" /\ wat' = "recheck"
      /\ m_to_pu_q_read_ui' = [m_to_pu_q_read_ui EXCEPT ![wchan] = 1 - @]
      /\ UNCHANGED <<m_to_pu_q, wchan, hand>>
  BY DEF Swap
<1>2. /\ wchan \in Chan
      /\ m_to_pu_q_read_ui \in [Chan -> 0..1]
      /\ ReadList(wchan) = <<>>
  BY <1>1 DEF IInv, TypeOK, WorkerTypeOK, QueueTypeOK, WorkerInv
<1>3. UNCHANGED <<InHand(d), Running>>
  BY <1>1 DEF InHand, Running
<1>4. Fifo(d)' = Fifo(d)
  <2>1. CASE d = wchan
    <3> DEFINE r == m_to_pu_q_read_ui[d]
    <3>1. m_to_pu_q_read_ui'[d] = 1 - r
      BY <1>1, <1>2, <2>1
    <3>2. r \in 0..1
      BY <1>2
    <3> HIDE DEF r
    <3>3. 1 - (1 - r) = r
      BY <3>2
    <3>4. ReadList(d)' = Other(d) /\ Other(d)' = ReadList(d)
      BY <1>1, <3>1, <3>3 DEF ReadList, Other, r
    <3> QED
      BY <1>2, <2>1, <3>4, ListTypes, ConcatEmptySeq DEF Fifo
  <2>2. CASE d # wchan
    BY <1>1, <1>2, <2>2 DEF Fifo, ReadList, Other
  <2> QED
    BY <2>1, <2>2
<1> QED
  BY <1>3, <1>4 DEF FifoStep, Stutters

\* The front of the list that is read is the oldest mission of the queue.
LEMMA PopStep ==
  ASSUME IInv, NEW d \in Chan, Pop
  PROVE  FifoStep(d)
<1> DEFINE r == m_to_pu_q_read_ui[wchan]
<1>1. /\ wat = "pop" /\ wat' = "execute"
      /\ hand' = Head(ReadList(wchan))
      /\ m_to_pu_q' = [m_to_pu_q EXCEPT ![wchan][r] = Tail(@)]
      /\ UNCHANGED <<m_to_pu_q_read_ui, wchan>>
  BY DEF Pop
<1>2. /\ wchan \in Chan
      /\ m_to_pu_q \in [Chan -> [0..1 -> Seq(Mission)]]
      /\ ReadList(wchan) # <<>>
  BY <1>1 DEF IInv, TypeOK, WorkerTypeOK, QueueTypeOK, WorkerInv
<1>3. /\ r \in 0..1
      /\ InHand(d) = NoMission
      /\ Running
      /\ UNCHANGED Running
  BY <1>1, <1>2, ListTypes DEF InHand, Running
<1> HIDE DEF r
<1>4. CASE d = wchan
  <2>1. ReadList(d)' = Tail(ReadList(d)) /\ Other(d)' = Other(d)
    BY <1>1, <1>2, <1>3, <1>4, ListTypes DEF ReadList, Other, r
  <2>2. /\ Fifo(d) # <<>>
        /\ Head(Fifo(d)) = Head(ReadList(d))
        /\ Fifo(d)' = Tail(Fifo(d))
    <3>1. /\ ReadList(d) \in Seq(Mission)
          /\ Other(d) \in Seq(Mission)
          /\ ReadList(d) # <<>>
      BY <1>2, <1>4, ListTypes
    <3>2. /\ Fifo(d) # <<>>
          /\ Head(Fifo(d)) = Head(ReadList(d))
          /\ Tail(Fifo(d)) = Tail(ReadList(d)) \o Other(d)
      BY <3>1, ConcatHeadTail DEF Fifo
    <3>3. Fifo(d)' = Tail(ReadList(d)) \o Other(d)
      BY <2>1 DEF Fifo
    <3> QED
      BY <3>2, <3>3
  <2>3. InHand(d)' = Head(Fifo(d))
    BY <1>1, <1>4, <2>2 DEF InHand
  <2> QED
    BY <1>3, <2>2, <2>3 DEF FifoStep, Takes
<1>5. CASE d # wchan
  <2>1. Fifo(d)' = Fifo(d)
    BY <1>1, <1>2, <1>3, <1>5, ListTypes DEF Fifo, ReadList, Other
  <2>2. InHand(d)' = InHand(d)
    BY <1>1, <1>3, <1>5 DEF InHand
  <2> QED
    BY <1>3, <2>1, <2>2 DEF FifoStep, Stutters
<1> QED
  BY <1>4, <1>5

\* Fini empties one of the lists after the thread has ended: what is left is
\* the rest of the queue.
LEMMA FiniClearStep ==
  ASSUME IInv, NEW d \in Chan, FiniClear
  PROVE  FifoStep(d)
<1>1. /\ cat = "clear"
      /\ UNCHANGED <<m_to_pu_q_read_ui, wat, wchan, hand>>
  BY DEF FiniClear, workerVars
<1>2. PICK c \in Chan, i \in 0..1 : m_to_pu_q' = [m_to_pu_q EXCEPT ![c][i] = <<>>]
  <2>1. cleared \in 0..3
    BY DEF FiniClear, IInv, TypeOK, ControlTypeOK
  <2>2. ClearOrder[cleared + 1][1] \in Chan /\ ClearOrder[cleared + 1][2] \in 0..1
    BY <2>1 DEF ClearOrder, Chan
  <2> QED
    BY <2>2 DEF FiniClear
<1>3. m_to_pu_q \in [Chan -> [0..1 -> Seq(Mission)]]
  BY DEF IInv, TypeOK, QueueTypeOK
<1>4. ~Running /\ UNCHANGED <<InHand(d), Running>>
  BY <1>1 DEF IInv, LifeInv, InHand, Running
<1> DEFINE r == m_to_pu_q_read_ui[d]
<1>5. r \in 0..1 /\ 1 - r \in 0..1 /\ 1 - r # r /\ (i = r \/ i = 1 - r)
  BY ListTypes
<1>6. CASE d = c /\ i = r
  <2>1. ReadList(d)' = <<>> /\ Other(d)' = Other(d)
    BY <1>1, <1>2, <1>3, <1>5, <1>6 DEF ReadList, Other
  <2>2. Fifo(d)' = Other(d)
    BY <2>1, ListTypes, ConcatEmptySeq DEF Fifo
  <2>3. /\ Len(ReadList(d)) \in 0 .. Len(Fifo(d))
        /\ Other(d) = SubSeq(Fifo(d), Len(ReadList(d)) + 1, Len(Fifo(d)))
    BY ListTypes, ConcatParts DEF Fifo
  <2> QED
    BY <1>4, <2>2, <2>3 DEF FifoStep, Discards
<1>7. CASE d = c /\ i = 1 - r
  <2>1. ReadList(d)' = ReadList(d) /\ Other(d)' = <<>>
    BY <1>1, <1>2, <1>3, <1>5, <1>7 DEF ReadList, Other
  <2>2. Fifo(d)' = ReadList(d)
    BY <2>1, ListTypes, ConcatEmptySeq DEF Fifo
  <2>3. /\ Len(ReadList(d)) \in 0 .. Len(Fifo(d))
        /\ ReadList(d) = SubSeq(Fifo(d), 1, Len(ReadList(d)))
    BY ListTypes, ConcatParts DEF Fifo
  <2> QED
    BY <1>4, <2>2, <2>3 DEF FifoStep, Discards
<1>8. CASE d # c
  <2>1. Fifo(d)' = Fifo(d)
    BY <1>1, <1>2, <1>3, <1>8, ListTypes DEF Fifo, ReadList, Other
  <2> QED
    BY <1>4, <2>1 DEF FifoStep, Stutters
<1> QED
  BY <1>5, <1>6, <1>7, <1>8

\* Ending a mission: the hand of its own queue empties.
LEMMA ExecuteStep ==
  ASSUME IInv, NEW d \in Chan, Execute
  PROVE  FifoStep(d)
<1>1. /\ wat = "execute" /\ wat' \in {"test", "post"}
      /\ hand # NoMission
      /\ UNCHANGED <<m_to_pu_q, m_to_pu_q_read_ui>>
  BY DEF Execute, Leave, queueVars, IInv, WorkerInv
<1>2. Fifo(d)' = Fifo(d) /\ Running' = Running /\ InHand(d)' = NoMission
  BY <1>1 DEF Fifo, ReadList, Other, Running, InHand
<1>3. CASE wchan = d
  <2>1. InHand(d) # NoMission
    BY <1>1, <1>3 DEF InHand
  <2> QED
    BY <1>2, <2>1 DEF FifoStep, Finishes
<1>4. CASE wchan # d
  <2>1. InHand(d) = NoMission
    BY <1>4 DEF InHand
  <2> QED
    BY <1>2, <2>1 DEF FifoStep, Stutters
<1> QED
  BY <1>3, <1>4

\* Starting or ending the thread: it holds no mission then.
LEMMA SwitchStep ==
  ASSUME IInv, NEW d \in Chan,
         UNCHANGED <<m_to_pu_q, m_to_pu_q_read_ui>>,
         hand = NoMission, hand' = NoMission
  PROVE  FifoStep(d)
<1>1. Fifo(d)' = Fifo(d)
  BY DEF Fifo, ReadList, Other
<1>2. InHand(d) = NoMission /\ InHand(d)' = NoMission
  BY DEF InHand
<1>3. CASE Running' = Running
  BY <1>1, <1>2, <1>3 DEF FifoStep, Stutters
<1>4. CASE Running' # Running
  <2>1. Running' = ~Running
    BY <1>4 DEF Running
  <2> QED
    BY <1>1, <1>2, <2>1 DEF FifoStep, Switches
<1> QED
  BY <1>3, <1>4

\* Every step of the task is one of the queue, or leaves it as it is.
LEMMA NextFifoStep ==
  ASSUME IInv, NEW d \in Chan, [Next]_vars
  PROVE  FifoStep(d)
<1>1. ASSUME NEW p \in Producer,
             RequestToPu(p) \/ RespondToPu(p) \/ HandleRecv(p) \/ Lock(p) \/ PostToApp(p)
      PROVE  FifoStep(d)
  <2>1. UNCHANGED <<m_to_pu_q, m_to_pu_q_read_ui, wat, wchan, hand>>
    BY <1>1 DEF RequestToPu, RespondToPu, HandleRecv, Offer, Lock, PostToApp,
                queueVars, workerVars
  <2> QED
    BY <2>1, QuietStep DEF InHand, Running
<1>2. ASSUME NEW p \in Producer, Push(p)
      PROVE  FifoStep(d)
  BY <1>2, PushStep
<1>3. CASE While
  <2>1. hand = NoMission /\ hand' = NoMission
    BY <1>3 DEF While, IInv, WorkerInv
  <2> QED
    BY <1>3, <2>1, SwitchStep DEF While, queueVars
<1>4. CASE Test \/ Recheck
  <2>1. /\ wat \in {"test", "recheck"}
        /\ wat' \in {"swap", "recheck", "pop", "test", "post"}
        /\ UNCHANGED <<m_to_pu_q, m_to_pu_q_read_ui, hand>>
    BY <1>4 DEF Test, Recheck, Leave, queueVars
  <2>2. InHand(d)' = InHand(d) /\ Running' = Running
    BY <2>1 DEF InHand, Running
  <2> QED
    BY <2>1, <2>2, QuietStep
<1>5. CASE TakePost \/ HandleRecvMession
  <2>1. /\ wat \in {"post", "recv"} /\ wat' \in {"while", "recv"}
        /\ UNCHANGED <<m_to_pu_q, m_to_pu_q_read_ui>>
    BY <1>5 DEF TakePost, HandleRecvMession, queueVars
  <2>2. InHand(d)' = InHand(d) /\ Running' = Running
    BY <2>1 DEF InHand, Running
  <2> QED
    BY <2>1, <2>2, QuietStep
<1>6. CASE Spawn
  <2>1. /\ UNCHANGED <<m_to_pu_q, m_to_pu_q_read_ui, hand>>
        /\ cat = "spawn"
    BY <1>6 DEF Spawn, queueVars
  <2>2. hand = NoMission
    BY <2>1 DEF IInv, LifeInv, WorkerInv
  <2> QED
    BY <2>1, <2>2, SwitchStep
<1>7. CASE InitBegin \/ InitEnd \/ FiniBegin \/ FiniWait \/ FiniClearPost \/ FiniEnd
  <2>1. UNCHANGED <<m_to_pu_q, m_to_pu_q_read_ui, wat, wchan, hand>>
    BY <1>7 DEF InitBegin, InitEnd, FiniBegin, FiniWait, FiniClearPost, FiniEnd,
                queueVars, workerVars
  <2> QED
    BY <2>1, QuietStep DEF InHand, Running
<1>8. CASE UNCHANGED vars
  <2>1. UNCHANGED <<m_to_pu_q, m_to_pu_q_read_ui, wat, wchan, hand>>
    BY <1>8 DEF vars, queueVars, workerVars
  <2> QED
    BY <2>1, QuietStep DEF InHand, Running
<1> QED
  BY <1>1, <1>2, <1>3, <1>4, <1>5, <1>6, <1>7, <1>8,
     SwapStep, PopStep, ExecuteStep, FiniClearStep
  DEF Next, Producers, Worker, Control

\* The task starts as an empty queue with no thread.
LEMMA InitFifo ==
  ASSUME Init, NEW d \in Chan
  PROVE  Fifo(d) = <<>> /\ InHand(d) = NoMission /\ Running = FALSE
<1>1. ReadList(d) = <<>> /\ Other(d) = <<>>
  BY DEF Init, ReadList, Other
<1>2. Fifo(d) = <<>>
  <2>1. <<>> \o <<>> = <<>>
    BY EmptySeq, ConcatEmptySeq
  <2> QED
    BY <1>1, <2>1 DEF Fifo
<1> QED
  BY <1>2 DEF Init, InHand, Running

-----------------------------------------------------------------------------
(* The theorems.                                                           *)

\* Requests: a caller of RequestToPu sees a first-in first-out queue with one
\* consumer, whatever the two lists and the unlocked reads behind it.
THEOREM RequestsAreFifo == Spec => RequestQueue
<1>1. "req" \in Chan
  BY DEF Chan
<1>2. Init => Requests!Init
  BY <1>1, InitFifo DEF Requests!Init, Fifo, InHand, Running, Other
<1>3. IInv /\ [Next]_vars => [Requests!Next]_(Requests!vars)
  <2> SUFFICES ASSUME IInv, [Next]_vars
               PROVE  Requests!Next \/ UNCHANGED Requests!vars
    OBVIOUS
  <2>1. FifoStep("req")
    BY <1>1, NextFifoStep
  <2> QED
    BY <2>1 DEF FifoStep, Stutters, Puts, Takes, Finishes, Switches, Discards,
                Fifo, InHand, Running, Other, Requests!vars, Requests!Next,
                Requests!Put, Requests!Take, Requests!Finish,
                Requests!StartOrStop, Requests!Discard
<1> QED
  BY <1>2, <1>3, Inductive, PTL DEF Spec, RequestQueue, Requests!Spec

\* Responses: the same of RespondToPu.
THEOREM ResponsesAreFifo == Spec => ResponseQueue
<1>1. "resp" \in Chan
  BY DEF Chan
<1>2. Init => Responses!Init
  BY <1>1, InitFifo DEF Responses!Init, Fifo, InHand, Running, Other
<1>3. IInv /\ [Next]_vars => [Responses!Next]_(Responses!vars)
  <2> SUFFICES ASSUME IInv, [Next]_vars
               PROVE  Responses!Next \/ UNCHANGED Responses!vars
    OBVIOUS
  <2>1. FifoStep("resp")
    BY <1>1, NextFifoStep
  <2> QED
    BY <2>1 DEF FifoStep, Stutters, Puts, Takes, Finishes, Switches, Discards,
                Fifo, InHand, Running, Other, Responses!vars, Responses!Next,
                Responses!Put, Responses!Take, Responses!Finish,
                Responses!StartOrStop, Responses!Discard
<1> QED
  BY <1>2, <1>3, Inductive, PTL DEF Spec, ResponseQueue, Responses!Spec

\* Both: the four lists implement one first-in first-out queue per direction.
THEOREM QueuesAreFifo == Spec => MissionQueues
BY RequestsAreFifo, ResponsesAreFifo DEF MissionQueues
=============================================================================
