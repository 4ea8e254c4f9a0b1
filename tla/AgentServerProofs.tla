------------------------- MODULE AgentServerProofs -------------------------
(***************************************************************************)
(* Proofs about AgentServer, for every finite set of threads, every set of *)
(* messages and every limit of the queue.                                  *)
(***************************************************************************)
EXTENDS AgentServer, FiniteSetTheorems, TLAPS

\* A receiver inside an upcall, and those inside RcvMsg with their message.
Busy(r) == rcv[r].at \notin {"off", "run"}
Holds(r) == Busy(r) /\ rcv[r].at # "delete"

TypeInv ==
  /\ m_init_b \in BOOLEAN
  /\ m_run_b \in BOOLEAN
  /\ active \in BOOLEAN
  /\ m_cur_queue_num_ul \in Nat
  /\ msg_queue \in Seq(Msg)
  /\ m_minisip_mutex \in Receiver \cup {NoThread}
  /\ rcv \in [Receiver -> [at : RcvPlace, msg : Msg \cup {NoMsg}, read : Nat]]
  /\ svc \in [Thread -> [at : SvcPlace, msg : Msg \cup {NoMsg}]]
  /\ cat \in ControlPlace
  /\ fate \in [Msg -> Fate]
  /\ deletes \in [Msg -> Nat]

\* Which threads run at each point of Init and Fini.
LifeInv ==
  /\ active <=> cat \notin {"dcg", "done"}
  /\ \A t \in Thread :
       svc[t].at # "off" => cat \in {"task", "up", "joined", "wait", "failed"}
  /\ rcv["stack"].at # "off" => cat = "up"
  /\ rcv["event"].at # "off" => cat \notin {"new", "done"}
  /\ \A r \in Receiver : Busy(r) => LibraryInUse

\* A receiver is in an upcall only with the MiniSip mutex, and has the message
\* of that upcall; a thread has one between getq and the end of its round.
PlaceInv ==
  /\ \A r \in Receiver :
       /\ Busy(r) => m_minisip_mutex = r /\ rcv[r].msg \in Msg
       /\ ~Busy(r) => rcv[r].msg = NoMsg
       /\ rcv[r].at = "delete" => rcv[r].msg \in Stateless
  /\ \A t \in Thread : svc[t].msg # NoMsg <=> svc[t].at \in {"count", "handle"}

\* The counter, also while a receiver is between its read and its write.
CountInv ==
  /\ CounterIsExact
  /\ m_cur_queue_num_ul <= MaxQueueNum + 1
  /\ \A r \in Receiver :
       /\ rcv[r].at \in {"load", "store"} => m_cur_queue_num_ul <= MaxQueueNum
       /\ rcv[r].at = "store" => rcv[r].read = m_cur_queue_num_ul

\* Where each message is.
OwnerInv ==
  /\ \A m \in Msg :
       /\ fate[m] = "received" <=> \E r \in Receiver : Holds(r) /\ rcv[r].msg = m
       /\ fate[m] = "queued" <=> \E i \in 1..Len(msg_queue) : msg_queue[i] = m
       /\ fate[m] = "taken" <=> \E t \in Thread : svc[t].msg = m
  /\ \A i, j \in 1..Len(msg_queue) : msg_queue[i] = msg_queue[j] => i = j
  /\ \A t, u \in Thread : svc[t].msg = svc[u].msg /\ svc[t].msg # NoMsg => t = u

\* How often each header has been deleted: once by its last owner and, for a
\* request without a transaction, once more by HandleSipTxnHiSlReqInd, which
\* still has to do so while the receiver is at "delete".
Gone(m) == fate[m] \in {"handled", "dropped"}
ByReporter(m) ==
  /\ m \in Stateless
  /\ fate[m] \notin {"new", "received"}
  /\ \A r \in Receiver : ~(rcv[r].at = "delete" /\ rcv[r].msg = m)

DeleteInv ==
  /\ \A m \in Msg : deletes[m] = (IF Gone(m) THEN 1 ELSE 0)
                                 + (IF ByReporter(m) THEN 1 ELSE 0)
  /\ \A r \in Receiver : rcv[r].at = "delete" => fate[rcv[r].msg] # "new"

\* The inductive invariant.
IInv == TypeInv /\ LifeInv /\ PlaceInv /\ CountInv /\ OwnerInv /\ DeleteInv

-----------------------------------------------------------------------------
(* Lemmas.                                                                 *)

\* There are finitely many threads, so that those between getq and the counter
\* can be counted.
LEMMA Counts ==
  /\ IsFiniteSet(Taken) /\ Cardinality(Taken) \in Nat
  /\ IsFiniteSet(Counted) /\ Cardinality(Counted) \in Nat
<1>1. IsFiniteSet(Taken)
  BY AgentServerAssumption, FS_Subset DEF Taken
<1>2. IsFiniteSet({"stack"} \cup {"event"})
  BY FS_Singleton, FS_AddElement
<1>3. IsFiniteSet(Counted)
  <2>1. Counted \in SUBSET ({"stack"} \cup {"event"})
    BY DEF Counted, Receiver
  <2> QED
    BY <1>2, <2>1, FS_Subset
<1> QED
  BY <1>1, <1>3, FS_CardinalityType

\* One element more, or one less.
LEMMA OneMore ==
  ASSUME NEW S, NEW x, x \notin S, IsFiniteSet(S)
  PROVE  Cardinality(S \cup {x}) = Cardinality(S) + 1
BY FS_AddElement

\* Taking one element out of a finite set makes it smaller by one.
LEMMA OneLess ==
  ASSUME NEW S, NEW x \in S, IsFiniteSet(S)
  PROVE  Cardinality(S \ {x}) = Cardinality(S) - 1
BY FS_RemoveElement

\* The end of an upcall, or of RcvMsg for a request without a transaction.
LEMMA ReturnEffect ==
  ASSUME TypeInv, NEW r \in Receiver, Return(r)
  PROVE  /\ rcv' \in [Receiver -> [at : RcvPlace, msg : Msg \cup {NoMsg}, read : Nat]]
         /\ \A s \in Receiver : s # r => rcv'[s] = rcv[s]
         /\ IF rcv[r].msg \in Stateless
            THEN /\ rcv'[r].at = "delete" /\ rcv'[r].msg = rcv[r].msg
                 /\ m_minisip_mutex' = m_minisip_mutex
            ELSE /\ rcv'[r].at = "run" /\ rcv'[r].msg = NoMsg
                 /\ m_minisip_mutex' = NoThread
<1>1. rcv \in [Receiver -> [at : RcvPlace, msg : Msg \cup {NoMsg}, read : Nat]]
  BY DEF TypeInv
<1>2. CASE rcv[r].msg \in Stateless
  <2>1. rcv' = [rcv EXCEPT ![r].at = "delete"] /\ m_minisip_mutex' = m_minisip_mutex
    BY <1>2 DEF Return
  <2>2. "delete" \in RcvPlace
    BY DEF RcvPlace
  <2> QED
    BY <1>1, <1>2, <2>1, <2>2
<1>3. CASE rcv[r].msg \notin Stateless
  <2>1. rcv' = [rcv EXCEPT ![r] = At("run")] /\ m_minisip_mutex' = NoThread
    BY <1>3 DEF Return
  <2>2. /\ At("run") \in [at : RcvPlace, msg : Msg \cup {NoMsg}, read : Nat]
        /\ At("run").at = "run" /\ At("run").msg = NoMsg
    BY DEF RcvPlace, At
  <2> QED
    BY <1>1, <1>3, <2>1, <2>2
<1> QED
  BY <1>2, <1>3

\* Only one receiver is in an upcall.
LEMMA OneBusy ==
  ASSUME PlaceInv, NEW r \in Receiver, NEW s \in Receiver, Busy(r), Busy(s)
  PROVE  r = s
BY DEF PlaceInv

-----------------------------------------------------------------------------
(* RcvMsg.                                                                 *)

\* The library reports a message that nobody has yet.
LEMMA UpcallStep == ASSUME IInv, NEW r \in Receiver, Upcall(r) PROVE IInv'
<1>1. PICK m \in Msg :
        /\ fate[m] = "new"
        /\ rcv' = [rcv EXCEPT ![r] = [at |-> "check", msg |-> m, read |-> 0]]
        /\ fate' = [fate EXCEPT ![m] = "received"]
  BY DEF Upcall
<1>2. /\ m_init_b' = m_init_b /\ m_run_b' = m_run_b /\ active' = active /\ cat' = cat
      /\ m_cur_queue_num_ul' = m_cur_queue_num_ul /\ msg_queue' = msg_queue
      /\ svc' = svc /\ deletes' = deletes /\ m_minisip_mutex' = r
      /\ m_minisip_mutex = NoThread /\ LibraryInUse
      /\ rcv[r].at = "run"
  BY DEF Upcall, controlVars
<1>3. /\ rcv' \in [Receiver -> [at : RcvPlace, msg : Msg \cup {NoMsg}, read : Nat]]
      /\ \A s \in Receiver : s # r => rcv'[s] = rcv[s]
      /\ rcv'[r].at = "check" /\ rcv'[r].msg = m
  BY <1>1 DEF IInv, TypeInv, RcvPlace
<1>4. /\ fate' \in [Msg -> Fate] /\ fate'[m] = "received"
      /\ \A n \in Msg : n # m => fate'[n] = fate[n]
  BY <1>1 DEF IInv, TypeInv, Fate
<1>5. /\ Busy(r)' /\ Holds(r)' /\ ~Busy(r)
      /\ \A s \in Receiver : /\ ~Busy(s) /\ ~Holds(s)
                             /\ s # r => ~Busy(s)' /\ ~Holds(s)'
  BY <1>2, <1>3, AgentServerAssumption DEF IInv, PlaceInv, Busy, Holds
<1>6. TypeInv'
  BY <1>2, <1>3, <1>4 DEF IInv, TypeInv
<1>7. LifeInv'
  BY <1>2, <1>3 DEF IInv, LifeInv, LibraryInUse, Receiver
<1>8. PlaceInv'
  BY <1>2, <1>3, <1>5 DEF IInv, PlaceInv
<1>9. CountInv'
  <2>1. Taken' = Taken /\ Counted' = Counted
    BY <1>2, <1>3 DEF Taken, Counted
  <2> QED
    BY <1>2, <1>3, <2>1 DEF IInv, CountInv, CounterIsExact
<1>10. OwnerInv'
  <2>1. \A n \in Msg : fate'[n] = "received" <=> \E s \in Receiver : Holds(s)' /\ rcv'[s].msg = n
    BY <1>3, <1>4, <1>5 DEF IInv, OwnerInv
  <2> QED
    BY <1>1, <1>2, <1>4, <2>1 DEF IInv, OwnerInv
<1>11. DeleteInv'
  <2>1. \A n \in Msg : Gone(n)' = Gone(n)
    BY <1>1, <1>4 DEF Gone
  <2>2. \A n \in Msg : ByReporter(n)' = ByReporter(n)
    BY <1>1, <1>2, <1>3, <1>4 DEF ByReporter
  <2> QED
    BY <1>1, <1>2, <1>3, <1>4, <2>1, <2>2 DEF IInv, DeleteInv
<1> QED
  BY <1>6, <1>7, <1>8, <1>9, <1>10, <1>11 DEF IInv

\* A message that is refused is freed by its receiver, which had it alone.
LEMMA DropStep ==
  ASSUME IInv, NEW r \in Receiver, rcv[r].at \in {"check", "put"},
         rcv[r].at = "put" => ~active, Drop(r),
         UNCHANGED <<controlVars, m_cur_queue_num_ul, msg_queue, svc>>
  PROVE  IInv'
<1>0. PICK m \in Msg : m = rcv[r].msg
  BY DEF IInv, PlaceInv, Busy
<1>1. /\ m_init_b' = m_init_b /\ m_run_b' = m_run_b /\ active' = active /\ cat' = cat
      /\ m_cur_queue_num_ul' = m_cur_queue_num_ul /\ msg_queue' = msg_queue
      /\ svc' = svc
  BY DEF controlVars
<1>2. Busy(r) /\ Holds(r) /\ fate[m] = "received" /\ m_minisip_mutex = r
  BY <1>0 DEF IInv, PlaceInv, OwnerInv, Busy, Holds
<1>3. /\ rcv' \in [Receiver -> [at : RcvPlace, msg : Msg \cup {NoMsg}, read : Nat]]
      /\ \A s \in Receiver : s # r => rcv'[s] = rcv[s]
      /\ IF m \in Stateless
         THEN /\ rcv'[r].at = "delete" /\ rcv'[r].msg = m
              /\ m_minisip_mutex' = m_minisip_mutex
         ELSE /\ rcv'[r].at = "run" /\ rcv'[r].msg = NoMsg
              /\ m_minisip_mutex' = NoThread
  BY <1>0, ReturnEffect DEF IInv, Drop
<1>4. /\ fate' \in [Msg -> Fate] /\ fate'[m] = "dropped"
      /\ \A n \in Msg : n # m => fate'[n] = fate[n]
      /\ deletes' \in [Msg -> Nat] /\ deletes'[m] = deletes[m] + 1
      /\ \A n \in Msg : n # m => deletes'[n] = deletes[n]
  BY <1>0 DEF IInv, TypeInv, Drop, Delete, Fate
<1>5. \A s \in Receiver : s # r => ~Busy(s) /\ ~Busy(s)' /\ ~Holds(s) /\ ~Holds(s)'
  BY <1>2, <1>3, OneBusy DEF IInv, Busy, Holds
<1>6. ~Holds(r)' /\ (Busy(r)' <=> m \in Stateless)
  BY <1>3 DEF Holds, Busy
<1>7. TypeInv'
  BY <1>1, <1>2, <1>3, <1>4 DEF IInv, TypeInv
<1>8. LifeInv'
  BY <1>1, <1>2, <1>3, <1>5 DEF IInv, LifeInv, LibraryInUse, Receiver, Busy
<1>9. PlaceInv'
  BY <1>1, <1>2, <1>3, <1>5, <1>6 DEF IInv, PlaceInv
<1>10. CountInv'
  <2>1. Taken' = Taken /\ (active => Counted' = Counted)
    BY <1>1, <1>3 DEF Taken, Counted
  <2>2. CounterIsExact'
    BY <1>1, <2>1 DEF IInv, CountInv, CounterIsExact
  <2> QED
    BY <1>1, <1>3, <2>2 DEF IInv, CountInv
<1>11. OwnerInv'
  BY <1>0, <1>1, <1>2, <1>4, <1>5, <1>6 DEF IInv, OwnerInv
<1>12. DeleteInv'
  <2>1. ASSUME NEW n \in Msg, n # m
        PROVE  Gone(n)' = Gone(n) /\ ByReporter(n)' = ByReporter(n)
    <3>1. \A s \in Receiver :
            rcv'[s].at = "delete" /\ rcv'[s].msg = n <=> rcv[s].at = "delete" /\ rcv[s].msg = n
      BY <1>0, <1>3, <2>1
    <3> QED
      BY <1>4, <2>1, <3>1 DEF Gone, ByReporter
  <2>2. ~Gone(m) /\ ~ByReporter(m)
    BY <1>2 DEF Gone, ByReporter
  <2>3. Gone(m)' /\ ~ByReporter(m)'
    BY <1>3, <1>4 DEF Gone, ByReporter
  <2>4. deletes[m] = 0 /\ deletes'[m] = 1
    BY <1>4, <2>2 DEF IInv, DeleteInv
  <2>5. \A n \in Msg : deletes'[n] = (IF Gone(n)' THEN 1 ELSE 0)
                                    + (IF ByReporter(n)' THEN 1 ELSE 0)
    <3>1. ASSUME NEW n \in Msg, n # m
          PROVE  deletes'[n] = (IF Gone(n)' THEN 1 ELSE 0) + (IF ByReporter(n)' THEN 1 ELSE 0)
      BY <1>4, <2>1, <3>1 DEF IInv, DeleteInv
    <3> QED
      BY <2>3, <2>4, <3>1
  <2>6. \A s \in Receiver : rcv'[s].at = "delete" => fate'[rcv'[s].msg] # "new"
    BY <1>0, <1>3, <1>4, <1>5 DEF Busy
  <2> QED
    BY <2>5, <2>6 DEF DeleteInv
<1> QED
  BY <1>7, <1>8, <1>9, <1>10, <1>11, <1>12 DEF IInv

\* A receiver that goes on inside RcvMsg keeps its message and the mutex.
LEMMA Inside ==
  ASSUME IInv, NEW r \in Receiver, Holds(r),
         rcv'[r].at \in {"load", "store", "put"}, rcv'[r].msg = rcv[r].msg,
         \A s \in Receiver : s # r => rcv'[s] = rcv[s],
         UNCHANGED <<controlVars, msg_queue, m_minisip_mutex, svc, fate, deletes>>
  PROVE  LifeInv' /\ PlaceInv' /\ OwnerInv' /\ DeleteInv'
<1>1. /\ active' = active /\ cat' = cat /\ msg_queue' = msg_queue
      /\ m_minisip_mutex' = m_minisip_mutex /\ svc' = svc /\ fate' = fate
      /\ deletes' = deletes
  BY DEF controlVars
<1>2. \A s \in Receiver : /\ Busy(s)' <=> Busy(s)
                          /\ Holds(s)' <=> Holds(s)
                          /\ rcv'[s].msg = rcv[s].msg
                          /\ rcv'[s].at = "delete" <=> rcv[s].at = "delete"
                          /\ rcv'[s].at = "off" <=> rcv[s].at = "off"
  <2>1. /\ Busy(r) /\ Busy(r)' /\ Holds(r)'
        /\ rcv[r].at \notin {"delete", "off"} /\ rcv'[r].at \notin {"delete", "off"}
    BY DEF Busy, Holds
  <2>2. \A s \in Receiver : s # r => rcv'[s] = rcv[s] /\ (Busy(s)' <=> Busy(s))
    BY DEF Busy
  <2> QED
    BY <2>1, <2>2 DEF Holds
<1>3. LifeInv'
  BY <1>1, <1>2 DEF IInv, LifeInv, LibraryInUse, Receiver
<1>4. PlaceInv'
  BY <1>1, <1>2 DEF IInv, PlaceInv
<1>5. OwnerInv'
  BY <1>1, <1>2 DEF IInv, OwnerInv
<1>6. DeleteInv'
  <2>1. \A m \in Msg : Gone(m)' = Gone(m) /\ ByReporter(m)' = ByReporter(m)
    BY <1>1, <1>2 DEF Gone, ByReporter
  <2> QED
    BY <1>1, <1>2, <2>1 DEF IInv, DeleteInv
<1> QED
  BY <1>3, <1>4, <1>5, <1>6

\* The comparison with the limit.
LEMMA CheckStep == ASSUME IInv, NEW r \in Receiver, Check(r) PROVE IInv'
<1>1. CASE m_cur_queue_num_ul > MaxQueueNum
  BY <1>1, DropStep DEF Check
<1>2. CASE ~(m_cur_queue_num_ul > MaxQueueNum)
  <2>1. /\ rcv[r].at = "check" /\ rcv' = [rcv EXCEPT ![r].at = "load"]
        /\ UNCHANGED <<controlVars, m_cur_queue_num_ul, msg_queue, m_minisip_mutex, svc,
                       fate, deletes>>
    BY <1>2 DEF Check
  <2>2. rcv \in [Receiver -> [at : RcvPlace, msg : Msg \cup {NoMsg}, read : Nat]]
    BY DEF IInv, TypeInv
  <2>3. /\ rcv' \in [Receiver -> [at : RcvPlace, msg : Msg \cup {NoMsg}, read : Nat]]
        /\ rcv'[r].at = "load" /\ rcv'[r].msg = rcv[r].msg
        /\ \A s \in Receiver : s # r => rcv'[s] = rcv[s]
    <3>1. "load" \in RcvPlace
      BY DEF RcvPlace
    <3> QED
      BY <2>1, <2>2, <3>1
  <2>4. LifeInv' /\ PlaceInv' /\ OwnerInv' /\ DeleteInv'
    BY <2>1, <2>3, Inside DEF Holds, Busy
  <2>5. TypeInv'
    BY <2>1, <2>3 DEF IInv, TypeInv, controlVars
  <2>6. CountInv'
    <3>1. Taken' = Taken /\ Counted' = Counted
      BY <2>1, <2>3 DEF Taken, Counted
    <3>2. m_cur_queue_num_ul <= MaxQueueNum
      BY <1>2, AgentServerAssumption DEF IInv, TypeInv
    <3> QED
      BY <2>1, <2>3, <3>1, <3>2 DEF IInv, CountInv, CounterIsExact, controlVars
  <2> QED
    BY <2>4, <2>5, <2>6 DEF IInv
<1> QED
  BY <1>1, <1>2

\* The first half of ++m_cur_queue_num_ul.
LEMMA LoadStep == ASSUME IInv, NEW r \in Receiver, Load(r) PROVE IInv'
<1>1. /\ rcv[r].at = "load"
      /\ rcv' = [rcv EXCEPT ![r].at = "store", ![r].read = m_cur_queue_num_ul]
      /\ UNCHANGED <<controlVars, m_cur_queue_num_ul, msg_queue, m_minisip_mutex, svc,
                     fate, deletes>>
  BY DEF Load
<1>2. /\ rcv \in [Receiver -> [at : RcvPlace, msg : Msg \cup {NoMsg}, read : Nat]]
      /\ m_cur_queue_num_ul \in Nat
  BY DEF IInv, TypeInv
<1>3. /\ rcv' \in [Receiver -> [at : RcvPlace, msg : Msg \cup {NoMsg}, read : Nat]]
      /\ rcv'[r].at = "store" /\ rcv'[r].msg = rcv[r].msg
      /\ rcv'[r].read = m_cur_queue_num_ul
      /\ \A s \in Receiver : s # r => rcv'[s] = rcv[s]
  <2>1. "store" \in RcvPlace
    BY DEF RcvPlace
  <2> QED
    BY <1>1, <1>2, <2>1
<1>4. LifeInv' /\ PlaceInv' /\ OwnerInv' /\ DeleteInv'
  BY <1>1, <1>3, Inside DEF Holds, Busy
<1>5. TypeInv'
  BY <1>1, <1>3 DEF IInv, TypeInv, controlVars
<1>6. CountInv'
  <2>1. Taken' = Taken /\ Counted' = Counted
    BY <1>1, <1>3 DEF Taken, Counted
  <2> QED
    BY <1>1, <1>3, <2>1 DEF IInv, CountInv, CounterIsExact, controlVars
<1> QED
  BY <1>4, <1>5, <1>6 DEF IInv

\* The second half: nobody else has counted in between.
LEMMA StoreStep == ASSUME IInv, NEW r \in Receiver, Store(r) PROVE IInv'
<1>1. /\ rcv[r].at = "store"
      /\ rcv' = [rcv EXCEPT ![r].at = "put"]
      /\ m_cur_queue_num_ul' = rcv[r].read + 1
      /\ UNCHANGED <<controlVars, msg_queue, m_minisip_mutex, svc, fate, deletes>>
  BY DEF Store
<1>2. /\ rcv \in [Receiver -> [at : RcvPlace, msg : Msg \cup {NoMsg}, read : Nat]]
      /\ m_cur_queue_num_ul \in Nat /\ msg_queue \in Seq(Msg)
  BY DEF IInv, TypeInv
<1>3. /\ rcv' \in [Receiver -> [at : RcvPlace, msg : Msg \cup {NoMsg}, read : Nat]]
      /\ rcv'[r].at = "put" /\ rcv'[r].msg = rcv[r].msg
      /\ \A s \in Receiver : s # r => rcv'[s] = rcv[s]
  <2>1. "put" \in RcvPlace
    BY DEF RcvPlace
  <2> QED
    BY <1>1, <1>2, <2>1
<1>4. /\ m_cur_queue_num_ul' = m_cur_queue_num_ul + 1
      /\ m_cur_queue_num_ul <= MaxQueueNum
  BY <1>1 DEF IInv, CountInv
<1>5. LifeInv' /\ PlaceInv' /\ OwnerInv' /\ DeleteInv'
  BY <1>1, <1>3, Inside DEF Holds, Busy
<1>6. TypeInv'
  BY <1>1, <1>2, <1>3, <1>4 DEF IInv, TypeInv, controlVars
<1>7. CountInv'
  <2>1. Taken' = Taken /\ Counted' = Counted \cup {r} /\ r \notin Counted
    BY <1>1, <1>3 DEF Taken, Counted
  <2>2. Cardinality(Counted') = Cardinality(Counted) + 1
    BY <2>1, Counts, OneMore
  <2>3. CounterIsExact'
    BY <1>1, <1>2, <1>4, <2>1, <2>2, Counts
    DEF IInv, CountInv, CounterIsExact, controlVars
  <2>4. \A s \in Receiver : rcv'[s].at \notin {"load", "store"}
    BY <1>1, <1>3, OneBusy DEF IInv, Busy
  <2>5. m_cur_queue_num_ul' <= MaxQueueNum + 1
    BY <1>2, <1>4, AgentServerAssumption
  <2> QED
    BY <2>3, <2>4, <2>5 DEF CountInv
<1> QED
  BY <1>5, <1>6, <1>7 DEF IInv

\* HandleSipTxnHiSlReqInd deletes the header its upcall was about.
LEMMA DeleteHeaderStep == ASSUME IInv, NEW r \in Receiver, DeleteHeader(r) PROVE IInv'
<1>0. PICK m \in Msg : m = rcv[r].msg
  BY DEF IInv, PlaceInv, Busy, DeleteHeader
<1>1. /\ rcv[r].at = "delete" /\ m_minisip_mutex' = NoThread
      /\ rcv' = [rcv EXCEPT ![r] = At("run")]
      /\ deletes' = [deletes EXCEPT ![m] = @ + 1]
      /\ active' = active /\ cat' = cat /\ m_init_b' = m_init_b /\ m_run_b' = m_run_b
      /\ m_cur_queue_num_ul' = m_cur_queue_num_ul /\ msg_queue' = msg_queue
      /\ svc' = svc /\ fate' = fate
  BY <1>0 DEF DeleteHeader, Delete, controlVars
<1>2. /\ rcv \in [Receiver -> [at : RcvPlace, msg : Msg \cup {NoMsg}, read : Nat]]
      /\ At("run") \in [at : RcvPlace, msg : Msg \cup {NoMsg}, read : Nat]
      /\ At("run").at = "run" /\ At("run").msg = NoMsg
  BY DEF IInv, TypeInv, At, RcvPlace
<1>3. /\ rcv' \in [Receiver -> [at : RcvPlace, msg : Msg \cup {NoMsg}, read : Nat]]
      /\ \A s \in Receiver : s # r => rcv'[s] = rcv[s]
      /\ rcv'[r].at = "run" /\ rcv'[r].msg = NoMsg
  BY <1>1, <1>2
<1>4. /\ deletes' \in [Msg -> Nat] /\ deletes'[m] = deletes[m] + 1
      /\ \A n \in Msg : n # m => deletes'[n] = deletes[n]
  BY <1>1 DEF IInv, TypeInv
<1>5. /\ Busy(r) /\ ~Holds(r) /\ ~Busy(r)' /\ ~Holds(r)'
      /\ \A s \in Receiver : s # r => ~Busy(s) /\ ~Busy(s)' /\ ~Holds(s) /\ ~Holds(s)'
  <2>1. Busy(r) /\ ~Holds(r) /\ ~Busy(r)' /\ ~Holds(r)'
    BY <1>1, <1>3 DEF Busy, Holds
  <2> QED
    BY <1>3, <2>1, OneBusy DEF IInv, Busy, Holds
<1>6. TypeInv'
  BY <1>1, <1>3, <1>4 DEF IInv, TypeInv
<1>7. LifeInv'
  BY <1>1, <1>3, <1>5 DEF IInv, LifeInv, LibraryInUse, Receiver
<1>8. PlaceInv'
  BY <1>1, <1>3, <1>5, AgentServerAssumption DEF IInv, PlaceInv, Busy
<1>9. CountInv'
  <2>1. Taken' = Taken /\ Counted' = Counted
    BY <1>1, <1>3 DEF Taken, Counted
  <2> QED
    BY <1>1, <1>3, <2>1 DEF IInv, CountInv, CounterIsExact
<1>10. OwnerInv'
  BY <1>1, <1>3, <1>5 DEF IInv, OwnerInv
<1>11. DeleteInv'
  <2>1. ASSUME NEW n \in Msg, n # m
        PROVE  Gone(n)' = Gone(n) /\ ByReporter(n)' = ByReporter(n)
    <3>1. \A s \in Receiver :
            rcv'[s].at = "delete" /\ rcv'[s].msg = n <=> rcv[s].at = "delete" /\ rcv[s].msg = n
      BY <1>0, <1>3, <2>1, AgentServerAssumption
    <3> QED
      BY <1>1, <3>1 DEF Gone, ByReporter
  <2>2. /\ ~ByReporter(m) /\ Gone(m)' = Gone(m)
    BY <1>0, <1>1 DEF Gone, ByReporter
  <2>3. ByReporter(m)'
    <3>1. m \in Stateless /\ fate[m] # "new"
      BY <1>0, <1>1 DEF IInv, PlaceInv, DeleteInv
    <3>2. fate[m] # "received"
      BY <1>5 DEF IInv, OwnerInv
    <3> QED
      BY <1>1, <1>3, <1>5, <3>1, <3>2 DEF ByReporter, Busy
  <2>4. \A n \in Msg : deletes'[n] = (IF Gone(n)' THEN 1 ELSE 0)
                                    + (IF ByReporter(n)' THEN 1 ELSE 0)
    <3>1. ASSUME NEW n \in Msg, n # m
          PROVE  deletes'[n] = (IF Gone(n)' THEN 1 ELSE 0) + (IF ByReporter(n)' THEN 1 ELSE 0)
      BY <1>4, <2>1, <3>1 DEF IInv, DeleteInv
    <3>2. deletes[m] = IF Gone(m) THEN 1 ELSE 0
      BY <2>2 DEF IInv, DeleteInv
    <3> QED
      BY <1>4, <2>2, <2>3, <3>1, <3>2
  <2> QED
    BY <1>1, <1>3, <1>5, <2>4 DEF DeleteInv, Busy
<1> QED
  BY <1>6, <1>7, <1>8, <1>9, <1>10, <1>11 DEF IInv

\* putq: the message goes to the end of the queue.
LEMMA PutStep == ASSUME IInv, NEW r \in Receiver, Put(r) PROVE IInv'
<1>1. CASE ~active
  BY <1>1, DropStep DEF Put
<1>2. CASE active
  <2>0. PICK m \in Msg : m = rcv[r].msg
    BY DEF IInv, PlaceInv, Busy, Put
  <2>1. /\ rcv[r].at = "put"
        /\ m_init_b' = m_init_b /\ m_run_b' = m_run_b /\ active' = active /\ cat' = cat
        /\ m_cur_queue_num_ul' = m_cur_queue_num_ul
        /\ msg_queue' = Append(msg_queue, m)
        /\ fate' = [fate EXCEPT ![m] = "queued"]
        /\ svc' = svc /\ deletes' = deletes
    BY <1>2, <2>0 DEF Put, controlVars
  <2>2. Busy(r) /\ Holds(r) /\ fate[m] = "received" /\ m_minisip_mutex = r
    BY <2>0, <2>1 DEF IInv, PlaceInv, OwnerInv, Busy, Holds
  <2>3. /\ rcv' \in [Receiver -> [at : RcvPlace, msg : Msg \cup {NoMsg}, read : Nat]]
        /\ \A s \in Receiver : s # r => rcv'[s] = rcv[s]
        /\ IF m \in Stateless
           THEN /\ rcv'[r].at = "delete" /\ rcv'[r].msg = m
                /\ m_minisip_mutex' = m_minisip_mutex
           ELSE /\ rcv'[r].at = "run" /\ rcv'[r].msg = NoMsg
                /\ m_minisip_mutex' = NoThread
    BY <1>2, <2>0, ReturnEffect DEF IInv, Put
  <2>4. /\ fate' \in [Msg -> Fate] /\ fate'[m] = "queued"
        /\ \A n \in Msg : n # m => fate'[n] = fate[n]
    BY <2>1 DEF IInv, TypeInv, Fate
  <2>5. /\ msg_queue' \in Seq(Msg) /\ Len(msg_queue') = Len(msg_queue) + 1
        /\ Len(msg_queue) \in Nat
        /\ \A i \in 1..Len(msg_queue) : msg_queue'[i] = msg_queue[i]
        /\ msg_queue'[Len(msg_queue')] = m
    BY <2>1 DEF IInv, TypeInv
  <2>6. \A s \in Receiver : s # r => ~Busy(s) /\ ~Busy(s)' /\ ~Holds(s) /\ ~Holds(s)'
    BY <2>2, <2>3, OneBusy DEF IInv, Busy, Holds
  <2>7. ~Holds(r)' /\ (Busy(r)' <=> m \in Stateless)
    BY <2>3 DEF Holds, Busy
  <2>8. TypeInv'
    BY <2>1, <2>2, <2>3, <2>4, <2>5 DEF IInv, TypeInv
  <2>9. LifeInv'
    BY <2>1, <2>2, <2>3, <2>6 DEF IInv, LifeInv, LibraryInUse, Receiver, Busy
  <2>10. PlaceInv'
    BY <2>1, <2>2, <2>3, <2>6, <2>7 DEF IInv, PlaceInv
  <2>11. CountInv'
    <3>1. Taken' = Taken /\ Counted' = Counted \ {r} /\ r \in Counted
      BY <2>1, <2>3 DEF Taken, Counted
    <3>2. Cardinality(Counted') = Cardinality(Counted) - 1
      BY <3>1, Counts, OneLess
    <3>3. m_cur_queue_num_ul = Len(msg_queue') + Cardinality(Taken') + Cardinality(Counted')
      BY <1>2, <2>5, <3>1, <3>2, Counts DEF IInv, CountInv, CounterIsExact
    <3>4. Cardinality(Counted') \in Nat /\ Cardinality(Taken') \in Nat
      BY <3>1, Counts, FS_RemoveElement, FS_CardinalityType
    <3>5. m_cur_queue_num_ul \in Nat /\ m_cur_queue_num_ul <= MaxQueueNum + 1
      BY DEF IInv, TypeInv, CountInv
    <3>6. Len(msg_queue') <= MaxQueueNum + 1
      BY <2>5, <3>3, <3>4, <3>5, AgentServerAssumption
    <3>7. CounterIsExact'
      BY <2>1, <3>3, <3>6 DEF CounterIsExact
    <3> QED
      BY <2>1, <2>3, <3>5, <3>7 DEF IInv, CountInv
  <2>12. OwnerInv'
    <3>1. \A i \in 1..Len(msg_queue) : msg_queue[i] # m
      BY <2>2 DEF IInv, OwnerInv
    <3>2. \A n \in Msg : fate'[n] = "queued" <=> \E i \in 1..Len(msg_queue') : msg_queue'[i] = n
      <4>1. ASSUME NEW n \in Msg, n # m
            PROVE  (\E i \in 1..Len(msg_queue) : msg_queue[i] = n)
                   <=> \E i \in 1..Len(msg_queue') : msg_queue'[i] = n
        BY <2>5, <4>1
      <4>2. \E i \in 1..Len(msg_queue') : msg_queue'[i] = m
        BY <2>5
      <4> QED
        BY <2>4, <4>1, <4>2 DEF IInv, OwnerInv
    <3>3. \A i, j \in 1..Len(msg_queue') : msg_queue'[i] = msg_queue'[j] => i = j
      BY <2>5, <3>1 DEF IInv, OwnerInv
    <3>4. \A n \in Msg : fate'[n] = "received" <=> \E s \in Receiver : Holds(s)' /\ rcv'[s].msg = n
      BY <2>0, <2>2, <2>4, <2>6, <2>7 DEF IInv, OwnerInv
    <3>5. \A n \in Msg : fate'[n] = "taken" <=> \E t \in Thread : svc'[t].msg = n
      BY <2>1, <2>2, <2>4 DEF IInv, OwnerInv
    <3> QED
      BY <2>1, <3>2, <3>3, <3>4, <3>5 DEF IInv, OwnerInv
  <2>13. DeleteInv'
    <3>1. ASSUME NEW n \in Msg, n # m
          PROVE  (Gone(n)' <=> Gone(n)) /\ (ByReporter(n)' <=> ByReporter(n))
      <4>1. \A s \in Receiver :
              rcv'[s].at = "delete" /\ rcv'[s].msg = n <=> rcv[s].at = "delete" /\ rcv[s].msg = n
        BY <2>0, <2>1, <2>3, <3>1
      <4> QED
        BY <2>4, <3>1, <4>1 DEF Gone, ByReporter
    <3>2. ~Gone(m) /\ ~ByReporter(m) /\ ~Gone(m)'
      BY <2>2, <2>4 DEF Gone, ByReporter
    <3>3. ~ByReporter(m)'
      BY <2>3 DEF ByReporter
    <3>4. \A s \in Receiver : rcv'[s].at = "delete" => fate'[rcv'[s].msg] # "new"
      BY <2>0, <2>3, <2>4, <2>6 DEF Busy
    <3> QED
      BY <2>1, <3>1, <3>2, <3>3, <3>4 DEF IInv, DeleteInv
  <2> QED
    BY <2>8, <2>9, <2>10, <2>11, <2>12, <2>13 DEF IInv
<1> QED
  BY <1>1, <1>2

-----------------------------------------------------------------------------
(* The server's threads.                                                   *)

\* What a round of svc leaves alone.
LEMMA SvcEffect ==
  ASSUME TypeInv, NEW t \in Thread, NEW from, NEW state,
         state \in [at : SvcPlace, msg : Msg \cup {NoMsg}], SvcStep(t, from, state)
  PROVE  /\ svc' \in [Thread -> [at : SvcPlace, msg : Msg \cup {NoMsg}]]
         /\ svc[t].at = from /\ svc'[t] = state
         /\ \A u \in Thread : u # t => svc'[u] = svc[u]
         /\ m_init_b' = m_init_b /\ m_run_b' = m_run_b /\ active' = active /\ cat' = cat
         /\ m_minisip_mutex' = m_minisip_mutex /\ rcv' = rcv
         /\ \A r \in Receiver : (Busy(r)' <=> Busy(r)) /\ (Holds(r)' <=> Holds(r))
         /\ Counted' = Counted
<1>1. svc \in [Thread -> [at : SvcPlace, msg : Msg \cup {NoMsg}]]
  BY DEF TypeInv
<1>2. svc[t].at = from /\ svc' = [svc EXCEPT ![t] = state] /\ rcv' = rcv
  BY DEF SvcStep
<1> QED
  BY <1>1, <1>2 DEF SvcStep, controlVars, Busy, Holds, Counted

\* A thread that runs keeps Init's and Fini's account of it.
LEMMA SvcLife ==
  ASSUME LifeInv, NEW t \in Thread, svc[t].at # "off",
         \A u \in Thread : u # t => svc'[u] = svc[u],
         active' = active, cat' = cat, rcv' = rcv
  PROVE  LifeInv' /\ active
<1>1. cat \in {"task", "up", "joined", "wait", "failed"}
  BY DEF LifeInv
<1>2. \A r \in Receiver : Busy(r)' <=> Busy(r)
  BY DEF Busy
<1> QED
  BY <1>1, <1>2 DEF LifeInv, LibraryInUse

\* A thread without a message goes round.
LEMMA RoundStep ==
  ASSUME IInv, NEW t \in Thread, NEW from \in {"while", "empty"},
         NEW to \in {"while", "empty", "getq", "off"}, SvcStep(t, from, SvcAt(to)),
         UNCHANGED <<m_cur_queue_num_ul, msg_queue, fate, deletes>>
  PROVE  IInv'
<1>1. /\ SvcAt(to) \in [at : SvcPlace, msg : Msg \cup {NoMsg}]
      /\ SvcAt(to).at = to /\ SvcAt(to).msg = NoMsg
  BY DEF SvcAt, SvcPlace
<1>2. /\ svc' \in [Thread -> [at : SvcPlace, msg : Msg \cup {NoMsg}]]
      /\ svc[t].at = from /\ svc'[t] = SvcAt(to)
      /\ \A u \in Thread : u # t => svc'[u] = svc[u]
      /\ m_init_b' = m_init_b /\ m_run_b' = m_run_b /\ active' = active /\ cat' = cat
      /\ m_minisip_mutex' = m_minisip_mutex /\ rcv' = rcv
      /\ \A r \in Receiver : (Busy(r)' <=> Busy(r)) /\ (Holds(r)' <=> Holds(r))
      /\ Counted' = Counted
  BY <1>1, SvcEffect DEF IInv
<1>3. svc[t].msg = NoMsg /\ svc'[t].msg = NoMsg
  BY <1>1, <1>2 DEF IInv, PlaceInv
<1>4. TypeInv'
  BY <1>2 DEF IInv, TypeInv
<1>5. LifeInv'
  BY <1>2, SvcLife DEF IInv
<1>6. PlaceInv'
  BY <1>1, <1>2, <1>3 DEF IInv, PlaceInv
<1>7. CountInv'
  <2>1. Taken' = Taken
    BY <1>1, <1>2 DEF Taken
  <2> QED
    BY <1>2, <2>1 DEF IInv, CountInv, CounterIsExact
<1>8. OwnerInv'
  <2>1. \A u \in Thread : svc'[u].msg = svc[u].msg
    BY <1>2, <1>3
  <2> QED
    BY <1>2, <2>1 DEF IInv, OwnerInv
<1>9. DeleteInv'
  <2>1. \A n \in Msg : (Gone(n)' <=> Gone(n)) /\ (ByReporter(n)' <=> ByReporter(n))
    BY <1>2 DEF Gone, ByReporter
  <2> QED
    BY <1>2, <2>1 DEF IInv, DeleteInv
<1> QED
  BY <1>4, <1>5, <1>6, <1>7, <1>8, <1>9 DEF IInv

\* getq: the first message of the queue is this thread's from now on.
LEMMA GetQStep == ASSUME IInv, NEW t \in Thread, GetQ(t) PROVE IInv'
<1>0. /\ msg_queue \in Seq(Msg) /\ msg_queue # <<>> /\ Len(msg_queue) \in Nat
      /\ Len(msg_queue) >= 1
  BY DEF IInv, TypeInv, GetQ
<1>1. PICK m \in Msg : m = Head(msg_queue) /\ m = msg_queue[1]
  BY <1>0
<1> DEFINE state == [at |-> "count", msg |-> m]
<1>2. /\ state \in [at : SvcPlace, msg : Msg \cup {NoMsg}]
      /\ state.at = "count" /\ state.msg = m
  BY DEF SvcPlace
<1>3. /\ active /\ SvcStep(t, "getq", state) /\ msg_queue' = Tail(msg_queue)
      /\ fate' = [fate EXCEPT ![m] = "taken"]
      /\ m_cur_queue_num_ul' = m_cur_queue_num_ul /\ deletes' = deletes
  BY <1>1 DEF GetQ
<1> HIDE DEF state
<1>4. /\ svc' \in [Thread -> [at : SvcPlace, msg : Msg \cup {NoMsg}]]
      /\ svc[t].at = "getq" /\ svc'[t] = state
      /\ \A u \in Thread : u # t => svc'[u] = svc[u]
      /\ m_init_b' = m_init_b /\ m_run_b' = m_run_b /\ active' = active /\ cat' = cat
      /\ m_minisip_mutex' = m_minisip_mutex /\ rcv' = rcv
      /\ \A r \in Receiver : (Busy(r)' <=> Busy(r)) /\ (Holds(r)' <=> Holds(r))
      /\ Counted' = Counted
  BY <1>2, <1>3, SvcEffect DEF IInv
<1>5. /\ fate' \in [Msg -> Fate] /\ fate'[m] = "taken"
      /\ \A n \in Msg : n # m => fate'[n] = fate[n]
  BY <1>3 DEF IInv, TypeInv, Fate
<1>6. /\ msg_queue' \in Seq(Msg) /\ Len(msg_queue') = Len(msg_queue) - 1
      /\ \A i \in 1..Len(msg_queue') : msg_queue'[i] = msg_queue[i + 1]
  BY <1>0, <1>3
<1>7. svc[t].msg = NoMsg /\ fate[m] = "queued" /\ \A u \in Thread : svc[u].msg # m
  BY <1>0, <1>1, <1>4 DEF IInv, PlaceInv, OwnerInv
<1>8. TypeInv'
  BY <1>3, <1>4, <1>5, <1>6 DEF IInv, TypeInv
<1>9. LifeInv'
  BY <1>4, SvcLife DEF IInv
<1>10. PlaceInv'
  BY <1>2, <1>4, <1>7, AgentServerAssumption DEF IInv, PlaceInv
<1>11. CountInv'
  <2>1. Taken' = Taken \cup {t} /\ t \notin Taken
    BY <1>2, <1>4 DEF Taken
  <2>2. Cardinality(Taken') = Cardinality(Taken) + 1
    BY <2>1, Counts, OneMore
  <2>3. /\ m_cur_queue_num_ul = Len(msg_queue) + Cardinality(Taken) + Cardinality(Counted)
        /\ Len(msg_queue) <= MaxQueueNum + 1
    BY <1>3 DEF IInv, CountInv, CounterIsExact
  <2>4. /\ m_cur_queue_num_ul' = Len(msg_queue') + Cardinality(Taken') + Cardinality(Counted')
        /\ Len(msg_queue') <= MaxQueueNum + 1
    <3>1. Cardinality(Counted') = Cardinality(Counted)
      BY <1>4
    <3>2. Len(msg_queue') = Len(msg_queue) - 1 /\ Len(msg_queue) \in Nat
      BY <1>0, <1>6
    <3>3. Len(msg_queue') <= MaxQueueNum + 1
      BY <2>3, <3>2, AgentServerAssumption
    <3>4. Cardinality(Taken) \in Nat /\ Cardinality(Counted) \in Nat
      BY Counts
    <3>5. m_cur_queue_num_ul = (Len(msg_queue) - 1) + (Cardinality(Taken) + 1)
                               + Cardinality(Counted)
      BY <2>3, <3>2, <3>4
    <3> QED
      BY <1>3, <2>2, <3>1, <3>2, <3>3, <3>5
  <2> QED
    BY <1>3, <1>4, <2>4 DEF IInv, CountInv, CounterIsExact
<1>12. OwnerInv'
  <2>1. \A n \in Msg : fate'[n] = "queued" <=> \E i \in 1..Len(msg_queue') : msg_queue'[i] = n
    <3>1. ASSUME NEW n \in Msg, n # m
          PROVE  (\E i \in 1..Len(msg_queue) : msg_queue[i] = n)
                 <=> \E i \in 1..Len(msg_queue') : msg_queue'[i] = n
      <4>1. ASSUME NEW i \in 1..Len(msg_queue), msg_queue[i] = n
            PROVE  \E j \in 1..Len(msg_queue') : msg_queue'[j] = n
        <5>1. i - 1 \in 1..Len(msg_queue') /\ msg_queue'[i - 1] = n
          BY <1>0, <1>1, <1>6, <3>1, <4>1
        <5> QED
          BY <5>1
      <4>2. ASSUME NEW j \in 1..Len(msg_queue'), msg_queue'[j] = n
            PROVE  \E i \in 1..Len(msg_queue) : msg_queue[i] = n
        <5>1. j + 1 \in 1..Len(msg_queue) /\ msg_queue[j + 1] = n
          BY <1>0, <1>6, <4>2
        <5> QED
          BY <5>1
      <4> QED
        BY <4>1, <4>2
    <3>2. \A i \in 1..Len(msg_queue') : msg_queue'[i] # m
      BY <1>0, <1>1, <1>6 DEF IInv, OwnerInv
    <3> QED
      BY <1>5, <3>1, <3>2 DEF IInv, OwnerInv
  <2>2. \A i, j \in 1..Len(msg_queue') : msg_queue'[i] = msg_queue'[j] => i = j
    BY <1>0, <1>6 DEF IInv, OwnerInv
  <2>3. \A n \in Msg : fate'[n] = "taken" <=> \E u \in Thread : svc'[u].msg = n
    BY <1>2, <1>4, <1>5, <1>7, AgentServerAssumption DEF IInv, OwnerInv
  <2>4. \A u, v \in Thread : svc'[u].msg = svc'[v].msg /\ svc'[u].msg # NoMsg => u = v
    BY <1>2, <1>4, <1>7 DEF IInv, OwnerInv
  <2>5. \A n \in Msg : fate'[n] = "received" <=> \E s \in Receiver : Holds(s)' /\ rcv'[s].msg = n
    BY <1>4, <1>5, <1>7 DEF IInv, OwnerInv
  <2> QED
    BY <2>1, <2>2, <2>3, <2>4, <2>5 DEF OwnerInv
<1>13. DeleteInv'
  <2>1. \A n \in Msg : (Gone(n)' <=> Gone(n)) /\ (ByReporter(n)' <=> ByReporter(n))
    BY <1>4, <1>5, <1>7 DEF Gone, ByReporter
  <2> QED
    BY <1>3, <1>4, <1>5, <2>1 DEF IInv, DeleteInv, PlaceInv, Busy
<1> QED
  BY <1>8, <1>9, <1>10, <1>11, <1>12, <1>13 DEF IInv

\* The message is counted off while no receiver is between its read and its
\* write; this message is in the counter, so that it does not wrap.
LEMMA CountStep == ASSUME IInv, NEW t \in Thread, Count(t) PROVE IInv'
<1> DEFINE state == [svc[t] EXCEPT !.at = "handle"]
<1>1. svc \in [Thread -> [at : SvcPlace, msg : Msg \cup {NoMsg}]]
  BY DEF IInv, TypeInv
<1>2. /\ state \in [at : SvcPlace, msg : Msg \cup {NoMsg}]
      /\ state.at = "handle" /\ state.msg = svc[t].msg
  BY <1>1 DEF SvcPlace
<1>3. /\ \A r \in Receiver : rcv[r].at \notin {"load", "store"}
      /\ SvcStep(t, "count", state)
      /\ m_cur_queue_num_ul' = m_cur_queue_num_ul - 1
      /\ msg_queue' = msg_queue /\ fate' = fate /\ deletes' = deletes
  BY DEF Count
<1> HIDE DEF state
<1>4. /\ svc' \in [Thread -> [at : SvcPlace, msg : Msg \cup {NoMsg}]]
      /\ svc[t].at = "count" /\ svc'[t] = state
      /\ \A u \in Thread : u # t => svc'[u] = svc[u]
      /\ m_init_b' = m_init_b /\ m_run_b' = m_run_b /\ active' = active /\ cat' = cat
      /\ m_minisip_mutex' = m_minisip_mutex /\ rcv' = rcv
      /\ \A r \in Receiver : (Busy(r)' <=> Busy(r)) /\ (Holds(r)' <=> Holds(r))
      /\ Counted' = Counted
  BY <1>2, <1>3, SvcEffect DEF IInv
<1>5. LifeInv' /\ active
  BY <1>4, SvcLife DEF IInv
<1>6. Taken' = Taken \ {t} /\ t \in Taken
  BY <1>2, <1>4 DEF Taken
<1>7. /\ Cardinality(Taken') = Cardinality(Taken) - 1
      /\ Cardinality(Taken') \in Nat
  BY <1>6, Counts, OneLess, FS_RemoveElement, FS_CardinalityType
<1>8. /\ m_cur_queue_num_ul = Len(msg_queue) + Cardinality(Taken) + Cardinality(Counted)
      /\ Len(msg_queue) \in Nat /\ Len(msg_queue) <= MaxQueueNum + 1
      /\ m_cur_queue_num_ul \in Nat /\ m_cur_queue_num_ul <= MaxQueueNum + 1
  BY <1>5 DEF IInv, TypeInv, CountInv, CounterIsExact
<1>9. /\ m_cur_queue_num_ul' = Len(msg_queue') + Cardinality(Taken') + Cardinality(Counted')
      /\ m_cur_queue_num_ul' \in Nat /\ m_cur_queue_num_ul' <= MaxQueueNum + 1
  BY <1>3, <1>4, <1>7, <1>8, Counts, AgentServerAssumption
<1>10. TypeInv'
  BY <1>3, <1>4, <1>9 DEF IInv, TypeInv
<1>11. PlaceInv'
  BY <1>2, <1>4 DEF IInv, PlaceInv
<1>12. CountInv'
  <2>1. CounterIsExact'
    BY <1>3, <1>8, <1>9 DEF CounterIsExact
  <2>2. \A r \in Receiver : rcv'[r].at \notin {"load", "store"}
    BY <1>3, <1>4
  <2> QED
    BY <1>9, <2>1, <2>2 DEF CountInv
<1>13. OwnerInv'
  <2>1. \A u \in Thread : svc'[u].msg = svc[u].msg
    BY <1>2, <1>4
  <2> QED
    BY <1>3, <1>4, <2>1 DEF IInv, OwnerInv
<1>14. DeleteInv'
  <2>1. \A n \in Msg : (Gone(n)' <=> Gone(n)) /\ (ByReporter(n)' <=> ByReporter(n))
    BY <1>3, <1>4 DEF Gone, ByReporter
  <2> QED
    BY <1>3, <1>4, <2>1 DEF IInv, DeleteInv
<1> QED
  BY <1>5, <1>10, <1>11, <1>12, <1>13, <1>14 DEF IInv

\* The message has been handed to the client and is freed by its thread.
LEMMA HandleStep == ASSUME IInv, NEW t \in Thread, Handle(t) PROVE IInv'
<1>1. /\ SvcAt("while") \in [at : SvcPlace, msg : Msg \cup {NoMsg}]
      /\ SvcAt("while").at = "while" /\ SvcAt("while").msg = NoMsg
  BY DEF SvcAt, SvcPlace
<1>2. /\ svc' \in [Thread -> [at : SvcPlace, msg : Msg \cup {NoMsg}]]
      /\ svc[t].at = "handle" /\ svc'[t] = SvcAt("while")
      /\ \A u \in Thread : u # t => svc'[u] = svc[u]
      /\ m_init_b' = m_init_b /\ m_run_b' = m_run_b /\ active' = active /\ cat' = cat
      /\ m_minisip_mutex' = m_minisip_mutex /\ rcv' = rcv
      /\ \A r \in Receiver : (Busy(r)' <=> Busy(r)) /\ (Holds(r)' <=> Holds(r))
      /\ Counted' = Counted
  BY <1>1, SvcEffect DEF IInv, Handle
<1>3. PICK m \in Msg : m = svc[t].msg
  BY <1>2 DEF IInv, TypeInv, PlaceInv
<1>4. /\ fate' = [fate EXCEPT ![m] = "handled"]
      /\ deletes' = [deletes EXCEPT ![m] = @ + 1]
      /\ m_cur_queue_num_ul' = m_cur_queue_num_ul /\ msg_queue' = msg_queue
  BY <1>3 DEF Handle, Delete
<1>5. /\ fate' \in [Msg -> Fate] /\ fate'[m] = "handled"
      /\ \A n \in Msg : n # m => fate'[n] = fate[n]
      /\ deletes' \in [Msg -> Nat] /\ deletes'[m] = deletes[m] + 1
      /\ \A n \in Msg : n # m => deletes'[n] = deletes[n]
  BY <1>4 DEF IInv, TypeInv, Fate
<1>6. fate[m] = "taken"
  BY <1>3 DEF IInv, OwnerInv
<1>7. TypeInv'
  BY <1>2, <1>4, <1>5 DEF IInv, TypeInv
<1>8. LifeInv'
  BY <1>2, SvcLife DEF IInv
<1>9. PlaceInv'
  BY <1>1, <1>2 DEF IInv, PlaceInv
<1>10. CountInv'
  <2>1. Taken' = Taken
    BY <1>1, <1>2 DEF Taken
  <2> QED
    BY <1>2, <1>4, <2>1 DEF IInv, CountInv, CounterIsExact
<1>11. OwnerInv'
  <2>1. \A n \in Msg : fate'[n] = "taken" <=> \E u \in Thread : svc'[u].msg = n
    <3>1. /\ svc'[t].msg = NoMsg /\ NoMsg \notin Msg
          /\ \A u \in Thread : u # t => svc'[u].msg = svc[u].msg
      BY <1>1, <1>2, AgentServerAssumption
    <3>2. \A u \in Thread : u # t => svc[u].msg # m
      <4>1. \A u, v \in Thread : svc[u].msg = svc[v].msg /\ svc[u].msg # NoMsg => u = v
        BY DEF IInv, OwnerInv
      <4> QED
        BY <1>3, <3>1, <4>1
    <3>3. \A n \in Msg : (\E u \in Thread : svc'[u].msg = n)
                          <=> n # m /\ \E u \in Thread : svc[u].msg = n
      <4>1. \A u \in Thread : svc'[u].msg = IF u = t THEN NoMsg ELSE svc[u].msg
        BY <3>1
      <4>2. m = svc[t].msg
        BY <1>3
      <4> QED
        BY <3>1, <3>2, <4>1, <4>2
    <3>4. \A n \in Msg : fate'[n] = "taken" <=> n # m /\ fate[n] = "taken"
      BY <1>5
    <3> QED
      BY <3>3, <3>4 DEF IInv, OwnerInv
  <2>2. \A u, v \in Thread : svc'[u].msg = svc'[v].msg /\ svc'[u].msg # NoMsg => u = v
    BY <1>1, <1>2 DEF IInv, OwnerInv
  <2>3. \A n \in Msg : fate'[n] = "received" <=> \E s \in Receiver : Holds(s)' /\ rcv'[s].msg = n
    BY <1>2, <1>5, <1>6 DEF IInv, OwnerInv
  <2>4. \A n \in Msg : fate'[n] = "queued" <=> \E i \in 1..Len(msg_queue') : msg_queue'[i] = n
    BY <1>4, <1>5, <1>6 DEF IInv, OwnerInv
  <2> QED
    BY <1>4, <2>1, <2>2, <2>3, <2>4 DEF IInv, OwnerInv
<1>12. DeleteInv'
  <2>1. ASSUME NEW n \in Msg, n # m
        PROVE  (Gone(n)' <=> Gone(n)) /\ (ByReporter(n)' <=> ByReporter(n))
    BY <1>2, <1>5, <2>1 DEF Gone, ByReporter
  <2>2. ~Gone(m) /\ Gone(m)' /\ (ByReporter(m)' <=> ByReporter(m))
    BY <1>2, <1>5, <1>6 DEF Gone, ByReporter
  <2>3. \A n \in Msg : deletes'[n] = (IF Gone(n)' THEN 1 ELSE 0)
                                    + (IF ByReporter(n)' THEN 1 ELSE 0)
    <3>1. ASSUME NEW n \in Msg, n # m
          PROVE  deletes'[n] = (IF Gone(n)' THEN 1 ELSE 0) + (IF ByReporter(n)' THEN 1 ELSE 0)
      BY <1>5, <2>1, <3>1 DEF IInv, DeleteInv
    <3>2. deletes[m] = IF ByReporter(m) THEN 1 ELSE 0
      BY <2>2 DEF IInv, DeleteInv
    <3> QED
      BY <1>5, <2>2, <3>1, <3>2
  <2>4. \A r \in Receiver : rcv'[r].at = "delete" => fate'[rcv'[r].msg] # "new"
    BY <1>2, <1>5 DEF IInv, DeleteInv, PlaceInv, Busy
  <2> QED
    BY <2>3, <2>4 DEF DeleteInv
<1> QED
  BY <1>7, <1>8, <1>9, <1>10, <1>11, <1>12 DEF IInv

-----------------------------------------------------------------------------
(* Init and Fini.                                                          *)

\* Init and Fini start and stop threads that have no message.
LEMMA ControlEffect ==
  ASSUME IInv,
         UNCHANGED <<m_cur_queue_num_ul, msg_queue, m_minisip_mutex, fate, deletes>>,
         rcv' \in [Receiver -> [at : RcvPlace, msg : Msg \cup {NoMsg}, read : Nat]],
         svc' \in [Thread -> [at : SvcPlace, msg : Msg \cup {NoMsg}]],
         m_init_b' \in BOOLEAN, m_run_b' \in BOOLEAN, cat' \in ControlPlace,
         active' \in BOOLEAN, active' => active,
         \A r \in Receiver : \/ rcv'[r] = rcv[r]
                             \/ ~Busy(r) /\ ~Busy(r)' /\ rcv'[r].msg = NoMsg,
         \A t \in Thread : \/ svc'[t] = svc[t]
                           \/ /\ svc[t].at = "off" /\ svc'[t].at = "while"
                              /\ svc'[t].msg = NoMsg
  PROVE  TypeInv' /\ PlaceInv' /\ CountInv' /\ OwnerInv' /\ DeleteInv'
<1>1. /\ m_cur_queue_num_ul' = m_cur_queue_num_ul /\ msg_queue' = msg_queue
      /\ m_minisip_mutex' = m_minisip_mutex /\ fate' = fate /\ deletes' = deletes
  OBVIOUS
<1>2. \A r \in Receiver :
        /\ rcv'[r].msg = rcv[r].msg
        /\ Busy(r)' <=> Busy(r)
        /\ Holds(r)' <=> Holds(r)
        /\ Busy(r) => rcv'[r] = rcv[r]
  BY DEF IInv, PlaceInv, Busy, Holds
<1>3. \A t \in Thread : /\ svc'[t].msg = svc[t].msg
                        /\ svc[t].msg # NoMsg => svc'[t] = svc[t]
                        /\ svc'[t].at \in {"count", "handle"} => svc'[t] = svc[t]
  BY DEF IInv, PlaceInv
<1>4. TypeInv'
  BY <1>1 DEF IInv, TypeInv
<1>5. PlaceInv'
  <2>1. \A r \in Receiver : rcv'[r].at = "delete" => rcv'[r] = rcv[r]
    BY <1>2 DEF Busy
  <2>2. \A r \in Receiver :
          /\ Busy(r)' => m_minisip_mutex' = r /\ rcv'[r].msg \in Msg
          /\ ~Busy(r)' => rcv'[r].msg = NoMsg
          /\ rcv'[r].at = "delete" => rcv'[r].msg \in Stateless
    BY <1>1, <1>2, <2>1 DEF IInv, PlaceInv
  <2>3. \A t \in Thread : svc'[t].msg # NoMsg <=> svc'[t].at \in {"count", "handle"}
    BY <1>3 DEF IInv, PlaceInv
  <2> QED
    BY <2>2, <2>3 DEF PlaceInv
<1>6. CountInv'
  <2>1. Taken' = Taken
    BY <1>3 DEF Taken, IInv, PlaceInv
  <2>2. \A r \in Receiver : rcv'[r].at \in {"load", "store", "put"}
                            \/ rcv[r].at \in {"load", "store", "put"}
                            => rcv'[r] = rcv[r]
    BY <1>2 DEF Busy
  <2>3. Counted' = Counted
    BY <2>2 DEF Counted
  <2> QED
    BY <1>1, <2>1, <2>2, <2>3 DEF IInv, CountInv, CounterIsExact
<1>7. OwnerInv'
  BY <1>1, <1>2, <1>3 DEF IInv, OwnerInv
<1>8. DeleteInv'
  <2>1. \A r \in Receiver : rcv'[r].at = "delete" \/ rcv[r].at = "delete" => rcv'[r] = rcv[r]
    BY <1>2 DEF Busy
  <2>2. \A n \in Msg : (Gone(n)' <=> Gone(n)) /\ (ByReporter(n)' <=> ByReporter(n))
    BY <1>1, <2>1 DEF Gone, ByReporter
  <2> QED
    BY <1>1, <2>1, <2>2 DEF IInv, DeleteInv
<1> QED
  BY <1>4, <1>5, <1>6, <1>7, <1>8

\* A receiver that is started or joined is in no upcall.
LEMMA StartStop ==
  ASSUME IInv, NEW r \in Receiver, NEW to \in {"run", "off"},
         rcv[r].at \in {"run", "off"}, rcv' = [rcv EXCEPT ![r] = At(to)]
  PROVE  /\ rcv' \in [Receiver -> [at : RcvPlace, msg : Msg \cup {NoMsg}, read : Nat]]
         /\ rcv'[r].at = to /\ ~Busy(r)'
         /\ \A s \in Receiver : s # r => rcv'[s] = rcv[s]
         /\ \A s \in Receiver : \/ rcv'[s] = rcv[s]
                                \/ ~Busy(s) /\ ~Busy(s)' /\ rcv'[s].msg = NoMsg
<1>1. /\ At(to) \in [at : RcvPlace, msg : Msg \cup {NoMsg}, read : Nat]
      /\ At(to).at = to /\ At(to).msg = NoMsg
  BY DEF At, RcvPlace
<1>2. rcv \in [Receiver -> [at : RcvPlace, msg : Msg \cup {NoMsg}, read : Nat]]
  BY DEF IInv, TypeInv
<1>3. /\ rcv' \in [Receiver -> [at : RcvPlace, msg : Msg \cup {NoMsg}, read : Nat]]
      /\ rcv'[r] = At(to)
      /\ \A s \in Receiver : s # r => rcv'[s] = rcv[s]
  BY <1>1, <1>2
<1> QED
  BY <1>1, <1>3 DEF Busy

\* Init, up to the point where it has succeeded or failed.
LEMMA InitStep ==
  ASSUME IInv, InitDcg \/ Open \/ Activate \/ InitTask
  PROVE  IInv'
<1>1. /\ active' = active /\ active \in BOOLEAN
      /\ cat \in {"new", "open", "activate", "task"}
      /\ cat' \in {"open", "activate", "task", "up", "failed"}
      /\ cat' \in ControlPlace
      /\ UNCHANGED <<m_cur_queue_num_ul, msg_queue, m_minisip_mutex, fate, deletes>>
      /\ m_init_b' \in BOOLEAN /\ m_run_b' \in BOOLEAN
  BY DEF InitDcg, Open, Activate, InitTask, ControlStep, ControlPlace, IInv, TypeInv
<1>2. \A r \in Receiver : ~Busy(r)
  BY <1>1 DEF IInv, LifeInv, LibraryInUse
<1>3. /\ rcv' \in [Receiver -> [at : RcvPlace, msg : Msg \cup {NoMsg}, read : Nat]]
      /\ \A s \in Receiver : \/ rcv'[s] = rcv[s]
                             \/ ~Busy(s) /\ ~Busy(s)' /\ rcv'[s].msg = NoMsg
      /\ rcv["stack"].at = "off"
      /\ rcv'["stack"].at # "off" => cat' = "up"
  <2>1. /\ rcv \in [Receiver -> [at : RcvPlace, msg : Msg \cup {NoMsg}, read : Nat]]
        /\ rcv["stack"].at = "off" /\ rcv["event"].at \in {"off", "run"}
        /\ "stack" \in Receiver /\ "event" \in Receiver
    BY <1>1, <1>2 DEF IInv, TypeInv, LifeInv, Busy, Receiver
  <2>2. CASE rcv' = rcv
    BY <2>1, <2>2
  <2>3. CASE rcv' = [rcv EXCEPT !["event"] = At("run")]
    BY <2>1, <2>3, StartStop
  <2>4. CASE rcv' = [rcv EXCEPT !["stack"] = At("run")] /\ cat' = "up"
    BY <2>1, <2>4, StartStop
  <2> QED
    BY <2>2, <2>3, <2>4 DEF InitDcg, Open, Activate, InitTask, ControlStep
<1>4. /\ svc' \in [Thread -> [at : SvcPlace, msg : Msg \cup {NoMsg}]]
      /\ \A t \in Thread : \/ svc'[t] = svc[t]
                           \/ /\ svc[t].at = "off" /\ svc'[t].at = "while"
                              /\ svc'[t].msg = NoMsg
      /\ \A t \in Thread : svc'[t].at # "off" => cat' \in {"task", "up", "failed"}
  <2>1. /\ svc \in [Thread -> [at : SvcPlace, msg : Msg \cup {NoMsg}]]
        /\ \A t \in Thread : svc[t].at # "off" => cat = "task"
    BY <1>1 DEF IInv, TypeInv, LifeInv
  <2>2. CASE svc' = svc
    BY <1>1, <2>1, <2>2 DEF InitDcg, Open, Activate, InitTask, ControlStep
  <2>3. CASE Activate /\ svc' = [t \in Thread |-> SvcAt("while")] /\ cat' = "task"
    <3>1. /\ SvcAt("while") \in [at : SvcPlace, msg : Msg \cup {NoMsg}]
          /\ SvcAt("while").at = "while" /\ SvcAt("while").msg = NoMsg
      BY DEF SvcAt, SvcPlace
    <3>2. \A t \in Thread : svc[t].at = "off"
      BY <2>1, <2>3 DEF Activate, ControlStep
    <3> QED
      BY <2>3, <3>1, <3>2
  <2> QED
    BY <2>2, <2>3 DEF InitDcg, Open, Activate, InitTask, ControlStep
<1>5. TypeInv' /\ PlaceInv' /\ CountInv' /\ OwnerInv' /\ DeleteInv'
  BY <1>1, <1>3, <1>4, ControlEffect
<1>6. LifeInv'
  <2>1. \A r \in Receiver : ~Busy(r)'
    BY <1>2, <1>3 DEF Busy
  <2> QED
    BY <1>1, <1>3, <1>4, <2>1 DEF IInv, LifeInv
<1> QED
  BY <1>5, <1>6 DEF IInv

\* Fini.
LEMMA FiniStep ==
  ASSUME IInv, FiniTask \/ InFini
  PROVE  IInv'
<1>1. /\ cat \in {"up", "joined", "wait", "deactivate", "dcg"}
      /\ cat' = CASE cat = "up" -> "joined" [] cat = "joined" -> "wait"
                  [] cat = "wait" -> "deactivate" [] cat = "deactivate" -> "dcg"
                  [] cat = "dcg" -> "done"
      /\ cat' \in ControlPlace
      /\ UNCHANGED <<m_cur_queue_num_ul, msg_queue, m_minisip_mutex, fate, deletes>>
      /\ m_init_b' \in BOOLEAN /\ m_run_b' \in BOOLEAN /\ active' \in BOOLEAN
      /\ active' = IF cat = "deactivate" THEN FALSE ELSE active
      /\ svc' = svc
      /\ cat = "wait" => \A t \in Thread : svc[t].at = "off"
  BY DEF FiniTask, InFini, FiniRun, FiniWait, Deactivate, FiniDcg, ControlStep, ControlPlace,
         IInv, TypeInv
<1>2. /\ rcv \in [Receiver -> [at : RcvPlace, msg : Msg \cup {NoMsg}, read : Nat]]
      /\ svc \in [Thread -> [at : SvcPlace, msg : Msg \cup {NoMsg}]]
      /\ "stack" \in Receiver /\ "event" \in Receiver
  BY DEF IInv, TypeInv, Receiver
<1>3. /\ rcv' \in [Receiver -> [at : RcvPlace, msg : Msg \cup {NoMsg}, read : Nat]]
      /\ \A s \in Receiver : \/ rcv'[s] = rcv[s]
                             \/ ~Busy(s) /\ ~Busy(s)' /\ rcv'[s].msg = NoMsg
      /\ rcv'["stack"].at = "off"
      /\ cat' = "done" => rcv'["event"].at = "off"
  <2>1. CASE FiniTask
    <3>1. /\ rcv["stack"].at = "run" /\ rcv' = [rcv EXCEPT !["stack"] = At("off")]
          /\ cat' = "joined"
      BY <2>1 DEF FiniTask, ControlStep
    <3> QED
      BY <1>2, <3>1, StartStop
  <2>2. CASE FiniRun \/ FiniWait \/ Deactivate
    <3>1. rcv' = rcv /\ cat # "up" /\ cat' # "done"
      BY <2>2 DEF FiniRun, FiniWait, Deactivate, ControlStep
    <3> QED
      BY <1>2, <3>1 DEF IInv, LifeInv
  <2>3. CASE FiniDcg
    <3>1. /\ rcv["event"].at = "run" /\ rcv' = [rcv EXCEPT !["event"] = At("off")]
          /\ cat # "up"
      BY <2>3 DEF FiniDcg, ControlStep
    <3> QED
      BY <1>2, <3>1, StartStop DEF IInv, LifeInv
  <2> QED
    BY <2>1, <2>2, <2>3 DEF InFini
<1>4. TypeInv' /\ PlaceInv' /\ CountInv' /\ OwnerInv' /\ DeleteInv'
  <2>1. \A t \in Thread : svc'[t] = svc[t]
    BY <1>1
  <2>2. svc' \in [Thread -> [at : SvcPlace, msg : Msg \cup {NoMsg}]]
    BY <1>1, <1>2
  <2> QED
    BY <1>1, <1>3, <2>1, <2>2, ControlEffect
<1>5. LifeInv'
  <2>1. active' <=> cat' \notin {"dcg", "done"}
    BY <1>1 DEF IInv, LifeInv
  <2>2. \A t \in Thread : svc'[t].at # "off" => cat' \in {"joined", "wait"}
    BY <1>1 DEF IInv, LifeInv
  <2>3. cat' \in {"joined", "wait", "deactivate", "dcg", "done"}
    BY <1>1
  <2>4. \A r \in Receiver : Busy(r)' => LibraryInUse'
    BY <2>3 DEF LibraryInUse
  <2>5. cat' # "new"
    BY <2>3
  <2> QED
    BY <1>3, <2>1, <2>2, <2>4, <2>5 DEF LifeInv
<1> QED
  BY <1>4, <1>5 DEF IInv

-----------------------------------------------------------------------------
(* The invariant, and what follows from it.                                *)

\* A server that has not been initialised.
LEMMA InitInv == Init => IInv
<1> SUFFICES ASSUME Init
             PROVE  IInv
  OBVIOUS
<1>1. /\ \A r \in Receiver : /\ rcv[r].at = "off" /\ rcv[r].msg = NoMsg
                             /\ ~Busy(r) /\ ~Holds(r)
      /\ \A t \in Thread : svc[t].at = "off" /\ svc[t].msg = NoMsg
      /\ Receiver = {"stack", "event"} /\ Len(msg_queue) = 0
  BY DEF Init, At, SvcAt, Busy, Holds, Receiver
<1>2. TypeInv
  <2>1. At("off") \in [at : RcvPlace, msg : Msg \cup {NoMsg}, read : Nat]
    BY DEF At, RcvPlace
  <2>2. SvcAt("off") \in [at : SvcPlace, msg : Msg \cup {NoMsg}]
    BY DEF SvcAt, SvcPlace
  <2>3. "new" \in ControlPlace /\ "new" \in Fate
    BY DEF ControlPlace, Fate
  <2>4. rcv \in [Receiver -> [at : RcvPlace, msg : Msg \cup {NoMsg}, read : Nat]]
    BY <2>1 DEF Init
  <2>5. svc \in [Thread -> [at : SvcPlace, msg : Msg \cup {NoMsg}]]
    BY <2>2 DEF Init
  <2>6. msg_queue \in Seq(Msg) /\ fate \in [Msg -> Fate] /\ deletes \in [Msg -> Nat]
    BY <2>3 DEF Init
  <2>7. m_cur_queue_num_ul \in Nat /\ cat \in ControlPlace
        /\ m_minisip_mutex \in Receiver \cup {NoThread}
        /\ m_init_b \in BOOLEAN /\ m_run_b \in BOOLEAN /\ active \in BOOLEAN
    BY <2>3 DEF Init
  <2> QED
    BY <2>4, <2>5, <2>6, <2>7 DEF TypeInv
<1>3. LifeInv /\ PlaceInv
  BY <1>1 DEF Init, LifeInv, PlaceInv
<1>4. CountInv
  <2>1. Taken = {} /\ Counted = {}
    BY <1>1 DEF Taken, Counted
  <2> QED
    BY <1>1, <2>1, FS_EmptySet, AgentServerAssumption DEF Init, CountInv, CounterIsExact
<1>5. OwnerInv
  BY <1>1, AgentServerAssumption DEF Init, OwnerInv
<1>6. DeleteInv
  BY <1>1 DEF Init, DeleteInv, Gone, ByReporter
<1> QED
  BY <1>2, <1>3, <1>4, <1>5, <1>6 DEF IInv

\* Every step of the receivers, the server's threads, Init and Fini keeps the
\* invariant.
LEMMA NextInv == IInv /\ [Next]_vars => IInv'
<1> SUFFICES ASSUME IInv, [Next]_vars
             PROVE  IInv'
  OBVIOUS
<1>1. ASSUME NEW r \in Receiver, Upcall(r) \/ InRcvMsg(r)
      PROVE  IInv'
  BY <1>1, UpcallStep, CheckStep, LoadStep, StoreStep, PutStep, DeleteHeaderStep DEF InRcvMsg
<1>2. ASSUME NEW t \in Thread, Serve(t)
      PROVE  IInv'
  <2>1. CASE While(t)
    BY <2>1, RoundStep DEF While
  <2>2. CASE IsEmpty(t)
    BY <2>2, RoundStep DEF IsEmpty
  <2> QED
    BY <1>2, <2>1, <2>2, GetQStep, CountStep, HandleStep DEF Serve
<1>3. CASE Control
  BY <1>3, InitStep, FiniStep DEF Control
<1>4. CASE UNCHANGED vars
  <2>1. /\ m_init_b' = m_init_b /\ m_run_b' = m_run_b /\ active' = active /\ cat' = cat
        /\ m_cur_queue_num_ul' = m_cur_queue_num_ul /\ msg_queue' = msg_queue
        /\ m_minisip_mutex' = m_minisip_mutex /\ rcv' = rcv /\ svc' = svc
        /\ fate' = fate /\ deletes' = deletes
    BY <1>4 DEF vars
  <2>2. TypeInv /\ LifeInv /\ (active' => active)
    BY <2>1 DEF IInv
  <2>3. TypeInv' /\ PlaceInv' /\ CountInv' /\ OwnerInv' /\ DeleteInv'
    BY <2>1, <2>2, ControlEffect DEF TypeInv
  <2>4. LifeInv'
    BY <2>1, <2>2 DEF LifeInv, LibraryInUse, Busy
  <2> QED
    BY <2>3, <2>4 DEF IInv
<1> QED
  BY <1>1, <1>2, <1>3, <1>4 DEF Next

\* The inductive invariant holds for every number of threads, every set of
\* messages and every limit.
THEOREM Invariant == Spec => []IInv
BY InitInv, NextInv, PTL DEF Spec

\* The type of every variable; m_cur_queue_num_ul never wraps, not even when
\* Fini has deactivated the queue below a receiver.
THEOREM TypeCorrect == Spec => []TypeOK
<1>1. ASSUME IInv
      PROVE  TypeOK
  <2>1. \A m \in Msg : deletes[m] \in 0..2
    BY <1>1 DEF IInv, DeleteInv
  <2>2. deletes \in [Msg -> 0..2]
    BY <1>1, <2>1 DEF IInv, TypeInv
  <2> QED
    BY <1>1, <2>2 DEF IInv, TypeInv, TypeOK
<1> QED
  BY <1>1, Invariant, PTL

\* Queue, counter and headers agree: no increment is lost under the read lock,
\* and a header of a transaction's message is deleted once, by its last owner.
THEOREM CountedAndOwned == Spec => []MessagesAreCounted
<1>1. ASSUME IInv
      PROVE  MessagesAreCounted
  <2>1. CounterIsExact
    BY <1>1 DEF IInv, CountInv
  <2>2. ASSUME NEW m \in Msg \ Stateless
        PROVE  /\ fate[m] = "received" <=> \E r \in Receiver : rcv[r].msg = m
               /\ deletes[m] = IF fate[m] \in {"handled", "dropped"} THEN 1 ELSE 0
    <3>1. \A r \in Receiver : rcv[r].msg = m => Holds(r)
      BY <1>1, AgentServerAssumption DEF IInv, PlaceInv, Holds
    <3>2. fate[m] = "received" <=> \E r \in Receiver : Holds(r) /\ rcv[r].msg = m
      BY <1>1 DEF IInv, OwnerInv
    <3>3. fate[m] = "received" <=> \E r \in Receiver : rcv[r].msg = m
      BY <3>1, <3>2
    <3>4. ~ByReporter(m)
      BY DEF ByReporter
    <3>5. deletes[m] = IF Gone(m) THEN 1 ELSE 0
      BY <1>1, <3>4 DEF IInv, DeleteInv
    <3> QED
      BY <3>3, <3>5 DEF Gone
  <2> QED
    BY <1>1, <2>1, <2>2 DEF IInv, OwnerInv, MessagesAreCounted, OneOwner
<1> QED
  BY <1>1, Invariant, PTL

\* When Fini has returned none of the server's threads runs and no upcall is
\* inside the server that the manager deletes next.
THEOREM NothingRunsAfterFini == Spec => []StoppedAfterFini
<1>1. IInv => StoppedAfterFini
  BY DEF IInv, LifeInv, StoppedAfterFini, Receiver
<1> QED
  BY <1>1, Invariant, PTL

-----------------------------------------------------------------------------
(* The refinement of WorkQueue.                                            *)

\* What a reader of the queue sees of the messages and the threads.
Hand == [t \in Thread |-> svc[t].msg]
Offered == {m \in Msg : fate[m] \notin {"new", "received"}}

\* The steps of the abstract queue, each a step of the detailed one.
Stutters == UNCHANGED <<msg_queue, Hand, Offered, active>>

Accepts ==
  \E m \in Msg : /\ active /\ m \notin Offered /\ Len(msg_queue) < MaxQueueNum + 1
                 /\ msg_queue' = Append(msg_queue, m)
                 /\ Offered' = Offered \cup {m}
                 /\ Hand' = Hand /\ active' = active

Refuses ==
  \E m \in Msg : /\ m \notin Offered
                 /\ active => Len(msg_queue) + Cardinality(Work!Occupied) >= MaxQueueNum + 1
                 /\ Offered' = Offered \cup {m}
                 /\ msg_queue' = msg_queue /\ Hand' = Hand /\ active' = active

Takes ==
  \E t \in Thread : /\ active /\ Hand[t] = NoMsg /\ msg_queue # <<>>
                    /\ Hand' = [Hand EXCEPT ![t] = Head(msg_queue)]
                    /\ msg_queue' = Tail(msg_queue)
                    /\ Offered' = Offered /\ active' = active

Finishes ==
  \E t \in Thread : /\ Hand[t] # NoMsg
                    /\ Hand' = [Hand EXCEPT ![t] = NoMsg]
                    /\ msg_queue' = msg_queue /\ Offered' = Offered /\ active' = active

Closes ==
  /\ active /\ active' = FALSE
  /\ \A t \in Thread : Hand[t] = NoMsg
  /\ msg_queue' = msg_queue /\ Hand' = Hand /\ Offered' = Offered

WorkStep == Stutters \/ Accepts \/ Refuses \/ Takes \/ Finishes \/ Closes

\* The queue's instance counts sets as FiniteSets does.
LEMMA SameCardinality ==
  ASSUME NEW S
  PROVE  Work!Cardinality(S) = Cardinality(S)
BY DEF Work!Cardinality, Cardinality

\* What is offered changes with the fate of a message, its first step apart.
LEMMA SameOffered ==
  ASSUME fate' = fate
  PROVE  Offered' = Offered
BY DEF Offered

\* A thread that holds no message before and after a step is not seen.
LEMMA SameHand ==
  ASSUME NEW t \in Thread, \A u \in Thread : u # t => svc'[u] = svc[u],
         svc'[t].msg = svc[t].msg
  PROVE  Hand' = Hand
<1>1. \A u \in Thread : svc'[u].msg = svc[u].msg
  OBVIOUS
<1> QED
  BY <1>1 DEF Hand

\* Every thread that has a message to count off holds one.
LEMMA OccupiedCounts ==
  ASSUME IInv
  PROVE  /\ Cardinality(Work!Occupied) \in Nat
         /\ Cardinality(Taken) <= Cardinality(Work!Occupied)
<1>1. Work!Occupied \in SUBSET Thread
  BY DEF Work!Occupied
<1>2. IsFiniteSet(Work!Occupied)
  BY <1>1, AgentServerAssumption, FS_Subset
<1>3. Taken \in SUBSET Work!Occupied
  BY DEF IInv, PlaceInv, Taken, Work!Occupied
<1>4. Cardinality(Work!Occupied) \in Nat
  BY <1>2, FS_CardinalityType
<1> QED
  BY <1>2, <1>3, <1>4, FS_Subset

\* A message that is refused: while the queue is open, the counter has said
\* that too many wait.
LEMMA DropRefuses ==
  ASSUME IInv, NEW r \in Receiver, rcv[r].at \in {"check", "put"},
         active => rcv[r].at = "check" /\ m_cur_queue_num_ul > MaxQueueNum,
         Drop(r), UNCHANGED <<controlVars, m_cur_queue_num_ul, msg_queue, svc>>
  PROVE  Refuses
<1>1. PICK m \in Msg : m = rcv[r].msg
  BY DEF IInv, PlaceInv, Busy
<1>2. Busy(r) /\ Holds(r) /\ fate[m] = "received"
  BY <1>1 DEF IInv, OwnerInv, Busy, Holds
<1>3. Offered' = Offered \cup {m} /\ m \notin Offered
  <2>1. fate' = [fate EXCEPT ![m] = "dropped"] /\ fate \in [Msg -> Fate]
    BY <1>1 DEF Drop, IInv, TypeInv
  <2> QED
    BY <1>2, <2>1 DEF Offered
<1>4. active => Len(msg_queue) + Cardinality(Work!Occupied) >= MaxQueueNum + 1
  <2> SUFFICES ASSUME active
               PROVE  Len(msg_queue) + Cardinality(Work!Occupied) >= MaxQueueNum + 1
    OBVIOUS
  <2>1. \A s \in Receiver : s \notin Counted
    BY <1>2, OneBusy DEF IInv, Counted, Busy
  <2>2. Counted = {}
    BY <2>1 DEF Counted
  <2>3. Cardinality(Counted) = 0
    BY <2>2, FS_EmptySet
  <2>4. /\ m_cur_queue_num_ul = Len(msg_queue) + Cardinality(Taken) + Cardinality(Counted)
        /\ Len(msg_queue) \in Nat /\ m_cur_queue_num_ul > MaxQueueNum
    BY DEF IInv, TypeInv, CountInv, CounterIsExact
  <2> QED
    BY <2>3, <2>4, Counts, OccupiedCounts, AgentServerAssumption
<1>5. msg_queue' = msg_queue /\ Hand' = Hand /\ active' = active
  BY DEF controlVars, Hand
<1> QED
  BY <1>3, <1>4, <1>5 DEF Refuses

\* RcvMsg accepts a message at putq, refuses it at one of its two exits and is
\* not seen elsewhere.
LEMMA ReceiverWork ==
  ASSUME IInv, NEW r \in Receiver, Upcall(r) \/ InRcvMsg(r)
  PROVE  WorkStep
<1>1. CASE Upcall(r)
  <2>1. PICK m \in Msg : fate[m] = "new" /\ fate' = [fate EXCEPT ![m] = "received"]
    BY <1>1 DEF Upcall
  <2>2. Offered' = Offered
    BY <2>1 DEF Offered, IInv, TypeInv
  <2> QED
    BY <1>1, <2>2 DEF Upcall, controlVars, Hand, Stutters, WorkStep
<1>2. CASE Check(r)
  <2>1. CASE m_cur_queue_num_ul > MaxQueueNum
    BY <1>2, <2>1, DropRefuses DEF Check, WorkStep
  <2>2. CASE ~(m_cur_queue_num_ul > MaxQueueNum)
    BY <1>2, <2>2, SameOffered DEF Check, controlVars, Hand, Stutters, WorkStep
  <2> QED
    BY <2>1, <2>2
<1>3. CASE Load(r) \/ Store(r) \/ DeleteHeader(r)
  BY <1>3, SameOffered
     DEF Load, Store, DeleteHeader, controlVars, Hand, Stutters, WorkStep
<1>4. CASE Put(r)
  <2>1. CASE ~active
    BY <1>4, <2>1, DropRefuses DEF Put, WorkStep
  <2>2. CASE active
    <3>1. PICK m \in Msg : m = rcv[r].msg
      BY <1>4 DEF IInv, PlaceInv, Busy, Put
    <3>2. /\ rcv[r].at = "put" /\ msg_queue' = Append(msg_queue, m)
          /\ fate' = [fate EXCEPT ![m] = "queued"]
          /\ active' = active /\ Hand' = Hand
      BY <1>4, <2>2, <3>1 DEF Put, controlVars, Hand
    <3>3. Offered' = Offered \cup {m} /\ m \notin Offered
      <4>1. Holds(r) /\ fate[m] = "received"
        BY <3>1, <3>2 DEF IInv, OwnerInv, Busy, Holds
      <4> QED
        BY <3>2, <4>1 DEF Offered, IInv, TypeInv
    <3>4. Len(msg_queue) < MaxQueueNum + 1
      <4>1. Cardinality(Counted) > 0
        <5>1. r \in Counted
          BY <3>2 DEF Counted
        <5>2. Counted # {}
          BY <5>1
        <5> QED
          BY <5>2, Counts, FS_EmptySet
      <4>2. /\ m_cur_queue_num_ul = Len(msg_queue) + Cardinality(Taken) + Cardinality(Counted)
            /\ Len(msg_queue) \in Nat /\ m_cur_queue_num_ul <= MaxQueueNum + 1
        BY <2>2 DEF IInv, TypeInv, CountInv, CounterIsExact
      <4> QED
        BY <4>1, <4>2, Counts, AgentServerAssumption
    <3> QED
      BY <2>2, <3>2, <3>3, <3>4 DEF Accepts, WorkStep
  <2> QED
    BY <2>1, <2>2
<1> QED
  BY <1>1, <1>2, <1>3, <1>4 DEF InRcvMsg

\* getq takes the oldest message, the end of a round gives it up.
LEMMA ServerWork ==
  ASSUME IInv, NEW t \in Thread, Serve(t)
  PROVE  WorkStep
<1>1. svc \in [Thread -> [at : SvcPlace, msg : Msg \cup {NoMsg}]]
  BY DEF IInv, TypeInv
<1>2. CASE While(t) \/ IsEmpty(t)
  <2>1. PICK place \in SvcPlace : SvcStep(t, svc[t].at, SvcAt(place))
    BY <1>2 DEF While, IsEmpty, SvcStep, SvcPlace
  <2>2. svc[t].msg = NoMsg /\ fate' = fate /\ msg_queue' = msg_queue
    BY <1>2 DEF While, IsEmpty, SvcStep, IInv, PlaceInv
  <2>3. /\ svc'[t].msg = NoMsg /\ active' = active
        /\ \A u \in Thread : u # t => svc'[u] = svc[u]
    BY <1>1, <2>1 DEF SvcStep, SvcAt, controlVars
  <2> QED
    BY <2>2, <2>3, SameHand, SameOffered DEF Stutters, WorkStep
<1>3. CASE GetQ(t)
  <2>1. PICK m \in Msg : m = Head(msg_queue) /\ fate[m] = "queued"
    <3>1. /\ msg_queue \in Seq(Msg) /\ msg_queue # <<>>
          /\ 1 \in 1..Len(msg_queue) /\ Head(msg_queue) = msg_queue[1]
      BY <1>3 DEF IInv, TypeInv, GetQ
    <3>2. msg_queue[1] \in Msg
      BY <3>1
    <3> QED
      BY <3>1, <3>2 DEF IInv, OwnerInv
  <2>2. /\ svc' = [svc EXCEPT ![t] = [at |-> "count", msg |-> m]]
        /\ fate' = [fate EXCEPT ![m] = "taken"]
        /\ active /\ msg_queue # <<>> /\ msg_queue' = Tail(msg_queue) /\ active' = active
    BY <1>3, <2>1 DEF GetQ, SvcStep, controlVars
  <2>3. Offered' = Offered
    BY <2>1, <2>2 DEF Offered, IInv, TypeInv
  <2>4. Hand[t] = NoMsg
    BY <1>3 DEF GetQ, SvcStep, IInv, PlaceInv, Hand
  <2>5. Hand' = [Hand EXCEPT ![t] = m]
    BY <1>1, <2>2 DEF Hand
  <2> QED
    BY <2>1, <2>2, <2>3, <2>4, <2>5 DEF Takes, WorkStep
<1>4. CASE Count(t)
  <2>1. svc' = [svc EXCEPT ![t] = [svc[t] EXCEPT !.at = "handle"]]
    BY <1>4 DEF Count, SvcStep
  <2>2. svc'[t].msg = svc[t].msg /\ \A u \in Thread : u # t => svc'[u] = svc[u]
    BY <1>1, <2>1
  <2> QED
    BY <1>4, <2>2, SameHand, SameOffered
       DEF Count, SvcStep, controlVars, Stutters, WorkStep
<1>5. CASE Handle(t)
  <2>1. /\ svc[t].at = "handle" /\ svc[t].msg \in Msg /\ svc[t].msg # NoMsg
        /\ fate[svc[t].msg] = "taken"
    BY <1>1, <1>5, AgentServerAssumption
       DEF Handle, SvcStep, IInv, PlaceInv, OwnerInv
  <2>2. /\ svc' = [svc EXCEPT ![t] = SvcAt("while")]
        /\ fate' = [fate EXCEPT ![svc[t].msg] = "handled"]
        /\ msg_queue' = msg_queue /\ active' = active
    BY <1>5 DEF Handle, SvcStep, controlVars
  <2>3. Offered' = Offered
    BY <2>1, <2>2 DEF Offered, IInv, TypeInv
  <2>4. Hand[t] # NoMsg
    BY <2>1 DEF Hand
  <2>5. Hand' = [Hand EXCEPT ![t] = NoMsg]
    BY <1>1, <2>2 DEF Hand, SvcAt
  <2> QED
    BY <2>2, <2>3, <2>4, <2>5 DEF Finishes, WorkStep
<1> QED
  BY <1>2, <1>3, <1>4, <1>5 DEF Serve

\* Init and Fini are not seen, but for the moment the queue is deactivated.
LEMMA ControlWork ==
  ASSUME IInv, Control
  PROVE  WorkStep
<1>1. fate' = fate /\ msg_queue' = msg_queue
  BY DEF Control, InFini, InitDcg, Open, Activate, InitTask, FiniTask, FiniRun,
         FiniWait, Deactivate, FiniDcg, ControlStep
<1>2. CASE Deactivate
  <2>1. cat = "deactivate" /\ active' = FALSE /\ svc' = svc
    BY <1>2 DEF Deactivate, ControlStep
  <2>2. active /\ \A t \in Thread : svc[t].at = "off"
    BY <2>1 DEF IInv, LifeInv
  <2>3. \A t \in Thread : Hand[t] = NoMsg
    BY <2>2 DEF IInv, PlaceInv, Hand
  <2> QED
    BY <1>1, <2>1, <2>2, <2>3, SameOffered DEF Hand, Closes, WorkStep
<1>3. CASE Activate
  <2>1. active' = active /\ (svc' = svc \/ svc' = [t \in Thread |-> SvcAt("while")])
    BY <1>3 DEF Activate
  <2>2. \A t \in Thread : svc[t].at = "off"
    BY <1>3 DEF Activate, ControlStep, IInv, LifeInv
  <2>3. \A t \in Thread : svc[t].msg = NoMsg
    BY <2>2 DEF IInv, PlaceInv
  <2>4. \A t \in Thread : svc'[t].msg = NoMsg
    BY <2>1, <2>3 DEF SvcAt
  <2>5. Hand' = Hand
    BY <2>3, <2>4 DEF Hand
  <2> QED
    BY <1>1, <2>1, <2>5, SameOffered DEF Stutters, WorkStep
<1>4. CASE InitDcg \/ Open \/ InitTask \/ FiniTask \/ FiniRun \/ FiniWait \/ FiniDcg
  <2>1. active' = active /\ svc' = svc
    BY <1>4 DEF InitDcg, Open, InitTask, FiniTask, FiniRun, FiniWait, FiniDcg
  <2> QED
    BY <1>1, <2>1, SameOffered DEF Hand, Stutters, WorkStep
<1> QED
  BY <1>2, <1>3, <1>4 DEF Control, InFini

\* Every step of the server is one of the queue, or leaves it as it is.
LEMMA NextWork == ASSUME IInv, [Next]_vars PROVE WorkStep
<1>1. CASE UNCHANGED vars
  BY <1>1, SameOffered DEF vars, Hand, Stutters, WorkStep
<1> QED
  BY <1>1, ReceiverWork, ServerWork, ControlWork DEF Next

\* The server is a bounded first-in first-out queue with several workers.
THEOREM ServerIsQueue == Spec => BoundedQueue
<1>1. Init => Work!Init
  <2> SUFFICES ASSUME Init PROVE Work!Init
    OBVIOUS
  <2>1. Hand = [t \in Thread |-> NoMsg]
    BY DEF Init, Hand, SvcAt
  <2>2. Offered = {}
    BY DEF Init, Offered
  <2> QED
    BY <2>1, <2>2 DEF Init, Hand, Offered, Work!Init
<1>2. IInv /\ [Next]_vars => [Work!Next]_(Work!vars)
  <2> SUFFICES ASSUME IInv, [Next]_vars
               PROVE  Work!Next \/ UNCHANGED Work!vars
    OBVIOUS
  <2>1. Stutters => UNCHANGED Work!vars
    BY DEF Stutters, Hand, Offered, Work!vars
  <2>2. Accepts => Work!Next
    BY DEF Accepts, Hand, Offered, Work!Next, Work!Accept
  <2>3. Refuses => Work!Next
    <3>1. Work!Cardinality(Work!Occupied) = Cardinality(Work!Occupied)
      BY SameCardinality
    <3> QED
      BY <3>1 DEF Refuses, Hand, Offered, Work!Next, Work!Refuse
  <2>4. Takes => Work!Next
    BY DEF Takes, Hand, Offered, Work!Next, Work!Take
  <2>5. Finishes => Work!Next
    BY DEF Finishes, Hand, Offered, Work!Next, Work!Finish
  <2>6. Closes => Work!Next
    BY DEF Closes, Hand, Offered, Work!Next, Work!Close, Work!Occupied
  <2> QED
    BY <2>1, <2>2, <2>3, <2>4, <2>5, <2>6, NextWork DEF WorkStep
<1> QED
  BY <1>1, <1>2, Invariant, PTL DEF Spec, BoundedQueue, Work!Spec
=============================================================================
