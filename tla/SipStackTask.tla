---------------------------- MODULE SipStackTask ----------------------------
(***************************************************************************)
(* CSipStackTask (sipstack_task.cpp): the one thread that may touch the    *)
(* MiniSip library, and the queues that feed it.                           *)
(*                                                                         *)
(* Requests and responses to the peer go through a pair of lists each.     *)
(* The thread empties the list named by the read index without holding a   *)
(* lock, and swaps the index under the queue's mutex when that list is     *)
(* empty; producers append to the other list under the mutex.  Datagrams   *)
(* from the network go through a single list whose mutex the thread keeps  *)
(* while it handles one.                                                   *)
(***************************************************************************)
EXTENDS FlowControl

CONSTANTS Producer,     \* application threads and the network thread
          Mission,      \* the heap objects handed over, each at most once
          NoProducer,
          NoMission,
          MaxSessions   \* bound: how often Init starts the thread

ASSUME SipStackTaskAssumption ==
  /\ NoProducer \notin Producer
  /\ NoMission \notin Mission
  /\ MaxSessions \in Nat

Chan == {"req", "resp"}      \* the double-buffered queues
Queue == Chan \cup {"post"}

VARIABLES
  m_to_pu_q,          \* m_req_to_pu_q and m_resp_to_pu_q, two lists each
  m_to_pu_q_read_ui,  \* which of the two the thread reads
  m_to_pu_q_mutex,    \* the producer inside the queue's mutex
  m_post_to_app_q,    \* datagrams from the network
  m_post_to_app_q_ui, \* their number, as the code counts them
  m_init_b,
  m_work_b,
  level,      \* CSipStackCtrlMsgMgr::m_itCurrentCondition
  wat,        \* where the stack thread is
  wchan,      \* the queue it serves there
  hand,       \* the mission it has popped
  prod,       \* per producer: how far its call has come
  cat,        \* where the thread inside Init or Fini is
  cleared,    \* how many of the five lists Fini has emptied
  sessions,   \* how often the thread was started
  fate        \* history: what became of each mission

queueVars == <<m_to_pu_q, m_to_pu_q_read_ui, m_to_pu_q_mutex, m_post_to_app_q,
               m_post_to_app_q_ui>>
workerVars == <<level, wat, wchan, hand>>
controlVars == <<m_init_b, m_work_b, cat, cleared, sessions>>
vars == <<queueVars, workerVars, controlVars, prod, fate>>

WorkerPlace == {"off", "while", "test", "swap", "recheck", "pop", "execute",
                "post", "recv"}
ControlPlace == {"idle", "spawn", "ready", "wait", "clear"}
Fate == {"new", "offered", "queued", "held", "executed", "refused", "discarded",
         "returned"}

\* A producer's call: outside, past the m_init_b test, or holding the mutex
\* with the index of the list it will append to.
Call == [at : {"out", "checked", "locked"}, queue : Queue,
         mission : Mission \cup {NoMission}, write : 0..1]
NoCall == [at |-> "out", queue |-> "req", mission |-> NoMission, write |-> 0]

QueueTypeOK ==
  /\ m_to_pu_q \in [Chan -> [0..1 -> Seq(Mission)]]
  /\ m_to_pu_q_read_ui \in [Chan -> 0..1]
  /\ m_to_pu_q_mutex \in [Chan -> Producer \cup {NoProducer}]
  /\ m_post_to_app_q \in Seq(Mission)
  /\ m_post_to_app_q_ui \in Nat

WorkerTypeOK ==
  /\ level \in Level
  /\ wat \in WorkerPlace
  /\ wchan \in Chan
  /\ hand \in Mission \cup {NoMission}

ControlTypeOK ==
  /\ cat \in ControlPlace
  /\ cleared \in 0..5
  /\ sessions \in 0..MaxSessions

FlagTypeOK == m_init_b \in BOOLEAN /\ m_work_b \in BOOLEAN

\* The type of every variable; the datagram counter, unsigned in the code, is
\* never decremented below zero, where it would wrap.
TypeOK ==
  /\ QueueTypeOK
  /\ WorkerTypeOK
  /\ ControlTypeOK
  /\ FlagTypeOK
  /\ prod \in [Producer -> Call]
  /\ fate \in [Mission -> Fate]

Init ==
  /\ m_to_pu_q = [d \in Chan |-> [i \in 0..1 |-> <<>>]]
  /\ m_to_pu_q_read_ui = [d \in Chan |-> 0]
  /\ m_to_pu_q_mutex = [d \in Chan |-> NoProducer]
  /\ m_post_to_app_q = <<>>
  /\ m_post_to_app_q_ui = 0
  /\ m_init_b = FALSE
  /\ m_work_b = FALSE
  /\ level = EndLevel
  /\ wat = "off"
  /\ wchan = "req"
  /\ hand = NoMission
  /\ prod = [p \in Producer |-> NoCall]
  /\ cat = "idle"
  /\ cleared = 0
  /\ sessions = 0
  /\ fate = [m \in Mission |-> "new"]

-----------------------------------------------------------------------------
(* The producers: RequestToPu, RespondToPu and PostToApp.                  *)

\* The call begins with an m_init_b test outside every lock; when it fails
\* the mission stays with the caller, which deletes it.
Offer(p, d) ==
  /\ prod[p].at = "out"
  /\ \E m \in Mission :
       /\ fate[m] = "new"
       /\ IF m_init_b
          THEN /\ prod' = [prod EXCEPT ![p] =
                     [at |-> "checked", queue |-> d, mission |-> m, write |-> 0]]
               /\ fate' = [fate EXCEPT ![m] = "offered"]
          ELSE /\ fate' = [fate EXCEPT ![m] = "returned"]
               /\ UNCHANGED prod
  /\ UNCHANGED <<queueVars, workerVars, controlVars>>

RequestToPu(p) == Offer(p, "req")
RespondToPu(p) == Offer(p, "resp")

\* The network callback wraps the datagram and calls PostToApp.
HandleRecv(p) == Offer(p, "post")

\* Mutant: appends to the list the thread reads.
WriteIndexMutant(d) == m_to_pu_q_read_ui[d]

WriteIndex(d) == 1 - m_to_pu_q_read_ui[d]

\* Takes the mutex and reads the index of the list to append to.
Lock(p) ==
  LET d == prod[p].queue IN
  /\ prod[p].at = "checked"
  /\ d \in Chan
  /\ m_to_pu_q_mutex[d] = NoProducer
  /\ m_to_pu_q_mutex' = [m_to_pu_q_mutex EXCEPT ![d] = p]
  /\ prod' = [prod EXCEPT ![p] =
                [@ EXCEPT !.at = "locked", !.write = WriteIndex(d)]]
  /\ UNCHANGED <<m_to_pu_q, m_to_pu_q_read_ui, m_post_to_app_q,
                 m_post_to_app_q_ui, workerVars, controlVars, fate>>

\* Appends and leaves the mutex.
Push(p) ==
  LET d == prod[p].queue
      m == prod[p].mission
  IN
  /\ prod[p].at = "locked"
  /\ m_to_pu_q' = [m_to_pu_q EXCEPT ![d][prod[p].write] = Append(@, m)]
  /\ m_to_pu_q_mutex' = [m_to_pu_q_mutex EXCEPT ![d] = NoProducer]
  /\ prod' = [prod EXCEPT ![p] = NoCall]
  /\ fate' = [fate EXCEPT ![m] = "queued"]
  /\ UNCHANGED <<m_to_pu_q_read_ui, m_post_to_app_q, m_post_to_app_q_ui,
                 workerVars, controlVars>>

\* PostToApp under its mutex, which the thread keeps while it handles one.
PostToApp(p) ==
  LET m == prod[p].mission IN
  /\ prod[p].at = "checked"
  /\ prod[p].queue = "post"
  /\ wat # "recv"
  /\ m_post_to_app_q' = Append(m_post_to_app_q, m)
  /\ m_post_to_app_q_ui' = m_post_to_app_q_ui + 1
  /\ prod' = [prod EXCEPT ![p] = NoCall]
  /\ fate' = [fate EXCEPT ![m] = "queued"]
  /\ UNCHANGED <<m_to_pu_q, m_to_pu_q_read_ui, m_to_pu_q_mutex, workerVars,
                 controlVars>>

-----------------------------------------------------------------------------
(* The stack thread: CSipStackTask::svc.                                   *)

ReadList(d) == m_to_pu_q[d][m_to_pu_q_read_ui[d]]

\* while(m_work_b)
While ==
  /\ wat = "while"
  /\ wat' = IF m_work_b THEN "test" ELSE "off"
  /\ wchan' = "req"
  /\ UNCHANGED <<queueVars, controlVars, level, hand, prod, fate>>

\* The next stage after the one that serves d.
Leave(d) ==
  IF d = "req" THEN wat' = "test" /\ wchan' = "resp"
               ELSE wat' = "post" /\ UNCHANGED wchan

\* Mutant: never swaps the lists.
TestNoSwapMutant ==
  /\ wat = "test"
  /\ wat' = "recheck"
  /\ UNCHANGED <<queueVars, controlVars, level, wchan, hand, prod, fate>>

\* Is the read list empty?  Asked without the mutex.
Test ==
  /\ wat = "test"
  /\ wat' = IF ReadList(wchan) = <<>> THEN "swap" ELSE "recheck"
  /\ UNCHANGED <<queueVars, controlVars, level, wchan, hand, prod, fate>>

\* Swaps the lists under the mutex.
Swap ==
  /\ wat = "swap"
  /\ m_to_pu_q_mutex[wchan] = NoProducer
  /\ m_to_pu_q_read_ui' = [m_to_pu_q_read_ui EXCEPT ![wchan] = 1 - @]
  /\ wat' = "recheck"
  /\ UNCHANGED <<m_to_pu_q, m_to_pu_q_mutex, m_post_to_app_q,
                 m_post_to_app_q_ui, controlVars, level, wchan, hand, prod, fate>>

\* Still empty: the other list had nothing either.  Without the mutex.
Recheck ==
  /\ wat = "recheck"
  /\ IF ReadList(wchan) = <<>>
     THEN Leave(wchan)
     ELSE wat' = "pop" /\ UNCHANGED wchan
  /\ UNCHANGED <<queueVars, controlVars, level, hand, prod, fate>>

\* Mutant: takes the newest mission of the list.
PopMutant ==
  LET list == ReadList(wchan) IN
  /\ wat = "pop"
  /\ hand' = list[Len(list)]
  /\ m_to_pu_q' = [m_to_pu_q EXCEPT ![wchan][m_to_pu_q_read_ui[wchan]] =
                     SubSeq(@, 1, Len(@) - 1)]
  /\ fate' = [fate EXCEPT ![hand'] = "held"]
  /\ wat' = "execute"
  /\ UNCHANGED <<m_to_pu_q_read_ui, m_to_pu_q_mutex, m_post_to_app_q,
                 m_post_to_app_q_ui, controlVars, level, wchan, prod>>

\* front() and pop_front(), without the mutex.
Pop ==
  /\ wat = "pop"
  /\ hand' = Head(ReadList(wchan))
  /\ m_to_pu_q' = [m_to_pu_q EXCEPT ![wchan][m_to_pu_q_read_ui[wchan]] = Tail(@)]
  /\ fate' = [fate EXCEPT ![hand'] = "held"]
  /\ wat' = "execute"
  /\ UNCHANGED <<m_to_pu_q_read_ui, m_to_pu_q_mutex, m_post_to_app_q,
                 m_post_to_app_q_ui, controlVars, level, wchan, prod>>

\* Mutant: the next mission is popped over the one in hand.
ExecuteMutant ==
  /\ wat = "execute"
  /\ hand' = NoMission
  /\ Leave(wchan)
  /\ UNCHANGED <<queueVars, controlVars, level, prod, fate>>

\* HandleRequestMession or HandleRespondMession, then delete.
Execute ==
  /\ wat = "execute"
  /\ fate' = [fate EXCEPT ![hand] = "executed"]
  /\ hand' = NoMission
  /\ Leave(wchan)
  /\ UNCHANGED <<queueVars, controlVars, level, prod>>

\* The receive stage takes the mutex, pops one datagram and moves the
\* overload level by the number left.
TakePost ==
  /\ wat = "post"
  /\ IF m_post_to_app_q = <<>>
     THEN /\ wat' = "while"
          /\ UNCHANGED <<m_post_to_app_q, m_post_to_app_q_ui, level, hand, fate>>
     ELSE /\ hand' = Head(m_post_to_app_q)
          /\ m_post_to_app_q' = Tail(m_post_to_app_q)
          /\ m_post_to_app_q_ui' = m_post_to_app_q_ui - 1
          /\ level' = UpdateCondition(level, m_post_to_app_q_ui')
          /\ fate' = [fate EXCEPT ![hand'] = "held"]
          /\ wat' = "recv"
  /\ UNCHANGED <<m_to_pu_q, m_to_pu_q_read_ui, m_to_pu_q_mutex, controlVars,
                 wchan, prod>>

\* HandleRecvMession gives the datagram to the library, which hands a request
\* to CSipStack::HandleSipTxnHiSfReqInd and its overload control; then delete.
HandleRecvMession ==
  /\ wat = "recv"
  /\ \E isRequest \in BOOLEAN, kind \in Kind :
       fate' = [fate EXCEPT ![hand] =
                  IF isRequest /\ IsControl2Drop(level, kind)
                  THEN "refused" ELSE "executed"]
  /\ hand' = NoMission
  /\ wat' = "while"
  /\ UNCHANGED <<queueVars, controlVars, level, wchan, prod>>

-----------------------------------------------------------------------------
(* CSipStackTask::Init and Fini, called under the agent manager's mutex.   *)

\* LoadConfig by the agent manager, the m_init_b test and m_work_b.
InitBegin ==
  /\ cat = "idle"
  /\ ~m_init_b
  /\ sessions < MaxSessions
  /\ level' = LoadedLevel
  /\ m_work_b' = TRUE
  /\ sessions' = sessions + 1
  /\ cat' = "spawn"
  /\ UNCHANGED <<queueVars, wat, wchan, hand, m_init_b, cleared, prod, fate>>

\* activate() starts the thread, or fails.
Spawn ==
  /\ cat = "spawn"
  /\ \/ wat' = "while" /\ cat' = "ready" /\ UNCHANGED m_work_b
     \/ m_work_b' = FALSE /\ cat' = "idle" /\ UNCHANGED wat
  /\ UNCHANGED <<queueVars, level, wchan, hand, m_init_b, cleared, sessions,
                 prod, fate>>

InitEnd ==
  /\ cat = "ready"
  /\ m_init_b' = TRUE
  /\ cat' = "idle"
  /\ UNCHANGED <<queueVars, workerVars, m_work_b, cleared, sessions, prod, fate>>

FiniBegin ==
  /\ cat = "idle"
  /\ m_init_b
  /\ m_work_b' = FALSE
  /\ cat' = "wait"
  /\ cleared' = 0
  /\ UNCHANGED <<queueVars, workerVars, m_init_b, sessions, prod, fate>>

\* Mutant: Fini does not wait for the thread to end.
FiniWaitMutant ==
  /\ cat = "wait"
  /\ cat' = "clear"
  /\ UNCHANGED <<queueVars, workerVars, m_init_b, m_work_b, cleared, sessions,
                 prod, fate>>

\* wait(): joins the thread.
FiniWait ==
  /\ cat = "wait"
  /\ wat = "off"
  /\ cat' = "clear"
  /\ UNCHANGED <<queueVars, workerVars, m_init_b, m_work_b, cleared, sessions,
                 prod, fate>>

\* The order in which Fini empties the lists of the double-buffered queues.
ClearOrder == << <<"req", 0>>, <<"resp", 0>>, <<"req", 1>>, <<"resp", 1>> >>

Discarded(list) ==
  [m \in Mission |->
     IF \E i \in 1..Len(list) : list[i] = m THEN "discarded" ELSE fate[m]]

\* Empties one list of a double-buffered queue under its mutex.
FiniClear ==
  /\ cat = "clear"
  /\ cleared < 4
  /\ LET d == ClearOrder[cleared + 1][1]
         i == ClearOrder[cleared + 1][2]
     IN  /\ m_to_pu_q_mutex[d] = NoProducer
         /\ fate' = Discarded(m_to_pu_q[d][i])
         /\ m_to_pu_q' = [m_to_pu_q EXCEPT ![d][i] = <<>>]
  /\ cleared' = cleared + 1
  /\ UNCHANGED <<m_to_pu_q_read_ui, m_to_pu_q_mutex, m_post_to_app_q,
                 m_post_to_app_q_ui, workerVars, m_init_b, m_work_b, cat,
                 sessions, prod>>

\* Mutant: sets the counter to zero and leaves the datagrams.
FiniClearPostMutant ==
  /\ cat = "clear"
  /\ cleared = 4
  /\ m_post_to_app_q_ui' = 0
  /\ cleared' = 5
  /\ UNCHANGED <<m_to_pu_q, m_to_pu_q_read_ui, m_to_pu_q_mutex,
                 m_post_to_app_q, workerVars, m_init_b, m_work_b, cat,
                 sessions, prod, fate>>

\* Empties the datagrams under their mutex; the counter is left as it is.
FiniClearPost ==
  /\ cat = "clear"
  /\ cleared = 4
  /\ fate' = Discarded(m_post_to_app_q)
  /\ m_post_to_app_q' = <<>>
  /\ cleared' = 5
  /\ UNCHANGED <<m_to_pu_q, m_to_pu_q_read_ui, m_to_pu_q_mutex,
                 m_post_to_app_q_ui, workerVars, m_init_b, m_work_b, cat,
                 sessions, prod>>

\* Only now are producers turned away.
FiniEnd ==
  /\ cat = "clear"
  /\ cleared = 5
  /\ m_init_b' = FALSE
  /\ cat' = "idle"
  /\ UNCHANGED <<queueVars, workerVars, m_work_b, cleared, sessions, prod, fate>>

-----------------------------------------------------------------------------
Producers ==
  \E p \in Producer : \/ RequestToPu(p) \/ RespondToPu(p) \/ HandleRecv(p)
                      \/ Lock(p) \/ Push(p) \/ PostToApp(p)
Worker == \/ While \/ Test \/ Swap \/ Recheck \/ Pop \/ Execute
          \/ TakePost \/ HandleRecvMession
Control == \/ InitBegin \/ Spawn \/ InitEnd
           \/ FiniBegin \/ FiniWait \/ FiniClear \/ FiniClearPost \/ FiniEnd

Next == Producers \/ Worker \/ Control

\* The thread is scheduled; a producer inside a call is too, and so is a
\* thread inside Init or Fini.  Whether a call is ever made is up to others.
Fairness ==
  /\ WF_vars(Worker)
  /\ WF_vars(Spawn \/ InitEnd \/ FiniWait \/ FiniClear \/ FiniClearPost \/ FiniEnd)
  /\ \A p \in Producer : WF_vars(Lock(p) \/ Push(p) \/ PostToApp(p))

Spec == Init /\ [][Next]_vars

FairSpec == Spec /\ Fairness

-----------------------------------------------------------------------------
(* Properties.                                                             *)

\* The thread reads a list without the mutex only while no producer is about
\* to append to that same list, and swaps the lists only while no producer
\* is between reading the index and appending (the code's own warning that
\* this part takes no lock).
NoListRace ==
  \A p \in Producer : prod[p].at = "locked" =>
    LET d == prod[p].queue IN
    /\ m_to_pu_q_mutex[d] = p
    /\ wat \in {"test", "recheck", "pop"} /\ wchan = d =>
         prod[p].write # m_to_pu_q_read_ui[d]

\* front() and pop_front() are called on a list that has an element, though
\* emptiness was asked before and without the mutex.
PopFindsMission == wat = "pop" => ReadList(wchan) # <<>>

\* Both: what the thread learns without the mutex is true when it acts.
ReadsAreSafe == NoListRace /\ PopFindsMission

\* The lists a queued mission can be in.
Slot == (Chan \X (0..1)) \cup {<<"post", 0>>}
ListAt(s) == IF s = <<"post", 0>> THEN m_post_to_app_q ELSE m_to_pu_q[s[1]][s[2]]

\* A mission that was accepted is owned by exactly one list, or by the thread,
\* until it is released, and by nobody afterwards: none is executed or deleted
\* twice, and none is lost, in spite of the lock-free reads and of Fini.
OneOwner ==
  /\ \A s, t \in Slot : \A i \in 1..Len(ListAt(s)), j \in 1..Len(ListAt(t)) :
       ListAt(s)[i] = ListAt(t)[j] => s = t /\ i = j
  /\ \A m \in Mission :
       /\ fate[m] = "queued" <=> \E s \in Slot : \E i \in 1..Len(ListAt(s)) :
                                    ListAt(s)[i] = m
       /\ fate[m] = "held" <=> hand = m
       /\ fate[m] = "offered" <=> \E p \in Producer : prod[p].mission = m
  /\ \A p, r \in Producer :
       prod[p].mission = prod[r].mission /\ prod[p] # NoCall => p = r

\* The counter that drives the overload level never falls below the number of
\* datagrams waiting (it is unsigned, and one decrement too many would wrap);
\* until the first Fini the two agree.
CounterCoversQueue ==
  /\ m_post_to_app_q_ui >= Len(m_post_to_app_q)
  /\ sessions <= 1 /\ cleared < 5 => m_post_to_app_q_ui = Len(m_post_to_app_q)

\* Fini returns only after the thread has ended, so nothing is executed
\* afterwards on objects the application then destroys.
StoppedAfterFini == cat = "idle" /\ ~m_init_b => wat = "off" /\ hand = NoMission

\* Callers of RequestToPu and RespondToPu see a first-in first-out queue with
\* one consumer, whatever the two lists behind it do.
Requests == INSTANCE MissionQueue WITH
  queue <- ReadList("req") \o m_to_pu_q["req"][1 - m_to_pu_q_read_ui["req"]],
  hand <- IF wat = "execute" /\ wchan = "req" THEN hand ELSE NoMission,
  running <- wat # "off"
Responses == INSTANCE MissionQueue WITH
  queue <- ReadList("resp") \o m_to_pu_q["resp"][1 - m_to_pu_q_read_ui["resp"]],
  hand <- IF wat = "execute" /\ wchan = "resp" THEN hand ELSE NoMission,
  running <- wat # "off"
RequestQueue == Requests!Spec
ResponseQueue == Responses!Spec
MissionQueues == RequestQueue /\ ResponseQueue

\* What is accepted while the thread works is carried out, unless it is
\* stopped: swapping the lists leaves no mission behind in either of them.
\* Fini comes to an end: the thread leaves its loop and no mutex is kept.
AcceptedIsServed ==
  /\ \A m \in Mission :
       fate[m] \in {"queued", "held"} ~>
         fate[m] \in {"executed", "refused", "discarded"} \/ ~m_work_b
  /\ cat = "wait" ~> cat = "idle" /\ ~m_init_b

\* Once Fini has returned, every mission that was accepted has been released
\* (sipstack_agent_client_impl.cpp:157: a mission put into the queue is
\* released by the side that uses it).
AcceptedIsReleased ==
  cat = "idle" /\ ~m_init_b => \A m \in Mission : fate[m] # "queued"

\* When the number waiting has fallen below the current level's length, the
\* level comes down (sipstack_msg_ctrl.cpp:278: the condition of the next
\* control queue is reached).
LevelComesDown ==
  [][ wat = "post" /\ wat' = "recv" /\ level > 1
      /\ m_post_to_app_q_ui' < Thresholds[level] => level' < level ]_vars
=============================================================================
