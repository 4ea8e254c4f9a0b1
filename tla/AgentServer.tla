----------------------------- MODULE AgentServer -----------------------------
(***************************************************************************)
(* SipStackAgentServerImpl: the queue between the threads that run the     *)
(* MiniSip library and the server's own threads.                           *)
(*                                                                         *)
(* The library's upcalls reach RcvMsg on two threads, the stack thread     *)
(* (CSipStackTask::svc) and the event thread that fires the library's      *)
(* timers; both hold the MiniSip mutex.  RcvMsg counts the message under   *)
(* a READ lock and puts it into the queue; the server's threads poll the   *)
(* queue, take a message with a blocking getq, count it off under the      *)
(* write lock and hand it to the client.                                   *)
(*                                                                         *)
(* A request that belongs to no transaction (the peer's ACK to a 200) is   *)
(* reported by HandleSipTxnHiSlReqInd, which deletes the header itself     *)
(* when the report is made.                                                *)
(***************************************************************************)
EXTENDS Integers, Sequences, FiniteSets

CONSTANTS Thread,     \* the threads activate() starts
          Msg,        \* the SIP_HEADERs, each reported once
          Stateless,  \* those of requests without a transaction
          MaxQueueNum,\* m_max_queue_num_cul
          NoThread, NoMsg

Receiver == {"stack", "event"}

ASSUME AgentServerAssumption ==
  /\ IsFiniteSet(Thread)
  /\ NoThread \notin Receiver
  /\ NoMsg \notin Msg /\ Stateless \subseteq Msg
  /\ MaxQueueNum \in Nat

VARIABLES
  m_init_b,
  m_run_b,
  m_cur_queue_num_ul,
  msg_queue,     \* ACE_Task's message queue
  active,        \* it is open and not deactivated
  m_minisip_mutex,
  rcv,           \* per receiver: where in RcvMsg, its message, the count it read
  svc,           \* per thread: where in svc, its message
  cat,           \* where the thread inside Init or Fini is
  fate,          \* history: what became of each message
  deletes        \* history: how often its header was deleted

vars == <<m_init_b, m_run_b, m_cur_queue_num_ul, msg_queue, active,
          m_minisip_mutex, rcv, svc, cat, fate, deletes>>
controlVars == <<m_init_b, m_run_b, active, cat>>

RcvPlace == {"off", "run", "check", "load", "store", "put", "delete"}
SvcPlace == {"off", "while", "empty", "getq", "count", "handle"}
ControlPlace == {"new", "open", "activate", "task", "up", "failed",
                 "joined", "wait", "deactivate", "dcg", "done"}
Fate == {"new", "received", "queued", "taken", "handled", "dropped"}

\* The type of every variable; the counter, unsigned in the code, is never
\* decremented below zero, where it would wrap and refuse every message.
TypeOK ==
  /\ m_init_b \in BOOLEAN
  /\ m_run_b \in BOOLEAN
  /\ active \in BOOLEAN
  /\ m_cur_queue_num_ul \in Nat
  /\ msg_queue \in Seq(Msg)
  /\ m_minisip_mutex \in Receiver \cup {NoThread}
  /\ rcv \in [Receiver -> [at : RcvPlace, msg : Msg \cup {NoMsg}, read : Nat]]
  /\ svc \in [Thread -> [at : SvcPlace, msg : Msg \cup {NoMsg}]]
  /\ cat \in ControlPlace
  /\ fate \in [Msg -> Fate]
  /\ deletes \in [Msg -> 0..2]

At(place) == [at |-> place, msg |-> NoMsg, read |-> 0]
SvcAt(place) == [at |-> place, msg |-> NoMsg]

Init ==
  /\ m_init_b = FALSE
  /\ m_run_b = FALSE
  /\ m_cur_queue_num_ul = 0
  /\ msg_queue = <<>>
  /\ active = TRUE
  /\ m_minisip_mutex = NoThread
  /\ rcv = [r \in Receiver |-> At("off")]
  /\ svc = [t \in Thread |-> SvcAt("off")]
  /\ cat = "new"
  /\ fate = [m \in Msg |-> "new"]
  /\ deletes = [m \in Msg |-> 0]

-----------------------------------------------------------------------------
(* RcvMsg, on the stack thread or the event thread.                        *)

\* The library has transactions to report on, or to time out, only once the
\* stack thread has been started.
LibraryInUse == cat \notin {"new", "open", "activate", "task", "failed"}

\* Mutant: the library is entered without the MiniSip mutex.
UpcallMutant(r) ==
  /\ LibraryInUse
  /\ rcv[r].at = "run"
  /\ \E m \in Msg :
       /\ fate[m] = "new" /\ (m \in Stateless => r = "stack")
       /\ rcv' = [rcv EXCEPT ![r] = [at |-> "check", msg |-> m, read |-> 0]]
       /\ fate' = [fate EXCEPT ![m] = "received"]
  /\ UNCHANGED <<controlVars, m_cur_queue_num_ul, msg_queue, m_minisip_mutex, svc, deletes>>

\* Inside the MiniSip mutex the library reports a message; a request without a
\* transaction when its datagram has come.
Upcall(r) ==
  /\ LibraryInUse
  /\ rcv[r].at = "run"
  /\ m_minisip_mutex = NoThread
  /\ m_minisip_mutex' = r
  /\ \E m \in Msg :
       /\ fate[m] = "new" /\ (m \in Stateless => r = "stack")
       /\ rcv' = [rcv EXCEPT ![r] = [at |-> "check", msg |-> m, read |-> 0]]
       /\ fate' = [fate EXCEPT ![m] = "received"]
  /\ UNCHANGED <<controlVars, m_cur_queue_num_ul, msg_queue, svc, deletes>>

Delete(m) == deletes' = [deletes EXCEPT ![m] = @ + 1]

\* RcvMsg returns, and the upcall ends unless the reporter goes on to delete
\* the header.
Return(r) ==
  IF rcv[r].msg \in Stateless
  THEN rcv' = [rcv EXCEPT ![r].at = "delete"] /\ UNCHANGED m_minisip_mutex
  ELSE rcv' = [rcv EXCEPT ![r] = At("run")] /\ m_minisip_mutex' = NoThread

\* The message is refused and freed.
Drop(r) ==
  /\ fate' = [fate EXCEPT ![rcv[r].msg] = "dropped"]
  /\ Delete(rcv[r].msg)
  /\ Return(r)

\* Takes the read lock and compares with the limit.
Check(r) ==
  /\ rcv[r].at = "check"
  /\ IF m_cur_queue_num_ul > MaxQueueNum
     THEN Drop(r)
     ELSE /\ rcv' = [rcv EXCEPT ![r].at = "load"]
          /\ UNCHANGED <<fate, deletes, m_minisip_mutex>>
  /\ UNCHANGED <<controlVars, m_cur_queue_num_ul, msg_queue, svc>>

\* ++m_cur_queue_num_ul reads ...
Load(r) ==
  /\ rcv[r].at = "load"
  /\ rcv' = [rcv EXCEPT ![r].at = "store", ![r].read = m_cur_queue_num_ul]
  /\ UNCHANGED <<controlVars, m_cur_queue_num_ul, msg_queue, m_minisip_mutex,
                 svc, fate, deletes>>

\* Mutant: forgets to count the message.
StoreMutant(r) ==
  /\ rcv[r].at = "store"
  /\ rcv' = [rcv EXCEPT ![r].at = "put"]
  /\ UNCHANGED <<controlVars, m_cur_queue_num_ul, msg_queue, m_minisip_mutex, svc, fate,
                 deletes>>

\* ... and writes; then the read lock is released.
Store(r) ==
  /\ rcv[r].at = "store"
  /\ m_cur_queue_num_ul' = rcv[r].read + 1
  /\ rcv' = [rcv EXCEPT ![r].at = "put"]
  /\ UNCHANGED <<controlVars, msg_queue, m_minisip_mutex, svc, fate, deletes>>

\* Mutant: the message is put before the others (ungetq).
PutMutant(r) ==
  /\ rcv[r].at = "put"
  /\ IF active
     THEN /\ msg_queue' = <<rcv[r].msg>> \o msg_queue
          /\ fate' = [fate EXCEPT ![rcv[r].msg] = "queued"]
          /\ Return(r)
          /\ UNCHANGED deletes
     ELSE Drop(r) /\ UNCHANGED msg_queue
  /\ UNCHANGED <<controlVars, m_cur_queue_num_ul, svc>>

\* putq: the blocks have no length, so the queue is never full, but it refuses
\* them once it is deactivated.  The counter is not taken back.
Put(r) ==
  /\ rcv[r].at = "put"
  /\ IF active
     THEN /\ msg_queue' = Append(msg_queue, rcv[r].msg)
          /\ fate' = [fate EXCEPT ![rcv[r].msg] = "queued"]
          /\ Return(r)
          /\ UNCHANGED deletes
     ELSE Drop(r) /\ UNCHANGED msg_queue
  /\ UNCHANGED <<controlVars, m_cur_queue_num_ul, svc>>

\* HandleSipTxnHiSlReqInd deletes the header and returns.
DeleteHeader(r) ==
  /\ rcv[r].at = "delete"
  /\ Delete(rcv[r].msg)
  /\ rcv' = [rcv EXCEPT ![r] = At("run")]
  /\ m_minisip_mutex' = NoThread
  /\ UNCHANGED <<controlVars, m_cur_queue_num_ul, msg_queue, svc, fate>>

-----------------------------------------------------------------------------
(* svc, on each of the server's threads.                                   *)

SvcStep(t, from, state) ==
  /\ svc[t].at = from
  /\ svc' = [svc EXCEPT ![t] = state]
  /\ UNCHANGED <<controlVars, m_minisip_mutex, rcv>>

\* while (m_run_b)
While(t) ==
  /\ SvcStep(t, "while", SvcAt(IF m_run_b THEN "empty" ELSE "off"))
  /\ UNCHANGED <<m_cur_queue_num_ul, msg_queue, fate, deletes>>

\* Mutant: the test of is_empty is the wrong way round.
IsEmptyMutant(t) ==
  /\ SvcStep(t, "empty", SvcAt(IF msg_queue # <<>> THEN "while" ELSE "getq"))
  /\ UNCHANGED <<m_cur_queue_num_ul, msg_queue, fate, deletes>>

\* is_empty: sleep and start over.
IsEmpty(t) ==
  /\ SvcStep(t, "empty", SvcAt(IF msg_queue = <<>> THEN "while" ELSE "getq"))
  /\ UNCHANGED <<m_cur_queue_num_ul, msg_queue, fate, deletes>>

\* getq waits, without a limit, for a message; deactivate(), the other thing
\* it waits for, only comes when Fini has joined every thread.
GetQ(t) ==
  /\ active
  /\ msg_queue # <<>>
  /\ SvcStep(t, "getq", [at |-> "count", msg |-> Head(msg_queue)])
  /\ msg_queue' = Tail(msg_queue)
  /\ fate' = [fate EXCEPT ![Head(msg_queue)] = "taken"]
  /\ UNCHANGED <<m_cur_queue_num_ul, deletes>>

\* Counts the message off under the write lock, no receiver in the read lock.
Count(t) ==
  /\ \A r \in Receiver : rcv[r].at \notin {"load", "store"}
  /\ SvcStep(t, "count", [svc[t] EXCEPT !.at = "handle"])
  /\ m_cur_queue_num_ul' = m_cur_queue_num_ul - 1
  /\ UNCHANGED <<msg_queue, fate, deletes>>

\* HandleRcvMsg of the client; then the message is freed.
Handle(t) ==
  /\ SvcStep(t, "handle", SvcAt("while"))
  /\ fate' = [fate EXCEPT ![svc[t].msg] = "handled"]
  /\ Delete(svc[t].msg)
  /\ UNCHANGED <<m_cur_queue_num_ul, msg_queue>>

-----------------------------------------------------------------------------
(* Init and Fini, under the agent manager's mutex.  The manager makes a new *)
(* server for every Init, so an object is initialised once.                *)

ControlStep(from, to) ==
  /\ cat = from
  /\ cat' = to
  /\ UNCHANGED <<m_cur_queue_num_ul, msg_queue, m_minisip_mutex, fate, deletes>>

\* CDcgStack::Init starts the event thread, or fails before or after that.
InitDcg ==
  /\ \/ /\ ControlStep("new", "open")
        /\ m_run_b' = TRUE
        /\ rcv' = [rcv EXCEPT !["event"] = At("run")]
     \/ /\ ControlStep("new", "failed")
        /\ UNCHANGED m_run_b
        /\ rcv' \in {rcv, [rcv EXCEPT !["event"] = At("run")]}
  /\ UNCHANGED <<m_init_b, active, svc>>

\* msg_queue()->open, on a queue that is active and empty from the start;
\* or it fails.
Open ==
  /\ \/ ControlStep("open", "activate") /\ UNCHANGED m_run_b
     \/ ControlStep("open", "failed") /\ m_run_b' = FALSE
  /\ UNCHANGED <<m_init_b, active, rcv, svc>>

\* activate starts the threads, or fails.
Activate ==
  /\ \/ /\ ControlStep("activate", "task")
        /\ svc' = [t \in Thread |-> SvcAt("while")]
        /\ UNCHANGED m_run_b
     \/ /\ ControlStep("activate", "failed")
        /\ m_run_b' = FALSE
        /\ UNCHANGED svc
  /\ UNCHANGED <<m_init_b, active, rcv>>

\* CSipStackTask::Init starts the stack thread, or fails.
InitTask ==
  /\ \/ /\ ControlStep("task", "up")
        /\ rcv' = [rcv EXCEPT !["stack"] = At("run")]
        /\ m_init_b' = TRUE
        /\ UNCHANGED m_run_b
     \/ /\ ControlStep("task", "failed")
        /\ m_run_b' = FALSE
        /\ UNCHANGED <<m_init_b, rcv>>
  /\ UNCHANGED <<active, svc>>

\* CSipStackTask::Fini joins the stack thread.
FiniTask ==
  /\ ControlStep("up", "joined")
  /\ rcv["stack"].at = "run"
  /\ rcv' = [rcv EXCEPT !["stack"] = At("off")]
  /\ UNCHANGED <<m_init_b, m_run_b, active, svc>>

FiniRun ==
  /\ ControlStep("joined", "wait")
  /\ m_run_b' = FALSE
  /\ UNCHANGED <<m_init_b, active, rcv, svc>>

\* wait() joins the server's threads.
FiniWait ==
  /\ ControlStep("wait", "deactivate")
  /\ \A t \in Thread : svc[t].at = "off"
  /\ UNCHANGED <<m_init_b, m_run_b, active, rcv, svc>>

Deactivate ==
  /\ ControlStep("deactivate", "dcg")
  /\ active' = FALSE
  /\ UNCHANGED <<m_init_b, m_run_b, rcv, svc>>

\* CDcgStack::Fini joins the event thread.
FiniDcg ==
  /\ ControlStep("dcg", "done")
  /\ rcv["event"].at = "run"
  /\ rcv' = [rcv EXCEPT !["event"] = At("off")]
  /\ m_init_b' = FALSE
  /\ UNCHANGED <<m_run_b, active, svc>>

-----------------------------------------------------------------------------
InRcvMsg(r) == Check(r) \/ Load(r) \/ Store(r) \/ Put(r) \/ DeleteHeader(r)
Serve(t) == While(t) \/ IsEmpty(t) \/ GetQ(t) \/ Count(t) \/ Handle(t)
InFini == FiniRun \/ FiniWait \/ Deactivate \/ FiniDcg
Control == InitDcg \/ Open \/ Activate \/ InitTask \/ FiniTask \/ InFini

Next ==
  \/ \E r \in Receiver : Upcall(r) \/ InRcvMsg(r)
  \/ \E t \in Thread : Serve(t)
  \/ Control

\* Threads are scheduled; a call of Fini that has begun goes on.
Fairness ==
  /\ \A r \in Receiver : WF_vars(InRcvMsg(r))
  /\ \A t \in Thread : WF_vars(Serve(t))
  /\ WF_vars(InFini)

Spec == Init /\ [][Next]_vars

FairSpec == Spec /\ Fairness

-----------------------------------------------------------------------------
(* Properties.                                                             *)

Taken == {t \in Thread : svc[t].at = "count"}
Counted == {r \in Receiver : rcv[r].at = "put"}

\* The counter is exactly the messages counted and not yet counted off, while
\* the queue works: no increment is lost although it is made under a read
\* lock, because both receivers hold the MiniSip mutex.  It is unsigned, and
\* one lost increment would make it wrap and every later message be dropped.
\* So the queue never holds more than one message above the limit.
CounterIsExact ==
  /\ active =>
       m_cur_queue_num_ul = Len(msg_queue) + Cardinality(Taken) + Cardinality(Counted)
  /\ Len(msg_queue) <= MaxQueueNum + 1

\* The header of a request or an answer with a transaction has one owner, a
\* receiver, the queue or a thread, and is deleted once, by the last of them.
OneOwner ==
  /\ \A m \in Msg \ Stateless :
       /\ fate[m] = "received" <=> \E r \in Receiver : rcv[r].msg = m
       /\ fate[m] = "queued" <=> \E i \in 1..Len(msg_queue) : msg_queue[i] = m
       /\ fate[m] = "taken" <=> \E t \in Thread : svc[t].msg = m
       /\ deletes[m] = IF fate[m] \in {"handled", "dropped"} THEN 1 ELSE 0
  /\ \A i, j \in 1..Len(msg_queue) : msg_queue[i] = msg_queue[j] => i = j
  /\ \A t, u \in Thread : svc[t].msg = svc[u].msg /\ svc[t].msg # NoMsg => t = u

\* Queue, counter and headers agree, whatever the order of two receivers and
\* the threads: no message is lost, counted twice or freed under its reader.
MessagesAreCounted == CounterIsExact /\ OneOwner

\* The header in the queue is deleted by the thread that takes it out, and by
\* nobody else (sipstack_agent_server_impl.cpp:402: read the memory, and
\* release it).
DeletedByServer ==
  \A m \in Msg : /\ deletes[m] <= 1
                 /\ fate[m] \in {"queued", "taken"} => deletes[m] = 0

\* When Fini has returned nothing runs on the server's memory any more: no
\* thread of its own, no upcall.  The manager deletes it next.
StoppedAfterFini ==
  cat = "done" => /\ \A t \in Thread : svc[t].at = "off"
                  /\ \A r \in Receiver : rcv[r].at = "off"

\* To the library that reports and the client that handles, the server is a
\* bounded first-in first-out queue with several workers, whatever the unlocked
\* test of is_empty, the counter that is kept apart from the queue, and Fini in
\* between: a message is dropped only when as many as the limit allows wait or
\* are being handled, or after Fini has joined the threads; what is accepted is
\* handled in order and by one thread; no thread has one when the queue closes.
Work == INSTANCE WorkQueue
          WITH Item <- Msg, NoItem <- NoMsg, Worker <- Thread,
               Limit <- MaxQueueNum + 1,
               queue <- msg_queue,
               hand <- [t \in Thread |-> svc[t].msg],
               offered <- {m \in Msg : fate[m] \notin {"new", "received"}},
               open <- active

BoundedQueue == Work!Spec

\* What is queued is handled as long as the server runs, although the threads
\* that lose the race between is_empty and getq stay blocked.
QueuedIsHandled ==
  \A m \in Msg : fate[m] = "queued" ~> fate[m] = "handled" \/ ~m_run_b

\* Fini ends (sipsdk.h:67: SIP_SDK_UnInit de-initialises the stack).
FiniEnds == cat = "wait" ~> cat = "done"
=============================================================================
