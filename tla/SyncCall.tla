------------------------------ MODULE SyncCall ------------------------------
(***************************************************************************)
(* The synchronous calls of SipStackAgentClientImpl (SyncSendInviteEx,     *)
(* SyncSendMsgEx, SendRegister): the calling thread puts a handler on its  *)
(* own stack, registers it under the call's fresh Call-ID, hands the       *)
(* request to the stack thread and waits on the handler's condition, with  *)
(* a timeout and without a predicate loop.  The threads of the agent       *)
(* server look a received message's Call-ID up and store it in the handler *)
(* they find.  The calling thread then takes the message out of the        *)
(* handler after it has left the handler's mutex.                          *)
(***************************************************************************)
EXTENDS Naturals, FiniteSets

CONSTANTS Caller,       \* threads, each with room for one handler on its stack
          Dispatcher,   \* threads of the agent server
          CallId,       \* Call-IDs, fresh for every call
          MaxMsgs,      \* bound: messages that arrive under one Call-ID
          NoOne, NoId, NoMsg

ASSUME SyncCallAssumption ==
  /\ NoOne \notin Caller \cup Dispatcher
  /\ Caller \cap Dispatcher = {}
  /\ NoId \notin CallId
  /\ MaxMsgs \in Nat

\* The messages that can come in: the answer to the call, and requests of the
\* peer that carry the same Call-ID.
Msg == CallId \X (1..MaxMsgs)

ASSUME NoMsgAssumption == NoMsg \notin Msg

VARIABLES
  m_sip_msg_handler_map, \* Call-ID to the thread whose handler it leads to
  m_sync_thread_mutex,   \* per handler: who holds its mutex
  m_sipstack_msg_ptr,    \* per handler: the message it holds
  caller,     \* per caller: where its call is, its Call-ID, what it has taken
  dispatch,   \* per dispatcher: where it is, its message, the handler found
  posted,     \* Call-IDs whose request the stack thread was given
  fate,       \* history: what became of each message
  stored,     \* history: Call-IDs a message was stored for before GetMsg
  result      \* history: what each call returned

vars == <<m_sip_msg_handler_map, m_sync_thread_mutex, m_sipstack_msg_ptr,
          caller, dispatch, posted, fate, stored, result>>
handlerVars == <<m_sip_msg_handler_map, m_sync_thread_mutex, m_sipstack_msg_ptr>>
historyVars == <<posted, fate, stored, result>>

CallerPlace == {"out", "saved", "locked", "sent", "waiting", "woken", "relocked",
                "released", "taking", "destroy"}
DispatchPlace == {"idle", "found", "locked", "stored"}
Fate == {"absent", "arrived", "dropped", "stored", "overwritten", "discarded"}

OutOfCall == [at |-> "out", id |-> NoId, taken |-> NoMsg]
Idle == [at |-> "idle", msg |-> NoMsg, handler |-> NoOne]

\* The type of every variable; a dispatcher past its lookup has a handler.
TypeOK ==
  /\ m_sip_msg_handler_map \in [CallId -> Caller \cup {NoOne}]
  /\ m_sync_thread_mutex \in [Caller -> Caller \cup Dispatcher \cup {NoOne}]
  /\ m_sipstack_msg_ptr \in [Caller -> Msg \cup {NoMsg}]
  /\ caller \in [Caller -> [at : CallerPlace, id : CallId \cup {NoId},
                            taken : Msg \cup {NoMsg}]]
  /\ dispatch \in [Dispatcher -> [at : DispatchPlace, msg : Msg \cup {NoMsg},
                                  handler : Caller \cup {NoOne}]]
  /\ \A d \in Dispatcher : dispatch[d].at # "idle" => dispatch[d].handler \in Caller
  /\ posted \subseteq CallId
  /\ fate \in [Msg -> Fate]
  /\ stored \subseteq CallId
  /\ result \in [CallId -> [how : {"open", "refused", "none", "message"},
                           msg : Msg \cup {NoMsg}]]

Init ==
  /\ m_sip_msg_handler_map = [c \in CallId |-> NoOne]
  /\ m_sync_thread_mutex = [h \in Caller |-> NoOne]
  /\ m_sipstack_msg_ptr = [h \in Caller |-> NoMsg]
  /\ caller = [t \in Caller |-> OutOfCall]
  /\ dispatch = [d \in Dispatcher |-> Idle]
  /\ posted = {}
  /\ fate = [m \in Msg |-> "absent"]
  /\ stored = {}
  /\ result = [c \in CallId |-> [how |-> "open", msg |-> NoMsg]]

\* m_sip_msg_handler_map_rw_mutex: dispatchers hold it to read from the lookup
\* until they have left the handler, so nobody writes the map meanwhile.
NoReader == \A d \in Dispatcher : dispatch[d].at = "idle"

Goto(t, place) == caller' = [caller EXCEPT ![t].at = place]

-----------------------------------------------------------------------------
(* The calling thread.                                                     *)

Used == {c \in CallId : result[c].how # "open"} \cup {caller[t].id : t \in Caller}

\* The handler's constructor: SaveAgentMsgHandler under the write lock.
SaveAgentMsgHandler(t) ==
  /\ caller[t].at = "out"
  /\ NoReader
  /\ \E c \in CallId \ Used :
       /\ m_sip_msg_handler_map' = [m_sip_msg_handler_map EXCEPT ![c] = t]
       /\ caller' = [caller EXCEPT ![t] =
                       [at |-> "saved", id |-> c, taken |-> NoMsg]]
  /\ m_sipstack_msg_ptr' = [m_sipstack_msg_ptr EXCEPT ![t] = NoMsg]
  /\ UNCHANGED <<m_sync_thread_mutex, dispatch, historyVars>>

\* Mutant: the request is sent before the handler's mutex is taken.
AcquireMutant(t) ==
  /\ caller[t].at = "saved"
  /\ Goto(t, "locked")
  /\ UNCHANGED <<handlerVars, dispatch, historyVars>>

Acquire(t) ==
  /\ caller[t].at = "saved"
  /\ m_sync_thread_mutex[t] = NoOne
  /\ m_sync_thread_mutex' = [m_sync_thread_mutex EXCEPT ![t] = t]
  /\ Goto(t, "locked")
  /\ UNCHANGED <<m_sip_msg_handler_map, m_sipstack_msg_ptr, dispatch, historyVars>>

\* RequestToPu takes the request, or refuses it: then the mutex is released
\* and the call ends with an exception (false for SendRegister).
RequestToPu(t) ==
  /\ caller[t].at = "locked"
  /\ \/ /\ posted' = posted \cup {caller[t].id}
        /\ Goto(t, "sent")
        /\ UNCHANGED <<m_sync_thread_mutex, result>>
     \/ /\ m_sync_thread_mutex' = [m_sync_thread_mutex EXCEPT ![t] = NoOne]
        /\ result' = [result EXCEPT ![caller[t].id].how = "refused"]
        /\ Goto(t, "destroy")
        /\ UNCHANGED posted
  /\ UNCHANGED <<m_sip_msg_handler_map, m_sipstack_msg_ptr, dispatch, fate, stored>>

\* The condition's wait leaves the mutex and sleeps in one step.
WaitMsg(t) ==
  /\ caller[t].at = "sent"
  /\ m_sync_thread_mutex' = [m_sync_thread_mutex EXCEPT ![t] = NoOne]
  /\ Goto(t, "waiting")
  /\ UNCHANGED <<m_sip_msg_handler_map, m_sipstack_msg_ptr, dispatch, historyVars>>

\* The time is up.
Timeout(t) ==
  /\ caller[t].at = "waiting"
  /\ Goto(t, "woken")
  /\ UNCHANGED <<handlerVars, dispatch, historyVars>>

\* The wait returns once the mutex is taken again.
Return(t) ==
  /\ caller[t].at = "woken"
  /\ m_sync_thread_mutex[t] = NoOne
  /\ m_sync_thread_mutex' = [m_sync_thread_mutex EXCEPT ![t] = t]
  /\ Goto(t, "relocked")
  /\ UNCHANGED <<m_sip_msg_handler_map, m_sipstack_msg_ptr, dispatch, historyVars>>

Release(t) ==
  /\ caller[t].at = "relocked"
  /\ m_sync_thread_mutex' = [m_sync_thread_mutex EXCEPT ![t] = NoOne]
  /\ Goto(t, "released")
  /\ UNCHANGED <<m_sip_msg_handler_map, m_sipstack_msg_ptr, dispatch, historyVars>>

\* Mutant: a handler whose wait timed out is not asked.
GetMsgMutant(t) ==
  /\ caller[t].at = "released"
  /\ caller' = [caller EXCEPT ![t].at = "taking"]
  /\ UNCHANGED <<handlerVars, dispatch, historyVars>>

\* GetMsg copies the auto_ptr, without the mutex: it reads the pointer ...
GetMsg(t) ==
  /\ caller[t].at = "released"
  /\ caller' = [caller EXCEPT ![t].at = "taking", ![t].taken = m_sipstack_msg_ptr[t]]
  /\ UNCHANGED <<handlerVars, dispatch, historyVars>>

\* ... and clears it.
ClearPtr(t) ==
  /\ caller[t].at = "taking"
  /\ m_sipstack_msg_ptr' = [m_sipstack_msg_ptr EXCEPT ![t] = NoMsg]
  /\ result' = [result EXCEPT ![caller[t].id] =
                  [how |-> IF caller[t].taken = NoMsg THEN "none" ELSE "message",
                   msg |-> caller[t].taken]]
  /\ Goto(t, "destroy")
  /\ UNCHANGED <<m_sip_msg_handler_map, m_sync_thread_mutex, dispatch, posted,
                 fate, stored>>

Destroyed(t) ==
  LET m == m_sipstack_msg_ptr[t] IN
  fate' = IF m = NoMsg THEN fate ELSE [fate EXCEPT ![m] = "discarded"]

\* Mutant: the destructor does not wait for the dispatchers.
DeleteAgentMsgHandlerNoLockMutant(t) ==
  /\ caller[t].at = "destroy"
  /\ m_sip_msg_handler_map' = [m_sip_msg_handler_map EXCEPT ![caller[t].id] = NoOne]
  /\ caller' = [caller EXCEPT ![t] = OutOfCall]
  /\ Destroyed(t)
  /\ UNCHANGED <<m_sync_thread_mutex, m_sipstack_msg_ptr, dispatch, posted,
                 stored, result>>

\* The destructor: DeleteAgentMsgHandler under the write lock, then the
\* members, a message left in the handler included.
DeleteAgentMsgHandler(t) ==
  /\ caller[t].at = "destroy"
  /\ NoReader
  /\ m_sip_msg_handler_map' = [m_sip_msg_handler_map EXCEPT ![caller[t].id] = NoOne]
  /\ caller' = [caller EXCEPT ![t] = OutOfCall]
  /\ Destroyed(t)
  /\ m_sipstack_msg_ptr' = [m_sipstack_msg_ptr EXCEPT ![t] = NoMsg]
  /\ UNCHANGED <<m_sync_thread_mutex, dispatch, posted, stored, result>>

-----------------------------------------------------------------------------
(* The agent server's threads.                                             *)

\* A message of the peer reaches the agent server's queue, at any time after
\* the request has been handed over, also when the call has long ended.
Arrive(m) ==
  /\ fate[m] = "absent"
  /\ m[1] \in posted
  /\ fate' = [fate EXCEPT ![m] = "arrived"]
  /\ UNCHANGED <<handlerVars, caller, dispatch, posted, stored, result>>

\* Mutant: goes on with the map's end when it has found no handler.
HandleRcvMsgMutant(d) ==
  /\ dispatch[d].at = "idle"
  /\ \E m \in Msg :
       /\ fate[m] = "arrived"
       /\ \A e \in Dispatcher : dispatch[e].msg # m
       /\ dispatch' = [dispatch EXCEPT ![d] =
            [at |-> "found", msg |-> m, handler |-> m_sip_msg_handler_map[m[1]]]]
  /\ UNCHANGED <<handlerVars, caller, historyVars>>

\* HandleRcvMsg takes the read lock and looks the Call-ID up; a message
\* nobody waits for is dropped.
HandleRcvMsg(d) ==
  /\ dispatch[d].at = "idle"
  /\ \E m \in Msg :
       /\ fate[m] = "arrived"
       /\ \A e \in Dispatcher : dispatch[e].msg # m
       /\ LET h == m_sip_msg_handler_map[m[1]] IN
          IF h = NoOne
          THEN /\ fate' = [fate EXCEPT ![m] = "dropped"]
               /\ UNCHANGED dispatch
          ELSE /\ dispatch' = [dispatch EXCEPT ![d] =
                                 [at |-> "found", msg |-> m, handler |-> h]]
               /\ UNCHANGED fate
  /\ UNCHANGED <<handlerVars, caller, posted, stored, result>>

\* handRcvMsg takes the handler's mutex ...
HandlerAcquire(d) ==
  LET h == dispatch[d].handler IN
  /\ dispatch[d].at = "found"
  /\ m_sync_thread_mutex[h] = NoOne
  /\ m_sync_thread_mutex' = [m_sync_thread_mutex EXCEPT ![h] = d]
  /\ dispatch' = [dispatch EXCEPT ![d].at = "locked"]
  /\ UNCHANGED <<m_sip_msg_handler_map, m_sipstack_msg_ptr, caller, historyVars>>

\* ... assigns the auto_ptr, which deletes the message it held ...
HandlerStore(d) ==
  LET h == dispatch[d].handler
      m == dispatch[d].msg
      old == m_sipstack_msg_ptr[h]
  IN
  /\ dispatch[d].at = "locked"
  /\ m_sipstack_msg_ptr' = [m_sipstack_msg_ptr EXCEPT ![h] = m]
  /\ fate' = [n \in Msg |-> IF n = m THEN "stored"
                            ELSE IF n = old THEN "overwritten" ELSE fate[n]]
  /\ stored' = IF caller[h].at \in {"taking", "destroy"} THEN stored
               ELSE stored \cup {m[1]}
  /\ dispatch' = [dispatch EXCEPT ![d].at = "stored"]
  /\ UNCHANGED <<m_sip_msg_handler_map, m_sync_thread_mutex, caller, posted, result>>

\* Mutant: the handler's mutex is kept.
HandlerSignalKeepMutant(d) ==
  LET h == dispatch[d].handler IN
  /\ dispatch[d].at = "stored"
  /\ caller' = IF caller[h].at = "waiting" THEN [caller EXCEPT ![h].at = "woken"]
               ELSE caller
  /\ dispatch' = [dispatch EXCEPT ![d] = Idle]
  /\ UNCHANGED <<handlerVars, historyVars>>

\* ... signals, releases the mutex and then the read lock.
HandlerSignal(d) ==
  LET h == dispatch[d].handler IN
  /\ dispatch[d].at = "stored"
  /\ caller' = IF caller[h].at = "waiting" THEN [caller EXCEPT ![h].at = "woken"]
               ELSE caller
  /\ m_sync_thread_mutex' = [m_sync_thread_mutex EXCEPT ![h] = NoOne]
  /\ dispatch' = [dispatch EXCEPT ![d] = Idle]
  /\ UNCHANGED <<m_sip_msg_handler_map, m_sipstack_msg_ptr, historyVars>>

-----------------------------------------------------------------------------
InCall(t) == \/ Acquire(t) \/ RequestToPu(t) \/ WaitMsg(t) \/ Timeout(t)
             \/ Return(t) \/ Release(t) \/ GetMsg(t) \/ ClearPtr(t)
             \/ DeleteAgentMsgHandler(t)
InHandler(d) == HandlerAcquire(d) \/ HandlerStore(d) \/ HandlerSignal(d)

Next ==
  \/ \E t \in Caller : SaveAgentMsgHandler(t) \/ InCall(t)
  \/ \E m \in Msg : Arrive(m)
  \/ \E d \in Dispatcher : HandleRcvMsg(d) \/ InHandler(d)

\* A thread inside a call goes on, the time-out comes, and so does a thread of
\* the agent server.  Calls are made, and messages arrive, as they please.
Fairness ==
  /\ \A t \in Caller : WF_vars(InCall(t))
  /\ \A d \in Dispatcher : WF_vars(HandleRcvMsg(d) \/ InHandler(d))

Spec == Init /\ [][Next]_vars

FairSpec == Spec /\ Fairness

-----------------------------------------------------------------------------
(* Properties.                                                             *)

\* A call returns a message of its own Call-ID or none, although the handler
\* of a thread's next call takes the place of the last one on the stack and
\* answers may come at any time after the timeout; and none only if none was
\* stored before it looked, whichever of the signal and the timeout woke it.
OwnAnswer ==
  \A c \in CallId :
    /\ result[c].how = "message" => result[c].msg[1] = c
    /\ result[c].how = "none" => c \notin stored

\* Nothing is used after its owner is gone: a dispatcher that has found a
\* handler keeps it alive, its thread has not destroyed it, nor reused its
\* place for another call; and what a call returns nobody else deletes, as
\* long as one message arrives under its Call-ID (GetMsg runs outside the
\* mutex, and it is only the absence of a second message that makes it safe).
UsedIsLive ==
  /\ \A d \in Dispatcher : dispatch[d].at # "idle" =>
       LET h == dispatch[d].handler IN
       caller[h].at # "out" /\ caller[h].id = dispatch[d].msg[1]
  /\ \A c \in CallId :
       /\ Cardinality({k \in 1..MaxMsgs : fate[<<c, k>>] # "absent"}) <= 1
       /\ result[c].how = "message"
       => fate[result[c].msg] = "stored"

\* No wake-up is lost: a thread never sleeps on a handler that has been given
\* its message, except until the dispatcher inside the mutex signals.
NoLostWakeup ==
  \A t \in Caller : caller[t].at = "waiting" /\ m_sipstack_msg_ptr[t] # NoMsg =>
    \E d \in Dispatcher : dispatch[d].at = "stored" /\ dispatch[d].handler = t

\* What an application sees of the handlers, the map and the two locks: a call
\* ends at the instant GetMsg reads the handler's pointer.  A message is in its
\* call's hands from HandlerStore to that instant; what comes later, or finds
\* no handler, is dropped, and nothing that comes before is.
Taking(c) ==
  /\ m_sip_msg_handler_map[c] # NoOne
  /\ caller[m_sip_msg_handler_map[c]].at = "taking"

Phase(c) ==
  CASE result[c].how = "refused" -> "refused"
    [] result[c].how \in {"none", "message"} \/ Taking(c) -> "ended"
    [] result[c].how = "open" /\ ~Taking(c) /\ c \in posted -> "asked"
    [] OTHER -> IF m_sip_msg_handler_map[c] = NoOne THEN "new" ELSE "begun"

Kept(c) ==
  LET h == m_sip_msg_handler_map[c]
  IN IF h # NoOne /\ caller[h].at \notin {"taking", "destroy"}
     THEN m_sipstack_msg_ptr[h] ELSE NoMsg

Answer(c) ==
  CASE result[c].how = "message" -> result[c].msg
    [] result[c].how # "message" /\ Taking(c) -> caller[m_sip_msg_handler_map[c]].taken
    [] OTHER -> NoMsg

Calls == INSTANCE BlockingCall
           WITH Call <- CallId, NoCall <- NoId, Message <- Msg, NoMessage <- NoMsg,
                CallOf <- [m \in Msg |-> m[1]],
                making <- [t \in Caller |-> caller[t].id],
                phase <- [c \in CallId |-> Phase(c)],
                box <- [c \in CallId |-> Kept(c)],
                answer <- [c \in CallId |-> Answer(c)],
                seen <- {m \in Msg : fate[m] \notin {"absent", "arrived"}}

\* A synchronous call is atomic, in whatever order the answer, the timeout, a
\* second message and the thread's next call come.
BlockingCalls == Calls!Spec

\* Every call ends, and every message that arrives is stored or dropped: no
\* lock is kept, in whatever order callers and dispatchers take the map's and
\* the handlers' locks.  (The messages of a Call-ID are interchangeable.)
CallReturns ==
  /\ \A t \in Caller : caller[t].at # "out" ~> caller[t].at = "out"
  /\ \A c \in CallId : fate[<<c, 1>>] = "arrived" ~> fate[<<c, 1>>] # "arrived"
=============================================================================
