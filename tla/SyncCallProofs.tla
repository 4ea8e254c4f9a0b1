--------------------------- MODULE SyncCallProofs ---------------------------
(***************************************************************************)
(* Proofs about SyncCall, for every set of calling threads, of threads of  *)
(* the agent server and of Call-IDs, and every number of messages.         *)
(***************************************************************************)
EXTENDS SyncCall, FiniteSetTheorems, TLAPS

\* At most one message has arrived under a Call-ID: a quantified form of the
\* condition of UsedIsLive.
OneMsg(c) ==
  \A k, l \in 1..MaxMsgs :
    fate[<<c, k>>] # "absent" /\ fate[<<c, l>>] # "absent" => k = l

\* A message that has been in a handler.
Settled == {"stored", "overwritten", "discarded"}

TypeInv ==
  /\ m_sip_msg_handler_map \in [CallId -> Caller \cup {NoOne}]
  /\ m_sync_thread_mutex \in [Caller -> Caller \cup Dispatcher \cup {NoOne}]
  /\ m_sipstack_msg_ptr \in [Caller -> Msg \cup {NoMsg}]
  /\ caller \in [Caller -> [at : CallerPlace, id : CallId \cup {NoId},
                            taken : Msg \cup {NoMsg}]]
  /\ dispatch \in [Dispatcher -> [at : DispatchPlace, msg : Msg \cup {NoMsg},
                                  handler : Caller \cup {NoOne}]]
  /\ posted \subseteq CallId
  /\ fate \in [Msg -> Fate]
  /\ stored \subseteq CallId
  /\ result \in [CallId -> [how : {"open", "refused", "none", "message"},
                           msg : Msg \cup {NoMsg}]]

\* The Call-IDs of the threads that are in a call, and the map to them.
PlaceInv ==
  /\ \A t \in Caller :
       IF caller[t].at = "out"
       THEN caller[t].id = NoId /\ m_sipstack_msg_ptr[t] = NoMsg
       ELSE /\ caller[t].id \in CallId
            /\ m_sip_msg_handler_map[caller[t].id] = t
            /\ result[caller[t].id].how = "open" <=> caller[t].at # "destroy"
  /\ \A c \in CallId :
       m_sip_msg_handler_map[c] # NoOne => caller[m_sip_msg_handler_map[c]].id = c

\* A Call-ID has a history only once it is used, and messages only once its
\* request has been handed over.
UsedInv ==
  /\ posted \cup stored \subseteq Used
  /\ \A m \in Msg : fate[m] # "absent" => m[1] \in posted

\* A dispatcher past its lookup has the message for itself, and its handler is
\* that of the call the message is for.
DispatchInv ==
  \A d \in Dispatcher :
    IF dispatch[d].at = "idle"
    THEN dispatch[d].msg = NoMsg
    ELSE /\ dispatch[d].handler \in Caller
         /\ dispatch[d].msg \in Msg
         /\ caller[dispatch[d].handler].at # "out"
         /\ caller[dispatch[d].handler].id = dispatch[d].msg[1]
         /\ dispatch[d].at # "stored" => fate[dispatch[d].msg] = "arrived"
         /\ \A e \in Dispatcher : dispatch[e].msg = dispatch[d].msg => e = d

\* Who has a handler's mutex.
MutexInv ==
  /\ \A t \in Caller :
       caller[t].at \in {"locked", "sent", "relocked"} => m_sync_thread_mutex[t] = t
  /\ \A d \in Dispatcher :
       dispatch[d].at \in {"locked", "stored"}
       => m_sync_thread_mutex[dispatch[d].handler] = d

\* What a handler holds: nothing until its mutex has been left with the request
\* handed over, then only messages of its call.
HandlerInv ==
  \A t \in Caller :
    /\ caller[t].at \in {"saved", "locked"} => caller[t].id \notin posted
    /\ caller[t].at \in {"saved", "locked", "sent"} => m_sipstack_msg_ptr[t] = NoMsg
    /\ m_sipstack_msg_ptr[t] # NoMsg =>
         /\ m_sipstack_msg_ptr[t][1] = caller[t].id
         /\ fate[m_sipstack_msg_ptr[t]] = "stored"

\* What the thread has taken out of its handler, and what it must find there.
TakenInv ==
  \A t \in Caller :
    /\ caller[t].at \notin {"out", "taking", "destroy"} /\ caller[t].id \in stored
       => m_sipstack_msg_ptr[t] # NoMsg
    /\ caller[t].at = "taking" =>
         IF caller[t].taken = NoMsg
         THEN caller[t].id \notin stored
         ELSE /\ caller[t].taken[1] = caller[t].id
              /\ fate[caller[t].taken] \in Settled
              /\ OneMsg(caller[t].id) => fate[caller[t].taken] = "stored"

\* What a call has returned.
ResultInv ==
  /\ \A c \in CallId :
       /\ result[c].how = "none" => c \notin stored
       /\ result[c].how = "message" =>
            /\ result[c].msg \in Msg
            /\ result[c].msg[1] = c
            /\ fate[result[c].msg] \in Settled
            /\ OneMsg(c) => fate[result[c].msg] = "stored"
  /\ \A t \in Caller :
       /\ caller[t].at = "destroy"
       /\ result[caller[t].id].how = "message"
       /\ m_sipstack_msg_ptr[t] # NoMsg
       => m_sipstack_msg_ptr[t] # result[caller[t].id].msg

\* The inductive invariant.
IInv == /\ TypeInv /\ PlaceInv /\ UsedInv /\ DispatchInv /\ MutexInv
        /\ HandlerInv /\ TakenInv /\ ResultInv

-----------------------------------------------------------------------------
(* What the actions do to the calling threads' records.                    *)

\* A thread that goes to another place keeps its Call-ID and what it has taken.
LEMMA GotoEffect ==
  ASSUME TypeInv, NEW t \in Caller, NEW place \in CallerPlace, Goto(t, place)
  PROVE  /\ caller' \in [Caller -> [at : CallerPlace, id : CallId \cup {NoId},
                                    taken : Msg \cup {NoMsg}]]
         /\ \A u \in Caller : /\ caller'[u].id = caller[u].id
                              /\ caller'[u].taken = caller[u].taken
                              /\ u # t => caller'[u].at = caller[u].at
         /\ caller'[t].at = place
BY DEF TypeInv, Goto

\* The Call-IDs in use are those the results and the threads' records name.
LEMMA UsedStays ==
  ASSUME TypeInv, result' = result,
         \A t \in Caller : caller'[t].id = caller[t].id
  PROVE  Used' = Used
BY DEF Used

\* Only new messages can make OneMsg false, and nothing makes it true again.
LEMMA OneMsgStays ==
  ASSUME \A m \in Msg : fate[m] # "absent" => fate'[m] # "absent",
         NEW c \in CallId, OneMsg(c)'
  PROVE  OneMsg(c)
BY DEF OneMsg, Msg

\* The places of a thread that runs through its call.
LEMMA Moved ==
  ASSUME IInv, NEW t \in Caller, NEW place \in CallerPlace \ {"out", "destroy"},
         Goto(t, place), caller[t].at \notin {"out", "destroy", "taking"},
         place # "taking",
         place \in {"saved", "locked"} => caller[t].at \in {"saved", "locked"},
         place = "sent" => caller[t].at \in {"saved", "locked", "sent"},
         UNCHANGED <<m_sip_msg_handler_map, m_sipstack_msg_ptr, dispatch, historyVars>>
  PROVE  PlaceInv' /\ UsedInv' /\ DispatchInv' /\ HandlerInv' /\ TakenInv' /\ ResultInv'
<1>1. /\ m_sip_msg_handler_map' = m_sip_msg_handler_map
      /\ m_sipstack_msg_ptr' = m_sipstack_msg_ptr /\ dispatch' = dispatch
      /\ posted' = posted /\ fate' = fate /\ stored' = stored /\ result' = result
  BY DEF historyVars
<1>2. /\ \A u \in Caller : /\ caller'[u].id = caller[u].id
                           /\ caller'[u].taken = caller[u].taken
                           /\ u # t => caller'[u].at = caller[u].at
      /\ caller'[t].at = place
  BY GotoEffect DEF IInv
<1>3. TypeInv /\ Used' = Used /\ \A c : OneMsg(c)' = OneMsg(c)
  BY <1>1, <1>2, UsedStays DEF IInv, OneMsg
<1>4. PlaceInv'
  BY <1>1, <1>2, <1>3 DEF IInv, TypeInv, PlaceInv
<1>5. UsedInv'
  BY <1>1, <1>3 DEF IInv, UsedInv
<1>6. DispatchInv'
  BY <1>1, <1>2 DEF IInv, DispatchInv
<1>7. HandlerInv'
  BY <1>1, <1>2 DEF IInv, HandlerInv
<1>8. TakenInv'
  BY <1>1, <1>2, <1>3 DEF IInv, TakenInv
<1>9. ResultInv'
  BY <1>1, <1>2, <1>3 DEF IInv, ResultInv
<1> QED
  BY <1>4, <1>5, <1>6, <1>7, <1>8, <1>9

-----------------------------------------------------------------------------
(* The calling thread.                                                     *)

\* The handler's mutex is taken.
LEMMA AcquireStep == ASSUME IInv, NEW t \in Caller, Acquire(t) PROVE IInv'
<1>1. PlaceInv' /\ UsedInv' /\ DispatchInv' /\ HandlerInv' /\ TakenInv' /\ ResultInv'
  BY Moved DEF Acquire, handlerVars, Goto, CallerPlace
<1>2. TypeInv'
  BY GotoEffect DEF IInv, TypeInv, Acquire, handlerVars, historyVars, CallerPlace
<1>3. MutexInv'
  BY GotoEffect, SyncCallAssumption
  DEF IInv, TypeInv, MutexInv, DispatchInv, Acquire, handlerVars, CallerPlace
<1> QED
  BY <1>1, <1>2, <1>3 DEF IInv

\* The wait leaves the mutex; the handler is still empty.
LEMMA WaitMsgStep == ASSUME IInv, NEW t \in Caller, WaitMsg(t) PROVE IInv'
<1>1. PlaceInv' /\ UsedInv' /\ DispatchInv' /\ HandlerInv' /\ TakenInv' /\ ResultInv'
  BY Moved DEF WaitMsg, handlerVars, Goto, CallerPlace
<1>2. TypeInv'
  BY GotoEffect DEF IInv, TypeInv, WaitMsg, handlerVars, historyVars, CallerPlace
<1>3. MutexInv'
  BY GotoEffect, SyncCallAssumption
  DEF IInv, TypeInv, MutexInv, DispatchInv, WaitMsg, handlerVars, CallerPlace
<1> QED
  BY <1>1, <1>2, <1>3 DEF IInv

\* The time-out only wakes the thread.
LEMMA TimeoutStep == ASSUME IInv, NEW t \in Caller, Timeout(t) PROVE IInv'
<1>1. PlaceInv' /\ UsedInv' /\ DispatchInv' /\ HandlerInv' /\ TakenInv' /\ ResultInv'
  BY Moved DEF Timeout, handlerVars, Goto, CallerPlace
<1>2. TypeInv'
  BY GotoEffect DEF IInv, TypeInv, Timeout, handlerVars, historyVars, CallerPlace
<1>3. MutexInv'
  BY GotoEffect, SyncCallAssumption
  DEF IInv, TypeInv, MutexInv, DispatchInv, Timeout, handlerVars, CallerPlace
<1> QED
  BY <1>1, <1>2, <1>3 DEF IInv

\* The wait takes the mutex again.
LEMMA ReturnStep == ASSUME IInv, NEW t \in Caller, Return(t) PROVE IInv'
<1>1. PlaceInv' /\ UsedInv' /\ DispatchInv' /\ HandlerInv' /\ TakenInv' /\ ResultInv'
  BY Moved DEF Return, handlerVars, Goto, CallerPlace
<1>2. TypeInv'
  BY GotoEffect DEF IInv, TypeInv, Return, handlerVars, historyVars, CallerPlace
<1>3. MutexInv'
  BY GotoEffect, SyncCallAssumption
  DEF IInv, TypeInv, MutexInv, DispatchInv, Return, handlerVars, CallerPlace
<1> QED
  BY <1>1, <1>2, <1>3 DEF IInv

\* The mutex is left, with whatever the handler holds.
LEMMA ReleaseStep == ASSUME IInv, NEW t \in Caller, Release(t) PROVE IInv'
<1>1. PlaceInv' /\ UsedInv' /\ DispatchInv' /\ HandlerInv' /\ TakenInv' /\ ResultInv'
  BY Moved DEF Release, handlerVars, Goto, CallerPlace
<1>2. TypeInv'
  BY GotoEffect DEF IInv, TypeInv, Release, handlerVars, historyVars, CallerPlace
<1>3. MutexInv'
  BY GotoEffect, SyncCallAssumption
  DEF IInv, TypeInv, MutexInv, DispatchInv, Release, handlerVars, CallerPlace
<1> QED
  BY <1>1, <1>2, <1>3 DEF IInv

\* RequestToPu: the messages can come in from now on, or the call has failed.
LEMMA RequestToPuStep == ASSUME IInv, NEW t \in Caller, RequestToPu(t) PROVE IInv'
<1>1. /\ m_sip_msg_handler_map' = m_sip_msg_handler_map
      /\ m_sipstack_msg_ptr' = m_sipstack_msg_ptr /\ dispatch' = dispatch
      /\ fate' = fate /\ stored' = stored /\ caller[t].at = "locked"
      /\ \A c : OneMsg(c)' = OneMsg(c)
  BY DEF RequestToPu, OneMsg
<1>2. PICK place \in {"sent", "destroy"} :
        /\ Goto(t, place)
        /\ place = "sent" => /\ posted' = posted \cup {caller[t].id}
                             /\ m_sync_thread_mutex' = m_sync_thread_mutex
                             /\ result' = result
        /\ place = "destroy" =>
             /\ posted' = posted
             /\ m_sync_thread_mutex' = [m_sync_thread_mutex EXCEPT ![t] = NoOne]
             /\ result' = [result EXCEPT ![caller[t].id].how = "refused"]
  BY DEF RequestToPu
<1>3. /\ caller' \in [Caller -> [at : CallerPlace, id : CallId \cup {NoId},
                                 taken : Msg \cup {NoMsg}]]
      /\ \A u \in Caller : /\ caller'[u].id = caller[u].id
                           /\ caller'[u].taken = caller[u].taken
                           /\ u # t => caller'[u].at = caller[u].at
      /\ caller'[t].at = place
  BY <1>2, GotoEffect DEF IInv, CallerPlace
<1>4. /\ caller[t].id \in CallId /\ m_sip_msg_handler_map[caller[t].id] = t
      /\ result[caller[t].id].how = "open"
  BY <1>1 DEF IInv, PlaceInv
<1>5. \A u \in Caller \ {t} : caller[u].at # "out" => caller[u].id # caller[t].id
  BY <1>4 DEF IInv, PlaceInv
<1>6. /\ result' \in [CallId -> [how : {"open", "refused", "none", "message"},
                                 msg : Msg \cup {NoMsg}]]
      /\ \A c \in CallId : c # caller[t].id => result'[c] = result[c]
      /\ result'[caller[t].id].how = IF place = "sent" THEN "open" ELSE "refused"
  <2>1. CASE place = "sent"
    BY <1>2, <1>4, <2>1 DEF IInv, TypeInv
  <2>2. CASE place = "destroy"
    <3> DEFINE c == caller[t].id
    <3>1. c \in CallId /\ result' = [result EXCEPT ![c].how = "refused"]
      BY <1>2, <1>4, <2>2
    <3>2. result \in [CallId -> [how : {"open", "refused", "none", "message"},
                                msg : Msg \cup {NoMsg}]]
      BY DEF IInv, TypeInv
    <3> HIDE DEF c
    <3>3. /\ result' \in [CallId -> [how : {"open", "refused", "none", "message"},
                                    msg : Msg \cup {NoMsg}]]
          /\ \A e \in CallId : e # c => result'[e] = result[e]
          /\ result'[c].how = "refused"
      BY <3>1, <3>2
    <3> QED
      BY <2>2, <3>3 DEF c
  <2> QED
    BY <2>1, <2>2
<1>7. TypeInv'
  BY <1>1, <1>2, <1>3, <1>4, <1>6 DEF IInv, TypeInv
<1>8. PlaceInv'
  <2>1. ASSUME NEW u \in Caller \ {t}, caller[u].at # "out"
        PROVE  result'[caller[u].id] = result[caller[u].id]
    BY <1>5, <1>6, <2>1 DEF IInv, PlaceInv
  <2>2. caller'[t].at \notin {"out"} /\ (result'[caller[t].id].how = "open" <=> place # "destroy")
    BY <1>2, <1>3, <1>6
  <2>3. \A c \in CallId :
          m_sip_msg_handler_map'[c] # NoOne => caller'[m_sip_msg_handler_map'[c]].id = c
    BY <1>1, <1>3 DEF IInv, PlaceInv, TypeInv
  <2>4. caller'[t].id \in CallId /\ m_sip_msg_handler_map'[caller'[t].id] = t
    BY <1>1, <1>3, <1>4
  <2>5. ASSUME NEW u \in Caller \ {t}
        PROVE  IF caller'[u].at = "out"
               THEN caller'[u].id = NoId /\ m_sipstack_msg_ptr'[u] = NoMsg
               ELSE /\ caller'[u].id \in CallId
                    /\ m_sip_msg_handler_map'[caller'[u].id] = u
                    /\ result'[caller'[u].id].how = "open" <=> caller'[u].at # "destroy"
    BY <1>1, <1>3, <2>1, <2>5 DEF IInv, PlaceInv
  <2> QED
    BY <1>3, <2>2, <2>3, <2>4, <2>5 DEF PlaceInv
<1>9. UsedInv'
  <2>1. Used \subseteq Used'
    BY <1>3, <1>4, <1>6 DEF Used
  <2>2. caller[t].id \in Used'
    BY <1>3 DEF Used
  <2> QED
    BY <1>1, <1>2, <2>1, <2>2 DEF IInv, UsedInv
<1>10. DispatchInv'
  BY <1>1, <1>2, <1>3 DEF IInv, DispatchInv
<1>11. MutexInv'
  <2>1. CASE place = "sent"
    BY <1>1, <1>2, <1>3, <2>1 DEF IInv, MutexInv
  <2>2. CASE place = "destroy"
    BY <1>1, <1>2, <1>3, <2>2, SyncCallAssumption
    DEF IInv, TypeInv, MutexInv, DispatchInv
  <2> QED
    BY <2>1, <2>2
<1>12. HandlerInv'
  BY <1>1, <1>2, <1>3, <1>5 DEF IInv, HandlerInv
<1>13. TakenInv'
  BY <1>1, <1>2, <1>3 DEF IInv, TakenInv
<1>14. ResultInv'
  <2>1. \A c \in CallId : result'[c].how \in {"none", "message"} => result'[c] = result[c]
    BY <1>6
  <2>2. \A u \in Caller : caller'[u].at = "destroy" =>
          u = t \/ (caller[u].at = "destroy" /\ caller[u].id \in CallId)
    BY <1>3 DEF IInv, PlaceInv
  <2>3. caller'[t].at = "destroy" => result'[caller'[t].id].how = "refused"
    BY <1>3, <1>6
  <2> QED
    BY <1>1, <1>3, <2>1, <2>2, <2>3 DEF IInv, ResultInv
<1> QED
  BY <1>7, <1>8, <1>9, <1>10, <1>11, <1>12, <1>13, <1>14 DEF IInv

\* GetMsg reads the pointer: a message of this call, or nothing at all has been
\* stored.
LEMMA GetMsgStep == ASSUME IInv, NEW t \in Caller, GetMsg(t) PROVE IInv'
<1>1. /\ m_sip_msg_handler_map' = m_sip_msg_handler_map
      /\ m_sync_thread_mutex' = m_sync_thread_mutex
      /\ m_sipstack_msg_ptr' = m_sipstack_msg_ptr /\ dispatch' = dispatch
      /\ posted' = posted /\ fate' = fate /\ stored' = stored /\ result' = result
      /\ caller[t].at = "released"
      /\ \A c : OneMsg(c)' = OneMsg(c)
  BY DEF GetMsg, handlerVars, historyVars, OneMsg
<1>2. /\ caller' \in [Caller -> [at : CallerPlace, id : CallId \cup {NoId},
                                 taken : Msg \cup {NoMsg}]]
      /\ \A u \in Caller : /\ caller'[u].id = caller[u].id
                           /\ u # t => caller'[u] = caller[u]
      /\ caller'[t].at = "taking"
      /\ caller'[t].taken = m_sipstack_msg_ptr[t]
  <2>1. caller' = [caller EXCEPT ![t].at = "taking", ![t].taken = m_sipstack_msg_ptr[t]]
    BY DEF GetMsg
  <2>2. /\ caller \in [Caller -> [at : CallerPlace, id : CallId \cup {NoId},
                                  taken : Msg \cup {NoMsg}]]
        /\ m_sipstack_msg_ptr[t] \in Msg \cup {NoMsg}
    BY DEF IInv, TypeInv
  <2>3. "taking" \in CallerPlace
    BY DEF CallerPlace
  <2> QED
    BY <2>1, <2>2, <2>3
<1>3. TypeInv' /\ Used' = Used
  BY <1>1, <1>2, UsedStays DEF IInv, TypeInv
<1>4. PlaceInv'
  BY <1>1, <1>2 DEF IInv, TypeInv, PlaceInv
<1>5. UsedInv' /\ DispatchInv'
  BY <1>1, <1>2, <1>3 DEF IInv, UsedInv, DispatchInv
<1>6. MutexInv' /\ HandlerInv'
  BY <1>1, <1>2 DEF IInv, MutexInv, HandlerInv
<1>7. TakenInv'
  <2>1. CASE m_sipstack_msg_ptr[t] = NoMsg
    BY <1>1, <1>2, <2>1 DEF IInv, TakenInv
  <2>2. CASE m_sipstack_msg_ptr[t] # NoMsg
    BY <1>1, <1>2, <2>2 DEF IInv, TakenInv, HandlerInv, Settled
  <2> QED
    BY <2>1, <2>2
<1>8. ResultInv'
  BY <1>1, <1>2 DEF IInv, ResultInv
<1> QED
  BY <1>3, <1>4, <1>5, <1>6, <1>7, <1>8 DEF IInv

\* ClearPtr: the call's result is what the thread has taken.
LEMMA ClearPtrStep == ASSUME IInv, NEW t \in Caller, ClearPtr(t) PROVE IInv'
<1> DEFINE c == caller[t].id
<1>1. /\ m_sip_msg_handler_map' = m_sip_msg_handler_map
      /\ m_sync_thread_mutex' = m_sync_thread_mutex /\ dispatch' = dispatch
      /\ posted' = posted /\ fate' = fate /\ stored' = stored
      /\ caller[t].at = "taking"
      /\ \A e : OneMsg(e)' = OneMsg(e)
  BY DEF ClearPtr, OneMsg
<1>2. /\ caller' \in [Caller -> [at : CallerPlace, id : CallId \cup {NoId},
                                 taken : Msg \cup {NoMsg}]]
      /\ \A u \in Caller : /\ caller'[u].id = caller[u].id
                           /\ caller'[u].taken = caller[u].taken
                           /\ u # t => caller'[u].at = caller[u].at
      /\ caller'[t].at = "destroy"
  BY GotoEffect DEF IInv, ClearPtr, CallerPlace
<1>3. /\ c \in CallId /\ m_sip_msg_handler_map[c] = t /\ result[c].how = "open"
      /\ \A u \in Caller \ {t} : caller[u].at # "out" => caller[u].id # c
      /\ caller[t].taken \in Msg \cup {NoMsg}
  BY <1>1 DEF IInv, PlaceInv, TypeInv
<1>4. /\ m_sipstack_msg_ptr' \in [Caller -> Msg \cup {NoMsg}]
      /\ m_sipstack_msg_ptr'[t] = NoMsg
      /\ \A u \in Caller \ {t} : m_sipstack_msg_ptr'[u] = m_sipstack_msg_ptr[u]
  BY DEF IInv, TypeInv, ClearPtr
<1>5. /\ result' \in [CallId -> [how : {"open", "refused", "none", "message"},
                                 msg : Msg \cup {NoMsg}]]
      /\ \A e \in CallId \ {c} : result'[e] = result[e]
      /\ result'[c].how = IF caller[t].taken = NoMsg THEN "none" ELSE "message"
      /\ result'[c].msg = caller[t].taken
  <2>1. result \in [CallId -> [how : {"open", "refused", "none", "message"},
                              msg : Msg \cup {NoMsg}]]
    BY DEF IInv, TypeInv
  <2> DEFINE r == [how |-> IF caller[t].taken = NoMsg THEN "none" ELSE "message",
                   msg |-> caller[t].taken]
  <2>2. /\ r \in [how : {"open", "refused", "none", "message"}, msg : Msg \cup {NoMsg}]
        /\ r.how = IF caller[t].taken = NoMsg THEN "none" ELSE "message"
        /\ r.msg = caller[t].taken
    BY <1>3
  <2>3. result' = [result EXCEPT ![c] = r]
    BY DEF ClearPtr
  <2> HIDE DEF c, r
  <2> QED
    BY <1>3, <2>1, <2>2, <2>3
<1> HIDE DEF c
<1>6. \A u \in Caller : u = t <=> caller'[u].at # "out" /\ caller'[u].id = c
  BY <1>1, <1>2, <1>3 DEF c
<1>7. TypeInv'
  BY <1>1, <1>2, <1>4, <1>5 DEF IInv, TypeInv
<1>8. PlaceInv'
  <2>1. ASSUME NEW u \in Caller \ {t}
        PROVE  IF caller'[u].at = "out"
               THEN caller'[u].id = NoId /\ m_sipstack_msg_ptr'[u] = NoMsg
               ELSE /\ caller'[u].id \in CallId
                    /\ m_sip_msg_handler_map'[caller'[u].id] = u
                    /\ result'[caller'[u].id].how = "open" <=> caller'[u].at # "destroy"
    BY <1>1, <1>2, <1>4, <1>5, <1>6, <2>1 DEF IInv, PlaceInv
  <2>2. \A e \in CallId :
          m_sip_msg_handler_map'[e] # NoOne => caller'[m_sip_msg_handler_map'[e]].id = e
    BY <1>1, <1>2 DEF IInv, PlaceInv, TypeInv
  <2> QED
    BY <1>1, <1>2, <1>3, <1>5, <2>1, <2>2 DEF PlaceInv, c
<1>9. UsedInv'
  <2>1. Used \subseteq Used'
    BY <1>2, <1>3, <1>5 DEF Used
  <2> QED
    BY <1>1, <2>1 DEF IInv, UsedInv
<1>10. DispatchInv' /\ MutexInv'
  BY <1>1, <1>2 DEF IInv, DispatchInv, MutexInv
<1>11. HandlerInv'
  BY <1>1, <1>2, <1>4 DEF IInv, HandlerInv
<1>12. TakenInv'
  BY <1>1, <1>2, <1>4 DEF IInv, TakenInv
<1>13. ResultInv'
  <2>1. /\ result'[c].how = "none" => c \notin stored
        /\ result'[c].how = "message" =>
             /\ result'[c].msg \in Msg
             /\ result'[c].msg[1] = c
             /\ fate[result'[c].msg] \in Settled
             /\ OneMsg(c) => fate[result'[c].msg] = "stored"
    BY <1>1, <1>3, <1>5 DEF IInv, TakenInv, c
  <2>2. ASSUME NEW u \in Caller \ {t}, caller'[u].at = "destroy"
        PROVE  result'[caller'[u].id] = result[caller[u].id]
    BY <1>2, <1>5, <1>6, <2>2 DEF IInv, PlaceInv
  <2>3. \A e \in CallId :
          /\ result'[e].how = "none" => e \notin stored'
          /\ result'[e].how = "message" =>
               /\ result'[e].msg \in Msg
               /\ result'[e].msg[1] = e
               /\ fate'[result'[e].msg] \in Settled
               /\ OneMsg(e)' => fate'[result'[e].msg] = "stored"
    BY <1>1, <1>5, <2>1 DEF IInv, ResultInv
  <2>4. ASSUME NEW u \in Caller, caller'[u].at = "destroy",
               result'[caller'[u].id].how = "message", m_sipstack_msg_ptr'[u] # NoMsg
        PROVE  m_sipstack_msg_ptr'[u] # result'[caller'[u].id].msg
    BY <1>2, <1>4, <2>2, <2>4 DEF IInv, ResultInv
  <2> QED
    BY <2>3, <2>4 DEF ResultInv
<1> QED
  BY <1>7, <1>8, <1>9, <1>10, <1>11, <1>12, <1>13 DEF IInv

\* The handler's constructor: its Call-ID is nobody's and has no history.
LEMMA SaveStep == ASSUME IInv, NEW t \in Caller, SaveAgentMsgHandler(t) PROVE IInv'
<1>1. /\ m_sync_thread_mutex' = m_sync_thread_mutex /\ dispatch' = dispatch
      /\ posted' = posted /\ fate' = fate /\ stored' = stored /\ result' = result
      /\ caller[t].at = "out"
      /\ \A d \in Dispatcher : dispatch[d].at = "idle"
      /\ \A e : OneMsg(e)' = OneMsg(e)
  BY DEF SaveAgentMsgHandler, historyVars, OneMsg, NoReader
<1>2. PICK c \in CallId \ Used :
        /\ m_sip_msg_handler_map' = [m_sip_msg_handler_map EXCEPT ![c] = t]
        /\ caller' = [caller EXCEPT ![t] = [at |-> "saved", id |-> c, taken |-> NoMsg]]
  BY DEF SaveAgentMsgHandler
<1>3. /\ caller' \in [Caller -> [at : CallerPlace, id : CallId \cup {NoId},
                                 taken : Msg \cup {NoMsg}]]
      /\ \A u \in Caller \ {t} : caller'[u] = caller[u]
      /\ caller'[t].at = "saved" /\ caller'[t].id = c
  BY <1>2 DEF IInv, TypeInv, CallerPlace
<1>4. /\ m_sip_msg_handler_map' \in [CallId -> Caller \cup {NoOne}]
      /\ m_sip_msg_handler_map'[c] = t
      /\ \A e \in CallId \ {c} : m_sip_msg_handler_map'[e] = m_sip_msg_handler_map[e]
  BY <1>2 DEF IInv, TypeInv
<1>5. /\ m_sipstack_msg_ptr' \in [Caller -> Msg \cup {NoMsg}]
      /\ m_sipstack_msg_ptr'[t] = NoMsg
      /\ \A u \in Caller \ {t} : m_sipstack_msg_ptr'[u] = m_sipstack_msg_ptr[u]
  BY DEF IInv, TypeInv, SaveAgentMsgHandler
<1>6. /\ result[c].how = "open" /\ \A u \in Caller : caller[u].id # c
      /\ c \notin posted /\ c \notin stored
  BY <1>2 DEF IInv, UsedInv, Used
<1>7. TypeInv'
  BY <1>1, <1>3, <1>4, <1>5 DEF IInv, TypeInv
<1>8. PlaceInv'
  <2>1. ASSUME NEW e \in CallId, m_sip_msg_handler_map'[e] # NoOne
        PROVE  caller'[m_sip_msg_handler_map'[e]].id = e
    <3>1. CASE e = c
      BY <1>3, <1>4, <3>1
    <3>2. CASE e # c
      <4>1. /\ m_sip_msg_handler_map'[e] = m_sip_msg_handler_map[e]
            /\ m_sip_msg_handler_map[e] \in Caller
            /\ caller[m_sip_msg_handler_map[e]].id = e
        BY <1>4, <2>1, <3>2 DEF IInv, PlaceInv, TypeInv
      <4>2. caller[t].id = NoId /\ e # NoId
        BY <1>1, SyncCallAssumption DEF IInv, PlaceInv
      <4> QED
        BY <1>3, <4>1, <4>2
    <3> QED
      BY <3>1, <3>2
  <2>2. ASSUME NEW u \in Caller
        PROVE  IF caller'[u].at = "out"
               THEN caller'[u].id = NoId /\ m_sipstack_msg_ptr'[u] = NoMsg
               ELSE /\ caller'[u].id \in CallId
                    /\ m_sip_msg_handler_map'[caller'[u].id] = u
                    /\ result'[caller'[u].id].how = "open" <=> caller'[u].at # "destroy"
    <3>1. CASE u = t
      BY <1>1, <1>3, <1>4, <1>6, <3>1
    <3>2. CASE u # t
      BY <1>1, <1>3, <1>4, <1>5, <1>6, <3>2 DEF IInv, PlaceInv
    <3> QED
      BY <3>1, <3>2
  <2> QED
    BY <2>1, <2>2 DEF PlaceInv
<1>9. UsedInv'
  <2>1. Used \ {NoId} \subseteq Used'
    BY <1>1, <1>3 DEF Used, IInv, PlaceInv
  <2> QED
    BY <1>1, <2>1, SyncCallAssumption DEF IInv, UsedInv, TypeInv
<1>10. DispatchInv' /\ MutexInv'
  BY <1>1, <1>3 DEF IInv, DispatchInv, MutexInv
<1>11. HandlerInv'
  BY <1>1, <1>3, <1>5, <1>6 DEF IInv, HandlerInv
<1>12. TakenInv'
  BY <1>1, <1>3, <1>5, <1>6 DEF IInv, TakenInv
<1>13. ResultInv'
  BY <1>1, <1>3, <1>5 DEF IInv, ResultInv
<1> QED
  BY <1>7, <1>8, <1>9, <1>10, <1>11, <1>12, <1>13 DEF IInv

\* The destructor: what it deletes with the handler no call has returned.
LEMMA DeleteStep == ASSUME IInv, NEW t \in Caller, DeleteAgentMsgHandler(t) PROVE IInv'
<1> DEFINE c == caller[t].id
           old == m_sipstack_msg_ptr[t]
<1>1. /\ m_sync_thread_mutex' = m_sync_thread_mutex /\ dispatch' = dispatch
      /\ posted' = posted /\ stored' = stored /\ result' = result
      /\ caller[t].at = "destroy"
      /\ \A d \in Dispatcher : dispatch[d].at = "idle"
  BY DEF DeleteAgentMsgHandler, NoReader
<1>2. /\ c \in CallId /\ m_sip_msg_handler_map[c] = t /\ result[c].how # "open"
      /\ \A u \in Caller \ {t} : caller[u].at # "out" => caller[u].id # c
      /\ old # NoMsg => old \in Msg /\ old[1] = c /\ fate[old] = "stored"
  BY <1>1 DEF IInv, PlaceInv, HandlerInv, TypeInv
<1>3. /\ caller' \in [Caller -> [at : CallerPlace, id : CallId \cup {NoId},
                                 taken : Msg \cup {NoMsg}]]
      /\ \A u \in Caller \ {t} : caller'[u] = caller[u]
      /\ caller'[t].at = "out" /\ caller'[t].id = NoId
  BY DEF IInv, TypeInv, DeleteAgentMsgHandler, CallerPlace, OutOfCall
<1>4. /\ m_sip_msg_handler_map' \in [CallId -> Caller \cup {NoOne}]
      /\ m_sip_msg_handler_map'[c] = NoOne
      /\ \A e \in CallId \ {c} : m_sip_msg_handler_map'[e] = m_sip_msg_handler_map[e]
  BY <1>2 DEF IInv, TypeInv, DeleteAgentMsgHandler
<1>5. /\ m_sipstack_msg_ptr' \in [Caller -> Msg \cup {NoMsg}]
      /\ m_sipstack_msg_ptr'[t] = NoMsg
      /\ \A u \in Caller \ {t} : m_sipstack_msg_ptr'[u] = m_sipstack_msg_ptr[u]
  BY DEF IInv, TypeInv, DeleteAgentMsgHandler
<1>6. /\ fate' \in [Msg -> Fate]
      /\ \A m \in Msg : m # old => fate'[m] = fate[m]
      /\ old \in Msg => fate'[old] = "discarded"
  <2>1. CASE old = NoMsg
    BY <2>1, NoMsgAssumption DEF IInv, TypeInv, DeleteAgentMsgHandler, Destroyed
  <2>2. CASE old # NoMsg
    BY <1>2, <2>2 DEF IInv, TypeInv, DeleteAgentMsgHandler, Destroyed, Fate
  <2> QED
    BY <2>1, <2>2
<1>7. \A m \in Msg : fate[m] # "absent" <=> fate'[m] # "absent"
  BY <1>2, <1>6, NoMsgAssumption
<1> HIDE DEF c, old
<1>8. TypeInv'
  BY <1>1, <1>3, <1>4, <1>5, <1>6 DEF IInv, TypeInv
<1>9. PlaceInv'
  <2>1. ASSUME NEW e \in CallId, m_sip_msg_handler_map'[e] # NoOne
        PROVE  caller'[m_sip_msg_handler_map'[e]].id = e
    <3>1. e # c /\ m_sip_msg_handler_map'[e] = m_sip_msg_handler_map[e]
      BY <1>4, <2>1
    <3>2. m_sip_msg_handler_map[e] # t
      BY <1>2, <2>1, <3>1 DEF IInv, PlaceInv, c
    <3> QED
      BY <1>3, <2>1, <3>1, <3>2 DEF IInv, PlaceInv, TypeInv
  <2>2. ASSUME NEW u \in Caller
        PROVE  IF caller'[u].at = "out"
               THEN caller'[u].id = NoId /\ m_sipstack_msg_ptr'[u] = NoMsg
               ELSE /\ caller'[u].id \in CallId
                    /\ m_sip_msg_handler_map'[caller'[u].id] = u
                    /\ result'[caller'[u].id].how = "open" <=> caller'[u].at # "destroy"
    <3>1. CASE u = t
      BY <1>3, <1>5, <3>1
    <3>2. CASE u # t
      BY <1>1, <1>2, <1>3, <1>4, <1>5, <3>2 DEF IInv, PlaceInv
    <3> QED
      BY <3>1, <3>2
  <2> QED
    BY <2>1, <2>2 DEF PlaceInv
<1>10. UsedInv'
  <2>1. Used \subseteq Used'
    BY <1>1, <1>2, <1>3 DEF Used, c
  <2> QED
    BY <1>1, <1>7, <2>1 DEF IInv, UsedInv
<1>11. DispatchInv' /\ MutexInv'
  BY <1>1, <1>3 DEF IInv, DispatchInv, MutexInv
<1>12. ASSUME NEW u \in Caller \ {t}, m_sipstack_msg_ptr[u] # NoMsg
       PROVE  m_sipstack_msg_ptr[u] # old
  BY <1>2, <1>12 DEF IInv, HandlerInv, PlaceInv
<1>13. HandlerInv'
  BY <1>1, <1>3, <1>5, <1>6, <1>12 DEF IInv, HandlerInv, TypeInv
<1>14. TakenInv'
  <2>1. ASSUME NEW u \in Caller \ {t}, caller[u].at = "taking", caller[u].taken # NoMsg
        PROVE  /\ caller[u].taken # old /\ caller[u].taken \in Msg
               /\ caller[u].id \in CallId
    BY <1>2, <2>1 DEF IInv, TakenInv, PlaceInv, TypeInv
  <2> QED
    BY <1>1, <1>3, <1>5, <1>6, <1>7, <2>1, OneMsgStays DEF IInv, TakenInv
<1>15. ResultInv'
  <2>1. ASSUME NEW e \in CallId, result[e].how = "message"
        PROVE  result[e].msg # old
    <3>1. result[e].msg \in Msg /\ result[e].msg[1] = e
      BY <2>1 DEF IInv, ResultInv
    <3>2. CASE old = NoMsg
      BY <3>1, <3>2, NoMsgAssumption
    <3>3. CASE old # NoMsg
      BY <1>1, <1>2, <2>1, <3>1, <3>3 DEF IInv, ResultInv, c, old
    <3> QED
      BY <3>2, <3>3
  <2>2. \A e \in CallId :
          /\ result'[e].how = "none" => e \notin stored'
          /\ result'[e].how = "message" =>
               /\ result'[e].msg \in Msg
               /\ result'[e].msg[1] = e
               /\ fate'[result'[e].msg] \in Settled
               /\ OneMsg(e)' => fate'[result'[e].msg] = "stored"
    BY <1>1, <1>6, <1>7, <2>1, OneMsgStays DEF IInv, ResultInv
  <2> QED
    BY <1>1, <1>3, <1>5, <2>2 DEF IInv, ResultInv
<1> QED
  BY <1>8, <1>9, <1>10, <1>11, <1>13, <1>14, <1>15 DEF IInv

-----------------------------------------------------------------------------
(* The messages and the agent server's threads.                            *)

\* A message that arrives is new: nobody has it yet.
LEMMA ArriveStep == ASSUME IInv, NEW m \in Msg, Arrive(m) PROVE IInv'
<1>1. /\ m_sip_msg_handler_map' = m_sip_msg_handler_map
      /\ m_sync_thread_mutex' = m_sync_thread_mutex
      /\ m_sipstack_msg_ptr' = m_sipstack_msg_ptr /\ caller' = caller
      /\ dispatch' = dispatch
      /\ posted' = posted /\ stored' = stored /\ result' = result
      /\ fate[m] = "absent" /\ m[1] \in posted
  BY DEF Arrive, handlerVars
<1>2. /\ fate' \in [Msg -> Fate]
      /\ fate'[m] = "arrived"
      /\ \A n \in Msg : n # m => fate'[n] = fate[n]
      /\ \A n \in Msg : fate[n] # "absent" => n # m /\ fate'[n] = fate[n]
  BY <1>1 DEF IInv, TypeInv, Arrive, Fate
<1>3. \A c \in CallId : OneMsg(c)' => OneMsg(c)
  BY <1>2, OneMsgStays
<1>4. Used' = Used
  BY <1>1 DEF Used
<1>5. TypeInv' /\ PlaceInv' /\ MutexInv'
  BY <1>1, <1>2 DEF IInv, TypeInv, PlaceInv, MutexInv
<1>6. UsedInv'
  BY <1>1, <1>2, <1>4 DEF IInv, UsedInv
<1>7. DispatchInv' /\ HandlerInv'
  BY <1>1, <1>2 DEF IInv, DispatchInv, HandlerInv, TypeInv
<1>8. TakenInv'
  <2>1. \A t \in Caller : caller[t].at = "taking" => caller[t].id \in CallId
    BY DEF IInv, PlaceInv
  <2>2. \A t \in Caller : caller[t].taken \in Msg \cup {NoMsg}
    BY DEF IInv, TypeInv
  <2> QED
    BY <1>1, <1>2, <1>3, <2>1, <2>2 DEF IInv, TakenInv, Settled
<1>9. ResultInv'
  BY <1>1, <1>2, <1>3 DEF IInv, ResultInv, Settled
<1> QED
  BY <1>5, <1>6, <1>7, <1>8, <1>9 DEF IInv

\* HandleRcvMsg: the handler that the map leads to is that of the message's
\* call; without one the message, that nobody else has, is dropped.
LEMMA HandleRcvMsgStep == ASSUME IInv, NEW d \in Dispatcher, HandleRcvMsg(d) PROVE IInv'
<1>1. /\ m_sip_msg_handler_map' = m_sip_msg_handler_map
      /\ m_sync_thread_mutex' = m_sync_thread_mutex
      /\ m_sipstack_msg_ptr' = m_sipstack_msg_ptr /\ caller' = caller
      /\ posted' = posted /\ stored' = stored /\ result' = result
      /\ dispatch[d].at = "idle"
  BY DEF HandleRcvMsg, handlerVars
<1>2. PICK m \in Msg :
        /\ fate[m] = "arrived"
        /\ \A e \in Dispatcher : dispatch[e].msg # m
        /\ IF m_sip_msg_handler_map[m[1]] = NoOne
           THEN /\ fate' = [fate EXCEPT ![m] = "dropped"]
                /\ dispatch' = dispatch
           ELSE /\ dispatch' = [dispatch EXCEPT ![d] =
                     [at |-> "found", msg |-> m, handler |-> m_sip_msg_handler_map[m[1]]]]
                /\ fate' = fate
  BY DEF HandleRcvMsg
<1>3. m[1] \in CallId /\ Used' = Used
  BY <1>1 DEF Msg, Used
<1>4. CASE m_sip_msg_handler_map[m[1]] = NoOne
  <2>1. /\ fate' \in [Msg -> Fate] /\ dispatch' = dispatch
        /\ fate'[m] = "dropped"
        /\ \A n \in Msg : n # m => fate'[n] = fate[n]
        /\ \A n \in Msg : fate[n] \in Settled => n # m
        /\ \A n \in Msg : fate'[n] # "absent" <=> fate[n] # "absent"
    BY <1>2, <1>4 DEF IInv, TypeInv, Fate, Settled
  <2>2. \A c \in CallId : OneMsg(c)' => OneMsg(c)
    BY <2>1, OneMsgStays
  <2>3. TypeInv' /\ PlaceInv' /\ UsedInv' /\ MutexInv'
    BY <1>1, <1>3, <2>1 DEF IInv, TypeInv, PlaceInv, UsedInv, MutexInv
  <2>4. DispatchInv' /\ HandlerInv'
    BY <1>1, <1>2, <2>1 DEF IInv, DispatchInv, HandlerInv, TypeInv, Settled
  <2>5. TakenInv'
    <3>1. \A t \in Caller : caller[t].at = "taking" => caller[t].id \in CallId
      BY DEF IInv, PlaceInv
    <3>2. \A t \in Caller : caller[t].taken \in Msg \cup {NoMsg}
      BY DEF IInv, TypeInv
    <3> QED
      BY <1>1, <2>1, <2>2, <3>1, <3>2 DEF IInv, TakenInv
  <2>6. ResultInv'
    BY <1>1, <2>1, <2>2 DEF IInv, ResultInv
  <2> QED
    BY <2>3, <2>4, <2>5, <2>6 DEF IInv
<1>5. CASE m_sip_msg_handler_map[m[1]] # NoOne
  <2> DEFINE h == m_sip_msg_handler_map[m[1]]
  <2>1. h \in Caller /\ caller[h].id = m[1] /\ caller[h].at # "out"
    BY <1>3, <1>5, SyncCallAssumption DEF IInv, TypeInv, PlaceInv
  <2> HIDE DEF h
  <2>2. /\ dispatch' \in [Dispatcher -> [at : DispatchPlace, msg : Msg \cup {NoMsg},
                                         handler : Caller \cup {NoOne}]]
        /\ dispatch'[d].at = "found" /\ dispatch'[d].msg = m /\ dispatch'[d].handler = h
        /\ \A e \in Dispatcher \ {d} : dispatch'[e] = dispatch[e]
        /\ fate' = fate /\ \A c : OneMsg(c)' = OneMsg(c)
    <3>1. dispatch' = [dispatch EXCEPT ![d] = [at |-> "found", msg |-> m, handler |-> h]]
      BY <1>2, <1>5 DEF h
    <3> QED
      BY <1>2, <1>5, <2>1, <3>1 DEF IInv, TypeInv, DispatchPlace, OneMsg
  <2>3. TypeInv' /\ PlaceInv' /\ UsedInv' /\ MutexInv'
    BY <1>1, <1>3, <2>2 DEF IInv, TypeInv, PlaceInv, UsedInv, MutexInv
  <2>4. DispatchInv'
    BY <1>1, <1>2, <2>1, <2>2 DEF IInv, DispatchInv
  <2>5. HandlerInv' /\ TakenInv' /\ ResultInv'
    BY <1>1, <2>2 DEF IInv, HandlerInv, TakenInv, ResultInv
  <2> QED
    BY <2>3, <2>4, <2>5 DEF IInv
<1> QED
  BY <1>4, <1>5

\* handRcvMsg takes the handler's mutex.
LEMMA HandlerAcquireStep == ASSUME IInv, NEW d \in Dispatcher, HandlerAcquire(d) PROVE IInv'
<1> DEFINE h == dispatch[d].handler
<1>1. /\ m_sip_msg_handler_map' = m_sip_msg_handler_map
      /\ m_sipstack_msg_ptr' = m_sipstack_msg_ptr /\ caller' = caller
      /\ posted' = posted /\ fate' = fate /\ stored' = stored /\ result' = result
      /\ dispatch[d].at = "found" /\ m_sync_thread_mutex[h] = NoOne
      /\ m_sync_thread_mutex' = [m_sync_thread_mutex EXCEPT ![h] = d]
  BY DEF HandlerAcquire, historyVars
<1>2. h \in Caller
  BY <1>1 DEF IInv, DispatchInv
<1>3. /\ dispatch' \in [Dispatcher -> [at : DispatchPlace, msg : Msg \cup {NoMsg},
                                       handler : Caller \cup {NoOne}]]
      /\ \A e \in Dispatcher : /\ dispatch'[e].msg = dispatch[e].msg
                               /\ dispatch'[e].handler = dispatch[e].handler
                               /\ e # d => dispatch'[e].at = dispatch[e].at
      /\ dispatch'[d].at = "locked"
  BY DEF IInv, TypeInv, HandlerAcquire, DispatchPlace
<1> HIDE DEF h
<1>4. Used' = Used /\ \A c : OneMsg(c)' = OneMsg(c)
  BY <1>1 DEF Used, OneMsg
<1>5. TypeInv' /\ PlaceInv' /\ UsedInv'
  BY <1>1, <1>2, <1>3, <1>4 DEF IInv, TypeInv, PlaceInv, UsedInv
<1>6. DispatchInv'
  BY <1>1, <1>3 DEF IInv, DispatchInv
<1>7. MutexInv'
  <2>1. /\ \A t \in Caller : m_sync_thread_mutex'[t] =
                             IF t = h THEN d ELSE m_sync_thread_mutex[t]
        /\ NoOne \notin Caller \cup Dispatcher
    BY <1>1, <1>2, SyncCallAssumption DEF IInv, TypeInv
  <2>2. ASSUME NEW t \in Caller, caller[t].at \in {"locked", "sent", "relocked"}
        PROVE  m_sync_thread_mutex'[t] = t
    BY <1>1, <2>1, <2>2 DEF IInv, MutexInv
  <2>3. ASSUME NEW e \in Dispatcher, dispatch'[e].at \in {"locked", "stored"}
        PROVE  m_sync_thread_mutex'[dispatch'[e].handler] = e
    <3>1. CASE e = d
      BY <1>2, <1>3, <2>1, <3>1 DEF h
    <3>2. CASE e # d
      <4>1. /\ dispatch[e].at \in {"locked", "stored"}
            /\ dispatch'[e].handler = dispatch[e].handler
        BY <1>3, <2>3, <3>2
      <4>2. /\ m_sync_thread_mutex[dispatch[e].handler] = e
            /\ dispatch[e].handler \in Caller
        BY <4>1 DEF IInv, DispatchInv, MutexInv
      <4> QED
        BY <1>1, <2>1, <4>1, <4>2
    <3> QED
      BY <3>1, <3>2
  <2> QED
    BY <1>1, <2>2, <2>3 DEF MutexInv
<1>8. HandlerInv' /\ TakenInv' /\ ResultInv'
  BY <1>1, <1>4 DEF IInv, HandlerInv, TakenInv, ResultInv
<1> QED
  BY <1>5, <1>6, <1>7, <1>8 DEF IInv

\* The message is assigned: the thread has handed its request over and has left
\* the mutex; a message that was there before makes two of that Call-ID.
LEMMA HandlerStoreStep == ASSUME IInv, NEW d \in Dispatcher, HandlerStore(d) PROVE IInv'
<1> DEFINE h == dispatch[d].handler
           m == dispatch[d].msg
           old == m_sipstack_msg_ptr[h]
<1>1. /\ m_sip_msg_handler_map' = m_sip_msg_handler_map
      /\ m_sync_thread_mutex' = m_sync_thread_mutex /\ caller' = caller
      /\ posted' = posted /\ result' = result /\ dispatch[d].at = "locked"
  BY DEF HandlerStore
<1>2. /\ h \in Caller /\ m \in Msg /\ fate[m] = "arrived" /\ m[1] \in posted
      /\ caller[h].at # "out" /\ caller[h].id = m[1] /\ m[1] \in CallId
      /\ m_sync_thread_mutex[h] = d
      /\ old # NoMsg => old \in Msg /\ old[1] = m[1] /\ fate[old] = "stored"
  BY <1>1 DEF IInv, DispatchInv, UsedInv, MutexInv, HandlerInv, TypeInv
<1>3. caller[h].at \notin {"saved", "locked", "sent"}
  BY <1>2, SyncCallAssumption DEF IInv, HandlerInv, MutexInv
<1>4. /\ dispatch' \in [Dispatcher -> [at : DispatchPlace, msg : Msg \cup {NoMsg},
                                       handler : Caller \cup {NoOne}]]
      /\ \A e \in Dispatcher : /\ dispatch'[e].msg = dispatch[e].msg
                               /\ dispatch'[e].handler = dispatch[e].handler
                               /\ e # d => dispatch'[e].at = dispatch[e].at
      /\ dispatch'[d].at = "stored"
  BY DEF IInv, TypeInv, HandlerStore, DispatchPlace
<1>5. /\ m_sipstack_msg_ptr' \in [Caller -> Msg \cup {NoMsg}]
      /\ m_sipstack_msg_ptr'[h] = m
      /\ \A u \in Caller \ {h} : m_sipstack_msg_ptr'[u] = m_sipstack_msg_ptr[u]
  BY <1>2 DEF IInv, TypeInv, HandlerStore
<1>6. /\ fate' \in [Msg -> Fate] /\ fate'[m] = "stored"
      /\ old \in Msg => fate'[old] = "overwritten"
      /\ \A n \in Msg : n # m /\ n # old => fate'[n] = fate[n]
  BY <1>2, NoMsgAssumption DEF IInv, TypeInv, HandlerStore, Fate
<1>7. stored' = IF caller[h].at \in {"taking", "destroy"} THEN stored
                ELSE stored \cup {m[1]}
  BY DEF HandlerStore
<1> HIDE DEF h, m, old
<1>8. /\ \A n \in Msg : fate'[n] # "absent" <=> fate[n] # "absent"
      /\ \A n \in Msg : fate[n] \in Settled => n # m /\ fate'[n] \in Settled
  BY <1>2, <1>6, NoMsgAssumption DEF Settled
<1>9. \A c \in CallId : OneMsg(c)' => OneMsg(c)
  BY <1>8, OneMsgStays
<1>10. ASSUME NEW c \in CallId, c = m[1], old # NoMsg
       PROVE  ~OneMsg(c)'
  <2>1. PICK k \in 1..MaxMsgs, l \in 1..MaxMsgs : m = <<c, k>> /\ old = <<c, l>>
    BY <1>2, <1>10 DEF Msg
  <2>2. k # l /\ fate[<<c, k>>] # "absent" /\ fate[<<c, l>>] # "absent"
    BY <1>2, <1>10, <2>1
  <2> QED
    BY <1>9, <2>2 DEF OneMsg
<1>11. TypeInv'
  <2>1. stored' \subseteq CallId
    BY <1>2, <1>7 DEF IInv, TypeInv
  <2> QED
    BY <1>1, <1>4, <1>5, <1>6, <2>1 DEF IInv, TypeInv
<1>12. PlaceInv'
  <2>1. \A u \in Caller : caller[u].at = "out" => u # h
    BY <1>2
  <2> QED
    BY <1>1, <1>5, <2>1 DEF IInv, PlaceInv
<1>13. UsedInv'
  <2>1. Used' = Used /\ m[1] \in Used
    BY <1>1, <1>2 DEF Used
  <2> QED
    BY <1>1, <1>7, <1>8, <2>1 DEF IInv, UsedInv
<1>14. DispatchInv'
  <2>1. ASSUME NEW e \in Dispatcher \ {d}, dispatch[e].at # "idle"
        PROVE  /\ dispatch[e].msg # m
               /\ dispatch[e].at # "stored" => fate'[dispatch[e].msg] = "arrived"
    <3>1. dispatch[e].msg # m /\ dispatch[e].msg \in Msg
      BY <1>1, <2>1 DEF IInv, DispatchInv, m
    <3>2. dispatch[e].at # "stored" => fate[dispatch[e].msg] = "arrived"
      BY <2>1 DEF IInv, DispatchInv
    <3> QED
      BY <1>2, <1>6, <3>1, <3>2, NoMsgAssumption
  <2> QED
    BY <1>1, <1>4, <2>1 DEF IInv, DispatchInv
<1>15. MutexInv'
  BY <1>1, <1>4 DEF IInv, MutexInv
<1>16. \A u \in Caller \ {h} : caller[u].at # "out" => caller[u].id # m[1]
  BY <1>2 DEF IInv, PlaceInv
<1>17. HandlerInv'
  <2>1. ASSUME NEW u \in Caller \ {h}, m_sipstack_msg_ptr[u] # NoMsg
        PROVE  /\ fate'[m_sipstack_msg_ptr[u]] = "stored"
               /\ m_sipstack_msg_ptr[u][1] = caller[u].id
    <3>1. /\ m_sipstack_msg_ptr[u] \in Msg /\ caller[u].at # "out"
          /\ m_sipstack_msg_ptr[u][1] = caller[u].id
          /\ fate[m_sipstack_msg_ptr[u]] = "stored"
      BY <2>1 DEF IInv, HandlerInv, TypeInv, PlaceInv
    <3> QED
      BY <1>2, <1>6, <1>16, <2>1, <3>1, NoMsgAssumption
  <2>2. ASSUME NEW u \in Caller
        PROVE  /\ caller[u].at \in {"saved", "locked"} => caller[u].id \notin posted
               /\ caller[u].at \in {"saved", "locked", "sent"} => m_sipstack_msg_ptr'[u] = NoMsg
               /\ m_sipstack_msg_ptr'[u] # NoMsg =>
                    /\ m_sipstack_msg_ptr'[u][1] = caller[u].id
                    /\ fate'[m_sipstack_msg_ptr'[u]] = "stored"
    <3>1. CASE u = h
      BY <1>2, <1>3, <1>5, <1>6, <3>1
    <3>2. CASE u # h
      BY <1>5, <2>1, <3>2 DEF IInv, HandlerInv
    <3> QED
      BY <3>1, <3>2
  <2> QED
    BY <1>1, <2>2 DEF HandlerInv
<1>18. TakenInv'
  <2>1. ASSUME NEW u \in Caller, caller[u].at \notin {"out", "taking", "destroy"},
               caller[u].id \in stored'
        PROVE  m_sipstack_msg_ptr'[u] # NoMsg
    <3>1. CASE u = h
      BY <1>2, <1>5, <3>1, NoMsgAssumption
    <3>2. CASE u # h
      BY <1>5, <1>7, <1>16, <2>1, <3>2 DEF IInv, TakenInv
    <3> QED
      BY <3>1, <3>2
  <2>2. ASSUME NEW u \in Caller, caller[u].at = "taking"
        PROVE  IF caller[u].taken = NoMsg
               THEN caller[u].id \notin stored'
               ELSE /\ caller[u].taken[1] = caller[u].id
                    /\ fate'[caller[u].taken] \in Settled
                    /\ OneMsg(caller[u].id)' => fate'[caller[u].taken] = "stored"
    <3>1. caller[u].id \in CallId /\ caller[u].taken \in Msg \cup {NoMsg}
      BY <2>2 DEF IInv, PlaceInv, TypeInv
    <3>2. CASE caller[u].taken = NoMsg
      <4>1. caller[u].id \notin stored
        BY <2>2, <3>2 DEF IInv, TakenInv
      <4> QED
        BY <1>7, <1>16, <2>2, <3>2, <4>1
    <3>3. CASE caller[u].taken # NoMsg
      <4>1. /\ caller[u].taken[1] = caller[u].id
            /\ fate[caller[u].taken] \in Settled
            /\ OneMsg(caller[u].id) => fate[caller[u].taken] = "stored"
        BY <2>2, <3>3 DEF IInv, TakenInv
      <4>2. caller[u].taken # m /\ fate'[caller[u].taken] \in Settled
        BY <1>8, <3>1, <3>3, <4>1
      <4>3. caller'[u].id = caller[u].id
        BY <1>1
      <4>4. CASE caller[u].taken = old
        <5>1. caller[u].id = m[1]
          BY <1>2, <3>3, <4>1, <4>4
        <5> QED
          BY <1>10, <3>1, <3>3, <4>1, <4>2, <4>3, <4>4, <5>1
      <4>5. CASE caller[u].taken # old
        BY <1>6, <1>9, <3>1, <3>3, <4>1, <4>2, <4>3, <4>5
      <4> QED
        BY <4>4, <4>5
    <3> QED
      BY <3>2, <3>3
  <2> QED
    BY <1>1, <2>1, <2>2 DEF TakenInv
<1>19. ResultInv'
  <2>1. ASSUME NEW c \in CallId, result[c].how = "none"
        PROVE  c \notin stored'
    <3>1. c \notin stored
      BY <2>1 DEF IInv, ResultInv
    <3>2. c = m[1] => caller[h].at = "destroy"
      BY <1>2, <2>1 DEF IInv, PlaceInv
    <3> QED
      BY <1>7, <3>1, <3>2
  <2>2. ASSUME NEW c \in CallId, result[c].how = "message"
        PROVE  /\ result[c].msg \in Msg
               /\ result[c].msg[1] = c
               /\ result[c].msg # m
               /\ fate'[result[c].msg] \in Settled
               /\ OneMsg(c)' => fate'[result[c].msg] = "stored"
    <3>1. /\ result[c].msg \in Msg
          /\ result[c].msg[1] = c
          /\ fate[result[c].msg] \in Settled
          /\ OneMsg(c) => fate[result[c].msg] = "stored"
      BY <2>2 DEF IInv, ResultInv
    <3>2. OneMsg(c)' => result[c].msg # old
      BY <1>2, <1>9, <1>10, <3>1, NoMsgAssumption
    <3> QED
      BY <1>6, <1>8, <1>9, <3>1, <3>2
  <2>3. ASSUME NEW u \in Caller, caller[u].at = "destroy",
               result[caller[u].id].how = "message", m_sipstack_msg_ptr'[u] # NoMsg
        PROVE  m_sipstack_msg_ptr'[u] # result[caller[u].id].msg
    <3>1. CASE u = h
      BY <1>2, <1>5, <2>2, <2>3, <3>1
    <3>2. CASE u # h
      BY <1>5, <2>3, <3>2 DEF IInv, ResultInv
    <3> QED
      BY <3>1, <3>2
  <2> QED
    BY <1>1, <2>1, <2>2, <2>3 DEF ResultInv
<1> QED
  BY <1>11, <1>12, <1>13, <1>14, <1>15, <1>17, <1>18, <1>19 DEF IInv

\* The signal wakes a thread that waits, and the mutex is left.
LEMMA HandlerSignalStep == ASSUME IInv, NEW d \in Dispatcher, HandlerSignal(d) PROVE IInv'
<1> DEFINE h == dispatch[d].handler
<1>1. /\ m_sip_msg_handler_map' = m_sip_msg_handler_map
      /\ m_sipstack_msg_ptr' = m_sipstack_msg_ptr
      /\ posted' = posted /\ fate' = fate /\ stored' = stored /\ result' = result
      /\ dispatch[d].at = "stored"
      /\ m_sync_thread_mutex' = [m_sync_thread_mutex EXCEPT ![h] = NoOne]
  BY DEF HandlerSignal, historyVars
<1>2. h \in Caller /\ m_sync_thread_mutex[h] = d
  BY <1>1 DEF IInv, DispatchInv, MutexInv
<1>3. /\ dispatch' \in [Dispatcher -> [at : DispatchPlace, msg : Msg \cup {NoMsg},
                                       handler : Caller \cup {NoOne}]]
      /\ dispatch'[d].at = "idle" /\ dispatch'[d].msg = NoMsg
      /\ \A e \in Dispatcher \ {d} : dispatch'[e] = dispatch[e]
  BY DEF IInv, TypeInv, HandlerSignal, DispatchPlace, Idle
<1>4. /\ caller' \in [Caller -> [at : CallerPlace, id : CallId \cup {NoId},
                                 taken : Msg \cup {NoMsg}]]
      /\ \A u \in Caller : /\ caller'[u].id = caller[u].id
                           /\ caller'[u].taken = caller[u].taken
                           /\ \/ caller'[u].at = caller[u].at
                              \/ caller[u].at = "waiting" /\ caller'[u].at = "woken"
  BY <1>2 DEF IInv, TypeInv, HandlerSignal, CallerPlace
<1> HIDE DEF h
<1>5. TypeInv' /\ Used' = Used /\ \A c : OneMsg(c)' = OneMsg(c)
  <2>1. Used' = Used /\ \A c : OneMsg(c)' = OneMsg(c)
    BY <1>1, <1>4, UsedStays DEF IInv, OneMsg
  <2>2. m_sync_thread_mutex' \in [Caller -> Caller \cup Dispatcher \cup {NoOne}]
    BY <1>1, <1>2 DEF IInv, TypeInv
  <2> QED
    BY <1>1, <1>3, <1>4, <2>1, <2>2 DEF IInv, TypeInv
<1>6. PlaceInv'
  BY <1>1, <1>4 DEF IInv, PlaceInv, TypeInv
<1>7. UsedInv'
  BY <1>1, <1>5 DEF IInv, UsedInv
<1>8. DispatchInv'
  BY <1>1, <1>3, <1>4, NoMsgAssumption DEF IInv, DispatchInv
<1>9. MutexInv'
  <2>1. ASSUME NEW u \in Caller, caller'[u].at \in {"locked", "sent", "relocked"}
        PROVE  m_sync_thread_mutex'[u] = u
    <3>1. m_sync_thread_mutex[u] = u /\ u # h
      BY <1>2, <1>4, <2>1, SyncCallAssumption DEF IInv, MutexInv
    <3> QED
      BY <1>1, <3>1 DEF IInv, TypeInv
  <2>2. ASSUME NEW e \in Dispatcher, dispatch'[e].at \in {"locked", "stored"}
        PROVE  m_sync_thread_mutex'[dispatch'[e].handler] = e
    <3>1. /\ e # d /\ dispatch'[e] = dispatch[e] /\ dispatch[e].handler \in Caller
          /\ m_sync_thread_mutex[dispatch[e].handler] = e
      BY <1>3, <2>2 DEF IInv, MutexInv, DispatchInv
    <3> QED
      BY <1>1, <1>2, <3>1 DEF IInv, TypeInv
  <2> QED
    BY <2>1, <2>2 DEF MutexInv
<1>10. HandlerInv' /\ TakenInv' /\ ResultInv'
  BY <1>1, <1>4, <1>5 DEF IInv, HandlerInv, TakenInv, ResultInv
<1> QED
  BY <1>5, <1>6, <1>7, <1>8, <1>9, <1>10 DEF IInv

-----------------------------------------------------------------------------
(* The invariant, and what follows from it.                                *)

\* Nobody is in a call, and no message has come in.
LEMMA InitInv == Init => IInv
<1> SUFFICES ASSUME Init
             PROVE  IInv
  OBVIOUS
<1>1. TypeInv
  BY DEF Init, TypeInv, OutOfCall, Idle, CallerPlace, DispatchPlace, Fate
<1>2. PlaceInv /\ DispatchInv /\ MutexInv
  BY DEF Init, PlaceInv, DispatchInv, MutexInv, OutOfCall, Idle
<1>3. UsedInv /\ HandlerInv /\ TakenInv /\ ResultInv
  BY DEF Init, UsedInv, HandlerInv, TakenInv, ResultInv, OutOfCall
<1> QED
  BY <1>1, <1>2, <1>3 DEF IInv

\* Every step of the threads and of the messages keeps the invariant.
LEMMA NextInv == IInv /\ [Next]_vars => IInv'
<1> SUFFICES ASSUME IInv, [Next]_vars
             PROVE  IInv'
  OBVIOUS
<1>1. CASE UNCHANGED vars
  <2>1. /\ m_sip_msg_handler_map' = m_sip_msg_handler_map
        /\ m_sync_thread_mutex' = m_sync_thread_mutex
        /\ m_sipstack_msg_ptr' = m_sipstack_msg_ptr /\ caller' = caller
        /\ dispatch' = dispatch /\ posted' = posted /\ fate' = fate
        /\ stored' = stored /\ result' = result
    BY <1>1 DEF vars
  <2>2. Used' = Used /\ \A c : OneMsg(c)' = OneMsg(c)
    BY <2>1 DEF Used, OneMsg
  <2>3. TypeInv' /\ PlaceInv' /\ UsedInv' /\ DispatchInv'
    BY <2>1, <2>2 DEF IInv, TypeInv, PlaceInv, UsedInv, DispatchInv
  <2>4. MutexInv' /\ HandlerInv' /\ TakenInv' /\ ResultInv'
    BY <2>1, <2>2 DEF IInv, MutexInv, HandlerInv, TakenInv, ResultInv
  <2> QED
    BY <2>3, <2>4 DEF IInv
<1>2. ASSUME NEW t \in Caller, SaveAgentMsgHandler(t) \/ InCall(t)
      PROVE  IInv'
  BY <1>2, SaveStep, AcquireStep, RequestToPuStep, WaitMsgStep, TimeoutStep, ReturnStep,
     ReleaseStep, GetMsgStep, ClearPtrStep, DeleteStep DEF InCall
<1>3. ASSUME NEW m \in Msg, Arrive(m)
      PROVE  IInv'
  BY <1>3, ArriveStep
<1>4. ASSUME NEW d \in Dispatcher, HandleRcvMsg(d) \/ InHandler(d)
      PROVE  IInv'
  BY <1>4, HandleRcvMsgStep, HandlerAcquireStep, HandlerStoreStep, HandlerSignalStep
  DEF InHandler
<1> QED
  BY <1>1, <1>2, <1>3, <1>4 DEF Next

\* The inductive invariant holds for every number of threads, of Call-IDs and
\* of messages under one Call-ID.
THEOREM Invariant == Spec => []IInv
BY InitInv, NextInv, PTL DEF Spec

\* The type of every variable, and every dispatcher past its lookup has a
\* handler: HandleRcvMsg leaves a message without one alone.
THEOREM TypeCorrect == Spec => []TypeOK
<1>1. IInv => TypeOK
  BY DEF IInv, TypeInv, DispatchInv, TypeOK
<1> QED
  BY <1>1, Invariant, PTL

\* A call of SyncSendInviteEx, SyncSendMsgEx or SendRegister returns a message of
\* its own Call-ID, and nothing only if nothing was stored before it looked.
THEOREM CallsGetTheirAnswer == Spec => []OwnAnswer
<1>1. IInv => OwnAnswer
  BY DEF IInv, ResultInv, OwnAnswer
<1> QED
  BY <1>1, Invariant, PTL

\* A Call-ID with at most one message in the sense of UsedIsLive has at most
\* one in the sense of OneMsg.
LEMMA OneMsgByCardinality ==
  ASSUME NEW c \in CallId,
         Cardinality({k \in 1..MaxMsgs : fate[<<c, k>>] # "absent"}) <= 1
  PROVE  OneMsg(c)
<1> DEFINE S == {k \in 1..MaxMsgs : fate[<<c, k>>] # "absent"}
<1>1. IsFiniteSet(S) /\ Cardinality(S) \in Nat
  <2>1. IsFiniteSet(1..MaxMsgs)
    BY SyncCallAssumption, FS_Interval
  <2> QED
    BY <2>1, FS_Subset, FS_CardinalityType
<1>2. ASSUME NEW k \in S, NEW l \in S, k # l
      PROVE  FALSE
  <2>1. IsFiniteSet({k}) /\ Cardinality({k}) = 1
    BY FS_Singleton
  <2>2. IsFiniteSet({k} \cup {l}) /\ Cardinality({k} \cup {l}) = 2
    <3>1. /\ IsFiniteSet({k} \cup {l})
          /\ Cardinality({k} \cup {l})
             = IF l \in {k} THEN Cardinality({k}) ELSE Cardinality({k}) + 1
      BY <2>1, FS_AddElement
    <3> QED
      BY <1>2, <2>1, <3>1
  <2>3. {k} \cup {l} \subseteq S
    BY <1>2
  <2>4. Cardinality({k} \cup {l}) <= Cardinality(S)
    BY <1>1, <2>3, FS_Subset
  <2> QED
    BY <1>1, <2>2, <2>4
<1> QED
  BY <1>2 DEF OneMsg

\* Nothing is used after its owner is gone: the dispatchers' handlers are alive
\* and of the right call, and with one message per Call-ID nobody deletes what
\* a call returns, although GetMsg runs outside the mutex.
THEOREM NothingUsedIsGone == Spec => []UsedIsLive
<1>1. IInv => UsedIsLive
  BY OneMsgByCardinality DEF IInv, DispatchInv, ResultInv, UsedIsLive
<1> QED
  BY <1>1, Invariant, PTL

\* A thread falls asleep on an empty handler; who fills it while it sleeps
\* keeps the mutex until it has signalled.
LEMMA WakeStep == IInv /\ NoLostWakeup /\ [Next]_vars => NoLostWakeup'
<1> SUFFICES ASSUME IInv, NoLostWakeup, [Next]_vars,
                    NEW t \in Caller, caller'[t].at = "waiting",
                    m_sipstack_msg_ptr'[t] # NoMsg
             PROVE  \E d \in Dispatcher : dispatch'[d].at = "stored" /\ dispatch'[d].handler = t
  BY DEF NoLostWakeup
<1> DEFINE Asleep == caller[t].at = "waiting" /\ m_sipstack_msg_ptr[t] # NoMsg
<1>1. Asleep => \E d \in Dispatcher : dispatch[d].at = "stored" /\ dispatch[d].handler = t
  BY DEF NoLostWakeup
<1>2. CASE UNCHANGED vars
  BY <1>1, <1>2 DEF vars
<1>3. ASSUME NEW u \in Caller, SaveAgentMsgHandler(u) \/ InCall(u)
      PROVE  dispatch' = dispatch /\ Asleep
  <2>1. dispatch' = dispatch
    BY <1>3 DEF InCall, SaveAgentMsgHandler, Acquire, RequestToPu, WaitMsg, Timeout, Return,
           Release, GetMsg, ClearPtr, DeleteAgentMsgHandler
  <2>2. CASE u = t
    <3>1. caller \in [Caller -> [at : CallerPlace, id : CallId \cup {NoId},
                                taken : Msg \cup {NoMsg}]]
      BY DEF IInv, TypeInv
    <3>2. WaitMsg(t)
      BY <1>3, <2>2, <3>1 DEF InCall, SaveAgentMsgHandler, Acquire, RequestToPu, Timeout, Return,
             Release, GetMsg, ClearPtr, DeleteAgentMsgHandler, Goto, OutOfCall
    <3> QED
      BY <3>2 DEF WaitMsg, IInv, HandlerInv
  <2>3. CASE u # t
    <3>1. caller'[t] = caller[t]
      BY <1>3, <2>3 DEF InCall, SaveAgentMsgHandler, Acquire, RequestToPu, WaitMsg, Timeout, Return,
             Release, GetMsg, ClearPtr, DeleteAgentMsgHandler, Goto, IInv, TypeInv
    <3>2. m_sipstack_msg_ptr'[t] = m_sipstack_msg_ptr[t]
      BY <1>3, <2>3 DEF InCall, SaveAgentMsgHandler, Acquire, RequestToPu, WaitMsg, Timeout, Return,
             Release, GetMsg, ClearPtr, DeleteAgentMsgHandler, handlerVars, IInv, TypeInv
    <3> QED
      BY <2>1, <3>1, <3>2
  <2> QED
    BY <2>2, <2>3
<1>4. ASSUME NEW m \in Msg, Arrive(m)
      PROVE  dispatch' = dispatch /\ Asleep
  BY <1>4 DEF Arrive, handlerVars
<1>5. ASSUME NEW d \in Dispatcher, HandleRcvMsg(d) \/ InHandler(d)
      PROVE  \E e \in Dispatcher : dispatch'[e].at = "stored" /\ dispatch'[e].handler = t
  <2>1. CASE HandleRcvMsg(d)
    <3>1. Asleep /\ dispatch[d].at = "idle"
      BY <2>1 DEF HandleRcvMsg, handlerVars
    <3>2. \A e \in Dispatcher : e # d => dispatch'[e] = dispatch[e]
      BY <2>1 DEF HandleRcvMsg, IInv, TypeInv
    <3> QED
      BY <1>1, <3>1, <3>2
  <2>2. CASE HandlerAcquire(d)
    <3>1. Asleep /\ dispatch[d].at = "found"
      BY <2>2 DEF HandlerAcquire
    <3>2. \A e \in Dispatcher : e # d => dispatch'[e] = dispatch[e]
      BY <2>2 DEF HandlerAcquire, IInv, TypeInv
    <3> QED
      BY <1>1, <3>1, <3>2
  <2>3. CASE HandlerStore(d)
    <3>1. /\ dispatch[d].at = "locked" /\ caller' = caller
          /\ m_sipstack_msg_ptr' =
               [m_sipstack_msg_ptr EXCEPT ![dispatch[d].handler] = dispatch[d].msg]
      BY <2>3 DEF HandlerStore
    <3>2. /\ \A e \in Dispatcher : e # d => dispatch'[e] = dispatch[e]
          /\ dispatch'[d].at = "stored" /\ dispatch'[d].handler = dispatch[d].handler
      BY <2>3 DEF HandlerStore, IInv, TypeInv
    <3>3. dispatch[d].handler = t \/ Asleep
      BY <3>1 DEF IInv, TypeInv
    <3> QED
      BY <1>1, <3>1, <3>2, <3>3
  <2>4. CASE HandlerSignal(d)
    <3>1. /\ dispatch[d].at = "stored" /\ dispatch[d].handler \in Caller
          /\ m_sipstack_msg_ptr' = m_sipstack_msg_ptr
      BY <2>4 DEF HandlerSignal, IInv, DispatchInv
    <3>2. \A e \in Dispatcher : e # d => dispatch'[e] = dispatch[e]
      BY <2>4 DEF HandlerSignal, IInv, TypeInv
    <3>3. Asleep /\ dispatch[d].handler # t
      BY <2>4, <3>1 DEF HandlerSignal, IInv, TypeInv
    <3> QED
      BY <1>1, <3>1, <3>2, <3>3
  <2> QED
    BY <1>5, <2>1, <2>2, <2>3, <2>4 DEF InHandler
<1> QED
  BY <1>1, <1>2, <1>3, <1>4, <1>5 DEF Next

\* No wake-up is lost between the condition's wait, its time-out and the signal.
THEOREM WakeupsAreKept == Spec => []NoLostWakeup
<1>1. Init => NoLostWakeup
  BY DEF Init, NoLostWakeup, OutOfCall
<1> QED
  BY <1>1, WakeStep, Invariant, PTL DEF Spec

-----------------------------------------------------------------------------
(* The refinement of BlockingCall.                                         *)

\* A request is handed over by a call that goes on to wait, and by none that is
\* refused.
PostInv ==
  /\ \A c \in CallId : result[c].how = "refused" => c \notin posted
  /\ \A t \in Caller :
       caller[t].at \in {"sent", "waiting", "woken", "relocked", "released", "taking"}
       => caller[t].id \in posted

\* Only the calling thread's own steps matter to it.
LEMMA PostStep == IInv /\ PostInv /\ [Next]_vars => PostInv'
<1> SUFFICES ASSUME IInv, PostInv, [Next]_vars PROVE PostInv'
  OBVIOUS
<1>0. /\ caller \in [Caller -> [at : CallerPlace, id : CallId \cup {NoId},
                                taken : Msg \cup {NoMsg}]]
      /\ result \in [CallId -> [how : {"open", "refused", "none", "message"},
                                msg : Msg \cup {NoMsg}]]
  BY DEF IInv, TypeInv
<1>1. ASSUME NEW t \in Caller, RequestToPu(t)
      PROVE  PostInv'
  <2>1. /\ caller[t].at = "locked" /\ caller[t].id \in CallId
        /\ result[caller[t].id].how = "open" /\ caller[t].id \notin posted
    BY <1>1 DEF RequestToPu, IInv, PlaceInv, HandlerInv
  <2>2. CASE posted' = posted \cup {caller[t].id} /\ Goto(t, "sent") /\ result' = result
    BY <1>0, <2>1, <2>2 DEF PostInv, Goto
  <2>3. CASE /\ result' = [result EXCEPT ![caller[t].id].how = "refused"]
             /\ Goto(t, "destroy") /\ posted' = posted
    BY <1>0, <2>1, <2>3 DEF PostInv, Goto
  <2> QED
    BY <1>1, <2>2, <2>3 DEF RequestToPu
<1>2. ASSUME NEW t \in Caller, ClearPtr(t)
      PROVE  PostInv'
  <2>1. /\ caller[t].id \in CallId /\ posted' = posted /\ Goto(t, "destroy")
        /\ result'[caller[t].id].how \in {"none", "message"}
        /\ \A c \in CallId : c # caller[t].id => result'[c] = result[c]
    BY <1>0, <1>2 DEF ClearPtr, IInv, PlaceInv
  <2> QED
    BY <1>0, <2>1 DEF PostInv, Goto
<1>3. ASSUME NEW t \in Caller, SaveAgentMsgHandler(t)
      PROVE  PostInv'
  BY <1>0, <1>3 DEF SaveAgentMsgHandler, historyVars, PostInv
<1>4. ASSUME NEW t \in Caller, WaitMsg(t) \/ Timeout(t) \/ Return(t) \/ Release(t)
      PROVE  PostInv'
  BY <1>0, <1>4 DEF WaitMsg, Timeout, Return, Release, Goto, historyVars, PostInv
<1>5. ASSUME NEW t \in Caller, Acquire(t) \/ GetMsg(t) \/ DeleteAgentMsgHandler(t)
      PROVE  PostInv'
  BY <1>0, <1>5
     DEF Acquire, GetMsg, DeleteAgentMsgHandler, OutOfCall, Goto, historyVars, PostInv
<1>6. ASSUME NEW d \in Dispatcher, HandlerSignal(d)
      PROVE  PostInv'
  <2>1. posted' = posted /\ result' = result
    BY <1>6 DEF HandlerSignal, historyVars
  <2>2. \A t \in Caller : /\ caller'[t].id = caller[t].id
                          /\ \/ caller'[t].at = caller[t].at
                             \/ caller[t].at = "waiting" /\ caller'[t].at = "woken"
    BY <1>0, <1>6 DEF HandlerSignal
  <2> QED
    BY <2>1, <2>2 DEF PostInv
<1>7. CASE posted' = posted /\ result' = result /\ caller' = caller
  BY <1>7 DEF PostInv
<1> QED
  BY <1>1, <1>2, <1>3, <1>4, <1>5, <1>6, <1>7
     DEF Next, InCall, InHandler, Arrive, HandleRcvMsg, HandlerAcquire, HandlerStore,
         historyVars, vars

\* What an application sees of a call.
SameView(c) == Phase(c)' = Phase(c) /\ Kept(c)' = Kept(c) /\ Answer(c)' = Answer(c)

\* It depends on the call's result, on whether its request is out and on its
\* handler, with the thread whose it is.
LEMMA ViewDepends ==
  ASSUME NEW c \in CallId, result'[c] = result[c], c \in posted' <=> c \in posted,
         m_sip_msg_handler_map'[c] = m_sip_msg_handler_map[c],
         m_sip_msg_handler_map[c] # NoOne =>
           /\ m_sipstack_msg_ptr'[m_sip_msg_handler_map[c]]
                = m_sipstack_msg_ptr[m_sip_msg_handler_map[c]]
           /\ caller'[m_sip_msg_handler_map[c]].taken = caller[m_sip_msg_handler_map[c]].taken
           /\ caller'[m_sip_msg_handler_map[c]].at = "taking"
                <=> caller[m_sip_msg_handler_map[c]].at = "taking"
           /\ caller'[m_sip_msg_handler_map[c]].at = "destroy"
                <=> caller[m_sip_msg_handler_map[c]].at = "destroy"
  PROVE  SameView(c)
<1>1. Taking(c)' <=> Taking(c)
  BY DEF Taking
<1>2. Phase(c)' = Phase(c)
  BY <1>1 DEF Phase
<1>3. Kept(c)' = Kept(c)
  BY DEF Kept
<1>4. Answer(c)' = Answer(c)
  BY <1>1 DEF Answer, Taking
<1> QED
  BY <1>2, <1>3, <1>4 DEF SameView

\* A step of one thread leaves the calls of the others as they are.
LEMMA OtherCalls ==
  ASSUME IInv, NEW t \in Caller, NEW c \in CallId, c # caller[t].id,
         \A u \in Caller : u # t => /\ caller'[u] = caller[u]
                                    /\ m_sipstack_msg_ptr'[u] = m_sipstack_msg_ptr[u],
         m_sip_msg_handler_map'[c] = m_sip_msg_handler_map[c],
         result'[c] = result[c], c \in posted' <=> c \in posted
  PROVE  SameView(c)
<1>1. m_sip_msg_handler_map[c] # NoOne =>
        m_sip_msg_handler_map[c] \in Caller /\ m_sip_msg_handler_map[c] # t
  BY DEF IInv, TypeInv, PlaceInv
<1> QED
  BY <1>1, ViewDepends

\* The view of a call that a thread is in.
Asked == {"sent", "waiting", "woken", "relocked", "released"}

LEMMA ViewInCall ==
  ASSUME IInv, PostInv, NEW t \in Caller, NEW c \in CallId,
         caller[t].at # "out", caller[t].id = c
  PROVE  /\ m_sip_msg_handler_map[c] = t /\ t # NoOne
         /\ caller[t].at \in {"saved", "locked"} => Phase(c) = "begun"
         /\ caller[t].at \in Asked => Phase(c) = "asked" /\ Answer(c) = NoMsg
         /\ caller[t].at = "taking" => Phase(c) = "ended" /\ Answer(c) = caller[t].taken
         /\ caller[t].at = "destroy" =>
              Phase(c) = IF result[c].how = "refused" THEN "refused" ELSE "ended"
         /\ Kept(c) = IF caller[t].at \in {"taking", "destroy"} THEN NoMsg
                      ELSE m_sipstack_msg_ptr[t]
<1>1. /\ m_sip_msg_handler_map[c] = t /\ t # NoOne
      /\ result[c].how = "open" <=> caller[t].at # "destroy"
      /\ result[c].how \in {"open", "refused", "none", "message"}
      /\ caller[t].at \in CallerPlace
  BY SyncCallAssumption DEF IInv, TypeInv, PlaceInv
<1>2. Taking(c) <=> caller[t].at = "taking"
  BY <1>1 DEF Taking
<1>3. caller[t].at \in {"saved", "locked"} => Phase(c) = "begun"
  BY <1>1, <1>2 DEF Phase, IInv, HandlerInv
<1>4. caller[t].at \in Asked => Phase(c) = "asked" /\ Answer(c) = NoMsg
  BY <1>1, <1>2 DEF Phase, Answer, PostInv, Asked
<1>5. caller[t].at = "taking" => Phase(c) = "ended" /\ Answer(c) = caller[t].taken
  BY <1>1, <1>2 DEF Phase, Answer
<1>6. caller[t].at = "destroy" =>
        Phase(c) = IF result[c].how = "refused" THEN "refused" ELSE "ended"
  BY <1>1, <1>2 DEF Phase
<1>7. Kept(c) = IF caller[t].at \in {"taking", "destroy"} THEN NoMsg
                ELSE m_sipstack_msg_ptr[t]
  BY <1>1 DEF Kept
<1> QED
  BY <1>1, <1>3, <1>4, <1>5, <1>6, <1>7

\* The steps of the abstract call, in terms of the detailed one.
Making == [t \in Caller |-> caller[t].id]
Seen == {m \in Msg : fate[m] \notin {"absent", "arrived"}}

Others(c) == \A e \in CallId : e # c => SameView(e)

Quiet ==
  /\ \A c \in CallId : SameView(c)
  /\ Making' = Making /\ Seen' = Seen

Begins ==
  \E t \in Caller, c \in CallId :
    /\ Making[t] = NoId /\ Making' = [Making EXCEPT ![t] = c]
    /\ Phase(c) = "new" /\ Phase(c)' = "begun"
    /\ Kept(c)' = Kept(c) /\ Answer(c)' = Answer(c)
    /\ Others(c) /\ Seen' = Seen

Asks ==
  \E t \in Caller, c \in CallId :
    /\ Making[t] = c /\ Making' = Making
    /\ Phase(c) = "begun" /\ Phase(c)' \in {"asked", "refused"}
    /\ Kept(c)' = Kept(c) /\ Answer(c)' = Answer(c)
    /\ Others(c) /\ Seen' = Seen

Ends ==
  \E t \in Caller, c \in CallId :
    /\ Making[t] = c /\ Making' = Making
    /\ Phase(c) = "asked" /\ Phase(c)' = "ended"
    /\ Answer(c)' = Kept(c) /\ Kept(c)' = NoMsg
    /\ Others(c) /\ Seen' = Seen

Leaves ==
  \E t \in Caller, c \in CallId :
    /\ Making[t] = c /\ Making' = [Making EXCEPT ![t] = NoId]
    /\ Phase(c) \in {"refused", "ended"}
    /\ \A e \in CallId : SameView(e)
    /\ Seen' = Seen

Gives ==
  \E m \in Msg :
    /\ m \notin Seen /\ Seen' = Seen \cup {m}
    /\ Phase(m[1]) = "asked" /\ Phase(m[1])' = "asked"
    /\ Kept(m[1])' = m /\ Answer(m[1])' = Answer(m[1])
    /\ Others(m[1]) /\ Making' = Making

Drops ==
  \E m \in Msg :
    /\ m \notin Seen /\ Seen' = Seen \cup {m}
    /\ Phase(m[1]) = "ended"
    /\ \A e \in CallId : SameView(e)
    /\ Making' = Making

CallStep == Quiet \/ Begins \/ Asks \/ Ends \/ Leaves \/ Gives \/ Drops

\* A thread that goes on within its call.
LEMMA QuietMove ==
  ASSUME IInv, NEW t \in Caller, NEW place \in CallerPlace \ {"taking", "destroy"},
         caller[t].at \notin {"out", "taking", "destroy"}, Goto(t, place),
         m_sip_msg_handler_map' = m_sip_msg_handler_map,
         m_sipstack_msg_ptr' = m_sipstack_msg_ptr,
         UNCHANGED historyVars
  PROVE  Quiet
<1>1. /\ \A u \in Caller : /\ caller'[u].id = caller[u].id
                           /\ caller'[u].taken = caller[u].taken
                           /\ u # t => caller'[u].at = caller[u].at
      /\ caller'[t].at = place
  BY GotoEffect DEF IInv
<1>2. \A c \in CallId : SameView(c)
  <2> SUFFICES ASSUME NEW c \in CallId PROVE SameView(c)
    OBVIOUS
  <2>1. m_sip_msg_handler_map[c] # NoOne => m_sip_msg_handler_map[c] \in Caller
    BY DEF IInv, TypeInv
  <2> QED
    BY <1>1, <2>1, ViewDepends DEF historyVars
<1>3. Making' = Making
  BY <1>1 DEF Making
<1>4. Seen' = Seen
  BY DEF Seen, historyVars
<1> QED
  BY <1>2, <1>3, <1>4 DEF Quiet

\* The handler of a new call: nobody has used its Call-ID.
LEMMA SaveBegins ==
  ASSUME IInv, PostInv, NEW t \in Caller, SaveAgentMsgHandler(t)
  PROVE  Begins
<1>1. PICK c \in CallId \ Used :
        /\ m_sip_msg_handler_map' = [m_sip_msg_handler_map EXCEPT ![c] = t]
        /\ caller' = [caller EXCEPT ![t] = [at |-> "saved", id |-> c, taken |-> NoMsg]]
  BY DEF SaveAgentMsgHandler
<1>2. /\ caller[t].at = "out" /\ caller[t].id = NoId /\ m_sipstack_msg_ptr[t] = NoMsg
      /\ m_sipstack_msg_ptr' = [m_sipstack_msg_ptr EXCEPT ![t] = NoMsg]
      /\ posted' = posted /\ fate' = fate /\ result' = result
  BY DEF SaveAgentMsgHandler, historyVars, IInv, PlaceInv
<1>3. /\ c # NoId /\ t # NoOne
      /\ result[c].how = "open" /\ c \notin posted
      /\ m_sip_msg_handler_map[c] = NoOne
  BY SyncCallAssumption DEF Used, IInv, TypeInv, PlaceInv, UsedInv
<1>4. /\ m_sip_msg_handler_map'[c] = t
      /\ caller'[t] = [at |-> "saved", id |-> c, taken |-> NoMsg]
      /\ m_sipstack_msg_ptr'[t] = NoMsg
      /\ \A u \in Caller : u # t => /\ caller'[u] = caller[u]
                                    /\ m_sipstack_msg_ptr'[u] = m_sipstack_msg_ptr[u]
      /\ \A e \in CallId : e # c => m_sip_msg_handler_map'[e] = m_sip_msg_handler_map[e]
  BY <1>1, <1>2 DEF IInv, TypeInv
<1>5. ~Taking(c) /\ ~Taking(c)'
  BY <1>3, <1>4 DEF Taking
<1>6. Phase(c) = "new" /\ Kept(c) = NoMsg /\ Answer(c) = NoMsg
  BY <1>3, <1>5 DEF Phase, Kept, Answer
<1>7. Phase(c)' = "begun" /\ Kept(c)' = NoMsg /\ Answer(c)' = NoMsg
  BY <1>2, <1>3, <1>4, <1>5 DEF Phase, Kept, Answer
<1>8. Others(c)
  <2> SUFFICES ASSUME NEW e \in CallId, e # c PROVE SameView(e)
    BY DEF Others
  <2>1. e # caller[t].id
    BY <1>2, SyncCallAssumption
  <2> QED
    BY <1>2, <1>4, <2>1, OtherCalls
<1>9. Making[t] = NoId /\ Making' = [Making EXCEPT ![t] = c]
  BY <1>1, <1>2 DEF Making, IInv, TypeInv
<1>10. Seen' = Seen
  BY <1>2 DEF Seen
<1> QED
  BY <1>6, <1>7, <1>8, <1>9, <1>10 DEF Begins

\* RequestToPu takes the request or refuses it.
LEMMA RequestAsks ==
  ASSUME IInv, PostInv, PostInv', IInv', NEW t \in Caller, RequestToPu(t)
  PROVE  Asks
<1>1. PICK c \in CallId : c = caller[t].id
  BY DEF RequestToPu, IInv, PlaceInv
<1>2. /\ caller[t].at = "locked" /\ fate' = fate
      /\ m_sip_msg_handler_map' = m_sip_msg_handler_map
      /\ m_sipstack_msg_ptr' = m_sipstack_msg_ptr
      /\ \/ posted' = posted \cup {c} /\ Goto(t, "sent") /\ result' = result
         \/ /\ result' = [result EXCEPT ![c].how = "refused"]
            /\ Goto(t, "destroy") /\ posted' = posted
  BY <1>1 DEF RequestToPu
<1>3. /\ \A u \in Caller : /\ caller'[u].id = caller[u].id
                           /\ u # t => caller'[u] = caller[u]
      /\ caller'[t].at \in {"sent", "destroy"}
      /\ caller'[t].at = "destroy" => result'[c].how = "refused"
  BY <1>1, <1>2 DEF Goto, IInv, TypeInv
<1>4. Phase(c) = "begun" /\ Kept(c) = m_sipstack_msg_ptr[t] /\ Answer(c) = NoMsg
  <2>1. result[c].how = "open" /\ ~Taking(c)
    BY <1>1, <1>2, ViewInCall DEF IInv, PlaceInv, Taking
  <2> QED
    BY <1>1, <1>2, <2>1, ViewInCall DEF Answer
<1>5. Phase(c)' \in {"asked", "refused"} /\ Kept(c)' = NoMsg /\ Answer(c)' = NoMsg
  <2>1. /\ m_sip_msg_handler_map[c] = t /\ t # NoOne
        /\ result[c].how = "open" /\ m_sipstack_msg_ptr[t] = NoMsg
    BY <1>1, <1>2, SyncCallAssumption DEF IInv, PlaceInv, HandlerInv
  <2>2. ~Taking(c)'
    BY <1>2, <1>3, <2>1 DEF Taking
  <2>3. Kept(c)' = NoMsg
    BY <1>2, <2>1 DEF Kept
  <2>4. CASE posted' = posted \cup {c} /\ result' = result
    BY <2>1, <2>2, <2>3, <2>4 DEF Phase, Answer
  <2>5. CASE result'[c].how = "refused"
    BY <2>2, <2>3, <2>5 DEF Phase, Answer
  <2> QED
    BY <1>2, <2>4, <2>5 DEF IInv, TypeInv
<1>6. m_sipstack_msg_ptr[t] = NoMsg
  BY <1>2 DEF IInv, HandlerInv
<1>7. Others(c)
  <2> SUFFICES ASSUME NEW e \in CallId, e # c PROVE SameView(e)
    BY DEF Others
  <2>1. result'[e] = result[e] /\ (e \in posted' <=> e \in posted)
    BY <1>2 DEF IInv, TypeInv
  <2> QED
    BY <1>1, <1>2, <1>3, <2>1, OtherCalls
<1>8. Making[t] = c /\ Making' = Making
  BY <1>1, <1>3 DEF Making
<1>9. Seen' = Seen
  BY <1>2 DEF Seen
<1> QED
  BY <1>4, <1>5, <1>6, <1>7, <1>8, <1>9 DEF Asks

\* The call's instant is the moment GetMsg reads the pointer.
LEMMA GetMsgEnds ==
  ASSUME IInv, PostInv, NEW t \in Caller, GetMsg(t)
  PROVE  Ends
<1>1. PICK c \in CallId : c = caller[t].id
  BY DEF GetMsg, IInv, PlaceInv
<1>2. /\ caller[t].at = "released"
      /\ caller' = [caller EXCEPT ![t].at = "taking", ![t].taken = m_sipstack_msg_ptr[t]]
      /\ UNCHANGED <<handlerVars, historyVars>>
  BY DEF GetMsg
<1>3. /\ \A u \in Caller : /\ caller'[u].id = caller[u].id
                           /\ u # t => caller'[u] = caller[u]
      /\ caller'[t].at = "taking" /\ caller'[t].taken = m_sipstack_msg_ptr[t]
  BY <1>2 DEF IInv, TypeInv
<1>4. /\ m_sip_msg_handler_map[c] = t /\ t # NoOne /\ result[c].how = "open"
      /\ Phase(c) = "asked" /\ Kept(c) = m_sipstack_msg_ptr[t]
  BY <1>1, <1>2, ViewInCall DEF Asked, IInv, PlaceInv
<1>5. Taking(c)' /\ m_sip_msg_handler_map'[c] = t /\ result'[c] = result[c]
  BY <1>2, <1>3, <1>4 DEF Taking, handlerVars, historyVars
<1>6. Phase(c)' = "ended" /\ Answer(c)' = m_sipstack_msg_ptr[t] /\ Kept(c)' = NoMsg
  BY <1>3, <1>4, <1>5 DEF Phase, Answer, Kept
<1>7. Others(c)
  BY <1>1, <1>2, <1>3, OtherCalls DEF Others, handlerVars, historyVars
<1>8. Making[t] = c /\ Making' = Making
  BY <1>1, <1>3 DEF Making
<1>9. Seen' = Seen
  BY <1>2 DEF Seen, historyVars
<1> QED
  BY <1>4, <1>6, <1>7, <1>8, <1>9 DEF Ends

\* The caller clears the pointer when its call has ended.
LEMMA ClearQuiet ==
  ASSUME IInv, PostInv, NEW t \in Caller, ClearPtr(t)
  PROVE  Quiet
<1>1. PICK c \in CallId : c = caller[t].id
  BY DEF ClearPtr, IInv, PlaceInv
<1>2. /\ caller[t].at = "taking" /\ Goto(t, "destroy")
      /\ m_sipstack_msg_ptr' = [m_sipstack_msg_ptr EXCEPT ![t] = NoMsg]
      /\ result' = [result EXCEPT ![c] =
                      [how |-> IF caller[t].taken = NoMsg THEN "none" ELSE "message",
                       msg |-> caller[t].taken]]
      /\ m_sip_msg_handler_map' = m_sip_msg_handler_map
      /\ posted' = posted /\ fate' = fate
  BY <1>1 DEF ClearPtr
<1>3. /\ \A u \in Caller : /\ caller'[u].id = caller[u].id
                           /\ u # t => caller'[u] = caller[u]
      /\ caller'[t].at = "destroy"
      /\ \A u \in Caller : u # t => m_sipstack_msg_ptr'[u] = m_sipstack_msg_ptr[u]
      /\ \A e \in CallId : e # c => result'[e] = result[e]
      /\ result'[c].msg = caller[t].taken
      /\ result'[c].how = IF caller[t].taken = NoMsg THEN "none" ELSE "message"
  BY <1>2 DEF Goto, IInv, TypeInv
<1>4. /\ m_sip_msg_handler_map[c] = t /\ t # NoOne
      /\ Phase(c) = "ended" /\ Answer(c) = caller[t].taken /\ Kept(c) = NoMsg
  BY <1>1, <1>2, ViewInCall
<1>5. ~Taking(c)' /\ m_sip_msg_handler_map'[c] = t
  BY <1>2, <1>3, <1>4 DEF Taking
<1>6. SameView(c)
  <2>1. Phase(c)' = "ended"
    BY <1>3, <1>5 DEF Phase
  <2>2. Kept(c)' = NoMsg
    BY <1>3, <1>5 DEF Kept
  <2>3. Answer(c)' = caller[t].taken
    BY <1>3, <1>5 DEF Answer
  <2> QED
    BY <1>4, <2>1, <2>2, <2>3 DEF SameView
<1>7. \A e \in CallId : e # c => SameView(e)
  BY <1>1, <1>2, <1>3, OtherCalls
<1>8. Making' = Making
  BY <1>3 DEF Making
<1>9. Seen' = Seen
  BY <1>2 DEF Seen
<1> QED
  BY <1>6, <1>7, <1>8, <1>9 DEF Quiet

\* The destructor takes the call's handler out of the map.
LEMMA DeleteLeaves ==
  ASSUME IInv, PostInv, NEW t \in Caller, DeleteAgentMsgHandler(t)
  PROVE  Leaves
<1>1. PICK c \in CallId : c = caller[t].id
  BY DEF DeleteAgentMsgHandler, IInv, PlaceInv
<1>2. /\ caller[t].at = "destroy"
      /\ m_sip_msg_handler_map' = [m_sip_msg_handler_map EXCEPT ![c] = NoOne]
      /\ caller' = [caller EXCEPT ![t] = OutOfCall]
      /\ Destroyed(t)
      /\ m_sipstack_msg_ptr' = [m_sipstack_msg_ptr EXCEPT ![t] = NoMsg]
      /\ posted' = posted /\ result' = result
  BY <1>1 DEF DeleteAgentMsgHandler
<1>3. /\ \A u \in Caller : u # t => /\ caller'[u] = caller[u]
                                    /\ m_sipstack_msg_ptr'[u] = m_sipstack_msg_ptr[u]
      /\ m_sip_msg_handler_map'[c] = NoOne
      /\ \A e \in CallId : e # c => m_sip_msg_handler_map'[e] = m_sip_msg_handler_map[e]
  BY <1>2 DEF IInv, TypeInv
<1>4. /\ m_sip_msg_handler_map[c] = t /\ t # NoOne /\ result[c].how # "open"
      /\ result[c].how \in {"open", "refused", "none", "message"}
      /\ Phase(c) = IF result[c].how = "refused" THEN "refused" ELSE "ended"
      /\ Kept(c) = NoMsg
  BY <1>1, <1>2, ViewInCall DEF IInv, TypeInv, PlaceInv
<1>5. ~Taking(c) /\ ~Taking(c)'
  BY <1>2, <1>3, <1>4 DEF Taking
<1>6. SameView(c)
  <2>1. Phase(c)' = Phase(c)
    BY <1>2, <1>4, <1>5 DEF Phase
  <2>2. Kept(c)' = NoMsg
    BY <1>3 DEF Kept
  <2>3. Answer(c)' = Answer(c)
    BY <1>2, <1>5 DEF Answer
  <2> QED
    BY <1>4, <2>1, <2>2, <2>3 DEF SameView
<1>7. \A e \in CallId : e # c => SameView(e)
  BY <1>1, <1>2, <1>3, OtherCalls
<1>8. Making[t] = c /\ Making' = [Making EXCEPT ![t] = NoId]
  BY <1>1, <1>2 DEF Making, OutOfCall, IInv, TypeInv
<1>9. Seen' = Seen
  <2>1. m_sipstack_msg_ptr[t] # NoMsg =>
          m_sipstack_msg_ptr[t] \in Msg /\ fate[m_sipstack_msg_ptr[t]] = "stored"
    BY DEF IInv, TypeInv, HandlerInv
  <2> QED
    BY <1>2, <2>1 DEF Destroyed, Seen, IInv, TypeInv
<1>10. Phase(c) \in {"refused", "ended"}
  BY <1>4
<1> QED
  BY <1>6, <1>7, <1>8, <1>9, <1>10 DEF Leaves

\* A step of a thread of the agent server that stores and drops nothing.
LEMMA DispatchQuiet ==
  ASSUME IInv, NEW d \in Dispatcher,
         \/ HandlerAcquire(d) \/ HandlerSignal(d)
         \/ HandleRcvMsg(d) /\ fate' = fate
  PROVE  Quiet
<1>1. /\ m_sip_msg_handler_map' = m_sip_msg_handler_map
      /\ m_sipstack_msg_ptr' = m_sipstack_msg_ptr
      /\ posted' = posted /\ fate' = fate /\ result' = result
  BY DEF HandlerAcquire, HandlerSignal, HandleRcvMsg, handlerVars, historyVars
<1>2. \A u \in Caller : /\ caller'[u].id = caller[u].id
                        /\ caller'[u].taken = caller[u].taken
                        /\ \/ caller'[u].at = caller[u].at
                           \/ caller[u].at = "waiting" /\ caller'[u].at = "woken"
  BY DEF HandlerAcquire, HandlerSignal, HandleRcvMsg, IInv, TypeInv
<1>3. \A c \in CallId : SameView(c)
  <2> SUFFICES ASSUME NEW c \in CallId PROVE SameView(c)
    OBVIOUS
  <2>1. m_sip_msg_handler_map[c] # NoOne => m_sip_msg_handler_map[c] \in Caller
    BY DEF IInv, TypeInv
  <2> QED
    BY <1>1, <1>2, <2>1, ViewDepends
<1>4. Making' = Making /\ Seen' = Seen
  BY <1>1, <1>2 DEF Making, Seen
<1> QED
  BY <1>3, <1>4 DEF Quiet

\* HandleRcvMsg drops a message only when its call has ended.
LEMMA LookupDrops ==
  ASSUME IInv, PostInv, NEW d \in Dispatcher, HandleRcvMsg(d), fate' # fate
  PROVE  Drops
<1>1. PICK m \in Msg : /\ fate[m] = "arrived" /\ m_sip_msg_handler_map[m[1]] = NoOne
                       /\ fate' = [fate EXCEPT ![m] = "dropped"]
  BY DEF HandleRcvMsg
<1>2. /\ UNCHANGED <<handlerVars, caller, posted, result>>
  BY DEF HandleRcvMsg
<1>3. m[1] \in CallId /\ m[1] \in posted
  BY <1>1 DEF IInv, UsedInv, Msg
<1>4. m[1] \in Used /\ \A t \in Caller : caller[t].id # m[1]
  BY <1>1, <1>3, SyncCallAssumption DEF IInv, UsedInv, PlaceInv
<1>5. result[m[1]].how \in {"none", "message"}
  BY <1>3, <1>4 DEF Used, PostInv, IInv, TypeInv
<1>6. Phase(m[1]) = "ended"
  BY <1>5 DEF Phase
<1>7. \A c \in CallId : SameView(c)
  BY <1>2, ViewDepends DEF handlerVars
<1>8. m \notin Seen /\ Seen' = Seen \cup {m}
  BY <1>1 DEF Seen, IInv, TypeInv
<1>9. Making' = Making
  BY <1>2 DEF Making
<1> QED
  BY <1>6, <1>7, <1>8, <1>9 DEF Drops

\* What a dispatcher stores is given to the call, or comes too late for it.
LEMMA StoreGives ==
  ASSUME IInv, PostInv, NEW d \in Dispatcher, HandlerStore(d)
  PROVE  Gives \/ Drops
<1>1. PICK h \in Caller, m \in Msg : h = dispatch[d].handler /\ m = dispatch[d].msg
  BY DEF HandlerStore, IInv, DispatchInv
<1>2. /\ caller[h].at # "out" /\ caller[h].id = m[1] /\ fate[m] = "arrived"
      /\ m[1] \in CallId /\ m[1] \in posted
  BY <1>1 DEF HandlerStore, IInv, DispatchInv, UsedInv, Msg
<1>3. /\ m_sipstack_msg_ptr' = [m_sipstack_msg_ptr EXCEPT ![h] = m]
      /\ fate' = [n \in Msg |-> IF n = m THEN "stored"
                                ELSE IF n = m_sipstack_msg_ptr[h] THEN "overwritten"
                                ELSE fate[n]]
      /\ m_sip_msg_handler_map' = m_sip_msg_handler_map
      /\ caller' = caller /\ posted' = posted /\ result' = result
  BY <1>1 DEF HandlerStore
<1>4. m \notin Seen /\ Seen' = Seen \cup {m}
  <2>1. m_sipstack_msg_ptr[h] \in Msg => fate[m_sipstack_msg_ptr[h]] = "stored"
    BY NoMsgAssumption DEF IInv, HandlerInv
  <2> QED
    BY <1>2, <1>3, <2>1 DEF Seen, IInv, TypeInv
<1>5. Making' = Making
  BY <1>3 DEF Making
<1>6. Others(m[1])
  <2> SUFFICES ASSUME NEW e \in CallId, e # m[1] PROVE SameView(e)
    BY DEF Others
  <2>1. \A u \in Caller : u # h => /\ caller'[u] = caller[u]
                                   /\ m_sipstack_msg_ptr'[u] = m_sipstack_msg_ptr[u]
    BY <1>3 DEF IInv, TypeInv
  <2> QED
    BY <1>2, <1>3, <2>1, OtherCalls
<1>7. /\ m_sip_msg_handler_map[m[1]] = h /\ h # NoOne
      /\ Taking(m[1])' <=> Taking(m[1])
  BY <1>2, <1>3, ViewInCall DEF Taking
<1>8. Phase(m[1])' = Phase(m[1])
  BY <1>3, <1>7 DEF Phase
<1>9. Answer(m[1])' = Answer(m[1])
  BY <1>3, <1>7 DEF Answer, Taking
<1>10. CASE caller[h].at \in {"taking", "destroy"}
  <2>1. Phase(m[1]) = "ended"
    BY <1>2, <1>10, ViewInCall DEF PostInv
  <2>2. Kept(m[1]) = NoMsg /\ Kept(m[1])' = NoMsg
    BY <1>3, <1>7, <1>10 DEF Kept
  <2>3. \A c \in CallId : SameView(c)
    BY <1>6, <1>8, <1>9, <2>2 DEF Others, SameView
  <2> QED
    BY <1>4, <1>5, <2>1, <2>3 DEF Drops
<1>11. CASE caller[h].at \notin {"taking", "destroy"}
  <2>1. caller[h].at \in Asked
    BY <1>2, <1>11 DEF Asked, IInv, TypeInv, CallerPlace, HandlerInv
  <2>2. Phase(m[1]) = "asked"
    BY <1>2, <2>1, ViewInCall
  <2>3. Kept(m[1])' = m
    <3>1. m_sipstack_msg_ptr'[h] = m
      BY <1>3 DEF IInv, TypeInv
    <3> QED
      BY <1>3, <1>7, <1>11, <3>1 DEF Kept
  <2> QED
    BY <1>4, <1>5, <1>6, <1>8, <1>9, <2>2, <2>3 DEF Gives
<1> QED
  BY <1>10, <1>11

\* Every step of callers and dispatchers is one of a call, or is not seen.
LEMMA NextCall ==
  ASSUME IInv, PostInv, [Next]_vars
  PROVE  CallStep
<1>1. ASSUME NEW t \in Caller,
             Acquire(t) \/ WaitMsg(t) \/ Timeout(t) \/ Return(t) \/ Release(t)
      PROVE  Quiet
  <2>1. PICK place \in {"locked", "waiting", "woken", "relocked", "released"} : Goto(t, place)
    BY <1>1 DEF Acquire, WaitMsg, Timeout, Return, Release
  <2>2. /\ caller[t].at \notin {"out", "taking", "destroy"}
        /\ m_sip_msg_handler_map' = m_sip_msg_handler_map
        /\ m_sipstack_msg_ptr' = m_sipstack_msg_ptr
        /\ UNCHANGED historyVars
    BY <1>1 DEF Acquire, WaitMsg, Timeout, Return, Release, handlerVars
  <2>3. place \in CallerPlace \ {"taking", "destroy"}
    BY DEF CallerPlace
  <2> QED
    BY <2>1, <2>2, <2>3, QuietMove
<1>2. ASSUME NEW t \in Caller, SaveAgentMsgHandler(t) \/ InCall(t)
      PROVE  CallStep
  <2>1. IInv' /\ PostInv'
    BY NextInv, PostStep
  <2> QED
    BY <1>1, <1>2, <2>1, SaveBegins, RequestAsks, GetMsgEnds, ClearQuiet, DeleteLeaves
       DEF InCall, CallStep
<1>3. ASSUME NEW m \in Msg, Arrive(m)
      PROVE  Quiet
  <2>1. /\ fate[m] = "absent" /\ fate' = [fate EXCEPT ![m] = "arrived"]
        /\ UNCHANGED <<handlerVars, caller, posted, result>>
    BY <1>3 DEF Arrive
  <2>2. Seen' = Seen
    BY <2>1 DEF Seen, IInv, TypeInv
  <2>3. \A c \in CallId : SameView(c)
    BY <2>1, ViewDepends DEF handlerVars
  <2> QED
    BY <2>1, <2>2, <2>3 DEF Quiet, Making
<1>4. ASSUME NEW d \in Dispatcher, HandleRcvMsg(d) \/ InHandler(d)
      PROVE  CallStep
  BY <1>4, DispatchQuiet, LookupDrops, StoreGives DEF InHandler, CallStep
<1>5. CASE UNCHANGED vars
  <2>1. \A c \in CallId : SameView(c)
    BY <1>5, ViewDepends DEF vars
  <2> QED
    BY <1>5, <2>1 DEF vars, CallStep, Quiet, Making, Seen
<1> QED
  BY <1>2, <1>3, <1>4, <1>5 DEF Next, CallStep

\* Nobody is in a call at first.
LEMMA InitCalls == Init => Calls!Init
<1> SUFFICES ASSUME Init PROVE Calls!Init
  OBVIOUS
<1>1. \A t \in Caller : caller[t].id = NoId
  BY DEF Init, OutOfCall
<1>2. \A c \in CallId : ~Taking(c)
  BY DEF Init, Taking
<1>3. \A c \in CallId : Phase(c) = "new" /\ Kept(c) = NoMsg /\ Answer(c) = NoMsg
  BY <1>2 DEF Init, Phase, Kept, Answer
<1>4. {m \in Msg : fate[m] \notin {"absent", "arrived"}} = {}
  BY DEF Init
<1> QED
  BY <1>1, <1>3, <1>4 DEF Calls!Init

\* The view of one call as the functions of the abstract specification.
Phases == [c \in CallId |-> Phase(c)]
Boxes == [c \in CallId |-> Kept(c)]
Answers == [c \in CallId |-> Answer(c)]

LEMMA AllSame ==
  ASSUME \A c \in CallId : SameView(c)
  PROVE  Phases' = Phases /\ Boxes' = Boxes /\ Answers' = Answers
BY DEF SameView, Phases, Boxes, Answers

LEMMA OneChanged ==
  ASSUME NEW c \in CallId, Others(c)
  PROVE  /\ Phases' = [Phases EXCEPT ![c] = Phase(c)']
         /\ Boxes' = [Boxes EXCEPT ![c] = Kept(c)']
         /\ Answers' = [Answers EXCEPT ![c] = Answer(c)']
         /\ Kept(c)' = Kept(c) => Boxes' = Boxes
         /\ Answer(c)' = Answer(c) => Answers' = Answers
         /\ Phase(c)' = Phase(c) => Phases' = Phases
BY DEF Others, SameView, Phases, Boxes, Answers

\* A synchronous call of the application is atomic.
THEOREM CallsAreAtomic == Spec => BlockingCalls
<1>1. IInv /\ PostInv /\ [Next]_vars => [Calls!Next]_(Calls!vars)
  <2> SUFFICES ASSUME IInv, PostInv, [Next]_vars
               PROVE  Calls!Next \/ UNCHANGED Calls!vars
    OBVIOUS
  <2>1. CASE Quiet
    BY <2>1, AllSame DEF Quiet, Making, Seen, Phases, Boxes, Answers, Calls!vars
  <2>2. CASE Begins
    <3>1. PICK t \in Caller, c \in CallId :
            /\ Making[t] = NoId /\ Making' = [Making EXCEPT ![t] = c]
            /\ Phases[c] = "new" /\ Phases' = [Phases EXCEPT ![c] = "begun"]
            /\ Boxes' = Boxes /\ Answers' = Answers /\ Seen' = Seen
      BY <2>2, OneChanged DEF Begins, Phases
    <3>2. Calls!Begin(t, c)
      BY <3>1 DEF Making, Phases, Boxes, Answers, Seen, Calls!Begin, Calls!Turn
    <3> QED
      BY <3>2 DEF Calls!Next
  <2>3. CASE Asks
    <3>1. PICK t \in Caller, c \in CallId :
            /\ Making[t] = c /\ Making' = Making
            /\ Phases[c] = "begun"
            /\ \/ Phases' = [Phases EXCEPT ![c] = "asked"]
               \/ Phases' = [Phases EXCEPT ![c] = "refused"]
            /\ Boxes' = Boxes /\ Answers' = Answers /\ Seen' = Seen
      BY <2>3, OneChanged DEF Asks, Phases
    <3>2. Calls!Ask(t, c)
      BY <3>1 DEF Making, Phases, Boxes, Answers, Seen, Calls!Ask, Calls!Turn
    <3> QED
      BY <3>2 DEF Calls!Next
  <2>4. CASE Ends
    <3>1. PICK t \in Caller, c \in CallId :
            /\ Making[t] = c /\ Making' = Making
            /\ Phases[c] = "asked" /\ Phases' = [Phases EXCEPT ![c] = "ended"]
            /\ Answers' = [Answers EXCEPT ![c] = Boxes[c]]
            /\ Boxes' = [Boxes EXCEPT ![c] = NoMsg] /\ Seen' = Seen
      BY <2>4, OneChanged DEF Ends, Phases, Boxes
    <3>2. Calls!End(t, c)
      BY <3>1 DEF Making, Phases, Boxes, Answers, Seen, Calls!End, Calls!Turn
    <3> QED
      BY <3>2 DEF Calls!Next
  <2>5. CASE Leaves
    <3>1. PICK t \in Caller, c \in CallId :
            /\ Making[t] = c /\ Making' = [Making EXCEPT ![t] = NoId]
            /\ Phases[c] \in {"refused", "ended"}
            /\ Phases' = Phases /\ Boxes' = Boxes /\ Answers' = Answers /\ Seen' = Seen
      BY <2>5, AllSame DEF Leaves, Phases
    <3>2. Calls!Leave(t, c)
      BY <3>1 DEF Making, Phases, Boxes, Answers, Seen, Calls!Leave
    <3> QED
      BY <3>2 DEF Calls!Next
  <2>6. CASE Gives
    <3>1. PICK m \in Msg :
            /\ m \notin Seen /\ Seen' = Seen \cup {m}
            /\ m[1] \in CallId /\ Phases[m[1]] = "asked" /\ Phases' = Phases
            /\ Boxes' = [Boxes EXCEPT ![m[1]] = m] /\ Answers' = Answers
            /\ Making' = Making
      BY <2>6, OneChanged DEF Gives, Phases, Msg
    <3>2. Calls!Give(m)
      BY <3>1 DEF Making, Phases, Boxes, Answers, Seen, Calls!Give
    <3> QED
      BY <3>2 DEF Calls!Next
  <2>7. CASE Drops
    <3>1. PICK m \in Msg :
            /\ m \notin Seen /\ Seen' = Seen \cup {m}
            /\ m[1] \in CallId /\ Phases[m[1]] = "ended" /\ Phases' = Phases
            /\ Boxes' = Boxes /\ Answers' = Answers /\ Making' = Making
      BY <2>7, AllSame DEF Drops, Phases, Msg
    <3>2. Calls!Drop(m)
      BY <3>1 DEF Making, Phases, Boxes, Answers, Seen, Calls!Drop
    <3> QED
      BY <3>2 DEF Calls!Next
  <2> QED
    BY <2>1, <2>2, <2>3, <2>4, <2>5, <2>6, <2>7, NextCall DEF CallStep
<1>2. Init => PostInv
  BY DEF Init, PostInv, OutOfCall
<1> QED
  BY <1>1, <1>2, InitCalls, PostStep, Invariant, PTL DEF Spec, BlockingCalls, Calls!Spec
=============================================================================
