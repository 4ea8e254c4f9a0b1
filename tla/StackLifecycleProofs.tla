------------------------ MODULE StackLifecycleProofs ------------------------
(***************************************************************************)
(* Proofs about StackLifecycle, with CConnMgr and CNVSTimer in it, for     *)
(* every number of starts, failed and successful ones in any order.        *)
(***************************************************************************)
EXTENDS StackLifecycle, TLAPS

\* The places of SIP_SDK_Init and SIP_SDK_UnInit, and those of the latter from
\* one on: the order of the code.
InitPlaces ==
  {"InitMiniSip", "ConnMgr", "regUdpSocket", "event thread", "NVS init",
   "register timer", "register msg", "NVS run", "server"}
AfterLib == {"NVS flag", "clearTimer", "NVS join", "delete"}
AfterExit == {"DeInit"} \cup AfterLib
AfterRemove == {"exit flag", "exit join"} \cup AfterExit
AfterClose == {"removeHandle"} \cup AfterRemove
AfterEvent == {"close"} \cup AfterClose
AfterCancel == {"event flag", "event join"} \cup AfterEvent
UnInitPlaces ==
  {"task flag", "task join", "server join", "cancel timer", "cancel msg"} \cup AfterCancel

\* Everything has been started, or is being stopped.
Up == g_isInit \/ main = "server"

\* Where a call is and what is in use: the last start's objects.
PlaceInv ==
  /\ main # "no call" \/ g_isInit => starts # 0 /\ object[starts] = "live"
  /\ main \in InitPlaces => ~g_isInit
  /\ main \in UnInitPlaces => g_isInit
  /\ Up => g_pSipStack = starts
  /\ \A n \in Start : object[n] = "none" <=> n > starts

\* The library, which a start that failed leaves initialised.
LibInv ==
  /\ Up /\ main \notin AfterLib => lib
  /\ main \in InitPlaces \ {"InitMiniSip"} => lib
  /\ main \in AfterLib => ~lib
  /\ starts # 0 /\ object[starts] = "deleted" => ~lib

\* The three threads of the process run only while everything is up, and each
\* no longer than until it is joined.
ThreadInv ==
  /\ task # "off" => g_isInit /\ main \in {"no call", "task flag", "task join"}
  /\ server # "off" =>
       g_isInit /\ main \in {"no call", "task flag", "task join", "server join"}
  /\ timer.at \notin {"off", "ended"} => Up /\ main # "delete"
  /\ queued => Up

\* The event threads: one works only for the stack that is up, and before it
\* is joined.
EventInv ==
  \A n \in Start :
    /\ event[n] = "busy" => n = starts /\ Up
    /\ object[n] = "none" => event[n] = "off"
    /\ object[n] = "deleted" \/ (n = starts /\ main \in AfterEvent) => event[n] = "ended"

\* The sockets: the one that is open has the port, and what SIP_SDK_UnInit has
\* closed, detached and joined stays so.
ConnInv ==
  /\ \A n \in Start :
       /\ handle[n].open <=> port = n
       /\ object[n] = "none" => select[n].at = "off" /\ port # n
       /\ object[n] = "deleted" => select[n].at = "ended" /\ port # n /\ m_pUdpSockMgr # n
       /\ n = starts /\ main \in AfterClose => port # n
       /\ n = starts /\ main \in AfterRemove => node[n] # "listed"
       /\ n = starts /\ main \in AfterExit => select[n].at = "ended"
  /\ Up /\ main \notin AfterExit => m_pUdpSockMgr = starts
  /\ main \in InitPlaces \ {"InitMiniSip", "ConnMgr"} => m_pUdpSockMgr = starts
  /\ main \in AfterExit => m_pUdpSockMgr = 0
  /\ RemovedIsQuiet

\* The triggers that may be in the timer's list at a place.
Registered ==
  IF main \in {"register timer"} \cup AfterCancel THEN {}
  ELSE IF main = "register msg" THEN {TimerTrigger(starts)}
  ELSE IF main = "cancel msg" THEN {MsgTimerTrigger(starts)}
  ELSE {TimerTrigger(starts), MsgTimerTrigger(starts)}

\* The timer's list: the scan is over what it holds, and it holds the
\* registered triggers of the stack that is up, once TimerInitCall has thrown
\* away what a failed start left.
TimerInv ==
  /\ timer.todo \subseteq {t \in Trigger : item[t] = "listed"}
  /\ ListIsFree => timer.todo = {}
  /\ timer.calls # NoTrigger <=> timer.at = "call"
  /\ \A t \in Trigger :
       /\ item[t] = "fired" <=> timer.calls = t
       /\ item[t] \in {"listed", "fired"} =>
            /\ trigger[t] = "live"
            /\ Up \/ main \in {"register timer", "register msg", "NVS run"} =>
                 t \in Registered

\* The inductive invariant.
IInv ==
  TypeOK /\ PlaceInv /\ LibInv /\ ThreadInv /\ EventInv /\ ConnInv /\ TimerInv

-----------------------------------------------------------------------------
(* Types, one component at a time.                                         *)

\* The types of CConnMgr's variables one by one.
LEMMA ConnTypes ==
  ConnTypeOK <=>
    /\ m_pUdpSockMgr \in 0..MaxStarts
    /\ m_bExit \in [Start -> BOOLEAN]
    /\ select \in [Start -> [at : {"off", "while", "set", "select", "check", "recv", "ended"},
                             readSet : BOOLEAN]]
    /\ node \in [Start -> {"none", "listed", "removed", "erased", "freed"}]
    /\ handle \in [Start -> [open : BOOLEAN, EPOLLIN : BOOLEAN, m_bReadSelected : BOOLEAN]]
    /\ port \in 0..MaxStarts
    /\ pending \in BOOLEAN
BY DEF ConnTypeOK

\* Setting or clearing EPOLLIN of a handle, opening or closing it, and moving a
\* thread on, keep the types.
LEMMA ReadableSet ==
  ASSUME ConnTypeOK, NEW n \in Start, NEW b \in BOOLEAN,
         handle' = [handle EXCEPT ![n].EPOLLIN = b]
  PROVE  /\ (handle \in [Start -> [open : BOOLEAN, EPOLLIN : BOOLEAN, m_bReadSelected : BOOLEAN]])'
         /\ \A k \in Start : handle'[k].open = handle[k].open
BY DEF ConnTypeOK

LEMMA OpenSet ==
  ASSUME ConnTypeOK, NEW n \in Start, NEW b \in BOOLEAN,
         handle' = [handle EXCEPT ![n].open = b]
  PROVE  (handle \in [Start -> [open : BOOLEAN, EPOLLIN : BOOLEAN, m_bReadSelected : BOOLEAN]])'
BY DEF ConnTypeOK

LEMMA ThreadMoves ==
  ASSUME ConnTypeOK, NEW n \in Start, GoTo(n, "while")
  PROVE  /\ (select \in [Start -> [at : {"off", "while", "set", "select", "check", "recv", "ended"},
                                   readSet : BOOLEAN]])'
         /\ select'[n].at = "while"
         /\ \A k \in Start : k # n => select'[k] = select[k]
BY DEF ConnTypeOK, GoTo

\* The operations of the owner keep them ...
LEMMA ConnCallTyped ==
  ASSUME ConnTypeOK, NEW n \in Start,
         \/ ConnInitRun(n) \/ regUdpSocket(n) \/ removeUdpSocketClose(n)
         \/ removeHandle(n) \/ ConnExitFlag(n) \/ ConnExitDelete(n)
  PROVE  ConnTypeOK'
<1>1. n \in 0..MaxStarts /\ 0 \in 0..MaxStarts
  BY LifecycleAssumption DEF Start
<1>2. CASE ConnInitRun(n)
  BY <1>1, <1>2 DEF ConnTypeOK, ConnInitRun, GoTo
<1>3. CASE regUdpSocket(n)
  <2>1. (handle \in [Start -> [open : BOOLEAN, EPOLLIN : BOOLEAN, m_bReadSelected : BOOLEAN]])'
    BY <1>3 DEF ConnTypeOK, regUdpSocket
  <2> QED
    BY <1>1, <1>3, <2>1 DEF ConnTypeOK, regUdpSocket
<1>4. CASE removeUdpSocketClose(n) \/ removeHandle(n)
  <2>1. /\ close(n)
        /\ UNCHANGED <<m_pUdpSockMgr, m_bExit, select>>
        /\ \/ UNCHANGED node
           \/ node' = [node EXCEPT ![n] = IF @ = "listed" THEN "removed" ELSE @]
    BY <1>4 DEF removeUdpSocketClose, removeHandle
  <2>2. (node \in [Start -> {"none", "listed", "removed", "erased", "freed"}])'
    BY <2>1 DEF ConnTypeOK
  <2>3. (handle \in [Start -> [open : BOOLEAN, EPOLLIN : BOOLEAN, m_bReadSelected : BOOLEAN]])'
    <3>1. handle' = [handle EXCEPT ![n].open = FALSE]
      BY <2>1 DEF close
    <3> QED
      BY <3>1, OpenSet
  <2>4. pending' \in BOOLEAN /\ port' \in 0..MaxStarts
    BY <1>1, <2>1 DEF ConnTypeOK, close
  <2> QED
    BY <2>1, <2>2, <2>3, <2>4 DEF ConnTypeOK
<1>5. CASE ConnExitFlag(n)
  BY <1>5 DEF ConnTypeOK, ConnExitFlag
<1>6. CASE ConnExitDelete(n)
  <2>1. (node \in [Start -> {"none", "listed", "removed", "erased", "freed"}])'
    BY <1>6 DEF ConnTypeOK, ConnExitDelete
  <2> QED
    BY <1>1, <1>6, <2>1 DEF ConnTypeOK, ConnExitDelete
<1> QED
  BY <1>2, <1>3, <1>4, <1>5, <1>6

\* ... and so do the steps of its thread, which move on from where it is,
\* call back for listed nodes only, and erase nodes that were removed.
LEMMA SelectEffect ==
  ASSUME ConnTypeOK, NEW n \in Start, NEW received \in BOOLEAN,
         SelectThread(n) \/ handle_recv(n, received)
  PROVE  /\ ConnTypeOK'
         /\ UNCHANGED <<port, m_pUdpSockMgr, m_bExit>>
         /\ select[n].at \notin {"off", "ended"}
         /\ select'[n].at = "recv" => node[n] = "listed"
         /\ node'[n] = node[n] \/ (node[n] = "removed" /\ node'[n] = "erased")
         /\ \A k \in Start : /\ handle'[k].open = handle[k].open
                             /\ k # n => select'[k] = select[k] /\ node'[k] = node[k]
<1> USE DEF ConnTypeOK
<1>1. CASE ConnWhile(n)
  BY <1>1 DEF ConnWhile, GoTo
<1>2. CASE setSelectFd(n)
  <2> DEFINE reads == node[n] = "listed" /\ handle[n].open /\ handle[n].EPOLLIN
  <2>1. /\ select[n].at = "set"
        /\ select' = [select EXCEPT ![n] =
                        [at |-> IF reads THEN "select" ELSE "while", readSet |-> reads]]
        /\ handle' = [handle EXCEPT ![n].m_bReadSelected =
                        IF node[n] = "listed" THEN reads ELSE @]
        /\ node' = [node EXCEPT ![n] = IF @ = "removed" THEN "erased" ELSE @]
        /\ UNCHANGED <<m_pUdpSockMgr, m_bExit, port, pending>>
    BY <1>2 DEF setSelectFd
  <2>2. reads \in BOOLEAN
    OBVIOUS
  <2> HIDE DEF reads
  <2>3. /\ (select \in [Start -> [at : {"off", "while", "set", "select", "check", "recv", "ended"},
                                  readSet : BOOLEAN]])'
        /\ select'[n].at # "recv"
        /\ \A k \in Start : k # n => select'[k] = select[k]
    BY <2>1, <2>2
  <2>4. /\ (node \in [Start -> {"none", "listed", "removed", "erased", "freed"}])'
        /\ node'[n] = node[n] \/ (node[n] = "removed" /\ node'[n] = "erased")
        /\ \A k \in Start : k # n => node'[k] = node[k]
    BY <2>1
  <2>5. /\ (handle \in [Start -> [open : BOOLEAN, EPOLLIN : BOOLEAN, m_bReadSelected : BOOLEAN]])'
        /\ \A k \in Start : handle'[k].open = handle[k].open
    BY <2>1, <2>2
  <2> QED
    BY <2>1, <2>3, <2>4, <2>5
<1>3. CASE Select(n)
  BY <1>3 DEF Select, GoTo
<1>4. CASE checkSelectEvent(n)
  <2> DEFINE calls == /\ node[n] = "listed" /\ handle[n].open
                      /\ select[n].readSet /\ handle[n].m_bReadSelected
  <2>1. /\ select[n].at = "check"
        /\ select' = [select EXCEPT ![n].at = IF calls THEN "recv" ELSE "while"]
        /\ handle' = [handle EXCEPT ![n].EPOLLIN = IF calls THEN FALSE ELSE @]
        /\ UNCHANGED <<m_pUdpSockMgr, m_bExit, node, port, pending>>
    BY <1>4 DEF checkSelectEvent, GoTo
  <2>2. calls => node[n] = "listed"
    OBVIOUS
  <2> HIDE DEF calls
  <2>3. /\ (select \in [Start -> [at : {"off", "while", "set", "select", "check", "recv", "ended"},
                                  readSet : BOOLEAN]])'
        /\ select'[n].at = "recv" => node[n] = "listed"
        /\ \A k \in Start : k # n => select'[k] = select[k]
    BY <2>1, <2>2
  <2>4. /\ (handle \in [Start -> [open : BOOLEAN, EPOLLIN : BOOLEAN, m_bReadSelected : BOOLEAN]])'
        /\ \A k \in Start : handle'[k].open = handle[k].open
    <3> DEFINE b == IF calls THEN FALSE ELSE handle[n].EPOLLIN
    <3>1. b \in BOOLEAN /\ handle' = [handle EXCEPT ![n].EPOLLIN = b]
      BY <2>1
    <3> HIDE DEF b
    <3> QED
      BY <3>1, ReadableSet
  <2> QED
    BY <2>1, <2>3, <2>4
<1>5. CASE handle_recv(n, received)
  <2>1. /\ select[n].at = "recv" /\ GoTo(n, "while")
        /\ handle' = [handle EXCEPT ![n].EPOLLIN = TRUE]
        /\ pending' = (pending /\ ~handle[n].open)
        /\ UNCHANGED <<m_pUdpSockMgr, m_bExit, node, port>>
    BY <1>5 DEF handle_recv, setHandleRecv
  <2>2. /\ (handle \in [Start -> [open : BOOLEAN, EPOLLIN : BOOLEAN, m_bReadSelected : BOOLEAN]])'
        /\ \A k \in Start : handle'[k].open = handle[k].open
    BY <2>1, ReadableSet
  <2>3. /\ (select \in [Start -> [at : {"off", "while", "set", "select", "check", "recv", "ended"},
                                  readSet : BOOLEAN]])'
        /\ select'[n].at = "while"
        /\ \A k \in Start : k # n => select'[k] = select[k]
    BY <2>1, ThreadMoves
  <2>4. ConnTypeOK'
    BY <2>1, <2>2, <2>3, ConnTypes
  <2> QED
    BY <2>1, <2>2, <2>3, <2>4
<1> QED
  BY <1>1, <1>2, <1>3, <1>4, <1>5 DEF SelectThread

\* The operations on CNVSTimer's list keep its types, and so does its thread.
LEMMA TimerTyped ==
  ASSUME TimerTypeOK,
         \/ TimerInitCall \/ TimerRun \/ TimerExitFlag \/ clearTimer \/ TimerThread
         \/ \E t \in Trigger : registerTimer(t) \/ cancelTimer(t)
  PROVE  TimerTypeOK'
<1> USE DEF TimerTypeOK, ItemState, Listed
<1>1. CASE TimerInitCall
  BY <1>1 DEF TimerInitCall
<1>2. CASE TimerRun
  BY <1>2 DEF TimerRun
<1>3. CASE TimerExitFlag
  BY <1>3 DEF TimerExitFlag
<1>4. CASE clearTimer
  BY <1>4 DEF clearTimer
<1>5. CASE TimerWhile \/ TimerUnlock
  BY <1>5 DEF TimerWhile, TimerUnlock
<1>6. CASE TimerLock
  <2>1. {t \in Trigger : item[t] = "listed"} \in SUBSET Trigger
    OBVIOUS
  <2> QED
    BY <1>6, <2>1 DEF TimerLock
<1>7. CASE TimerReturn
  BY <1>7 DEF TimerReturn
<1>8. ASSUME NEW t \in Trigger, TimerCall(t) PROVE TimerTypeOK'
  BY <1>8 DEF TimerCall
<1>9. ASSUME NEW t \in Trigger, registerTimer(t) PROVE TimerTypeOK'
  BY <1>9 DEF registerTimer
<1>10. ASSUME NEW t \in Trigger, cancelTimer(t) PROVE TimerTypeOK'
  BY <1>10 DEF cancelTimer
<1> QED
  BY <1>1, <1>2, <1>3, <1>4, <1>5, <1>6, <1>7, <1>8, <1>9, <1>10 DEF TimerThread

-----------------------------------------------------------------------------
(* The inductive invariant: the beginning, and what the proofs of the      *)
(* steps share.                                                            *)

\* What the invariant says of types, one variable at a time.
LEMMA Types ==
  ASSUME IInv
  PROVE  /\ ConnTypeOK /\ TimerTypeOK
         /\ main \in Places /\ starts \in 0..MaxStarts /\ MaxStarts \in Nat
         /\ starts # 0 => starts \in Start /\ starts > 0
         /\ 0 \in 0..MaxStarts /\ \A n \in Start : n # 0
         /\ g_isInit \in BOOLEAN /\ lib \in BOOLEAN /\ queued \in BOOLEAN
         /\ m_work_b \in BOOLEAN /\ m_run_b \in BOOLEAN
         /\ object \in [Start -> {"none", "live", "deleted"}]
         /\ g_pSipStack \in 0..MaxStarts
         /\ task \in Thread /\ server \in Thread
         /\ event \in [Start -> Thread]
         /\ m_bProcEventThreadRun \in [Start -> BOOLEAN]
BY LifecycleAssumption DEF IInv, TypeOK, Start

\* After a step, types need be shown of the variables only: that what is in
\* use belongs to the last start is PlaceInv's.
LEMMA TypeOKNext ==
  ASSUME ConnTypeOK', TimerTypeOK', PlaceInv',
         main' \in Places, starts' \in 0..MaxStarts,
         g_isInit' \in BOOLEAN, lib' \in BOOLEAN, queued' \in BOOLEAN,
         m_work_b' \in BOOLEAN, m_run_b' \in BOOLEAN,
         object' \in [Start -> {"none", "live", "deleted"}],
         g_pSipStack' \in 0..MaxStarts,
         task' \in Thread, server' \in Thread,
         event' \in [Start -> Thread],
         m_bProcEventThreadRun' \in [Start -> BOOLEAN]
  PROVE  TypeOK'
BY DEF TypeOK, PlaceInv, Up

\* The two triggers of a stack are triggers, and different ones.
LEMMA Triggers ==
  ASSUME NEW n \in Start
  PROVE  /\ TimerTrigger(n) \in Trigger /\ MsgTimerTrigger(n) \in Trigger
         /\ TimerTrigger(n) # MsgTimerTrigger(n)
         /\ TimerTrigger(n)[1] = n /\ MsgTimerTrigger(n)[1] = n
BY LifecycleAssumption DEF TimerTrigger, MsgTimerTrigger

\* The initial states satisfy it.
LEMMA InitInv == Init => IInv
<1> SUFFICES ASSUME Init PROVE IInv
  OBVIOUS
<1>1. /\ main = "no call" /\ starts = 0 /\ g_isInit = FALSE /\ g_pSipStack = 0
      /\ lib = FALSE /\ task = "off" /\ server = "off" /\ queued = FALSE
      /\ m_work_b = FALSE /\ m_run_b = FALSE
      /\ object = [n \in Start |-> "none"]
      /\ event = [n \in Start |-> "off"]
      /\ m_bProcEventThreadRun = [n \in Start |-> FALSE]
      /\ m_pUdpSockMgr = 0 /\ port = 0 /\ pending = FALSE
      /\ m_bExit = [n \in Start |-> FALSE]
      /\ select = [n \in Start |-> [at |-> "off", readSet |-> FALSE]]
      /\ node = [n \in Start |-> "none"]
      /\ handle = [n \in Start |-> [open |-> FALSE, EPOLLIN |-> TRUE, m_bReadSelected |-> FALSE]]
      /\ trigger = [t \in Trigger |-> "none"]
      /\ item = [t \in Trigger |-> "none"]
      /\ timer = [at |-> "off", calls |-> NoTrigger, todo |-> {}]
      /\ timerExit = FALSE
  BY DEF Init, ConnInit, TimerInit
<1>2. MaxStarts \in Nat /\ Start = 1..MaxStarts /\ NoTrigger \notin Trigger
  BY LifecycleAssumption, NVSTimerAssumption DEF Start
<1>3. 0 \in 0..MaxStarts /\ \A n \in Start : n > 0 /\ n # 0
  BY LifecycleAssumption DEF Start
<1>4. PlaceInv
  BY <1>1, <1>3
     DEF PlaceInv, Up, InitPlaces, UnInitPlaces, AfterCancel, AfterEvent,
                    AfterClose, AfterRemove, AfterExit, AfterLib
<1>5. ConnTypeOK
  <2>1. /\ select \in [Start -> [at : {"off", "while", "set", "select", "check", "recv", "ended"},
                                 readSet : BOOLEAN]]
        /\ handle \in [Start -> [open : BOOLEAN, EPOLLIN : BOOLEAN, m_bReadSelected : BOOLEAN]]
    BY <1>1
  <2>2. m_pUdpSockMgr \in 0..MaxStarts /\ port \in 0..MaxStarts /\ pending \in BOOLEAN
    BY <1>1, <1>3
  <2> QED
    BY <1>1, <2>1, <2>2 DEF ConnTypeOK
<1>6. TimerTypeOK
  BY <1>1 DEF TimerTypeOK, ItemState
<1>7. TypeOK
  <2>1. starts \in 0..MaxStarts /\ g_pSipStack \in 0..MaxStarts
    BY <1>1, <1>3
  <2>2. /\ object \in [Start -> {"none", "live", "deleted"}]
        /\ event \in [Start -> Thread]
        /\ m_bProcEventThreadRun \in [Start -> BOOLEAN]
    BY <1>1 DEF Thread
  <2> QED
    BY <1>1, <1>5, <1>6, <2>1, <2>2 DEF TypeOK, Places, Thread
<1>8. LibInv /\ ThreadInv
  BY <1>1 DEF LibInv, ThreadInv, Up, InitPlaces, AfterLib
<1>9. EventInv
  BY <1>1, <1>3
     DEF EventInv, AfterEvent, AfterClose, AfterRemove, AfterExit, AfterLib
<1>10. ConnInv
  BY <1>1, <1>3
     DEF ConnInv, RemovedIsQuiet, Up, InitPlaces, AfterClose, AfterRemove,
                    AfterExit, AfterLib
<1>11. TimerInv
  BY <1>1, <1>2 DEF TimerInv, ListIsFree
<1> QED
  BY <1>4, <1>7, <1>8, <1>9, <1>10, <1>11 DEF IInv

-----------------------------------------------------------------------------
(* SIP_SDK_Init.                                                           *)

\* A new start gets new objects; nothing of it exists yet.
LEMMA StartInv ==
  ASSUME IInv, SIP_SDK_Init
  PROVE  IInv'
<1> USE DEF InitPlaces, UnInitPlaces, AfterCancel, AfterEvent, AfterClose,
             AfterRemove, AfterExit, AfterLib
<1>1. /\ main = "no call" /\ main' = "InitMiniSip"
      /\ ~g_isInit /\ starts < MaxStarts
      /\ starts' = starts + 1
      /\ object' = [object EXCEPT ![starts + 1] = "live"]
      /\ UNCHANGED <<connVars, timerVars, g_isInit, g_pSipStack, lib, threads>>
      /\ UNCHANGED <<task, m_work_b, server, m_run_b, event, m_bProcEventThreadRun, queued>>
      /\ UNCHANGED <<m_pUdpSockMgr, select, node, handle, port, trigger, item, timer>>
  BY DEF SIP_SDK_Init, At, Go, threads, connVars, timerVars
<1>2. PICK n \in Start : n = starts + 1
  <2>1. starts \in 0..MaxStarts /\ MaxStarts \in Nat
    BY Types
  <2>2. starts < MaxStarts
    BY <1>1
  <2>3. starts + 1 \in Start
    BY <2>1, <2>2 DEF Start
  <2> QED
    BY <2>3
<1>3. /\ \A k \in Start : k > n <=> k > starts /\ k # n
      /\ n # 0 /\ n # starts /\ n \in 0..MaxStarts
  BY <1>2, Types DEF Start
<1>4. /\ starts' = n /\ object' = [object EXCEPT ![n] = "live"]
      /\ object[n] = "none" /\ ~g_isInit /\ ~Up
  <2>1. n > starts
    BY <1>2, Types
  <2> QED
    BY <1>1, <1>2, <2>1 DEF IInv, PlaceInv, Up
<1>5. /\ (object' \in [Start -> {"none", "live", "deleted"}])
      /\ object'[n] = "live" /\ \A k \in Start : k # n => object'[k] = object[k]
  BY <1>4, Types
<1>6. PlaceInv'
  <2>1. \A k \in Start : object'[k] = "none" <=> k > n
    BY <1>3, <1>5 DEF IInv, PlaceInv
  <2>2. ~Up' /\ main' \notin UnInitPlaces
    BY <1>1, <1>4 DEF Up
  <2> QED
    <3>1. main' \notin InitPlaces \/ ~g_isInit'
      BY <1>1, <1>4
    <3> QED
      BY <1>3, <1>4, <1>5, <2>1, <2>2, <3>1 DEF PlaceInv
<1>7. ConnTypeOK'
  BY <1>1, Types DEF ConnTypeOK, connVars
<1>8. TimerTypeOK'
  BY <1>1, Types DEF TimerTypeOK, timerVars
<1>9. TypeOK'
  BY <1>1, <1>3, <1>4, <1>5, <1>6, <1>7, <1>8, Types, TypeOKNext
     DEF Places, Thread
<1>10. LibInv'
  BY <1>1, <1>4, <1>5 DEF IInv, LibInv, Up
<1>11. ThreadInv'
  BY <1>1 DEF IInv, ThreadInv, Up
<1>12. EventInv'
  BY <1>1, <1>5 DEF IInv, EventInv, Up
<1>13. ConnInv'
  BY <1>1, <1>3, <1>5 DEF IInv, ConnInv, RemovedIsQuiet, Up
<1>14. TimerInv'
  BY <1>1
     DEF IInv, TimerInv, Registered, ListIsFree, Up, TimerTrigger, MsgTimerTrigger
<1> QED
  BY <1>6, <1>9, <1>10, <1>11, <1>12, <1>13, <1>14 DEF IInv

\* A start that fails leaves everything as it is.
LEMMA InitFailsInv ==
  ASSUME IInv, InitFails
  PROVE  IInv'
<1> USE DEF InitPlaces, UnInitPlaces, AfterCancel, AfterEvent, AfterClose,
             AfterRemove, AfterExit, AfterLib
<1>1. /\ main \in InitPlaces /\ main # "server" /\ main' = "no call"
      /\ g_pSipStack' = starts
      /\ UNCHANGED <<connVars, timerVars, starts, g_isInit, object, lib, threads>>
      /\ UNCHANGED <<task, m_work_b, server, m_run_b, event, m_bProcEventThreadRun, queued>>
      /\ UNCHANGED <<m_pUdpSockMgr, select, node, handle, port, trigger, item, timer>>
  BY DEF InitFails, Go, threads, connVars, timerVars
<1>2. PlaceInv'
  BY <1>1 DEF IInv, PlaceInv, Up
<1>3. ConnTypeOK'
  BY <1>1, Types DEF ConnTypeOK, connVars
<1>4. TimerTypeOK'
  BY <1>1, Types DEF TimerTypeOK, timerVars
<1>5. TypeOK'
  BY <1>1, <1>2, <1>3, <1>4, Types, TypeOKNext DEF Places, Thread
<1>6. LibInv'
  BY <1>1 DEF IInv, LibInv, Up
<1>7. ThreadInv'
  BY <1>1 DEF IInv, ThreadInv, Up
<1>8. EventInv'
  BY <1>1 DEF IInv, EventInv, Up
<1>9. ConnInv'
  BY <1>1 DEF IInv, ConnInv, RemovedIsQuiet, Up
<1>10. TimerInv'
  BY <1>1
     DEF IInv, TimerInv, Registered, ListIsFree, Up, TimerTrigger, MsgTimerTrigger
<1> QED
  BY <1>2, <1>5, <1>6, <1>7, <1>8, <1>9, <1>10 DEF IInv

\* The library is initialised.
LEMMA InitMiniSipInv ==
  ASSUME IInv, InitMiniSip
  PROVE  IInv'
<1> USE DEF InitPlaces, UnInitPlaces, AfterCancel, AfterEvent, AfterClose,
             AfterRemove, AfterExit, AfterLib
<1>1. /\ main = "InitMiniSip" /\ main' = "ConnMgr" /\ lib' = TRUE
      /\ UNCHANGED <<connVars, timerVars, starts, g_isInit, object, g_pSipStack, threads>>
      /\ UNCHANGED <<task, m_work_b, server, m_run_b, event, m_bProcEventThreadRun, queued>>
      /\ UNCHANGED <<m_pUdpSockMgr, select, node, handle, port, trigger, item, timer>>
  BY DEF InitMiniSip, At, Go, threads, connVars, timerVars
<1>2. PlaceInv'
  BY <1>1 DEF IInv, PlaceInv, Up
<1>3. ConnTypeOK'
  BY <1>1, Types DEF ConnTypeOK, connVars
<1>4. TimerTypeOK'
  BY <1>1, Types DEF TimerTypeOK, timerVars
<1>5. TypeOK'
  BY <1>1, <1>2, <1>3, <1>4, Types, TypeOKNext DEF Places, Thread
<1>6. LibInv'
  BY <1>1 DEF IInv, PlaceInv, LibInv, Up
<1>7. ThreadInv'
  BY <1>1 DEF IInv, ThreadInv, Up
<1>8. EventInv'
  BY <1>1 DEF IInv, EventInv, Up
<1>9. ConnInv'
  BY <1>1 DEF IInv, ConnInv, RemovedIsQuiet, Up
<1>10. TimerInv'
  BY <1>1
     DEF IInv, TimerInv, Registered, ListIsFree, Up, TimerTrigger, MsgTimerTrigger
<1> QED
  BY <1>2, <1>5, <1>6, <1>7, <1>8, <1>9, <1>10 DEF IInv

\* The network manager and its thread.
LEMMA ConnMgrInv ==
  ASSUME IInv, At("ConnMgr"), InitConn
  PROVE  IInv'
<1> USE DEF InitPlaces, UnInitPlaces, AfterCancel, AfterEvent, AfterClose,
             AfterRemove, AfterExit, AfterLib
<1>1. /\ main = "ConnMgr" /\ main' = "regUdpSocket"
      /\ ConnInitRun(starts)
      /\ m_pUdpSockMgr' = starts
      /\ select' = [select EXCEPT ![starts].at = "while"]
      /\ UNCHANGED <<node, handle, port>>
      /\ UNCHANGED <<timerVars, trigger, item, timer>>
      /\ UNCHANGED <<starts, g_isInit, object, g_pSipStack, lib>>
      /\ UNCHANGED <<task, m_work_b, server, m_run_b, event, m_bProcEventThreadRun, queued>>
  BY DEF At, Go, InitConn, ConnInitRun, GoTo, sdk, threads, timerVars
<1>2. starts \in Start /\ object[starts] = "live"
  BY <1>1, Types DEF IInv, PlaceInv
<1>3. PlaceInv'
  BY <1>1 DEF IInv, PlaceInv, Up
<1>4. ConnTypeOK'
  BY <1>1, <1>2, Types, ConnCallTyped
<1>5. TimerTypeOK'
  BY <1>1, Types DEF TimerTypeOK, timerVars
<1>6. TypeOK'
  BY <1>1, <1>3, <1>4, <1>5, Types, TypeOKNext DEF Places, Thread
<1>7. LibInv'
  BY <1>1 DEF IInv, LibInv, Up
<1>8. ThreadInv'
  BY <1>1 DEF IInv, ThreadInv, Up
<1>9. EventInv'
  BY <1>1 DEF IInv, EventInv, Up
<1>10. ConnInv'
  BY <1>1 DEF IInv, PlaceInv, ConnInv, RemovedIsQuiet, Up
<1>11. TimerInv'
  BY <1>1
     DEF IInv, TimerInv, Registered, ListIsFree, Up, TimerTrigger, MsgTimerTrigger
<1> QED
  BY <1>3, <1>6, <1>7, <1>8, <1>9, <1>10, <1>11 DEF IInv

\* The socket gets the port, which nobody has.
LEMMA RegUdpSocketInv ==
  ASSUME IInv, At("regUdpSocket"), InitConn
  PROVE  IInv'
<1> USE DEF InitPlaces, UnInitPlaces, AfterCancel, AfterEvent, AfterClose,
             AfterRemove, AfterExit, AfterLib
<1>1. /\ main = "regUdpSocket" /\ main' = "event thread"
      /\ regUdpSocket(starts)
      /\ select[starts].at # "recv" /\ port = 0 /\ port' = starts
      /\ handle' = [handle EXCEPT ![starts].open = TRUE, ![starts].EPOLLIN = TRUE]
      /\ node' = [node EXCEPT ![starts] = "listed"]
      /\ UNCHANGED <<m_pUdpSockMgr, select>>
      /\ UNCHANGED <<timerVars, trigger, item, timer>>
      /\ UNCHANGED <<starts, g_isInit, object, g_pSipStack, lib>>
      /\ UNCHANGED <<task, m_work_b, server, m_run_b, event, m_bProcEventThreadRun, queued>>
  BY
     DEF At, Go, InitConn, regUdpSocket, ListOfHandleIsFree, sdk, threads,
         timerVars
<1>2. starts \in Start /\ object[starts] = "live"
  BY <1>1, Types DEF IInv, PlaceInv
<1>3. handle'[starts].open /\ \A n \in Start : n # starts => handle'[n] = handle[n]
  <2>1. handle \in [Start -> [open : BOOLEAN, EPOLLIN : BOOLEAN, m_bReadSelected : BOOLEAN]]
    BY Types DEF ConnTypeOK
  <2>2. handle' = [handle EXCEPT ![starts].open = TRUE, ![starts].EPOLLIN = TRUE]
    BY <1>1
  <2> QED
    BY <1>2, <2>1, <2>2
<1>4. node'[starts] = "listed" /\ \A n \in Start : n # starts => node'[n] = node[n]
  BY <1>1, <1>2, Types DEF ConnTypeOK
<1>5. \A n \in Start : ~handle[n].open /\ port # n
  <2>1. \A n \in Start : n # 0
    BY DEF Start
  <2> QED
    BY <1>1, <2>1 DEF IInv, ConnInv
<1>6. PlaceInv'
  BY <1>1 DEF IInv, PlaceInv, Up
<1>7. ConnTypeOK'
  BY <1>1, <1>2, Types, ConnCallTyped
<1>8. TimerTypeOK'
  BY <1>1, Types DEF TimerTypeOK, timerVars
<1>9. TypeOK'
  BY <1>1, <1>6, <1>7, <1>8, Types, TypeOKNext DEF Places, Thread
<1>10. LibInv'
  BY <1>1 DEF IInv, LibInv, Up
<1>11. ThreadInv'
  BY <1>1 DEF IInv, ThreadInv, Up
<1>12. EventInv'
  BY <1>1 DEF IInv, EventInv, Up
<1>13. ConnInv'
  BY <1>1, <1>2, <1>3, <1>4, <1>5 DEF IInv, ConnInv, RemovedIsQuiet, Up
<1>14. TimerInv'
  BY <1>1
     DEF IInv, TimerInv, Registered, ListIsFree, Up, TimerTrigger, MsgTimerTrigger
<1> QED
  BY <1>6, <1>9, <1>10, <1>11, <1>12, <1>13, <1>14 DEF IInv

\* The event thread of this start.
LEMMA EventThreadStarts ==
  ASSUME IInv, InitEventThread
  PROVE  IInv'
<1> USE DEF InitPlaces, UnInitPlaces, AfterCancel, AfterEvent, AfterClose,
             AfterRemove, AfterExit, AfterLib
<1>1. /\ main = "event thread" /\ main' = "NVS init"
      /\ event' = [event EXCEPT ![starts] = "idle"]
      /\ m_bProcEventThreadRun' = [m_bProcEventThreadRun EXCEPT ![starts] = TRUE]
      /\ queued' = FALSE
      /\ UNCHANGED <<connVars, m_pUdpSockMgr, select, node, handle, port>>
      /\ UNCHANGED <<timerVars, trigger, item, timer>>
      /\ UNCHANGED <<starts, g_isInit, object, g_pSipStack, lib>>
      /\ UNCHANGED <<task, m_work_b, server, m_run_b>>
  BY DEF InitEventThread, At, Go, sdk, connVars, timerVars
<1>2. starts \in Start /\ object[starts] = "live"
  BY <1>1, Types DEF IInv, PlaceInv
<1>3. PlaceInv'
  BY <1>1 DEF IInv, PlaceInv, Up
<1>4. ConnTypeOK'
  BY <1>1, Types DEF ConnTypeOK, connVars
<1>5. TimerTypeOK'
  BY <1>1, Types DEF TimerTypeOK, timerVars
<1>6. TypeOK'
  BY <1>1, <1>3, <1>4, <1>5, Types, TypeOKNext DEF Places, Thread
<1>7. LibInv'
  BY <1>1 DEF IInv, LibInv, Up
<1>8. ThreadInv'
  BY <1>1 DEF IInv, ThreadInv, Up
<1>9. EventInv'
  BY <1>1, Types DEF IInv, PlaceInv, ThreadInv, EventInv, Up
<1>10. ConnInv'
  BY <1>1 DEF IInv, ConnInv, RemovedIsQuiet, Up
<1>11. TimerInv'
  BY <1>1
     DEF IInv, TimerInv, Registered, ListIsFree, Up, TimerTrigger, MsgTimerTrigger
<1> QED
  BY <1>3, <1>6, <1>7, <1>8, <1>9, <1>10, <1>11 DEF IInv

\* The timer starts with an empty list, whatever a start that failed left.
LEMMA TimerInitInv ==
  ASSUME IInv, At("NVS init"), InitTimer
  PROVE  IInv'
<1> USE DEF InitPlaces, UnInitPlaces, AfterCancel, AfterEvent, AfterClose,
             AfterRemove, AfterExit, AfterLib
<1>1. /\ main = "NVS init" /\ main' = "register timer"
      /\ TimerInitCall
      /\ item' = [t \in Trigger |-> IF t \in Listed THEN "lost" ELSE item[t]]
      /\ UNCHANGED <<trigger, timer>>
      /\ UNCHANGED <<connVars, m_pUdpSockMgr, select, node, handle, port>>
      /\ UNCHANGED <<starts, g_isInit, object, g_pSipStack, lib>>
      /\ UNCHANGED <<task, m_work_b, server, m_run_b, event, m_bProcEventThreadRun, queued>>
  BY DEF At, Go, InitTimer, TimerInitCall, sdk, connVars, threads
<1>2. starts \in Start /\ object[starts] = "live"
  BY <1>1, Types DEF IInv, PlaceInv
<1>3. /\ ListIsFree /\ timer.calls = NoTrigger /\ NoTrigger \notin Trigger
      /\ timer.todo = {}
  BY <1>1, NVSTimerAssumption
     DEF IInv, ThreadInv, TimerInv, ListIsFree, Up, PlaceInv
<1>4. \A t \in Trigger : item'[t] \notin {"listed", "fired"}
  BY <1>1, <1>3 DEF IInv, TimerInv, Listed
<1>5. PlaceInv'
  BY <1>1 DEF IInv, PlaceInv, Up
<1>6. ConnTypeOK'
  BY <1>1, Types DEF ConnTypeOK, connVars
<1>7. TimerTypeOK'
  BY <1>1, Types, TimerTyped
<1>8. TypeOK'
  BY <1>1, <1>5, <1>6, <1>7, Types, TypeOKNext DEF Places, Thread
<1>9. LibInv'
  BY <1>1 DEF IInv, LibInv, Up
<1>10. ThreadInv'
  BY <1>1 DEF IInv, ThreadInv, Up
<1>11. EventInv'
  BY <1>1 DEF IInv, EventInv, Up
<1>12. ConnInv'
  BY <1>1 DEF IInv, ConnInv, RemovedIsQuiet, Up
<1>13. TimerInv'
  BY <1>1, <1>3, <1>4 DEF IInv, TimerInv, ListIsFree, Up
<1> QED
  BY <1>5, <1>8, <1>9, <1>10, <1>11, <1>12, <1>13 DEF IInv

\* A trigger is put into the list.
LEMMA RegisterTimerTrigger ==
  ASSUME IInv, At("register timer"), InitTimer
  PROVE  IInv'
<1> USE DEF InitPlaces, UnInitPlaces, AfterCancel, AfterEvent, AfterClose,
             AfterRemove, AfterExit, AfterLib
<1>1. /\ main = "register timer" /\ main' = "register msg"
      /\ registerTimer(TimerTrigger(starts)) /\ ListIsFree
      /\ trigger' = [trigger EXCEPT ![TimerTrigger(starts)] = "live"]
      /\ item' = [item EXCEPT ![TimerTrigger(starts)] = "listed"]
      /\ UNCHANGED timer
      /\ UNCHANGED <<connVars, m_pUdpSockMgr, select, node, handle, port>>
      /\ UNCHANGED <<starts, g_isInit, object, g_pSipStack, lib>>
      /\ UNCHANGED <<task, m_work_b, server, m_run_b, event, m_bProcEventThreadRun, queued>>
  BY DEF At, Go, InitTimer, registerTimer, sdk, connVars, threads
<1>2. starts \in Start /\ object[starts] = "live"
  BY <1>1, Types DEF IInv, PlaceInv
<1>3. PICK t0 \in Trigger : t0 = TimerTrigger(starts)
  BY <1>2, Triggers
<1>4. \A t \in Trigger : /\ item'[t] = IF t = t0 THEN "listed" ELSE item[t]
                         /\ trigger'[t] = IF t = t0 THEN "live" ELSE trigger[t]
  BY <1>1, <1>3, Types DEF TimerTypeOK
<1>5. /\ ListIsFree /\ timer.calls = NoTrigger /\ NoTrigger \notin Trigger
      /\ timer.todo = {}
  BY <1>1, NVSTimerAssumption
     DEF IInv, ThreadInv, TimerInv, ListIsFree, Up, PlaceInv
<1>6. \A t \in Trigger :
        item[t] \in {"listed", "fired"} => trigger[t] = "live" /\ t \in Registered
  BY <1>1 DEF IInv, TimerInv
<1>7. /\ Registered' = {TimerTrigger(starts)} /\ t0 \in Registered'
      /\ Registered \subseteq Registered'
  BY <1>1, <1>3 DEF Registered, TimerTrigger, MsgTimerTrigger
<1>8. \A t \in Trigger : item[t] = "fired" <=> timer.calls = t
  BY DEF IInv, TimerInv
<1>9. PlaceInv'
  BY <1>1 DEF IInv, PlaceInv, Up
<1>10. ConnTypeOK'
  BY <1>1, Types DEF ConnTypeOK, connVars
<1>11. TimerTypeOK'
  BY <1>1, <1>2, Types, Triggers, TimerTyped
<1>12. TypeOK'
  BY <1>1, <1>9, <1>10, <1>11, Types, TypeOKNext DEF Places, Thread
<1>13. LibInv'
  BY <1>1 DEF IInv, LibInv, Up
<1>14. ThreadInv'
  BY <1>1 DEF IInv, ThreadInv, Up
<1>15. EventInv'
  BY <1>1 DEF IInv, EventInv, Up
<1>16. ConnInv'
  BY <1>1 DEF IInv, ConnInv, RemovedIsQuiet, Up
<1>17. TimerInv'
  <2>1. /\ timer' = timer /\ timer.at # "call" /\ timer.calls = NoTrigger /\ timer.todo = {}
    BY <1>1, <1>5 DEF ListIsFree
  <2>2. \A t \in Trigger : item'[t] = "fired" <=> timer.calls = t
    BY <1>3, <1>4, <1>5, <1>8
  <2>3. \A t \in Trigger :
          item'[t] \in {"listed", "fired"} => trigger'[t] = "live" /\ t \in Registered'
    BY <1>4, <1>6, <1>7
  <2> QED
    BY <2>1, <2>2, <2>3 DEF TimerInv, ListIsFree
<1> QED
  BY <1>9, <1>12, <1>13, <1>14, <1>15, <1>16, <1>17 DEF IInv

\* A trigger is put into the list.
LEMMA RegisterMsgTimerTrigger ==
  ASSUME IInv, At("register msg"), InitTimer
  PROVE  IInv'
<1> USE DEF InitPlaces, UnInitPlaces, AfterCancel, AfterEvent, AfterClose,
             AfterRemove, AfterExit, AfterLib
<1>1. /\ main = "register msg" /\ main' = "NVS run"
      /\ registerTimer(MsgTimerTrigger(starts)) /\ ListIsFree
      /\ trigger' = [trigger EXCEPT ![MsgTimerTrigger(starts)] = "live"]
      /\ item' = [item EXCEPT ![MsgTimerTrigger(starts)] = "listed"]
      /\ UNCHANGED timer
      /\ UNCHANGED <<connVars, m_pUdpSockMgr, select, node, handle, port>>
      /\ UNCHANGED <<starts, g_isInit, object, g_pSipStack, lib>>
      /\ UNCHANGED <<task, m_work_b, server, m_run_b, event, m_bProcEventThreadRun, queued>>
  BY DEF At, Go, InitTimer, registerTimer, sdk, connVars, threads
<1>2. starts \in Start /\ object[starts] = "live"
  BY <1>1, Types DEF IInv, PlaceInv
<1>3. PICK t0 \in Trigger : t0 = MsgTimerTrigger(starts)
  BY <1>2, Triggers
<1>4. \A t \in Trigger : /\ item'[t] = IF t = t0 THEN "listed" ELSE item[t]
                         /\ trigger'[t] = IF t = t0 THEN "live" ELSE trigger[t]
  BY <1>1, <1>3, Types DEF TimerTypeOK
<1>5. /\ ListIsFree /\ timer.calls = NoTrigger /\ NoTrigger \notin Trigger
      /\ timer.todo = {}
  BY <1>1, NVSTimerAssumption
     DEF IInv, ThreadInv, TimerInv, ListIsFree, Up, PlaceInv
<1>6. \A t \in Trigger :
        item[t] \in {"listed", "fired"} => trigger[t] = "live" /\ t \in Registered
  BY <1>1 DEF IInv, TimerInv
<1>7. /\ Registered' = {TimerTrigger(starts), MsgTimerTrigger(starts)} /\ t0 \in Registered'
      /\ Registered \subseteq Registered'
  BY <1>1, <1>3 DEF Registered, TimerTrigger, MsgTimerTrigger
<1>8. \A t \in Trigger : item[t] = "fired" <=> timer.calls = t
  BY DEF IInv, TimerInv
<1>9. PlaceInv'
  BY <1>1 DEF IInv, PlaceInv, Up
<1>10. ConnTypeOK'
  BY <1>1, Types DEF ConnTypeOK, connVars
<1>11. TimerTypeOK'
  BY <1>1, <1>2, Types, Triggers, TimerTyped
<1>12. TypeOK'
  BY <1>1, <1>9, <1>10, <1>11, Types, TypeOKNext DEF Places, Thread
<1>13. LibInv'
  BY <1>1 DEF IInv, LibInv, Up
<1>14. ThreadInv'
  BY <1>1 DEF IInv, ThreadInv, Up
<1>15. EventInv'
  BY <1>1 DEF IInv, EventInv, Up
<1>16. ConnInv'
  BY <1>1 DEF IInv, ConnInv, RemovedIsQuiet, Up
<1>17. TimerInv'
  <2>1. /\ timer' = timer /\ timer.at # "call" /\ timer.calls = NoTrigger /\ timer.todo = {}
    BY <1>1, <1>5 DEF ListIsFree
  <2>2. \A t \in Trigger : item'[t] = "fired" <=> timer.calls = t
    BY <1>3, <1>4, <1>5, <1>8
  <2>3. \A t \in Trigger :
          item'[t] \in {"listed", "fired"} => trigger'[t] = "live" /\ t \in Registered'
    BY <1>4, <1>6, <1>7
  <2> QED
    BY <2>1, <2>2, <2>3 DEF TimerInv, ListIsFree
<1> QED
  BY <1>9, <1>12, <1>13, <1>14, <1>15, <1>16, <1>17 DEF IInv

\* The timer's thread, which goes on from here by itself.
LEMMA TimerRunInv ==
  ASSUME IInv, InitTimerRun
  PROVE  IInv'
<1> USE DEF InitPlaces, UnInitPlaces, AfterCancel, AfterEvent, AfterClose,
             AfterRemove, AfterExit, AfterLib
<1>1. /\ main = "NVS run" /\ main' = "server"
      /\ TimerRun
      /\ timer' = [timer EXCEPT !.at = "while"]
      /\ g_pSipStack' = starts
      /\ UNCHANGED <<trigger, item>>
      /\ UNCHANGED <<starts, g_isInit, object, lib>>
      /\ UNCHANGED <<connVars, m_pUdpSockMgr, select, node, handle, port>>
      /\ UNCHANGED <<task, m_work_b, server, m_run_b, event, m_bProcEventThreadRun, queued>>
  BY DEF At, Go, InitTimerRun, TimerRun, connVars, threads
<1>2. starts \in Start /\ object[starts] = "live"
  BY <1>1, Types DEF IInv, PlaceInv
<1>3. timer'.at = "while" /\ timer'.calls = timer.calls /\ timer'.todo = timer.todo
  BY <1>1, Types DEF TimerTypeOK
<1>4. ListIsFree /\ timer.at # "call"
  BY <1>1 DEF IInv, ThreadInv, ListIsFree, Up, PlaceInv
<1>5. Registered' = Registered
  BY <1>1 DEF Registered, TimerTrigger, MsgTimerTrigger
<1>6. PlaceInv'
  BY <1>1 DEF IInv, PlaceInv, Up
<1>7. ConnTypeOK'
  BY <1>1, Types DEF ConnTypeOK, connVars
<1>8. TimerTypeOK'
  BY <1>1, Types, TimerTyped
<1>9. TypeOK'
  BY <1>1, <1>6, <1>7, <1>8, Types, TypeOKNext DEF Places, Thread
<1>10. LibInv'
  BY <1>1 DEF IInv, LibInv, Up
<1>11. ThreadInv'
  BY <1>1 DEF IInv, ThreadInv, Up
<1>12. EventInv'
  BY <1>1 DEF IInv, EventInv, Up
<1>13. ConnInv'
  BY <1>1 DEF IInv, ConnInv, RemovedIsQuiet, Up
<1>14. TimerInv'
  BY <1>1, <1>3, <1>4, <1>5 DEF IInv, TimerInv, ListIsFree, Up
<1> QED
  BY <1>6, <1>9, <1>10, <1>11, <1>12, <1>13, <1>14 DEF IInv

\* The server's threads and the stack thread.
LEMMA ServerStarts ==
  ASSUME IInv, InitServer
  PROVE  IInv'
<1> USE DEF InitPlaces, UnInitPlaces, AfterCancel, AfterEvent, AfterClose,
             AfterRemove, AfterExit, AfterLib
<1>1. /\ main = "server" /\ main' = "no call"
      /\ server' = "idle" /\ m_run_b' = TRUE
      /\ task' = "idle" /\ m_work_b' = TRUE
      /\ g_isInit' = TRUE
      /\ UNCHANGED <<starts, object, g_pSipStack, lib, event, m_bProcEventThreadRun, queued>>
      /\ UNCHANGED <<connVars, m_pUdpSockMgr, select, node, handle, port>>
      /\ UNCHANGED <<timerVars, trigger, item, timer>>
  BY DEF At, Go, InitServer, connVars, timerVars
<1>2. starts \in Start /\ object[starts] = "live"
  BY <1>1, Types DEF IInv, PlaceInv
<1>3. PlaceInv'
  BY <1>1 DEF IInv, PlaceInv, Up
<1>4. ConnTypeOK'
  BY <1>1, Types DEF ConnTypeOK, connVars
<1>5. TimerTypeOK'
  BY <1>1, Types DEF TimerTypeOK, timerVars
<1>6. TypeOK'
  BY <1>1, <1>3, <1>4, <1>5, Types, TypeOKNext DEF Places, Thread
<1>7. LibInv'
  BY <1>1 DEF IInv, LibInv, Up
<1>8. ThreadInv'
  BY <1>1 DEF IInv, ThreadInv, Up
<1>9. EventInv'
  BY <1>1 DEF IInv, EventInv, Up
<1>10. ConnInv'
  BY <1>1 DEF IInv, ConnInv, RemovedIsQuiet, Up
<1>11. TimerInv'
  BY <1>1
     DEF IInv, TimerInv, Registered, ListIsFree, Up, TimerTrigger, MsgTimerTrigger
<1> QED
  BY <1>3, <1>6, <1>7, <1>8, <1>9, <1>10, <1>11 DEF IInv

-----------------------------------------------------------------------------
(* SIP_SDK_UnInit.                                                         *)

\* The last start was a success.
LEMMA StopInv ==
  ASSUME IInv, SIP_SDK_UnInit
  PROVE  IInv'
<1> USE DEF InitPlaces, UnInitPlaces, AfterCancel, AfterEvent, AfterClose,
             AfterRemove, AfterExit, AfterLib
<1>1. /\ main = "no call" /\ main' = "task flag" /\ g_isInit
      /\ UNCHANGED <<connVars, m_pUdpSockMgr, select, node, handle, port>>
      /\ UNCHANGED <<timerVars, trigger, item, timer>>
      /\ UNCHANGED <<starts, g_isInit, object, g_pSipStack, lib>>
      /\ UNCHANGED <<task, m_work_b, server, m_run_b, event, m_bProcEventThreadRun, queued>>
  BY DEF At, Go, SIP_SDK_UnInit, sdk, threads, connVars, timerVars
<1>2. starts \in Start /\ object[starts] = "live" /\ g_isInit
  BY <1>1, Types DEF IInv, PlaceInv
<1>3. PlaceInv'
  BY <1>1 DEF IInv, PlaceInv, Up
<1>4. ConnTypeOK'
  BY <1>1, Types DEF ConnTypeOK, connVars
<1>5. TimerTypeOK'
  BY <1>1, Types DEF TimerTypeOK, timerVars
<1>6. TypeOK'
  BY <1>1, <1>3, <1>4, <1>5, Types, TypeOKNext DEF Places, Thread
<1>7. LibInv'
  BY <1>1 DEF IInv, LibInv, Up
<1>8. ThreadInv'
  BY <1>1 DEF IInv, ThreadInv, Up
<1>9. EventInv'
  BY <1>1 DEF IInv, EventInv, Up
<1>10. ConnInv'
  BY <1>1 DEF IInv, ConnInv, RemovedIsQuiet, Up
<1>11. TimerInv'
  BY <1>1
     DEF IInv, TimerInv, Registered, ListIsFree, Up, TimerTrigger, MsgTimerTrigger
<1> QED
  BY <1>3, <1>6, <1>7, <1>8, <1>9, <1>10, <1>11 DEF IInv

\* The stack thread is told to end ...
LEMMA TaskFlagInv ==
  ASSUME IInv, At("task flag"), FiniTask
  PROVE  IInv'
<1> USE DEF InitPlaces, UnInitPlaces, AfterCancel, AfterEvent, AfterClose,
             AfterRemove, AfterExit, AfterLib
<1>1. /\ main = "task flag" /\ main' = "task join"
      /\ m_work_b' = FALSE
      /\ UNCHANGED <<connVars, m_pUdpSockMgr, select, node, handle, port>>
      /\ UNCHANGED <<timerVars, trigger, item, timer>>
      /\ UNCHANGED <<starts, g_isInit, object, g_pSipStack, lib>>
      /\ UNCHANGED <<task, server, m_run_b, event, m_bProcEventThreadRun, queued>>
  BY DEF At, Go, FiniTask, sdk, threads, connVars, timerVars
<1>2. starts \in Start /\ object[starts] = "live" /\ g_isInit
  BY <1>1, Types DEF IInv, PlaceInv
<1>3. PlaceInv'
  BY <1>1 DEF IInv, PlaceInv, Up
<1>4. ConnTypeOK'
  BY <1>1, Types DEF ConnTypeOK, connVars
<1>5. TimerTypeOK'
  BY <1>1, Types DEF TimerTypeOK, timerVars
<1>6. TypeOK'
  BY <1>1, <1>3, <1>4, <1>5, Types, TypeOKNext DEF Places, Thread
<1>7. LibInv'
  BY <1>1 DEF IInv, LibInv, Up
<1>8. ThreadInv'
  BY <1>1 DEF IInv, ThreadInv, Up
<1>9. EventInv'
  BY <1>1 DEF IInv, EventInv, Up
<1>10. ConnInv'
  BY <1>1 DEF IInv, ConnInv, RemovedIsQuiet, Up
<1>11. TimerInv'
  BY <1>1
     DEF IInv, TimerInv, Registered, ListIsFree, Up, TimerTrigger, MsgTimerTrigger
<1> QED
  BY <1>3, <1>6, <1>7, <1>8, <1>9, <1>10, <1>11 DEF IInv

\* ... and joined.
LEMMA TaskJoinInv ==
  ASSUME IInv, At("task join"), FiniTask
  PROVE  IInv'
<1> USE DEF InitPlaces, UnInitPlaces, AfterCancel, AfterEvent, AfterClose,
             AfterRemove, AfterExit, AfterLib
<1>1. /\ main = "task join" /\ main' = "server join"
      /\ task' = "off" /\ m_run_b' = FALSE
      /\ UNCHANGED <<connVars, m_pUdpSockMgr, select, node, handle, port>>
      /\ UNCHANGED <<timerVars, trigger, item, timer>>
      /\ UNCHANGED <<starts, g_isInit, object, g_pSipStack, lib>>
      /\ UNCHANGED <<m_work_b, server, event, m_bProcEventThreadRun, queued>>
  BY DEF At, Go, FiniTask, sdk, threads, connVars, timerVars
<1>2. starts \in Start /\ object[starts] = "live" /\ g_isInit
  BY <1>1, Types DEF IInv, PlaceInv
<1>3. PlaceInv'
  BY <1>1 DEF IInv, PlaceInv, Up
<1>4. ConnTypeOK'
  BY <1>1, Types DEF ConnTypeOK, connVars
<1>5. TimerTypeOK'
  BY <1>1, Types DEF TimerTypeOK, timerVars
<1>6. TypeOK'
  BY <1>1, <1>3, <1>4, <1>5, Types, TypeOKNext DEF Places, Thread
<1>7. LibInv'
  BY <1>1 DEF IInv, LibInv, Up
<1>8. ThreadInv'
  BY <1>1 DEF IInv, ThreadInv, Up
<1>9. EventInv'
  BY <1>1 DEF IInv, EventInv, Up
<1>10. ConnInv'
  BY <1>1 DEF IInv, ConnInv, RemovedIsQuiet, Up
<1>11. TimerInv'
  BY <1>1
     DEF IInv, TimerInv, Registered, ListIsFree, Up, TimerTrigger, MsgTimerTrigger
<1> QED
  BY <1>3, <1>6, <1>7, <1>8, <1>9, <1>10, <1>11 DEF IInv

\* So are the server's threads.
LEMMA ServerJoinInv ==
  ASSUME IInv, FiniServer
  PROVE  IInv'
<1> USE DEF InitPlaces, UnInitPlaces, AfterCancel, AfterEvent, AfterClose,
             AfterRemove, AfterExit, AfterLib
<1>1. /\ main = "server join" /\ main' = "cancel timer"
      /\ server' = "off"
      /\ UNCHANGED <<connVars, m_pUdpSockMgr, select, node, handle, port>>
      /\ UNCHANGED <<timerVars, trigger, item, timer>>
      /\ UNCHANGED <<starts, g_isInit, object, g_pSipStack, lib>>
      /\ UNCHANGED <<task, m_work_b, m_run_b, event, m_bProcEventThreadRun, queued>>
  BY DEF At, Go, FiniServer, sdk, threads, connVars, timerVars
<1>2. starts \in Start /\ object[starts] = "live" /\ g_isInit
  BY <1>1, Types DEF IInv, PlaceInv
<1>3. PlaceInv'
  BY <1>1 DEF IInv, PlaceInv, Up
<1>4. ConnTypeOK'
  BY <1>1, Types DEF ConnTypeOK, connVars
<1>5. TimerTypeOK'
  BY <1>1, Types DEF TimerTypeOK, timerVars
<1>6. TypeOK'
  BY <1>1, <1>3, <1>4, <1>5, Types, TypeOKNext DEF Places, Thread
<1>7. LibInv'
  BY <1>1 DEF IInv, LibInv, Up
<1>8. ThreadInv'
  BY <1>1 DEF IInv, ThreadInv, Up
<1>9. EventInv'
  BY <1>1 DEF IInv, EventInv, Up
<1>10. ConnInv'
  BY <1>1 DEF IInv, ConnInv, RemovedIsQuiet, Up
<1>11. TimerInv'
  BY <1>1
     DEF IInv, TimerInv, Registered, ListIsFree, Up, TimerTrigger, MsgTimerTrigger
<1> QED
  BY <1>3, <1>6, <1>7, <1>8, <1>9, <1>10, <1>11 DEF IInv

\* A trigger is cancelled while the timer's thread is not in a scan.
LEMMA CancelTimerTrigger ==
  ASSUME IInv, At("cancel timer"), FiniTimer
  PROVE  IInv'
<1> USE DEF InitPlaces, UnInitPlaces, AfterCancel, AfterEvent, AfterClose,
             AfterRemove, AfterExit, AfterLib
<1>1. /\ main = "cancel timer" /\ main' = "cancel msg"
      /\ cancelTimer(TimerTrigger(starts)) /\ ListIsFree
      /\ trigger' = [trigger EXCEPT ![TimerTrigger(starts)] = "deleted"]
      /\ item' = [item EXCEPT ![TimerTrigger(starts)] = IF @ = "listed" THEN "removed" ELSE @]
      /\ UNCHANGED timer
      /\ UNCHANGED <<connVars, m_pUdpSockMgr, select, node, handle, port>>
      /\ UNCHANGED <<starts, g_isInit, object, g_pSipStack, lib>>
      /\ UNCHANGED <<task, m_work_b, server, m_run_b, event, m_bProcEventThreadRun, queued>>
  BY DEF At, Go, FiniTimer, cancelTimer, sdk, threads, connVars, timerVars
<1>2. starts \in Start /\ object[starts] = "live" /\ g_isInit
  BY <1>1, Types DEF IInv, PlaceInv
<1>3. PICK t0 \in Trigger : t0 = TimerTrigger(starts)
  BY <1>2, Triggers
<1>4. /\ timer.calls = NoTrigger /\ timer.todo = {} /\ timer.at # "call"
      /\ item[t0] # "fired"
  BY <1>1, <1>3, NVSTimerAssumption DEF IInv, TimerInv, ListIsFree
<1>5. \A t \in Trigger :
        /\ t # t0 => item'[t] = item[t] /\ trigger'[t] = trigger[t]
        /\ item'[t0] \notin {"listed", "fired"}
  BY <1>1, <1>3, <1>4, Types DEF TimerTypeOK
<1>6. /\ Registered = {TimerTrigger(starts), MsgTimerTrigger(starts)}
      /\ Registered' = {MsgTimerTrigger(starts)}
  BY <1>1 DEF Registered, TimerTrigger, MsgTimerTrigger
<1>7. \A t \in Trigger : t \in Registered /\ t # t0 => t \in Registered'
  BY <1>3, <1>6
<1>8. PlaceInv'
  BY <1>1 DEF IInv, PlaceInv, Up
<1>9. ConnTypeOK'
  BY <1>1, Types DEF ConnTypeOK, connVars
<1>10. TimerTypeOK'
  BY <1>1, <1>2, Types, Triggers, TimerTyped
<1>11. TypeOK'
  BY <1>1, <1>8, <1>9, <1>10, Types, TypeOKNext DEF Places, Thread
<1>12. LibInv'
  BY <1>1 DEF IInv, LibInv, Up
<1>13. ThreadInv'
  BY <1>1 DEF IInv, ThreadInv, Up
<1>14. EventInv'
  BY <1>1 DEF IInv, EventInv, Up
<1>15. ConnInv'
  BY <1>1 DEF IInv, ConnInv, RemovedIsQuiet, Up
<1>16. TimerInv'
  <2>1. timer' = timer /\ \A t \in Trigger : item'[t] # "fired" /\ timer.calls # t
    BY <1>1, <1>4, <1>5, NVSTimerAssumption DEF IInv, TimerInv
  <2>2. \A t \in Trigger :
          item'[t] \in {"listed", "fired"} => trigger'[t] = "live" /\ t \in Registered'
    BY <1>2, <1>5, <1>7 DEF IInv, TimerInv, Up
  <2> QED
    BY <1>4, <2>1, <2>2 DEF TimerInv, ListIsFree
<1> QED
  BY <1>8, <1>11, <1>12, <1>13, <1>14, <1>15, <1>16 DEF IInv

\* A trigger is cancelled while the timer's thread is not in a scan.
LEMMA CancelMsgTimerTrigger ==
  ASSUME IInv, At("cancel msg"), FiniTimer
  PROVE  IInv'
<1> USE DEF InitPlaces, UnInitPlaces, AfterCancel, AfterEvent, AfterClose,
             AfterRemove, AfterExit, AfterLib
<1>1. /\ main = "cancel msg" /\ main' = "event flag"
      /\ cancelTimer(MsgTimerTrigger(starts)) /\ ListIsFree
      /\ trigger' = [trigger EXCEPT ![MsgTimerTrigger(starts)] = "deleted"]
      /\ item' = [item EXCEPT ![MsgTimerTrigger(starts)] = IF @ = "listed" THEN "removed" ELSE @]
      /\ UNCHANGED timer
      /\ UNCHANGED <<connVars, m_pUdpSockMgr, select, node, handle, port>>
      /\ UNCHANGED <<starts, g_isInit, object, g_pSipStack, lib>>
      /\ UNCHANGED <<task, m_work_b, server, m_run_b, event, m_bProcEventThreadRun, queued>>
  BY DEF At, Go, FiniTimer, cancelTimer, sdk, threads, connVars, timerVars
<1>2. starts \in Start /\ object[starts] = "live" /\ g_isInit
  BY <1>1, Types DEF IInv, PlaceInv
<1>3. PICK t0 \in Trigger : t0 = MsgTimerTrigger(starts)
  BY <1>2, Triggers
<1>4. /\ timer.calls = NoTrigger /\ timer.todo = {} /\ timer.at # "call"
      /\ item[t0] # "fired"
  BY <1>1, <1>3, NVSTimerAssumption DEF IInv, TimerInv, ListIsFree
<1>5. \A t \in Trigger :
        /\ t # t0 => item'[t] = item[t] /\ trigger'[t] = trigger[t]
        /\ item'[t0] \notin {"listed", "fired"}
  BY <1>1, <1>3, <1>4, Types DEF TimerTypeOK
<1>6. Registered = {MsgTimerTrigger(starts)} /\ Registered' = {}
  BY <1>1 DEF Registered, TimerTrigger, MsgTimerTrigger
<1>7. \A t \in Trigger : t \in Registered /\ t # t0 => t \in Registered'
  BY <1>3, <1>6
<1>8. PlaceInv'
  BY <1>1 DEF IInv, PlaceInv, Up
<1>9. ConnTypeOK'
  BY <1>1, Types DEF ConnTypeOK, connVars
<1>10. TimerTypeOK'
  BY <1>1, <1>2, Types, Triggers, TimerTyped
<1>11. TypeOK'
  BY <1>1, <1>8, <1>9, <1>10, Types, TypeOKNext DEF Places, Thread
<1>12. LibInv'
  BY <1>1 DEF IInv, LibInv, Up
<1>13. ThreadInv'
  BY <1>1 DEF IInv, ThreadInv, Up
<1>14. EventInv'
  BY <1>1 DEF IInv, EventInv, Up
<1>15. ConnInv'
  BY <1>1 DEF IInv, ConnInv, RemovedIsQuiet, Up
<1>16. TimerInv'
  <2>1. timer' = timer /\ \A t \in Trigger : item'[t] # "fired" /\ timer.calls # t
    BY <1>1, <1>4, <1>5, NVSTimerAssumption DEF IInv, TimerInv
  <2>2. \A t \in Trigger :
          item'[t] \in {"listed", "fired"} => trigger'[t] = "live" /\ t \in Registered'
    BY <1>2, <1>5, <1>7 DEF IInv, TimerInv, Up
  <2> QED
    BY <1>4, <2>1, <2>2 DEF TimerInv, ListIsFree
<1> QED
  BY <1>8, <1>11, <1>12, <1>13, <1>14, <1>15, <1>16 DEF IInv

\* The event thread is told to end ...
LEMMA EventFlagInv ==
  ASSUME IInv, At("event flag"), FiniEvent
  PROVE  IInv'
<1> USE DEF InitPlaces, UnInitPlaces, AfterCancel, AfterEvent, AfterClose,
             AfterRemove, AfterExit, AfterLib
<1>1. /\ main = "event flag" /\ main' = "event join"
      /\ UNCHANGED <<connVars, m_pUdpSockMgr, select, node, handle, port>>
      /\ UNCHANGED <<timerVars, trigger, item, timer>>
      /\ UNCHANGED <<starts, g_isInit, object, g_pSipStack, lib>>
      /\ UNCHANGED <<task, m_work_b, server, m_run_b, event, queued>>
      /\ m_bProcEventThreadRun' = [m_bProcEventThreadRun EXCEPT ![starts] = FALSE]
  BY DEF At, Go, FiniEvent, sdk, threads, connVars, timerVars
<1>2. starts \in Start /\ object[starts] = "live" /\ g_isInit
  BY <1>1, Types DEF IInv, PlaceInv
<1>3. Registered' = Registered
  BY <1>1 DEF Registered, TimerTrigger, MsgTimerTrigger
<1>4. PlaceInv'
  BY <1>1 DEF IInv, PlaceInv, Up
<1>5. ConnTypeOK'
  BY <1>1, Types DEF ConnTypeOK, connVars
<1>6. TimerTypeOK'
  BY <1>1, Types DEF TimerTypeOK, timerVars
<1>7. TypeOK'
  BY <1>1, <1>4, <1>5, <1>6, Types, TypeOKNext DEF Places, Thread
<1>8. LibInv'
  BY <1>1 DEF IInv, LibInv, Up
<1>9. ThreadInv'
  BY <1>1 DEF IInv, ThreadInv, Up
<1>10. EventInv'
  BY <1>1 DEF IInv, EventInv, Up
<1>11. ConnInv'
  BY <1>1 DEF IInv, ConnInv, RemovedIsQuiet, Up
<1>12. TimerInv'
  BY <1>1, <1>3 DEF IInv, TimerInv, ListIsFree, Up
<1> QED
  BY <1>4, <1>7, <1>8, <1>9, <1>10, <1>11, <1>12 DEF IInv

\* ... and joined.
LEMMA EventJoinInv ==
  ASSUME IInv, At("event join"), FiniEvent
  PROVE  IInv'
<1> USE DEF InitPlaces, UnInitPlaces, AfterCancel, AfterEvent, AfterClose,
             AfterRemove, AfterExit, AfterLib
<1>1. /\ main = "event join" /\ main' = "close"
      /\ event[starts] = "ended"
      /\ UNCHANGED <<connVars, m_pUdpSockMgr, select, node, handle, port>>
      /\ UNCHANGED <<timerVars, trigger, item, timer>>
      /\ UNCHANGED <<starts, g_isInit, object, g_pSipStack, lib>>
      /\ UNCHANGED <<task, m_work_b, server, m_run_b, event, m_bProcEventThreadRun, queued>>
  BY DEF At, Go, FiniEvent, sdk, threads, connVars, timerVars
<1>2. starts \in Start /\ object[starts] = "live" /\ g_isInit
  BY <1>1, Types DEF IInv, PlaceInv
<1>3. Registered' = Registered
  BY <1>1 DEF Registered, TimerTrigger, MsgTimerTrigger
<1>4. PlaceInv'
  BY <1>1 DEF IInv, PlaceInv, Up
<1>5. ConnTypeOK'
  BY <1>1, Types DEF ConnTypeOK, connVars
<1>6. TimerTypeOK'
  BY <1>1, Types DEF TimerTypeOK, timerVars
<1>7. TypeOK'
  BY <1>1, <1>4, <1>5, <1>6, Types, TypeOKNext DEF Places, Thread
<1>8. LibInv'
  BY <1>1 DEF IInv, LibInv, Up
<1>9. ThreadInv'
  BY <1>1 DEF IInv, ThreadInv, Up
<1>10. EventInv'
  BY <1>1 DEF IInv, EventInv, Up
<1>11. ConnInv'
  BY <1>1 DEF IInv, ConnInv, RemovedIsQuiet, Up
<1>12. TimerInv'
  BY <1>1, <1>3 DEF IInv, TimerInv, ListIsFree, Up
<1> QED
  BY <1>4, <1>7, <1>8, <1>9, <1>10, <1>11, <1>12 DEF IInv

\* The socket is closed ...
LEMMA CloseInv ==
  ASSUME IInv, At("close"), FiniConn
  PROVE  IInv'
<1> USE DEF InitPlaces, UnInitPlaces, AfterCancel, AfterEvent, AfterClose,
             AfterRemove, AfterExit, AfterLib
<1>1. /\ main = "close" /\ main' = "removeHandle"
      /\ removeUdpSocketClose(starts)
      /\ handle' = [handle EXCEPT ![starts].open = FALSE]
      /\ port' = (IF handle[starts].open THEN 0 ELSE port)
      /\ UNCHANGED <<m_pUdpSockMgr, select, node>>
      /\ UNCHANGED <<timerVars, trigger, item, timer>>
      /\ UNCHANGED <<starts, g_isInit, object, g_pSipStack, lib>>
      /\ UNCHANGED <<task, m_work_b, server, m_run_b, event, m_bProcEventThreadRun, queued>>
  BY
     DEF At, Go, FiniConn, removeUdpSocketClose, close, sdk, threads, connVars,
         timerVars
<1>2. starts \in Start /\ object[starts] = "live" /\ g_isInit
  BY <1>1, Types DEF IInv, PlaceInv
<1>3. Registered' = Registered
  BY <1>1 DEF Registered, TimerTrigger, MsgTimerTrigger
<1>4. /\ ~handle'[starts].open /\ port' # starts
      /\ \A n \in Start : n # starts => handle'[n] = handle[n] /\ (port' = n <=> port = n)
  <2>1. handle'[starts].open = FALSE /\ \A n \in Start : n # starts => handle'[n] = handle[n]
    BY <1>1, <1>2, Types DEF ConnTypeOK
  <2>2. handle[starts].open <=> port = starts
    BY <1>2 DEF IInv, ConnInv
  <2>3. port' = IF handle[starts].open THEN 0 ELSE port
    BY <1>1
  <2>4. \A n \in Start : n # 0
    BY Types
  <2> QED
    BY <2>1, <2>2, <2>3, <2>4, <1>2
<1>5. PlaceInv'
  BY <1>1 DEF IInv, PlaceInv, Up
<1>6. ConnTypeOK'
  BY <1>1, <1>2, Types, ConnCallTyped
<1>7. TimerTypeOK'
  BY <1>1, Types DEF TimerTypeOK, timerVars
<1>8. TypeOK'
  BY <1>1, <1>5, <1>6, <1>7, Types, TypeOKNext DEF Places, Thread
<1>9. LibInv'
  BY <1>1 DEF IInv, LibInv, Up
<1>10. ThreadInv'
  BY <1>1 DEF IInv, ThreadInv, Up
<1>11. EventInv'
  BY <1>1 DEF IInv, EventInv, Up
<1>12. ConnInv'
  BY <1>1, <1>4 DEF IInv, ConnInv, RemovedIsQuiet, Up
<1>13. TimerInv'
  BY <1>1, <1>3 DEF IInv, TimerInv, ListIsFree, Up
<1> QED
  BY <1>5, <1>8, <1>9, <1>10, <1>11, <1>12, <1>13 DEF IInv

\* ... and its node detached, but not in the middle of a callback.
LEMMA RemoveHandleInv ==
  ASSUME IInv, At("removeHandle"), FiniConn
  PROVE  IInv'
<1> USE DEF InitPlaces, UnInitPlaces, AfterCancel, AfterEvent, AfterClose,
             AfterRemove, AfterExit, AfterLib
<1>1. /\ main = "removeHandle" /\ main' = "exit flag"
      /\ removeHandle(starts)
      /\ select[starts].at # "recv"
      /\ handle' = [handle EXCEPT ![starts].open = FALSE]
      /\ node' = [node EXCEPT ![starts] = IF @ = "listed" THEN "removed" ELSE @]
      /\ port' = (IF handle[starts].open THEN 0 ELSE port)
      /\ UNCHANGED <<m_pUdpSockMgr, select>>
      /\ UNCHANGED <<timerVars, trigger, item, timer>>
      /\ UNCHANGED <<starts, g_isInit, object, g_pSipStack, lib>>
      /\ UNCHANGED <<task, m_work_b, server, m_run_b, event, m_bProcEventThreadRun, queued>>
  BY
     DEF At, Go, FiniConn, removeHandle, ListOfHandleIsFree, close, sdk, threads,
         connVars, timerVars
<1>2. starts \in Start /\ object[starts] = "live" /\ g_isInit
  BY <1>1, Types DEF IInv, PlaceInv
<1>3. Registered' = Registered
  BY <1>1 DEF Registered, TimerTrigger, MsgTimerTrigger
<1>4. /\ ~handle'[starts].open /\ port' # starts
      /\ \A n \in Start : n # starts => handle'[n] = handle[n] /\ (port' = n <=> port = n)
  <2>1. handle'[starts].open = FALSE /\ \A n \in Start : n # starts => handle'[n] = handle[n]
    BY <1>1, <1>2, Types DEF ConnTypeOK
  <2>2. handle[starts].open <=> port = starts
    BY <1>2 DEF IInv, ConnInv
  <2>3. port' = IF handle[starts].open THEN 0 ELSE port
    BY <1>1
  <2>4. \A n \in Start : n # 0
    BY Types
  <2> QED
    BY <2>1, <2>2, <2>3, <2>4, <1>2
<1>5. node'[starts] # "listed" /\ \A n \in Start : n # starts => node'[n] = node[n]
  BY <1>1, <1>2, Types DEF ConnTypeOK
<1>6. PlaceInv'
  BY <1>1 DEF IInv, PlaceInv, Up
<1>7. ConnTypeOK'
  BY <1>1, <1>2, Types, ConnCallTyped
<1>8. TimerTypeOK'
  BY <1>1, Types DEF TimerTypeOK, timerVars
<1>9. TypeOK'
  BY <1>1, <1>6, <1>7, <1>8, Types, TypeOKNext DEF Places, Thread
<1>10. LibInv'
  BY <1>1 DEF IInv, LibInv, Up
<1>11. ThreadInv'
  BY <1>1 DEF IInv, ThreadInv, Up
<1>12. EventInv'
  BY <1>1 DEF IInv, EventInv, Up
<1>13. ConnInv'
  BY <1>1, <1>4, <1>5 DEF IInv, ConnInv, RemovedIsQuiet, Up
<1>14. TimerInv'
  BY <1>1, <1>3 DEF IInv, TimerInv, ListIsFree, Up
<1> QED
  BY <1>6, <1>9, <1>10, <1>11, <1>12, <1>13, <1>14 DEF IInv

\* The manager's thread is told to end ...
LEMMA ExitFlagInv ==
  ASSUME IInv, At("exit flag"), FiniConn
  PROVE  IInv'
<1> USE DEF InitPlaces, UnInitPlaces, AfterCancel, AfterEvent, AfterClose,
             AfterRemove, AfterExit, AfterLib
<1>1. /\ main = "exit flag" /\ main' = "exit join"
      /\ ConnExitFlag(m_pUdpSockMgr)
      /\ UNCHANGED <<m_pUdpSockMgr, select, node, handle, port>>
      /\ UNCHANGED <<timerVars, trigger, item, timer>>
      /\ UNCHANGED <<starts, g_isInit, object, g_pSipStack, lib>>
      /\ UNCHANGED <<task, m_work_b, server, m_run_b, event, m_bProcEventThreadRun, queued>>
  BY DEF At, Go, FiniConn, ConnExitFlag, sdk, threads, connVars, timerVars
<1>2. starts \in Start /\ object[starts] = "live" /\ g_isInit
  BY <1>1, Types DEF IInv, PlaceInv
<1>3. Registered' = Registered
  BY <1>1 DEF Registered, TimerTrigger, MsgTimerTrigger
<1>4. m_pUdpSockMgr = starts
  BY <1>1, <1>2 DEF IInv, ConnInv, Up
<1>5. PlaceInv'
  BY <1>1 DEF IInv, PlaceInv, Up
<1>6. ConnTypeOK'
  BY <1>1, <1>2, <1>4, Types, ConnCallTyped
<1>7. TimerTypeOK'
  BY <1>1, Types DEF TimerTypeOK, timerVars
<1>8. TypeOK'
  BY <1>1, <1>5, <1>6, <1>7, Types, TypeOKNext DEF Places, Thread
<1>9. LibInv'
  BY <1>1 DEF IInv, LibInv, Up
<1>10. ThreadInv'
  BY <1>1 DEF IInv, ThreadInv, Up
<1>11. EventInv'
  BY <1>1 DEF IInv, EventInv, Up
<1>12. ConnInv'
  BY <1>1 DEF IInv, ConnInv, RemovedIsQuiet, Up
<1>13. TimerInv'
  BY <1>1, <1>3 DEF IInv, TimerInv, ListIsFree, Up
<1> QED
  BY <1>5, <1>8, <1>9, <1>10, <1>11, <1>12, <1>13 DEF IInv

\* ... and the manager deleted when it has.
LEMMA ExitJoinInv ==
  ASSUME IInv, At("exit join"), FiniConn
  PROVE  IInv'
<1> USE DEF InitPlaces, UnInitPlaces, AfterCancel, AfterEvent, AfterClose,
             AfterRemove, AfterExit, AfterLib
<1>1. /\ main = "exit join" /\ main' = "DeInit"
      /\ ConnExitDelete(m_pUdpSockMgr)
      /\ select[m_pUdpSockMgr].at = "ended" /\ m_pUdpSockMgr' = 0
      /\ node' = [node EXCEPT ![m_pUdpSockMgr] =
                    IF @ \in {"listed", "removed"} THEN "freed" ELSE @]
      /\ UNCHANGED <<select, handle, port>>
      /\ UNCHANGED <<timerVars, trigger, item, timer>>
      /\ UNCHANGED <<starts, g_isInit, object, g_pSipStack, lib>>
      /\ UNCHANGED <<task, m_work_b, server, m_run_b, event, m_bProcEventThreadRun, queued>>
  BY DEF At, Go, FiniConn, ConnExitDelete, sdk, threads, connVars, timerVars
<1>2. starts \in Start /\ object[starts] = "live" /\ g_isInit
  BY <1>1, Types DEF IInv, PlaceInv
<1>3. Registered' = Registered
  BY <1>1 DEF Registered, TimerTrigger, MsgTimerTrigger
<1>4. m_pUdpSockMgr = starts
  BY <1>1, <1>2 DEF IInv, ConnInv, Up
<1>5. /\ select[starts].at = "ended"
      /\ node'[starts] # "listed" /\ \A n \in Start : n # starts => node'[n] = node[n]
      /\ \A n \in Start : n # 0
  <2>1. \A n \in Start : n # 0
    BY Types
  <2>2. node' = [node EXCEPT ![starts] = IF @ \in {"listed", "removed"} THEN "freed" ELSE @]
    BY <1>1, <1>4
  <2> QED
    BY <1>1, <1>2, <1>4, <2>1, <2>2, Types DEF ConnTypeOK
<1>6. ~handle[starts].open /\ port # starts
  BY <1>1, <1>2 DEF IInv, ConnInv
<1>7. PlaceInv'
  BY <1>1 DEF IInv, PlaceInv, Up
<1>8. ConnTypeOK'
  BY <1>1, <1>2, <1>4, Types, ConnCallTyped
<1>9. TimerTypeOK'
  BY <1>1, Types DEF TimerTypeOK, timerVars
<1>10. TypeOK'
  BY <1>1, <1>7, <1>8, <1>9, Types, TypeOKNext DEF Places, Thread
<1>11. LibInv'
  BY <1>1 DEF IInv, LibInv, Up
<1>12. ThreadInv'
  BY <1>1 DEF IInv, ThreadInv, Up
<1>13. EventInv'
  BY <1>1 DEF IInv, EventInv, Up
<1>14. ConnInv'
  BY <1>1, <1>5 DEF IInv, ConnInv, RemovedIsQuiet, Up
<1>15. TimerInv'
  BY <1>1, <1>3 DEF IInv, TimerInv, ListIsFree, Up
<1> QED
  BY <1>7, <1>10, <1>11, <1>12, <1>13, <1>14, <1>15 DEF IInv

\* The library ends.
LEMMA DeInitInv ==
  ASSUME IInv, FiniLib
  PROVE  IInv'
<1> USE DEF InitPlaces, UnInitPlaces, AfterCancel, AfterEvent, AfterClose,
             AfterRemove, AfterExit, AfterLib
<1>1. /\ main = "DeInit" /\ main' = "NVS flag" /\ lib' = FALSE
      /\ UNCHANGED <<connVars, m_pUdpSockMgr, select, node, handle, port>>
      /\ UNCHANGED <<timerVars, trigger, item, timer>>
      /\ UNCHANGED <<starts, g_isInit, object, g_pSipStack>>
      /\ UNCHANGED <<task, m_work_b, server, m_run_b, event, m_bProcEventThreadRun, queued>>
  BY DEF At, Go, FiniLib, sdk, threads, connVars, timerVars
<1>2. starts \in Start /\ object[starts] = "live" /\ g_isInit
  BY <1>1, Types DEF IInv, PlaceInv
<1>3. Registered' = Registered
  BY <1>1 DEF Registered, TimerTrigger, MsgTimerTrigger
<1>4. PlaceInv'
  BY <1>1 DEF IInv, PlaceInv, Up
<1>5. ConnTypeOK'
  BY <1>1, Types DEF ConnTypeOK, connVars
<1>6. TimerTypeOK'
  BY <1>1, Types DEF TimerTypeOK, timerVars
<1>7. TypeOK'
  BY <1>1, <1>4, <1>5, <1>6, Types, TypeOKNext DEF Places, Thread
<1>8. LibInv'
  BY <1>1 DEF IInv, LibInv, Up
<1>9. ThreadInv'
  BY <1>1 DEF IInv, ThreadInv, Up
<1>10. EventInv'
  BY <1>1 DEF IInv, EventInv, Up
<1>11. ConnInv'
  BY <1>1 DEF IInv, ConnInv, RemovedIsQuiet, Up
<1>12. TimerInv'
  BY <1>1, <1>3 DEF IInv, TimerInv, ListIsFree, Up
<1> QED
  BY <1>4, <1>7, <1>8, <1>9, <1>10, <1>11, <1>12 DEF IInv

\* The timer's thread is told to end ...
LEMMA NVSFlagInv ==
  ASSUME IInv, At("NVS flag"), FiniTimer
  PROVE  IInv'
<1> USE DEF InitPlaces, UnInitPlaces, AfterCancel, AfterEvent, AfterClose,
             AfterRemove, AfterExit, AfterLib
<1>1. /\ main = "NVS flag" /\ main' = "clearTimer"
      /\ TimerExitFlag
      /\ UNCHANGED <<trigger, item, timer>>
      /\ UNCHANGED <<connVars, m_pUdpSockMgr, select, node, handle, port>>
      /\ UNCHANGED <<starts, g_isInit, object, g_pSipStack, lib>>
      /\ UNCHANGED <<task, m_work_b, server, m_run_b, event, m_bProcEventThreadRun, queued>>
  BY DEF At, Go, FiniTimer, TimerExitFlag, sdk, threads, connVars, timerVars
<1>2. starts \in Start /\ object[starts] = "live" /\ g_isInit
  BY <1>1, Types DEF IInv, PlaceInv
<1>3. Registered' = Registered
  BY <1>1 DEF Registered, TimerTrigger, MsgTimerTrigger
<1>4. PlaceInv'
  BY <1>1 DEF IInv, PlaceInv, Up
<1>5. ConnTypeOK'
  BY <1>1, Types DEF ConnTypeOK, connVars
<1>6. TimerTypeOK'
  BY <1>1, Types, TimerTyped
<1>7. TypeOK'
  BY <1>1, <1>4, <1>5, <1>6, Types, TypeOKNext DEF Places, Thread
<1>8. LibInv'
  BY <1>1 DEF IInv, LibInv, Up
<1>9. ThreadInv'
  BY <1>1 DEF IInv, ThreadInv, Up
<1>10. EventInv'
  BY <1>1 DEF IInv, EventInv, Up
<1>11. ConnInv'
  BY <1>1 DEF IInv, ConnInv, RemovedIsQuiet, Up
<1>12. TimerInv'
  BY <1>1, <1>3 DEF IInv, TimerInv, ListIsFree, Up
<1> QED
  BY <1>4, <1>7, <1>8, <1>9, <1>10, <1>11, <1>12 DEF IInv

\* ... the list is emptied ...
LEMMA ClearTimerInv ==
  ASSUME IInv, At("clearTimer"), FiniTimer
  PROVE  IInv'
<1> USE DEF InitPlaces, UnInitPlaces, AfterCancel, AfterEvent, AfterClose,
             AfterRemove, AfterExit, AfterLib
<1>1. /\ main = "clearTimer" /\ main' = "NVS join"
      /\ clearTimer /\ ListIsFree
      /\ item' = [t \in Trigger |-> IF t \in Listed THEN "freed" ELSE item[t]]
      /\ UNCHANGED <<trigger, timer>>
      /\ UNCHANGED <<connVars, m_pUdpSockMgr, select, node, handle, port>>
      /\ UNCHANGED <<starts, g_isInit, object, g_pSipStack, lib>>
      /\ UNCHANGED <<task, m_work_b, server, m_run_b, event, m_bProcEventThreadRun, queued>>
  BY DEF At, Go, FiniTimer, clearTimer, sdk, threads, connVars, timerVars
<1>2. starts \in Start /\ object[starts] = "live" /\ g_isInit
  BY <1>1, Types DEF IInv, PlaceInv
<1>3. Registered' = Registered
  BY <1>1 DEF Registered, TimerTrigger, MsgTimerTrigger
<1>4. /\ timer.calls = NoTrigger /\ NoTrigger \notin Trigger
      /\ timer.todo = {} /\ timer.at # "call"
  BY <1>1, NVSTimerAssumption DEF IInv, TimerInv, ListIsFree
<1>5. \A t \in Trigger : item'[t] \notin {"listed", "fired"}
  BY <1>1, <1>4 DEF IInv, TimerInv, Listed
<1>6. PlaceInv'
  BY <1>1 DEF IInv, PlaceInv, Up
<1>7. ConnTypeOK'
  BY <1>1, Types DEF ConnTypeOK, connVars
<1>8. TimerTypeOK'
  BY <1>1, Types, TimerTyped
<1>9. TypeOK'
  BY <1>1, <1>6, <1>7, <1>8, Types, TypeOKNext DEF Places, Thread
<1>10. LibInv'
  BY <1>1 DEF IInv, LibInv, Up
<1>11. ThreadInv'
  BY <1>1 DEF IInv, ThreadInv, Up
<1>12. EventInv'
  BY <1>1 DEF IInv, EventInv, Up
<1>13. ConnInv'
  BY <1>1 DEF IInv, ConnInv, RemovedIsQuiet, Up
<1>14. TimerInv'
  BY <1>1, <1>4, <1>5 DEF TimerInv, ListIsFree
<1> QED
  BY <1>6, <1>9, <1>10, <1>11, <1>12, <1>13, <1>14 DEF IInv

\* ... and the thread joined.
LEMMA NVSJoinInv ==
  ASSUME IInv, At("NVS join"), FiniTimer
  PROVE  IInv'
<1> USE DEF InitPlaces, UnInitPlaces, AfterCancel, AfterEvent, AfterClose,
             AfterRemove, AfterExit, AfterLib
<1>1. /\ main = "NVS join" /\ main' = "delete"
      /\ timer.at \in {"off", "ended"}
      /\ UNCHANGED <<timerVars, trigger, item, timer>>
      /\ UNCHANGED <<connVars, m_pUdpSockMgr, select, node, handle, port>>
      /\ UNCHANGED <<starts, g_isInit, object, g_pSipStack, lib>>
      /\ UNCHANGED <<task, m_work_b, server, m_run_b, event, m_bProcEventThreadRun, queued>>
  BY DEF At, Go, FiniTimer, TimerJoined, sdk, threads, connVars, timerVars
<1>2. starts \in Start /\ object[starts] = "live" /\ g_isInit
  BY <1>1, Types DEF IInv, PlaceInv
<1>3. Registered' = Registered
  BY <1>1 DEF Registered, TimerTrigger, MsgTimerTrigger
<1>4. PlaceInv'
  BY <1>1 DEF IInv, PlaceInv, Up
<1>5. ConnTypeOK'
  BY <1>1, Types DEF ConnTypeOK, connVars
<1>6. TimerTypeOK'
  BY <1>1, Types DEF TimerTypeOK, timerVars
<1>7. TypeOK'
  BY <1>1, <1>4, <1>5, <1>6, Types, TypeOKNext DEF Places, Thread
<1>8. LibInv'
  BY <1>1 DEF IInv, LibInv, Up
<1>9. ThreadInv'
  BY <1>1 DEF IInv, ThreadInv, Up
<1>10. EventInv'
  BY <1>1 DEF IInv, EventInv, Up
<1>11. ConnInv'
  BY <1>1 DEF IInv, ConnInv, RemovedIsQuiet, Up
<1>12. TimerInv'
  BY <1>1, <1>3 DEF IInv, TimerInv, ListIsFree, Up
<1> QED
  BY <1>4, <1>7, <1>8, <1>9, <1>10, <1>11, <1>12 DEF IInv

\* CSipStack, the server and the client go, when nothing of the start runs.
LEMMA DeleteInv ==
  ASSUME IInv, FiniDelete
  PROVE  IInv'
<1> USE DEF InitPlaces, UnInitPlaces, AfterCancel, AfterEvent, AfterClose,
             AfterRemove, AfterExit, AfterLib
<1>1. /\ main = "delete" /\ main' = "no call"
      /\ object' = [object EXCEPT ![starts] = "deleted"]
      /\ g_pSipStack' = 0 /\ g_isInit' = FALSE /\ queued' = FALSE
      /\ UNCHANGED <<starts, lib, task, m_work_b, server, m_run_b, event, m_bProcEventThreadRun>>
      /\ UNCHANGED <<connVars, m_pUdpSockMgr, select, node, handle, port>>
      /\ UNCHANGED <<timerVars, trigger, item, timer>>
  BY DEF At, Go, FiniDelete, sdk, threads, connVars, timerVars
<1>2. starts \in Start /\ object[starts] = "live" /\ g_isInit
  BY <1>1, Types DEF IInv, PlaceInv
<1>3. object'[starts] = "deleted" /\ \A n \in Start : n # starts => object'[n] = object[n]
  BY <1>1, <1>2, Types
<1>4. 0 \in 0..MaxStarts /\ \A n \in Start : n # 0
  BY Types
<1>5. PlaceInv'
  BY <1>1, <1>3 DEF IInv, PlaceInv, Up
<1>6. ConnTypeOK'
  BY <1>1, Types DEF ConnTypeOK, connVars
<1>7. TimerTypeOK'
  BY <1>1, Types DEF TimerTypeOK, timerVars
<1>8. TypeOK'
  BY <1>1, <1>2, <1>3, <1>4, <1>5, <1>6, <1>7, Types, TypeOKNext
     DEF Places, Thread
<1>9. LibInv'
  BY <1>1 DEF IInv, LibInv, Up
<1>10. ThreadInv'
  BY <1>1 DEF IInv, ThreadInv, Up
<1>11. EventInv'
  BY <1>1, <1>3 DEF IInv, EventInv, Up
<1>12. ConnInv'
  BY <1>1, <1>3, <1>4 DEF IInv, ConnInv, RemovedIsQuiet, Up
<1>13. TimerInv'
  BY <1>1 DEF IInv, TimerInv, ListIsFree, Up
<1> QED
  BY <1>5, <1>8, <1>9, <1>10, <1>11, <1>12, <1>13 DEF IInv

-----------------------------------------------------------------------------
(* The threads.                                                            *)

\* The stack thread runs only between its start and its join ...
LEMMA StackThreadInv ==
  ASSUME IInv, StackThread
  PROVE  IInv'
<1> USE DEF InitPlaces, UnInitPlaces, AfterCancel, AfterEvent, AfterClose,
             AfterRemove, AfterExit, AfterLib
<1>1. /\ task # "off" /\ task' \in Thread
      /\ UNCHANGED <<connVars, m_pUdpSockMgr, select, node, handle, port>>
      /\ UNCHANGED <<timerVars, trigger, item, timer>>
      /\ UNCHANGED <<main, starts, g_isInit, object, g_pSipStack, lib>>
      /\ UNCHANGED <<m_work_b, server, m_run_b, event, m_bProcEventThreadRun, queued>>
  BY DEF StackThread, Thread, sdk, threads, lifeVars, connVars, timerVars
<1>2. Registered' = Registered
  BY <1>1 DEF Registered, TimerTrigger, MsgTimerTrigger
<1>3. PlaceInv'
  BY <1>1 DEF IInv, PlaceInv, Up
<1>4. ConnTypeOK'
  BY <1>1, Types DEF ConnTypeOK, connVars
<1>5. TimerTypeOK'
  BY <1>1, Types DEF TimerTypeOK, timerVars
<1>6. TypeOK'
  BY <1>1, <1>3, <1>4, <1>5, Types, TypeOKNext
<1>7. LibInv'
  BY <1>1 DEF IInv, LibInv, Up
<1>8. ThreadInv'
  BY <1>1 DEF IInv, ThreadInv, Up
<1>9. EventInv'
  BY <1>1 DEF IInv, EventInv, Up
<1>10. ConnInv'
  BY <1>1 DEF IInv, ConnInv, RemovedIsQuiet, Up
<1>11. TimerInv'
  BY <1>1, <1>2 DEF IInv, TimerInv, ListIsFree, Up
<1> QED
  BY <1>3, <1>6, <1>7, <1>8, <1>9, <1>10, <1>11 DEF IInv

\* ... and so do the server's.
LEMMA ServerThreadInv ==
  ASSUME IInv, ServerThread
  PROVE  IInv'
<1> USE DEF InitPlaces, UnInitPlaces, AfterCancel, AfterEvent, AfterClose,
             AfterRemove, AfterExit, AfterLib
<1>1. /\ server # "off" /\ server' \in Thread
      /\ UNCHANGED <<connVars, m_pUdpSockMgr, select, node, handle, port>>
      /\ UNCHANGED <<timerVars, trigger, item, timer>>
      /\ UNCHANGED <<main, starts, g_isInit, object, g_pSipStack, lib>>
      /\ UNCHANGED <<task, m_work_b, m_run_b, event, m_bProcEventThreadRun, queued>>
  BY DEF ServerThread, Thread, sdk, threads, lifeVars, connVars, timerVars
<1>2. Registered' = Registered
  BY <1>1 DEF Registered, TimerTrigger, MsgTimerTrigger
<1>3. PlaceInv'
  BY <1>1 DEF IInv, PlaceInv, Up
<1>4. ConnTypeOK'
  BY <1>1, Types DEF ConnTypeOK, connVars
<1>5. TimerTypeOK'
  BY <1>1, Types DEF TimerTypeOK, timerVars
<1>6. TypeOK'
  BY <1>1, <1>3, <1>4, <1>5, Types, TypeOKNext
<1>7. LibInv'
  BY <1>1 DEF IInv, LibInv, Up
<1>8. ThreadInv'
  BY <1>1 DEF IInv, ThreadInv, Up
<1>9. EventInv'
  BY <1>1 DEF IInv, EventInv, Up
<1>10. ConnInv'
  BY <1>1 DEF IInv, ConnInv, RemovedIsQuiet, Up
<1>11. TimerInv'
  BY <1>1, <1>2 DEF IInv, TimerInv, ListIsFree, Up
<1> QED
  BY <1>3, <1>6, <1>7, <1>8, <1>9, <1>10, <1>11 DEF IInv

\* An event thread that was left over finds nothing in its queue; one that
\* has ended stays so.
LEMMA EventThreadInv ==
  ASSUME IInv, NEW n \in Start, EventThread(n)
  PROVE  IInv'
<1> USE DEF InitPlaces, UnInitPlaces, AfterCancel, AfterEvent, AfterClose,
             AfterRemove, AfterExit, AfterLib
<1>1. /\ \/ /\ event[n] = "idle" /\ g_pSipStack = n /\ queued
            /\ event' = [event EXCEPT ![n] = "busy"]
         \/ event[n] \in {"idle", "busy"} /\ event' = [event EXCEPT ![n] = "idle"]
         \/ event[n] = "idle" /\ event' = [event EXCEPT ![n] = "ended"]
      /\ UNCHANGED queued \/ queued' = FALSE
      /\ UNCHANGED <<connVars, m_pUdpSockMgr, select, node, handle, port>>
      /\ UNCHANGED <<timerVars, trigger, item, timer>>
      /\ UNCHANGED <<main, starts, g_isInit, object, g_pSipStack, lib>>
      /\ UNCHANGED <<task, m_work_b, server, m_run_b, m_bProcEventThreadRun>>
  BY DEF EventThread, sdk, threads, lifeVars, connVars, timerVars
<1>2. Registered' = Registered
  BY <1>1 DEF Registered, TimerTrigger, MsgTimerTrigger
<1>3. /\ (event' \in [Start -> Thread])
      /\ event[n] \in {"idle", "busy"}
      /\ event'[n] = "busy" => g_pSipStack = n /\ queued
      /\ \A k \in Start : k # n => event'[k] = event[k]
  BY <1>1, Types DEF Thread
<1>4. event'[n] = "busy" => n = starts /\ Up
  BY <1>3 DEF IInv, PlaceInv, ThreadInv
<1>5. queued' => queued
  BY <1>1
<1>6. PlaceInv'
  BY <1>1 DEF IInv, PlaceInv, Up
<1>7. ConnTypeOK'
  BY <1>1, Types DEF ConnTypeOK, connVars
<1>8. TimerTypeOK'
  BY <1>1, Types DEF TimerTypeOK, timerVars
<1>9. TypeOK'
  BY <1>1, <1>3, <1>6, <1>7, <1>8, Types, TypeOKNext
<1>10. LibInv'
  BY <1>1 DEF IInv, LibInv, Up
<1>11. ThreadInv'
  <2>1. UNCHANGED <<main, g_isInit, task, server, timer>>
    BY <1>1
  <2> QED
    BY <1>5, <2>1 DEF IInv, ThreadInv, Up
<1>12. EventInv'
  BY <1>1, <1>3, <1>4 DEF IInv, EventInv, Up
<1>13. ConnInv'
  BY <1>1 DEF IInv, ConnInv, RemovedIsQuiet, Up
<1>14. TimerInv'
  BY <1>1, <1>2 DEF IInv, TimerInv, ListIsFree, Up
<1> QED
  BY <1>6, <1>9, <1>10, <1>11, <1>12, <1>13, <1>14 DEF IInv

\* A step of the timer's thread.
LEMMA TimerStepInv ==
  ASSUME IInv, TimerStep
  PROVE  IInv'
<1> USE DEF InitPlaces, UnInitPlaces, AfterCancel, AfterEvent, AfterClose,
             AfterRemove, AfterExit, AfterLib
<1>1. /\ TimerThread
      /\ timer.at \notin {"off", "ended"}
      /\ queued' \in BOOLEAN
      /\ UNCHANGED trigger
      /\ UNCHANGED <<connVars, m_pUdpSockMgr, select, node, handle, port>>
      /\ UNCHANGED <<main, starts, g_isInit, object, g_pSipStack, lib>>
      /\ UNCHANGED <<task, m_work_b, server, m_run_b, event, m_bProcEventThreadRun>>
  BY
     DEF TimerStep, TimerThread, TimerWhile, TimerLock, TimerReturn, TimerUnlock,
         TimerCall, sdk, threads, lifeVars, connVars, timerVars
<1>2. Registered' = Registered
  BY <1>1 DEF Registered, TimerTrigger, MsgTimerTrigger
<1>3. PlaceInv'
  BY <1>1 DEF IInv, PlaceInv, Up
<1>4. ConnTypeOK'
  BY <1>1, Types DEF ConnTypeOK, connVars
<1>5. TimerTypeOK'
  BY <1>1, Types, TimerTyped
<1>6. TypeOK'
  BY <1>1, <1>3, <1>4, <1>5, Types, TypeOKNext
<1>7. LibInv'
  BY <1>1 DEF IInv, LibInv, Up
<1>8. ThreadInv'
  BY <1>1 DEF IInv, ThreadInv, Up
<1>9. EventInv'
  BY <1>1 DEF IInv, EventInv, Up
<1>10. ConnInv'
  BY <1>1 DEF IInv, ConnInv, RemovedIsQuiet, Up
<1>11. TimerInv'
  <2>1. /\ timer \in [at : {"off", "while", "sleep", "scan", "call", "ended"},
                      calls : Trigger \cup {NoTrigger}, todo : SUBSET Trigger]
        /\ item \in [Trigger -> ItemState]
        /\ NoTrigger \notin Trigger
    BY Types, NVSTimerAssumption DEF TimerTypeOK
  <2>2. \A t \in Trigger : item[t] \in {"listed", "fired"} =>
            /\ trigger[t] = "live"
            /\ Up \/ main \in {"register timer", "register msg", "NVS run"} => t \in Registered
    BY DEF IInv, TimerInv
  <2>3. UNCHANGED Up
    BY <1>1 DEF Up
  <2>4. /\ timer.todo \subseteq {t \in Trigger : item[t] = "listed"}
        /\ ListIsFree => timer.todo = {}
        /\ timer.calls # NoTrigger <=> timer.at = "call"
        /\ \A t \in Trigger : item[t] = "fired" <=> timer.calls = t
    BY DEF IInv, TimerInv
  <2> SUFFICES
        /\ timer'.todo \subseteq {t \in Trigger : item'[t] = "listed"}
        /\ timer'.at \notin {"scan", "call"} => timer'.todo = {}
        /\ timer'.calls # NoTrigger <=> timer'.at = "call"
        /\ \A t \in Trigger :
             /\ item'[t] = "fired" <=> timer'.calls = t
             /\ item'[t] \in {"listed", "fired"} => item[t] \in {"listed", "fired"}
    BY <1>1, <1>2, <2>2, <2>3 DEF TimerInv, ListIsFree
  <2>5. CASE TimerWhile \/ TimerUnlock
    <3>1. /\ UNCHANGED item /\ timer'.calls = timer.calls
          /\ timer.at \in {"while", "scan"} /\ timer'.at \in {"while", "sleep", "ended"}
          /\ timer.at = "while" => timer'.todo = timer.todo
          /\ timer.at = "scan" => timer'.todo = {}
      BY <2>1, <2>5 DEF TimerWhile, TimerUnlock
    <3> QED
      BY <2>1, <2>4, <3>1 DEF ListIsFree
  <2>6. CASE TimerLock
    <3>1. /\ timer.at = "sleep" /\ timer'.at = "scan" /\ timer'.calls = timer.calls
          /\ timer'.todo = {t \in Trigger : item[t] = "listed"}
          /\ \A t \in Trigger : item'[t] = IF item[t] = "removed" THEN "freed" ELSE item[t]
      BY <2>1, <2>6 DEF TimerLock
    <3> QED
      BY <2>1, <2>4, <3>1
  <2>7. CASE TimerReturn
    <3>1. /\ timer.at = "call" /\ timer'.at = "scan" /\ timer'.calls = NoTrigger
          /\ timer'.todo = timer.todo
          /\ item' = [item EXCEPT ![timer.calls] = "listed"]
      BY <2>1, <2>7 DEF TimerReturn
    <3>2. PICK t0 \in Trigger : t0 = timer.calls
      BY <2>1, <2>4, <3>1
    <3>3. \A t \in Trigger : item'[t] = IF t = t0 THEN "listed" ELSE item[t]
      BY <2>1, <3>1, <3>2
    <3> QED
      BY <2>1, <2>4, <3>1, <3>2, <3>3
  <2>8. ASSUME NEW t0 \in Trigger, TimerCall(t0)
        PROVE  /\ timer'.todo \subseteq {t \in Trigger : item'[t] = "listed"}
               /\ timer'.at \notin {"scan", "call"} => timer'.todo = {}
               /\ timer'.calls # NoTrigger <=> timer'.at = "call"
               /\ \A t \in Trigger :
                    /\ item'[t] = "fired" <=> timer'.calls = t
                    /\ item'[t] \in {"listed", "fired"} => item[t] \in {"listed", "fired"}
    <3>1. /\ timer.at = "scan" /\ timer'.at = "call" /\ timer'.calls = t0
          /\ timer'.todo = timer.todo \ {t0} /\ t0 \in timer.todo
          /\ \A t \in Trigger : item'[t] = IF t = t0 THEN "fired" ELSE item[t]
      BY <2>1, <2>8 DEF TimerCall
    <3> QED
      BY <2>1, <2>4, <3>1
  <2> QED
    BY <1>1, <2>5, <2>6, <2>7, <2>8 DEF TimerThread
<1> QED
  BY <1>3, <1>6, <1>7, <1>8, <1>9, <1>10, <1>11 DEF IInv

\* A step of a manager's thread.
LEMMA SelectInv ==
  ASSUME IInv, NEW n \in Start, Received(n) \/ SelectStep(n)
  PROVE  IInv'
<1> USE DEF InitPlaces, UnInitPlaces, AfterCancel, AfterEvent, AfterClose,
             AfterRemove, AfterExit, AfterLib
<1>1. /\ \E received \in BOOLEAN : SelectThread(n) \/ handle_recv(n, received)
      /\ UNCHANGED <<timerVars, trigger, item, timer>>
      /\ UNCHANGED <<main, starts, g_isInit, object, g_pSipStack, lib>>
      /\ UNCHANGED <<task, m_work_b, server, m_run_b, event, m_bProcEventThreadRun, queued>>
  BY DEF Received, SelectStep, sdk, threads, lifeVars, connVars, timerVars
<1>2. Registered' = Registered
  BY <1>1 DEF Registered, TimerTrigger, MsgTimerTrigger
<1>3. /\ ConnTypeOK'
      /\ UNCHANGED <<port, m_pUdpSockMgr>>
      /\ select[n].at \notin {"off", "ended"}
      /\ select'[n].at = "recv" => node[n] = "listed"
      /\ node'[n] = node[n] \/ (node[n] = "removed" /\ node'[n] = "erased")
      /\ \A k \in Start : /\ handle'[k].open = handle[k].open
                          /\ k # n => select'[k] = select[k] /\ node'[k] = node[k]
  BY <1>1, Types, SelectEffect
<1>4. PlaceInv'
  BY <1>1 DEF IInv, PlaceInv, Up
<1>5. ConnTypeOK'
  BY <1>3
<1>6. TimerTypeOK'
  BY <1>1, Types DEF TimerTypeOK, timerVars
<1>7. TypeOK'
  BY <1>1, <1>4, <1>5, <1>6, Types, TypeOKNext
<1>8. LibInv'
  BY <1>1 DEF IInv, LibInv, Up
<1>9. ThreadInv'
  BY <1>1 DEF IInv, ThreadInv, Up
<1>10. EventInv'
  BY <1>1 DEF IInv, EventInv, Up
<1>11. ConnInv'
  <2>1. /\ UNCHANGED <<main, starts, g_isInit, object>> /\ UNCHANGED Up
    BY <1>1 DEF Up
  <2>2. RemovedIsQuiet'
    BY <1>3 DEF IInv, ConnInv, RemovedIsQuiet
  <2>3. \A k \in Start :
          /\ handle'[k].open <=> port' = k
          /\ object'[k] = "none" => select'[k].at = "off" /\ port' # k
          /\ object'[k] = "deleted" =>
               select'[k].at = "ended" /\ port' # k /\ m_pUdpSockMgr' # k
          /\ k = starts' /\ main' \in AfterClose => port' # k
          /\ k = starts' /\ main' \in AfterRemove => node'[k] # "listed"
          /\ k = starts' /\ main' \in AfterExit => select'[k].at = "ended"
    <3> SUFFICES ASSUME NEW k \in Start
        PROVE  /\ handle'[k].open <=> port' = k
               /\ object'[k] = "none" => select'[k].at = "off" /\ port' # k
               /\ object'[k] = "deleted" =>
                    select'[k].at = "ended" /\ port' # k /\ m_pUdpSockMgr' # k
               /\ k = starts' /\ main' \in AfterClose => port' # k
               /\ k = starts' /\ main' \in AfterRemove => node'[k] # "listed"
               /\ k = starts' /\ main' \in AfterExit => select'[k].at = "ended"
      OBVIOUS
    <3>1. /\ handle[k].open <=> port = k
          /\ object[k] = "none" => select[k].at = "off" /\ port # k
          /\ object[k] = "deleted" =>
               select[k].at = "ended" /\ port # k /\ m_pUdpSockMgr # k
          /\ k = starts /\ main \in AfterClose => port # k
          /\ k = starts /\ main \in AfterRemove => node[k] # "listed"
          /\ k = starts /\ main \in AfterExit => select[k].at = "ended"
      BY DEF IInv, ConnInv
    <3> QED
      BY <1>3, <2>1, <3>1
  <2> QED
    BY <1>3, <2>1, <2>2, <2>3 DEF IInv, ConnInv
<1>12. TimerInv'
  BY <1>1, <1>2 DEF IInv, TimerInv, ListIsFree, Up
<1> QED
  BY <1>4, <1>7, <1>8, <1>9, <1>10, <1>11, <1>12 DEF IInv

\* A datagram comes.
LEMMA ArrivesInv ==
  ASSUME IInv, Arrives
  PROVE  IInv'
<1> USE DEF InitPlaces, UnInitPlaces, AfterCancel, AfterEvent, AfterClose,
             AfterRemove, AfterExit, AfterLib
<1>1. /\ UNCHANGED <<m_pUdpSockMgr, m_bExit, select, node, handle, port>> /\ pending' \in BOOLEAN
      /\ UNCHANGED <<timerVars, trigger, item, timer>>
      /\ UNCHANGED <<main, starts, g_isInit, object, g_pSipStack, lib>>
      /\ UNCHANGED <<task, m_work_b, server, m_run_b, event, m_bProcEventThreadRun, queued>>
  BY DEF Arrives, Datagram, sdk, threads, lifeVars, connVars, timerVars
<1>2. Registered' = Registered
  BY <1>1 DEF Registered, TimerTrigger, MsgTimerTrigger
<1>3. PlaceInv'
  BY <1>1 DEF IInv, PlaceInv, Up
<1>4. ConnTypeOK'
  BY <1>1, Types DEF ConnTypeOK
<1>5. TimerTypeOK'
  BY <1>1, Types DEF TimerTypeOK, timerVars
<1>6. TypeOK'
  BY <1>1, <1>3, <1>4, <1>5, Types, TypeOKNext
<1>7. LibInv'
  BY <1>1 DEF IInv, LibInv, Up
<1>8. ThreadInv'
  BY <1>1 DEF IInv, ThreadInv, Up
<1>9. EventInv'
  BY <1>1 DEF IInv, EventInv, Up
<1>10. ConnInv'
  BY <1>1 DEF IInv, ConnInv, RemovedIsQuiet, Up
<1>11. TimerInv'
  BY <1>1, <1>2 DEF IInv, TimerInv, ListIsFree, Up
<1> QED
  BY <1>3, <1>6, <1>7, <1>8, <1>9, <1>10, <1>11 DEF IInv

\* Nothing changes.
LEMMA StutterInv ==
  ASSUME IInv, UNCHANGED vars
  PROVE  IInv'
<1> USE DEF InitPlaces, UnInitPlaces, AfterCancel, AfterEvent, AfterClose,
             AfterRemove, AfterExit, AfterLib
<1>1. /\ UNCHANGED <<connVars, m_pUdpSockMgr, select, node, handle, port>>
      /\ UNCHANGED <<timerVars, trigger, item, timer>>
      /\ UNCHANGED <<main, starts, g_isInit, object, g_pSipStack, lib>>
      /\ UNCHANGED <<task, m_work_b, server, m_run_b, event, m_bProcEventThreadRun, queued>>
  BY DEF vars, sdk, threads, lifeVars, connVars, timerVars
<1>2. Registered' = Registered
  BY <1>1 DEF Registered, TimerTrigger, MsgTimerTrigger
<1>3. PlaceInv'
  BY <1>1 DEF IInv, PlaceInv, Up
<1>4. ConnTypeOK'
  BY <1>1, Types DEF ConnTypeOK, connVars
<1>5. TimerTypeOK'
  BY <1>1, Types DEF TimerTypeOK, timerVars
<1>6. TypeOK'
  BY <1>1, <1>3, <1>4, <1>5, Types, TypeOKNext
<1>7. LibInv'
  BY <1>1 DEF IInv, LibInv, Up
<1>8. ThreadInv'
  BY <1>1 DEF IInv, ThreadInv, Up
<1>9. EventInv'
  BY <1>1 DEF IInv, EventInv, Up
<1>10. ConnInv'
  BY <1>1 DEF IInv, ConnInv, RemovedIsQuiet, Up
<1>11. TimerInv'
  BY <1>1, <1>2 DEF IInv, TimerInv, ListIsFree, Up
<1> QED
  BY <1>3, <1>6, <1>7, <1>8, <1>9, <1>10, <1>11 DEF IInv

-----------------------------------------------------------------------------
(* The theorems.                                                           *)

\* Every step keeps the invariant.
LEMMA NextInv == IInv /\ [Next]_vars => IInv'
<1> SUFFICES ASSUME IInv, [Next]_vars PROVE IInv'
  OBVIOUS
<1>1. CASE SIP_SDK_Init \/ InitFails
  BY <1>1, StartInv, InitFailsInv
<1>2. CASE InInit
  <2>1. CASE InitConn
    BY <2>1, ConnMgrInv, RegUdpSocketInv DEF InitConn
  <2>2. CASE InitTimer
    BY <2>2, TimerInitInv, RegisterTimerTrigger, RegisterMsgTimerTrigger
       DEF InitTimer
  <2> QED
    BY <1>2, <2>1, <2>2, InitMiniSipInv, EventThreadStarts, TimerRunInv, ServerStarts
       DEF InInit
<1>3. CASE SIP_SDK_UnInit
  BY <1>3, StopInv
<1>4. CASE InUnInit
  <2>1. CASE FiniTask
    BY <2>1, TaskFlagInv, TaskJoinInv DEF FiniTask
  <2>2. CASE FiniTimer
    BY <2>2, CancelTimerTrigger, CancelMsgTimerTrigger, NVSFlagInv, ClearTimerInv,
       NVSJoinInv DEF FiniTimer
  <2>3. CASE FiniEvent
    BY <2>3, EventFlagInv, EventJoinInv DEF FiniEvent
  <2>4. CASE FiniConn
    BY <2>4, CloseInv, RemoveHandleInv, ExitFlagInv, ExitJoinInv DEF FiniConn
  <2> QED
    BY <1>4, <2>1, <2>2, <2>3, <2>4, ServerJoinInv, DeInitInv, DeleteInv
       DEF InUnInit
<1>5. CASE StackThread \/ ServerThread \/ TimerStep \/ Arrives
  BY <1>5, StackThreadInv, ServerThreadInv, TimerStepInv, ArrivesInv
<1>6. ASSUME NEW n \in Start, OfStart(n)
      PROVE  IInv'
  BY <1>6, EventThreadInv, SelectInv DEF OfStart
<1>7. CASE UNCHANGED vars
  BY <1>7, StutterInv
<1> QED
  BY <1>1, <1>2, <1>3, <1>4, <1>5, <1>6, <1>7 DEF Next

\* The inductive invariant holds of every reachable state, whatever starts
\* fail and wherever the threads are when SIP_SDK_UnInit is called.
THEOREM Invariant == Spec => []IInv
BY InitInv, NextInv, PTL DEF Spec

\* Every variable keeps its type, and what is in use is the last start's.
THEOREM TypeCorrect == Spec => []TypeOK
<1>1. IInv => TypeOK
  BY DEF IInv
<1> QED
  BY <1>1, Invariant, PTL

\* A trigger that was cancelled is deleted at once by its owner, and never
\* called again (CNVSTimer::cancelTimer against mainLoop).
LEMMA CancelledTriggersAreQuiet == IInv => CancelledIsQuiet
BY DEF IInv, TimerInv, CancelledIsQuiet

\* SIP_SDK_UnInit deletes server and stack only when no thread works with them:
\* the stack thread, the server's, the event threads of all starts, the timer
\* in a callback and the managers' threads in handle_recv find them alive, the
\* library initialised, and nothing cancelled or removed is called back.
THEOREM NothingDeletedIsUsed == Spec => []NothingIsUsedAfterDelete
<1>1. ASSUME IInv PROVE NothingIsUsedAfterDelete
  <2> USE DEF AfterCancel, AfterEvent, AfterClose, AfterRemove, AfterExit, AfterLib
  <2>1. ASSUME g_isInit \/ main = "server"
        PROVE  /\ starts \in Start /\ object[starts] = "live"
               /\ g_pSipStack = starts /\ g_pSipStack # 0
               /\ main \notin AfterLib => lib
    BY <1>1, <2>1, Types DEF IInv, PlaceInv, LibInv, Up
  <2>2. task = "busy" => g_pSipStack # 0 /\ object[g_pSipStack] = "live" /\ lib
    BY <1>1, <2>1 DEF IInv, ThreadInv
  <2>3. server = "busy" => object[starts] = "live"
    BY <1>1, <2>1 DEF IInv, ThreadInv
  <2>4. ASSUME timer.at = "call"
        PROVE  /\ trigger[timer.calls] = "live" /\ object[timer.calls[1]] = "live"
               /\ g_pSipStack # 0 /\ lib
    <3>1. g_isInit \/ main = "server"
      BY <1>1, <2>4 DEF IInv, ThreadInv, Up
    <3>2. PICK t \in Trigger : t = timer.calls
      BY <1>1, <2>4, Types DEF IInv, TimerInv, TimerTypeOK
    <3>3. trigger[t] = "live" /\ t \in Registered
      BY <1>1, <3>1, <3>2 DEF IInv, TimerInv, Up
    <3>4. t[1] = starts /\ main \notin AfterLib
      BY <2>1, <3>1, <3>3, Triggers DEF Registered
    <3> QED
      BY <2>1, <3>1, <3>2, <3>3, <3>4
  <2>5. ASSUME NEW n \in Start, event[n] = "busy"
        PROVE  object[n] = "live" /\ g_pSipStack = n /\ lib
    BY <1>1, <2>1, <2>5 DEF IInv, EventInv, Up
  <2>6. ASSUME NEW n \in Start, select[n].at = "recv"
        PROVE  object[n] = "live"
    <3>1. object[n] \in {"none", "live", "deleted"}
      BY <1>1, Types
    <3> QED
      BY <1>1, <2>6, <3>1 DEF IInv, ConnInv
  <2> QED
    BY <1>1, <2>2, <2>3, <2>4, <2>5, <2>6, CancelledTriggersAreQuiet
       DEF NothingIsUsedAfterDelete, IInv, ConnInv
<1> QED
  BY <1>1, Invariant, PTL

\* When SIP_SDK_UnInit has returned, every thread its start had made has ended
\* and been joined, the port and the network manager are free again, and the
\* library and the timer are down (CSipStack::Fini and what it calls).
THEOREM StopsEverything == Spec => []StopsWhatItStarted
<1>1. ASSUME IInv PROVE StopsWhatItStarted
  <2> SUFFICES ASSUME NEW n \in Start, object[n] = "deleted"
               PROVE  /\ select[n].at = "ended" /\ event[n] = "ended" /\ port # n
                      /\ m_pUdpSockMgr # n
                      /\ n = starts => /\ {task, server} = {"off"}
                                       /\ timer.at \in {"off", "ended"} /\ ~lib
    BY DEF StopsWhatItStarted
  <2>1. select[n].at = "ended" /\ event[n] = "ended" /\ port # n /\ m_pUdpSockMgr # n
    BY <1>1 DEF IInv, ConnInv, EventInv
  <2>2. ASSUME n = starts
        PROVE  /\ task = "off" /\ server = "off"
               /\ timer.at \in {"off", "ended"} /\ ~lib
    <3>1. n # 0
      BY <1>1, Types
    <3>2. main = "no call" /\ ~g_isInit
      BY <1>1, <2>2 DEF IInv, PlaceInv
    <3> QED
      BY <1>1, <2>2, <3>1, <3>2 DEF IInv, LibInv, ThreadInv, Up
  <2> QED
    BY <2>1, <2>2
<1> QED
  BY <1>1, Invariant, PTL
=============================================================================
