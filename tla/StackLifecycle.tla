---------------------------- MODULE StackLifecycle ----------------------------
(***************************************************************************)
(* Starting and stopping the SDK: SIP_SDK_Init and SIP_SDK_UnInit, called  *)
(* by the application's thread, and through the agent manager, the server, *)
(* CDcgStack and CSipStack all they start and stop, step by step in the    *)
(* code's order: the library, the network manager and its thread, the      *)
(* socket, the event thread, the timer, the server's threads and the stack *)
(* thread.  The threads run meanwhile, and most steps of a start may fail. *)
(* What is inside the threads is in SipStackTask, AgentServer, StackTimers *)
(* and SyncCall; here they use the objects that Fini will delete, or not.  *)
(*                                                                         *)
(* A start that fails is not undone: SipStackAgentMgrImpl::Fini returns    *)
(* early, because m_bInit was never set, and the next start makes new      *)
(* objects while the threads of the failed one run on.                     *)
(***************************************************************************)
EXTENDS ConnMgr, NVSTimer

\* The two triggers of every CSipStack.
ASSUME LifecycleAssumption ==
  MaxStarts \in Nat \ {0} /\ Trigger = Start \X {"timer", "msg"}

TimerTrigger(n) == <<n, "timer">>
MsgTimerTrigger(n) == <<n, "msg">>

VARIABLES
  main,         \* where the application's thread is in SIP_SDK_Init or UnInit
  starts,       \* the starts so far; the last one's objects are in use
  g_isInit,     \* and with it SipStackAgentMgrImpl::m_bInit
  object,       \* per start: the server with its client, CDcgStack, CSipStack
  g_pSipStack,  \* 0 or the start whose CSipStack it is
  lib,          \* the MiniSip library is initialised
  task,         \* the stack thread
  m_work_b,
  server,       \* any thread of the agent server
  m_run_b,
  event,        \* per start: the event thread
  m_bProcEventThreadRun,
  queued        \* a trigger waits in the event queue of the start g_pSipStack names

sdk == <<starts, g_isInit, object, g_pSipStack, lib>>
threads == <<task, m_work_b, server, m_run_b, event, m_bProcEventThreadRun, queued>>
lifeVars == <<main, sdk, threads>>
vars == <<connVars, timerVars, lifeVars>>

Thread == {"off", "idle", "busy", "ended"}
Places ==
  {"no call", "InitMiniSip", "ConnMgr", "regUdpSocket", "event thread", "NVS init",
   "register timer", "register msg", "NVS run", "server", "task flag", "task join",
   "server join", "cancel timer", "cancel msg", "event flag", "event join",
   "close", "removeHandle", "exit flag", "exit join", "DeInit", "NVS flag",
   "clearTimer", "NVS join", "delete"}

\* The type of every variable; an object that is in use was made by the last
\* start, and the application's thread is inside a start or a stop of it.
TypeOK ==
  /\ ConnTypeOK /\ TimerTypeOK
  /\ main \in Places
  /\ starts \in 0..MaxStarts
  /\ {g_isInit, lib, m_work_b, m_run_b, queued} \subseteq BOOLEAN
  /\ object \in [Start -> {"none", "live", "deleted"}]
  /\ g_pSipStack \in 0..MaxStarts
  /\ {task, server} \subseteq Thread
  /\ event \in [Start -> Thread]
  /\ m_bProcEventThreadRun \in [Start -> BOOLEAN]
  /\ g_isInit => object[starts] = "live" /\ g_pSipStack \in {0, starts}

Init ==
  /\ ConnInit /\ TimerInit
  /\ main = "no call" /\ starts = 0
  /\ g_isInit = FALSE
  /\ object = [n \in Start |-> "none"]
  /\ g_pSipStack = 0
  /\ lib = FALSE
  /\ task = "off" /\ m_work_b = FALSE
  /\ server = "off" /\ m_run_b = FALSE
  /\ event = [n \in Start |-> "off"]
  /\ m_bProcEventThreadRun = [n \in Start |-> FALSE]
  /\ queued = FALSE

At(place) == main = place
Go(place) == main' = place

-----------------------------------------------------------------------------
(* SIP_SDK_Init.                                                           *)

\* A second call while the stack is up is refused, as is one with a missing
\* parameter; otherwise a server and a client are made.
SIP_SDK_Init ==
  /\ At("no call") /\ ~g_isInit /\ starts < MaxStarts
  /\ Go("InitMiniSip")
  /\ starts' = starts + 1
  /\ object' = [object EXCEPT ![starts + 1] = "live"]
  /\ UNCHANGED <<connVars, timerVars, g_isInit, g_pSipStack, lib, threads>>

\* CDcgStack::Init sets the global pointer even if CSipStack::Init failed;
\* nothing else happens on the way back.
InitFails ==
  /\ main \in {"InitMiniSip", "ConnMgr", "regUdpSocket", "event thread", "NVS init",
               "register timer", "register msg"}
  /\ Go("no call")
  /\ g_pSipStack' = starts
  /\ UNCHANGED <<connVars, timerVars, starts, g_isInit, object, lib, threads>>

InitMiniSip ==
  /\ At("InitMiniSip") /\ Go("ConnMgr")
  /\ lib' = TRUE
  /\ UNCHANGED <<connVars, timerVars, starts, g_isInit, object, g_pSipStack,
                 threads>>

\* The steps of CSipStack::Init that are CConnMgr's and CNVSTimer's.
InitConn ==
  /\ \/ At("ConnMgr") /\ Go("regUdpSocket") /\ ConnInitRun(starts)
     \/ At("regUdpSocket") /\ Go("event thread") /\ regUdpSocket(starts)
  /\ UNCHANGED <<timerVars, sdk, threads>>

InitEventThread ==
  /\ At("event thread") /\ Go("NVS init")
  /\ event' = [event EXCEPT ![starts] = "idle"]
  /\ m_bProcEventThreadRun' = [m_bProcEventThreadRun EXCEPT ![starts] = TRUE]
  /\ queued' = FALSE
  /\ UNCHANGED <<connVars, timerVars, sdk, task, m_work_b, server, m_run_b>>

InitTimer ==
  /\ \/ At("NVS init") /\ Go("register timer") /\ TimerInitCall
     \/ At("register timer") /\ Go("register msg") /\ registerTimer(TimerTrigger(starts))
     \/ At("register msg") /\ Go("NVS run") /\ registerTimer(MsgTimerTrigger(starts))
  /\ UNCHANGED <<connVars, sdk, threads>>

\* The timer's first interval is a second: by then CDcgStack::Init has set
\* the global pointer.
InitTimerRun ==
  /\ At("NVS run") /\ Go("server")
  /\ TimerRun
  /\ g_pSipStack' = starts
  /\ UNCHANGED <<connVars, starts, g_isInit, object, lib, threads>>

\* The server's threads, the stack thread, and the flags of a start that
\* succeeded.
InitServer ==
  /\ At("server") /\ Go("no call")
  /\ server' = "idle" /\ m_run_b' = TRUE
  /\ task' = "idle" /\ m_work_b' = TRUE
  /\ g_isInit' = TRUE
  /\ UNCHANGED <<connVars, timerVars, starts, object, g_pSipStack, lib, event,
                 m_bProcEventThreadRun, queued>>

-----------------------------------------------------------------------------
(* SIP_SDK_UnInit.                                                         *)

SIP_SDK_UnInit ==
  /\ At("no call") /\ g_isInit
  /\ Go("task flag")
  /\ UNCHANGED <<connVars, timerVars, sdk, threads>>

\* CSipStackTask::Fini, then the server's threads.
FiniTask ==
  /\ \/ /\ At("task flag") /\ Go("task join")
        /\ m_work_b' = FALSE
        /\ UNCHANGED <<task, m_run_b>>
     \/ /\ At("task join") /\ Go("server join")
        /\ task = "ended" /\ task' = "off"
        /\ m_run_b' = FALSE
        /\ UNCHANGED m_work_b
  /\ UNCHANGED <<connVars, timerVars, sdk, server, event, m_bProcEventThreadRun,
                 queued>>

\* Mutant: the server's threads are not waited for.
FiniServerMutant ==
  /\ At("server join") /\ Go("cancel timer")
  /\ server' = IF server = "ended" THEN "off" ELSE server
  /\ UNCHANGED <<connVars, timerVars, sdk, task, m_work_b, m_run_b, event,
                 m_bProcEventThreadRun, queued>>

FiniServer ==
  /\ At("server join") /\ Go("cancel timer")
  /\ server = "ended" /\ server' = "off"
  /\ UNCHANGED <<connVars, timerVars, sdk, task, m_work_b, m_run_b, event,
                 m_bProcEventThreadRun, queued>>

\* The steps of CSipStack::Fini that are CNVSTimer's; exit comes last.
FiniTimer ==
  /\ \/ At("cancel timer") /\ Go("cancel msg") /\ cancelTimer(TimerTrigger(starts))
     \/ At("cancel msg") /\ Go("event flag") /\ cancelTimer(MsgTimerTrigger(starts))
     \/ At("NVS flag") /\ Go("clearTimer") /\ TimerExitFlag
     \/ At("clearTimer") /\ Go("NVS join") /\ clearTimer
     \/ At("NVS join") /\ Go("delete") /\ TimerJoined /\ UNCHANGED timerVars
  /\ UNCHANGED <<connVars, sdk, threads>>

\* Mutant: the event thread is not told to end.
FiniEventMutant ==
  /\ \/ At("event flag") /\ Go("event join")
     \/ At("event join") /\ Go("close") /\ event[starts] = "ended"
  /\ UNCHANGED <<connVars, timerVars, sdk, threads>>

FiniEvent ==
  /\ \/ /\ At("event flag") /\ Go("event join")
        /\ m_bProcEventThreadRun' = [m_bProcEventThreadRun EXCEPT ![starts] = FALSE]
     \/ /\ At("event join") /\ Go("close")
        /\ event[starts] = "ended"
        /\ UNCHANGED m_bProcEventThreadRun
  /\ UNCHANGED <<connVars, timerVars, sdk, task, m_work_b, server, m_run_b,
                 event, queued>>

\* And CConnMgr's.
FiniConn ==
  /\ \/ At("close") /\ Go("removeHandle") /\ removeUdpSocketClose(starts)
     \/ At("removeHandle") /\ Go("exit flag") /\ removeHandle(starts)
     \/ At("exit flag") /\ Go("exit join") /\ ConnExitFlag(m_pUdpSockMgr)
     \/ At("exit join") /\ Go("DeInit") /\ ConnExitDelete(m_pUdpSockMgr)
  /\ UNCHANGED <<timerVars, sdk, threads>>

FiniLib ==
  /\ At("DeInit") /\ Go("NVS flag")
  /\ lib' = FALSE
  /\ UNCHANGED <<connVars, timerVars, starts, g_isInit, object, g_pSipStack,
                 threads>>

\* Mutant: m_bInit and g_isInit stay set.
FiniDeleteMutant ==
  /\ At("delete") /\ Go("no call")
  /\ object' = [object EXCEPT ![starts] = "deleted"]
  /\ g_pSipStack' = 0
  /\ queued' = FALSE
  /\ UNCHANGED <<connVars, timerVars, starts, g_isInit, lib, task, m_work_b,
                 server, m_run_b, event, m_bProcEventThreadRun>>

\* CSipStack, the server and the client are deleted.
FiniDelete ==
  /\ At("delete") /\ Go("no call")
  /\ object' = [object EXCEPT ![starts] = "deleted"]
  /\ g_pSipStack' = 0
  /\ g_isInit' = FALSE
  /\ queued' = FALSE
  /\ UNCHANGED <<connVars, timerVars, starts, lib, task, m_work_b, server,
                 m_run_b, event, m_bProcEventThreadRun>>

-----------------------------------------------------------------------------
(* The threads.                                                            *)

\* There is always something to do for the stack thread ...
StackThread ==
  /\ \/ task = "idle" /\ m_work_b /\ task' = "busy"
     \/ task = "busy" /\ task' = "idle"
     \/ task = "idle" /\ ~m_work_b /\ task' = "ended"
  /\ UNCHANGED <<connVars, timerVars, main, sdk, m_work_b, server, m_run_b,
                 event, m_bProcEventThreadRun, queued>>

\* ... and for the server.
ServerThread ==
  /\ \/ server = "idle" /\ m_run_b /\ server' = "busy"
     \/ server = "busy" /\ server' = "idle"
     \/ server = "idle" /\ ~m_run_b /\ server' = "ended"
  /\ UNCHANGED <<connVars, timerVars, main, sdk, task, m_work_b, m_run_b, event,
                 m_bProcEventThreadRun, queued>>

EventThread(n) ==
  /\ \/ /\ event[n] = "idle" /\ g_pSipStack = n /\ queued
        /\ event' = [event EXCEPT ![n] = "busy"] /\ queued' = FALSE
     \/ event[n] = "busy" /\ event' = [event EXCEPT ![n] = "idle"] /\ UNCHANGED queued
     \/ /\ event[n] = "idle" /\ ~m_bProcEventThreadRun[n]
        /\ event' = [event EXCEPT ![n] = "ended"] /\ UNCHANGED queued
  /\ UNCHANGED <<connVars, timerVars, main, sdk, task, m_work_b, server,
                 m_run_b, m_bProcEventThreadRun>>

\* OnTrigger puts an event into the queue of the stack that g_pSipStack names.
TimerStep ==
  /\ TimerThread
  /\ queued' = (queued \/ (timer.at = "call" /\ timer.calls = TimerTrigger(g_pSipStack)))
  /\ UNCHANGED <<connVars, main, sdk, task, m_work_b, server, m_run_b, event,
                 m_bProcEventThreadRun>>

\* The datagram goes to the stack thread's queue, or is dropped.
Received(n) ==
  /\ \E received \in BOOLEAN : handle_recv(n, received)
  /\ UNCHANGED <<timerVars, lifeVars>>

SelectStep(n) == SelectThread(n) /\ UNCHANGED <<timerVars, lifeVars>>
Arrives == Datagram /\ UNCHANGED <<timerVars, lifeVars>>

-----------------------------------------------------------------------------
InInit == InitMiniSip \/ InitConn \/ InitEventThread \/ InitTimer \/ InitTimerRun \/ InitServer
InUnInit == FiniTask \/ FiniServer \/ FiniTimer \/ FiniEvent \/ FiniConn \/ FiniLib \/ FiniDelete
OfStart(n) == EventThread(n) \/ Received(n) \/ SelectStep(n)

Next ==
  \/ SIP_SDK_Init \/ InInit \/ InitFails
  \/ SIP_SDK_UnInit \/ InUnInit
  \/ StackThread \/ ServerThread \/ TimerStep \/ Arrives
  \/ \E n \in Start : OfStart(n)

Spec == Init /\ [][Next]_vars

\* A call under way goes on (it gets a mutex that a thread takes and gives
\* back between its sleeps), and every thread runs, also one left over from a
\* failed start.
Fairness ==
  /\ WF_vars(InInit \/ InitFails) /\ SF_vars(InUnInit)
  /\ WF_vars(StackThread) /\ WF_vars(ServerThread)
  /\ WF_vars(TimerStep)
  /\ \A n \in Start : WF_vars(EventThread(n)) /\ WF_vars(Received(n) \/ SelectStep(n))

FairSpec == Spec /\ Fairness

-----------------------------------------------------------------------------
(* Properties.                                                             *)

\* What a thread works with exists: its stack and server are not deleted, and
\* the library is initialised where it is called; neither a stop in the
\* middle of the work nor an earlier start that failed changes that.  A timer
\* that was cancelled and a socket that was removed are not called back, in
\* the middle of a scan or a select as the thread may have been.
NothingIsUsedAfterDelete ==
  /\ task = "busy" => g_pSipStack # 0 /\ object[g_pSipStack] = "live" /\ lib
  /\ server = "busy" => object[starts] = "live"
  /\ timer.at = "call" =>
       /\ trigger[timer.calls] = "live" /\ object[timer.calls[1]] = "live"
       /\ g_pSipStack # 0 /\ lib
  /\ \A n \in Start :
       /\ event[n] = "busy" => object[n] = "live" /\ g_pSipStack = n /\ lib
       /\ select[n].at = "recv" => object[n] = "live"
  /\ CancelledIsQuiet /\ RemovedIsQuiet

\* Nothing of a stack that was stopped goes on, or keeps the port, when
\* SIP_SDK_UnInit has returned; its two timers are not called back.
StopsWhatItStarted ==
  \A n \in Start :
    object[n] = "deleted" =>
      /\ select[n].at = "ended" /\ event[n] = "ended" /\ port # n
      /\ m_pUdpSockMgr # n
      /\ n = starts => /\ {task, server} = {"off"}
                       /\ timer.at \in {"off", "ended"} /\ ~lib

\* SIP_SDK_Init and SIP_SDK_UnInit return: no thread that is joined waits for
\* what the joining thread holds or has stopped.
CallsReturn == main # "no call" ~> main = "no call"
=============================================================================
