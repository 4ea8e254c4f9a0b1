----------------------------- MODULE StackTimers -----------------------------
(***************************************************************************)
(* The timers CSipStack keeps for the MiniSip library.                     *)
(*                                                                         *)
(* The library starts and stops a timer by SipStartTimer and SipStopTimer, *)
(* on the stack thread or, inside SipTxnTimeoutHandler, on the event       *)
(* thread, always under the MiniSip mutex; both only put an event into a   *)
(* bounded queue.  The timer thread puts a trigger event into the same     *)
(* queue at every interval.  The event thread (ProcEventThread) takes the  *)
(* events in order and alone touches the map of timers; on a trigger it    *)
(* reads the time once, then calls the library for every timer elapsed.    *)
(* The time is abstract: a timer has elapsed or it has not.                *)
(***************************************************************************)
EXTENDS Naturals, Sequences, FiniteSetsExt

CONSTANTS MaxTimers,            \* bound: timers the library starts
          EVENT_SYNC_QUEUE_NUM

ASSUME StackTimersAssumption ==
  MaxTimers \in Nat /\ EVENT_SYNC_QUEUE_NUM \in Nat \ {0}

Timer == 1..MaxTimers
NoTimer == 0
Event == [type : {"TRIGGER", "REGISTER", "CANCEL", "EXIT"}, timer : Timer \cup {NoTimer}]
Ev(type, t) == [type |-> type, timer |-> t]

VARIABLES
  m_objEventSyncQueue,
  m_mapTimerIdToInfo,    \* per timer: not in the map, in it, in it with bStop
  m_bProcEventThreadRun,
  m_ulTimerId,
  m_minisip_mutex,       \* "stack", "event" or "free"
  elapsed,               \* timers whose length has passed since their start
  trigger,               \* the timer thread still calls OnTrigger
  stack,                 \* where the stack thread is, and the event it adds
  event,                 \* where the event thread is, its timer and event,
                         \* and the elapsed timers it has not come to
  fini,                  \* where CSipStack::Fini is
  lib,                   \* what the library knows of each timer
  fired,                 \* history: calls of the handler, per timer
  cancelled,             \* history: timers whose CANCEL was queued
  lost                   \* history: timers whose CANCEL was refused

vars == <<m_objEventSyncQueue, m_mapTimerIdToInfo, m_bProcEventThreadRun,
          m_ulTimerId, m_minisip_mutex, elapsed, trigger, stack, event, fini,
          lib, fired, cancelled, lost>>
libVars == <<m_ulTimerId, lib, fired>>
cancelVars == <<cancelled, lost>>

NoEvent == Ev("EXIT", NoTimer)

\* The type of every variable; the event queue never holds more events than
\* its limit, whichever of its three writers comes last.
TypeOK ==
  /\ m_objEventSyncQueue \in Seq(Event)
  /\ Len(m_objEventSyncQueue) <= EVENT_SYNC_QUEUE_NUM
  /\ m_mapTimerIdToInfo \in [Timer -> {"absent", "armed", "stopped"}]
  /\ {m_bProcEventThreadRun, trigger} \subseteq BOOLEAN
  /\ m_ulTimerId \in 0..MaxTimers
  /\ m_minisip_mutex \in {"free", "stack", "event"}
  /\ elapsed \subseteq Timer
  /\ stack \in [at : {"out", "in", "add", "off"}, add : Event]
  /\ event \in [at : {"while", "pop", "scan", "lock", "in", "add", "off"},
                add : Event, timer : Timer \cup {NoTimer}, todo : SUBSET Timer]
  /\ fini \in {"up", "cancel", "exit", "join", "done"}
  /\ lib \in [Timer -> {"new", "running", "refused", "stopped", "expired"}]
  /\ fired \in [Timer -> Nat]
  /\ cancelled \subseteq Timer
  /\ lost \subseteq Timer

\* CSipStack::Init has returned.
Init ==
  /\ m_objEventSyncQueue = <<>>
  /\ m_mapTimerIdToInfo = [t \in Timer |-> "absent"]
  /\ m_bProcEventThreadRun = TRUE
  /\ m_ulTimerId = 0
  /\ m_minisip_mutex = "free"
  /\ elapsed = {}
  /\ trigger = TRUE
  /\ stack = [at |-> "out", add |-> NoEvent]
  /\ event = [at |-> "while", add |-> NoEvent, timer |-> NoTimer, todo |-> {}]
  /\ fini = "up"
  /\ lib = [t \in Timer |-> "new"]
  /\ fired = [t \in Timer |-> 0]
  /\ cancelled = {}
  /\ lost = {}

-----------------------------------------------------------------------------
(* The queue.                                                              *)

HasRoom == Len(m_objEventSyncQueue) < EVENT_SYNC_QUEUE_NUM

\* Mutant: the queue is used in its waiting mode.
AddEventMutant(e) ==
  HasRoom /\ m_objEventSyncQueue' = Append(m_objEventSyncQueue, e)

\* Mutant: the length is tested with > instead of >=.
AddEventOverMutant(e) ==
  IF Len(m_objEventSyncQueue) <= EVENT_SYNC_QUEUE_NUM
  THEN m_objEventSyncQueue' = Append(m_objEventSyncQueue, e)
  ELSE UNCHANGED m_objEventSyncQueue

\* AddEvent and pushBackEv: a full queue refuses the event.
AddEvent(e) ==
  IF HasRoom THEN m_objEventSyncQueue' = Append(m_objEventSyncQueue, e)
             ELSE UNCHANGED m_objEventSyncQueue

Queued(e) == \E i \in DOMAIN m_objEventSyncQueue : m_objEventSyncQueue[i] = e

\* SipStopTimer: what becomes of a CANCEL.
CancelAdded(t) ==
  /\ AddEvent(Ev("CANCEL", t))
  /\ IF HasRoom THEN cancelled' = cancelled \cup {t} /\ UNCHANGED lost
                ELSE lost' = lost \cup {t} /\ UNCHANGED cancelled

-----------------------------------------------------------------------------
(* The library, on the thread that holds the MiniSip mutex.                *)

\* It decides to start a timer, or to stop one it believes to be running.
LibraryCall(e) ==
  \/ /\ m_ulTimerId < MaxTimers
     /\ m_ulTimerId' = m_ulTimerId + 1
     /\ e = Ev("REGISTER", m_ulTimerId + 1)
     /\ UNCHANGED lib
  \/ \E t \in Timer :
       /\ lib[t] = "running"
       /\ e = Ev("CANCEL", t)
       /\ lib' = [lib EXCEPT ![t] = "stopped"]
       /\ UNCHANGED m_ulTimerId

\* SipStartTimer reports a refused REGISTER, SipStopTimer nothing.
LibraryAdds(e) ==
  \/ /\ e.type = "REGISTER"
     /\ AddEvent(e)
     /\ lib' = [lib EXCEPT ![e.timer] = IF HasRoom THEN "running" ELSE "refused"]
     /\ UNCHANGED cancelVars
  \/ /\ e.type = "CANCEL"
     /\ CancelAdded(e.timer)
     /\ UNCHANGED lib

StackEnter ==
  /\ stack.at = "out"
  /\ m_minisip_mutex = "free"
  /\ m_minisip_mutex' = "stack"
  /\ stack' = [stack EXCEPT !.at = "in"]
  /\ UNCHANGED <<m_objEventSyncQueue, m_mapTimerIdToInfo, m_bProcEventThreadRun,
                 elapsed, trigger, event, fini, libVars, cancelVars>>

StackCall ==
  /\ stack.at = "in"
  /\ \E e \in Event : LibraryCall(e) /\ stack' = [at |-> "add", add |-> e]
  /\ UNCHANGED <<m_objEventSyncQueue, m_mapTimerIdToInfo, m_bProcEventThreadRun,
                 m_minisip_mutex, elapsed, trigger, event, fini, fired, cancelVars>>

StackAdd ==
  /\ stack.at = "add"
  /\ LibraryAdds(stack.add)
  /\ stack' = [at |-> "in", add |-> NoEvent]
  /\ UNCHANGED <<m_mapTimerIdToInfo, m_bProcEventThreadRun, m_ulTimerId, fired,
                 m_minisip_mutex, elapsed, trigger, event, fini>>

StackLeave ==
  /\ stack.at = "in"
  /\ m_minisip_mutex' = "free"
  /\ stack' = [stack EXCEPT !.at = "out"]
  /\ UNCHANGED <<m_objEventSyncQueue, m_mapTimerIdToInfo, m_bProcEventThreadRun,
                 elapsed, trigger, event, fini, libVars, cancelVars>>

-----------------------------------------------------------------------------
(* Time and the timer thread.                                              *)

Elapse(t) ==
  /\ t \notin elapsed /\ t <= m_ulTimerId
  /\ elapsed' = elapsed \cup {t}
  /\ UNCHANGED <<m_objEventSyncQueue, m_mapTimerIdToInfo, m_bProcEventThreadRun,
                 m_minisip_mutex, trigger, stack, event, fini, libVars, cancelVars>>

\* CSipStackTimerTrigger::OnTrigger.
OnTrigger ==
  /\ trigger
  /\ HasRoom
  /\ AddEvent(Ev("TRIGGER", NoTimer))
  /\ UNCHANGED <<m_mapTimerIdToInfo, m_bProcEventThreadRun, m_minisip_mutex,
                 elapsed, trigger, stack, event, fini, libVars, cancelVars>>

-----------------------------------------------------------------------------
(* The event thread.                                                       *)

Front == Head(m_objEventSyncQueue)
Pop == m_objEventSyncQueue' = Tail(m_objEventSyncQueue)
AtEvent(type) ==
  event.at = "pop" /\ m_objEventSyncQueue # <<>> /\ Front.type = type
NextRound == event' = [event EXCEPT !.at = "while"]

\* The loop's condition; the queue may fill and Fini begin before the pop.
While ==
  /\ event.at = "while" /\ m_bProcEventThreadRun
  /\ event' = [event EXCEPT !.at = "pop"]
  /\ UNCHANGED <<m_objEventSyncQueue, m_mapTimerIdToInfo, m_bProcEventThreadRun,
                 m_minisip_mutex, elapsed, trigger, stack, fini, libVars, cancelVars>>

\* An empty queue: the thread sleeps and looks at the condition again.
Sleep ==
  /\ event.at = "pop" /\ m_objEventSyncQueue = <<>>
  /\ NextRound
  /\ UNCHANGED <<m_objEventSyncQueue, m_mapTimerIdToInfo, m_bProcEventThreadRun,
                 m_minisip_mutex, elapsed, trigger, stack, fini, libVars, cancelVars>>

\* Mutant: bStop is not initialised when the timer is started.
HandleEventTimerRegisterMutant ==
  /\ AtEvent("REGISTER")
  /\ Pop
  /\ NextRound
  /\ m_mapTimerIdToInfo' = [m_mapTimerIdToInfo EXCEPT ![Front.timer] = "stopped"]
  /\ UNCHANGED <<m_bProcEventThreadRun, m_minisip_mutex, elapsed, trigger, stack,
                 fini, libVars, cancelVars>>

HandleEventTimerRegister ==
  /\ AtEvent("REGISTER")
  /\ Pop
  /\ NextRound
  /\ m_mapTimerIdToInfo' = [m_mapTimerIdToInfo EXCEPT ![Front.timer] = "armed"]
  /\ UNCHANGED <<m_bProcEventThreadRun, m_minisip_mutex, elapsed, trigger, stack,
                 fini, libVars, cancelVars>>

\* Mutant: only a timer that has not fired is erased.
HandleEventTimerCancelMutant ==
  /\ AtEvent("CANCEL")
  /\ Pop
  /\ NextRound
  /\ m_mapTimerIdToInfo' =
       [m_mapTimerIdToInfo EXCEPT ![Front.timer] = IF @ = "stopped" THEN @ ELSE "absent"]
  /\ UNCHANGED <<m_bProcEventThreadRun, m_minisip_mutex, elapsed, trigger, stack,
                 fini, libVars, cancelVars>>

HandleEventTimerCancel ==
  /\ AtEvent("CANCEL")
  /\ Pop
  /\ NextRound
  /\ m_mapTimerIdToInfo' = [m_mapTimerIdToInfo EXCEPT ![Front.timer] = "absent"]
  /\ UNCHANGED <<m_bProcEventThreadRun, m_minisip_mutex, elapsed, trigger, stack,
                 fini, libVars, cancelVars>>

\* Mutant: the time that has passed is not compared with the timer's length.
TriggerBeginMutant ==
  /\ AtEvent("TRIGGER")
  /\ Pop
  /\ event' = [event EXCEPT !.at = "scan",
                 !.todo = {t \in Timer : m_mapTimerIdToInfo[t] = "armed"}]
  /\ UNCHANGED <<m_mapTimerIdToInfo, m_bProcEventThreadRun, m_minisip_mutex,
                 elapsed, trigger, stack, fini, libVars, cancelVars>>

\* HandleEventTimerTrigger reads the time once; nobody else touches the map
\* while it goes through it.
TriggerBegin ==
  /\ AtEvent("TRIGGER")
  /\ Pop
  /\ event' = [event EXCEPT !.at = "scan",
                 !.todo = {t \in elapsed : m_mapTimerIdToInfo[t] = "armed"}]
  /\ UNCHANGED <<m_mapTimerIdToInfo, m_bProcEventThreadRun, m_minisip_mutex,
                 elapsed, trigger, stack, fini, libVars, cancelVars>>

\* The entry's bStop.
Mark(t) == m_mapTimerIdToInfo' = [m_mapTimerIdToInfo EXCEPT ![t] = "stopped"]

Stop(t) == CancelAdded(t)

\* The next elapsed timer is marked and stopped; then its turn in the library.
TriggerNext ==
  /\ event.at = "scan" /\ event.todo # {}
  /\ LET t == Min(event.todo)
     IN /\ Mark(t)
        /\ Stop(t)
        /\ event' = [event EXCEPT !.at = "lock", !.timer = t, !.todo = @ \ {t}]
  /\ UNCHANGED <<m_bProcEventThreadRun, m_minisip_mutex, elapsed, trigger, stack,
                 fini, libVars>>

\* SipTxnTimeoutHandler begins; the library may have stopped the timer since.
TriggerLock ==
  /\ event.at = "lock"
  /\ m_minisip_mutex = "free"
  /\ m_minisip_mutex' = "event"
  /\ event' = [event EXCEPT !.at = "in"]
  /\ fired' = [fired EXCEPT ![event.timer] = @ + 1]
  /\ lib' = [lib EXCEPT ![event.timer] = IF @ = "running" THEN "expired" ELSE @]
  /\ UNCHANGED <<m_objEventSyncQueue, m_mapTimerIdToInfo, m_bProcEventThreadRun,
                 m_ulTimerId, elapsed, trigger, stack, fini, cancelVars>>

TriggerCall ==
  /\ event.at = "in"
  /\ \E e \in Event : LibraryCall(e) /\ event' = [event EXCEPT !.at = "add", !.add = e]
  /\ UNCHANGED <<m_objEventSyncQueue, m_mapTimerIdToInfo, m_bProcEventThreadRun,
                 m_minisip_mutex, elapsed, trigger, stack, fini, fired, cancelVars>>

TriggerAdd ==
  /\ event.at = "add"
  /\ LibraryAdds(event.add)
  /\ event' = [event EXCEPT !.at = "in", !.add = NoEvent]
  /\ UNCHANGED <<m_mapTimerIdToInfo, m_bProcEventThreadRun, m_ulTimerId, fired,
                 m_minisip_mutex, elapsed, trigger, stack, fini>>

TriggerUnlock ==
  /\ event.at = "in"
  /\ m_minisip_mutex' = "free"
  /\ event' = [event EXCEPT !.at = "scan", !.timer = NoTimer]
  /\ UNCHANGED <<m_objEventSyncQueue, m_mapTimerIdToInfo, m_bProcEventThreadRun,
                 elapsed, trigger, stack, fini, libVars, cancelVars>>

TriggerEnd ==
  /\ event.at = "scan" /\ event.todo = {}
  /\ event' = [event EXCEPT !.at = "while"]
  /\ UNCHANGED <<m_objEventSyncQueue, m_mapTimerIdToInfo, m_bProcEventThreadRun,
                 m_minisip_mutex, elapsed, trigger, stack, fini, libVars, cancelVars>>

HandleExit ==
  /\ AtEvent("EXIT")
  /\ Pop
  /\ NextRound
  /\ m_bProcEventThreadRun' = FALSE
  /\ UNCHANGED <<m_mapTimerIdToInfo, m_minisip_mutex, elapsed, trigger, stack,
                 fini, libVars, cancelVars>>

\* The loop is left; what is still queued is freed, and the thread ends.
Drain ==
  /\ event.at = "while" /\ ~m_bProcEventThreadRun
  /\ m_objEventSyncQueue' = <<>>
  /\ event' = [event EXCEPT !.at = "off"]
  /\ UNCHANGED <<m_mapTimerIdToInfo, m_bProcEventThreadRun, m_minisip_mutex,
                 elapsed, trigger, stack, fini, libVars, cancelVars>>

-----------------------------------------------------------------------------
(* CSipStack::Fini, called when the stack thread has been joined.          *)

\* cancelTimer waits for a running OnTrigger and ends the triggers.
FiniCancel ==
  /\ fini = "up" /\ stack.at = "out"
  /\ stack' = [stack EXCEPT !.at = "off"]
  /\ trigger' = FALSE
  /\ fini' = "cancel"
  /\ UNCHANGED <<m_objEventSyncQueue, m_mapTimerIdToInfo, m_bProcEventThreadRun,
                 m_minisip_mutex, elapsed, event, libVars, cancelVars>>

FiniFlag ==
  /\ fini = "cancel"
  /\ m_bProcEventThreadRun' = FALSE
  /\ fini' = "exit"
  /\ UNCHANGED <<m_objEventSyncQueue, m_mapTimerIdToInfo, m_minisip_mutex, elapsed,
                 trigger, stack, event, libVars, cancelVars>>

FiniExit ==
  /\ fini = "exit"
  /\ AddEvent(Ev("EXIT", NoTimer))
  /\ fini' = "join"
  /\ UNCHANGED <<m_mapTimerIdToInfo, m_bProcEventThreadRun, m_minisip_mutex, elapsed,
                 trigger, stack, event, libVars, cancelVars>>

FiniJoin ==
  /\ fini = "join" /\ event.at = "off"
  /\ fini' = "done"
  /\ UNCHANGED <<m_objEventSyncQueue, m_mapTimerIdToInfo, m_bProcEventThreadRun,
                 m_minisip_mutex, elapsed, trigger, stack, event, libVars, cancelVars>>

-----------------------------------------------------------------------------
InLibrary == StackCall \/ StackAdd \/ StackLeave
ProcEventThread ==
  \/ While \/ Sleep \/ Drain
  \/ HandleEventTimerRegister \/ HandleEventTimerCancel \/ HandleExit
  \/ TriggerBegin \/ TriggerNext \/ TriggerLock \/ TriggerCall \/ TriggerAdd
  \/ TriggerUnlock \/ TriggerEnd
InFini == FiniFlag \/ FiniExit \/ FiniJoin

Next ==
  \/ StackEnter \/ InLibrary
  \/ \E t \in Timer : Elapse(t)
  \/ OnTrigger
  \/ ProcEventThread
  \/ FiniCancel \/ InFini

Spec == Init /\ [][Next]_vars

\* The threads are scheduled, the timer thread among them, and the event
\* thread, asking for the mutex that the stack thread takes and releases, gets
\* it in the end.
Fairness ==
  /\ WF_vars(InLibrary)
  /\ WF_vars(ProcEventThread)
  /\ SF_vars(TriggerLock)
  /\ WF_vars(OnTrigger)
  /\ WF_vars(InFini)

FairSpec == Spec /\ Fairness

-----------------------------------------------------------------------------
(* Properties.                                                             *)

\* The library's handler is called at most once for a timer
\* (MiniSip.cpp:61: bStop prevents a timer from being stopped again), although
\* triggers queued before its CANCEL find it in the map, and although the
\* CANCEL may be refused.
FiresOnce == \A t \in Timer : fired[t] <= 1

\* No timer is left over in the map: one whose CANCEL was queued is there, or
\* its REGISTER still queued, only as long as that CANCEL is to come, so it can
\* fire only on a trigger queued before; one that has fired has its CANCEL
\* queued, unless the queue was full.
MapIsCleared ==
  fini = "up" =>
    \A t \in Timer :
      Queued(Ev("CANCEL", t)) \/
        /\ t \in cancelled =>
             m_mapTimerIdToInfo[t] = "absent" /\ ~Queued(Ev("REGISTER", t))
        /\ m_mapTimerIdToInfo[t] = "stopped" => t \in lost

\* The library sees timers that keep time, whatever the queue between its
\* threads refuses, delays or holds when Fini empties it: only what was started
\* fires, after its time and once, and when Fini has returned no handler is
\* called and no timer started or stopped.
Timers == INSTANCE TimerService
            WITH timer <- lib, calls <- fired, open <- fini # "done"

TimersAreServed == Timers!Spec

\* A timer that was started and has elapsed fires, unless the library or Fini
\* stops it.
ElapsedFires ==
  \A t \in Timer :
    lib[t] = "running" /\ t \in elapsed ~> lib[t] # "running" \/ fini # "up"

\* Nobody who holds the MiniSip mutex waits for the queue to be emptied by
\* the thread that waits for the mutex, and Fini ends, even when the queue is
\* full and refuses the exit event.
CallsReturn ==
  /\ stack.at # "out" ~> stack.at \in {"out", "off"}
  /\ fini # "up" ~> fini = "done"
=============================================================================
