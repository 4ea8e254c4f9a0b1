------------------------------- MODULE NVSTimer -------------------------------
(***************************************************************************)
(* CNVSTimer, the process's timer: triggers are registered and cancelled   *)
(* by the threads that own them, and the timer's thread calls OnTrigger of *)
(* those whose interval has passed, with the list's mutex held.  An owner  *)
(* deletes its trigger as soon as cancelTimer has returned.                *)
(*                                                                         *)
(* A trigger is registered once, so its item goes by its name.  Time is    *)
(* abstract: an item in the list is due whenever the thread finds it so.   *)
(* Every trigger of the program is repeated; the one-shot branch is left   *)
(* out.                                                                    *)
(***************************************************************************)
CONSTANTS Trigger, NoTrigger

ASSUME NVSTimerAssumption == NoTrigger \notin Trigger

VARIABLES
  trigger,   \* the owner's object: "none", "live" or "deleted"
  item,      \* per trigger: its CTimerItem
  timer,     \* the thread: where it is, the trigger it calls, what its scan
             \* has yet to come to
  timerExit  \* m_bExit

timerVars == <<trigger, item, timer, timerExit>>

ItemState == {"none", "listed", "removed", "fired", "lost", "freed"}
Listed == {t \in Trigger : item[t] \in {"listed", "removed"}}

TimerTypeOK ==
  /\ trigger \in [Trigger -> {"none", "live", "deleted"}]
  /\ item \in [Trigger -> ItemState]
  /\ timer \in [at : {"off", "while", "sleep", "scan", "call", "ended"},
                calls : Trigger \cup {NoTrigger}, todo : SUBSET Trigger]
  /\ timerExit \in BOOLEAN

TimerInit ==
  /\ trigger = [t \in Trigger |-> "none"]
  /\ item = [t \in Trigger |-> "none"]
  /\ timer = [at |-> "off", calls |-> NoTrigger, todo |-> {}]
  /\ timerExit = FALSE

\* m_pMutexListOfTrigger is the thread's during its whole scan; every other
\* critical section is one step.
ListIsFree == timer.at \notin {"scan", "call"}

-----------------------------------------------------------------------------
(* The operations, on a thread that is not the timer's.                    *)

\* A new, empty list; items of a list that was not cleared are out of reach.
TimerInitCall ==
  /\ timerExit' = FALSE
  /\ item' = [t \in Trigger |-> IF t \in Listed THEN "lost" ELSE item[t]]
  /\ UNCHANGED <<trigger, timer>>

\* The trigger is created and registered.
registerTimer(t) ==
  /\ ListIsFree /\ ~timerExit
  /\ trigger' = [trigger EXCEPT ![t] = "live"]
  /\ item' = [item EXCEPT ![t] = "listed"]
  /\ UNCHANGED <<timer, timerExit>>

TimerRun ==
  /\ timer' = [timer EXCEPT !.at = "while"]
  /\ UNCHANGED <<trigger, item, timerExit>>

\* The item stays in the list, for the thread to delete; the trigger is
\* deleted by its owner.
cancelTimer(t) ==
  /\ ListIsFree
  /\ item' = [item EXCEPT ![t] = IF @ = "listed" THEN "removed" ELSE @]
  /\ trigger' = [trigger EXCEPT ![t] = "deleted"]
  /\ UNCHANGED <<timer, timerExit>>

\* exit: the flag, ...
TimerExitFlag ==
  /\ timerExit' = TRUE
  /\ UNCHANGED <<trigger, item, timer>>

\* ... clearTimer, ...
clearTimer ==
  /\ ListIsFree
  /\ item' = [t \in Trigger |-> IF t \in Listed THEN "freed" ELSE item[t]]
  /\ UNCHANGED <<trigger, timer, timerExit>>

\* ... and the join, of a thread that may never have been started.
TimerJoined == timer.at \in {"off", "ended"}

-----------------------------------------------------------------------------
(* mainLoop.                                                               *)

TimerWhile ==
  /\ timer.at = "while"
  /\ timer' = [timer EXCEPT !.at = IF timerExit THEN "ended" ELSE "sleep"]
  /\ UNCHANGED <<trigger, item, timerExit>>

\* The scan begins; the items removed are deleted on the way.
TimerLock ==
  /\ timer.at = "sleep"
  /\ timer' = [timer EXCEPT !.at = "scan", !.todo = {t \in Trigger : item[t] = "listed"}]
  /\ item' = [t \in Trigger |-> IF item[t] = "removed" THEN "freed" ELSE item[t]]
  /\ UNCHANGED <<trigger, timerExit>>

\* An item whose interval has passed is taken out, and its trigger called.
TimerCall(t) ==
  /\ timer.at = "scan" /\ t \in timer.todo
  /\ timer' = [at |-> "call", calls |-> t, todo |-> timer.todo \ {t}]
  /\ item' = [item EXCEPT ![t] = "fired"]
  /\ UNCHANGED <<trigger, timerExit>>

\* OnTrigger has returned: the item is put back at its next interval.
TimerReturn ==
  /\ timer.at = "call"
  /\ timer' = [timer EXCEPT !.at = "scan", !.calls = NoTrigger]
  /\ item' = [item EXCEPT ![timer.calls] = "listed"]
  /\ UNCHANGED <<trigger, timerExit>>

\* The items left in the scan are not due.
TimerUnlock ==
  /\ timer.at = "scan"
  /\ timer' = [timer EXCEPT !.at = "while", !.todo = {}]
  /\ UNCHANGED <<trigger, item, timerExit>>

TimerThread ==
  \/ TimerWhile \/ TimerLock \/ TimerReturn \/ TimerUnlock
  \/ \E t \in Trigger : TimerCall(t)

-----------------------------------------------------------------------------
\* A trigger that was cancelled, and with it deleted, is not being called and
\* is named by no item the thread could come to, although it may have been in
\* the middle of a scan when cancelTimer was called.
CancelledIsQuiet ==
  \A t \in Trigger :
    trigger[t] = "deleted" => timer.calls # t /\ item[t] \notin {"listed", "fired"}
=============================================================================
