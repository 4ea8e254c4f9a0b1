------------------------- MODULE StackTimersProofs -------------------------
(***************************************************************************)
(* Proofs about StackTimers, for every number of timers and every length   *)
(* of the event queue.                                                     *)
(***************************************************************************)
EXTENDS StackTimers, WellFoundedInduction, TLAPS

\* The library runs on the thread that holds the MiniSip mutex, and an event
\* this thread is about to queue is the REGISTER of a timer not known yet or
\* the CANCEL of one the library has stopped.
Held(e) ==
  /\ e.timer \in Timer
  /\ \/ e.type = "REGISTER" /\ lib[e.timer] = "new" /\ e.timer <= m_ulTimerId
     \/ e.type = "CANCEL" /\ lib[e.timer] = "stopped"

HoldInv ==
  /\ stack.at \in {"in", "add"} <=> m_minisip_mutex = "stack"
  /\ event.at \in {"in", "add"} <=> m_minisip_mutex = "event"
  /\ stack.at = "add" => Held(stack.add)
  /\ event.at = "add" => Held(event.add)

\* The REGISTER of a timer is before every other event of it in the queue,
\* another REGISTER included.
Length == Len(m_objEventSyncQueue)

QueueInv ==
  /\ \A i \in 1..Length :
       m_objEventSyncQueue[i].type \in {"REGISTER", "CANCEL"} =>
         m_objEventSyncQueue[i].timer \in Timer
  /\ \A i, j \in 1..Length :
       m_objEventSyncQueue[i].type = "REGISTER"
         /\ m_objEventSyncQueue[j].timer = m_objEventSyncQueue[i].timer => i <= j

\* A timer that was not started, or could not be, has left no trace.
NotStarted(t) ==
  /\ m_mapTimerIdToInfo[t] = "absent"
  /\ fired[t] = 0
  /\ t \notin cancelled
  /\ \A i \in 1..Length : m_objEventSyncQueue[i].timer # t

LibInv ==
  \A t \in Timer :
    /\ m_ulTimerId < t => lib[t] = "new"
    /\ lib[t] \in {"new", "refused"} => NotStarted(t)

\* A timer in the map that is not marked, and one whose REGISTER is still
\* queued, have not fired.
FireInv ==
  /\ FiresOnce
  /\ \A t \in Timer :
       /\ m_mapTimerIdToInfo[t] = "armed" => fired[t] = 0
       /\ Queued(Ev("REGISTER", t)) => fired[t] = 0 /\ m_mapTimerIdToInfo[t] = "absent"

\* Nor has the one whose turn it is; the trigger under way has only timers that
\* are not marked left to come to.
TurnInv ==
  /\ event.at = "lock" => fired[event.timer] = 0
  /\ event.at \in {"lock", "in", "add"} =>
       event.timer \in Timer /\ m_mapTimerIdToInfo[event.timer] = "stopped"
  /\ \A t \in event.todo : m_mapTimerIdToInfo[t] = "armed"
  /\ event.at \notin {"scan", "lock", "in", "add"} => event.todo = {}

\* Until Fini the event thread is not told to end, so no event is thrown away.
ClearInv ==
  /\ MapIsCleared
  /\ fini = "up" =>
       /\ m_bProcEventThreadRun
       /\ \A i \in 1..Length : m_objEventSyncQueue[i].type # "EXIT"

\* The inductive invariant.
IInv == TypeOK /\ HoldInv /\ QueueInv /\ LibInv /\ FireInv /\ TurnInv /\ ClearInv
-----------------------------------------------------------------------------
(* Lemmas.                                                                 *)

\* A set of natural numbers that is not empty has a least element: the timer
\* the event thread comes to next.
LEMMA LeastIsIn ==
  ASSUME NEW S \in SUBSET Nat, S # {}
  PROVE  Min(S) \in S
<1>1. \E x \in S : \A y \in S : x =< y
  <2>1. PICK x \in S : \A y \in S : ~ (<<y, x>> \in OpToRel(<,Nat))
    BY NatLessThanWellFounded, WFMin, Zenon
  <2>2. \A y \in S : ~ (y < x)
    BY <2>1 DEF OpToRel
  <2> QED
    BY <2>2
<1> QED
  BY <1>1 DEF Min

\* The types that the steps below need.
EventType == [at : {"while", "pop", "scan", "lock", "in", "add", "off"},
              add : Event, timer : Timer \cup {NoTimer}, todo : SUBSET Timer]
StackType == [at : {"out", "in", "add", "off"}, add : Event]
LibType == [Timer -> {"new", "running", "refused", "stopped", "expired"}]
MapType == [Timer -> {"absent", "armed", "stopped"}]

\* The types of the variables one by one.
LEMMA Types ==
  ASSUME TypeOK
  PROVE  /\ m_objEventSyncQueue \in Seq(Event)
         /\ Length \in Nat /\ Length <= EVENT_SYNC_QUEUE_NUM
         /\ DOMAIN m_objEventSyncQueue = 1..Length
         /\ EVENT_SYNC_QUEUE_NUM \in Nat \ {0} /\ MaxTimers \in Nat
         /\ m_mapTimerIdToInfo \in MapType
         /\ m_bProcEventThreadRun \in BOOLEAN /\ trigger \in BOOLEAN
         /\ m_ulTimerId \in 0..MaxTimers
         /\ stack \in StackType /\ event \in EventType
         /\ lib \in LibType /\ fired \in [Timer -> Nat]
         /\ cancelled \subseteq Timer /\ lost \subseteq Timer
         /\ Timer \subseteq Nat /\ NoTimer \notin Timer
BY StackTimersAssumption
   DEF TypeOK, Length, StackType, EventType, LibType, MapType, Timer, NoTimer

\* The events of the code are of the type.
LEMMA EventsAreTyped ==
  /\ \A t \in Timer : Ev("REGISTER", t) \in Event /\ Ev("CANCEL", t) \in Event
  /\ Ev("TRIGGER", NoTimer) \in Event /\ Ev("EXIT", NoTimer) \in Event
  /\ NoEvent \in Event
BY DEF Event, Ev, NoEvent

\* They carry what they are made with.
LEMMA EventFields ==
  ASSUME NEW type, NEW t
  PROVE  Ev(type, t).type = type /\ Ev(type, t).timer = t
BY DEF Ev

\* AddEvent puts its event behind the others, if there is room.
LEMMA AddEffect ==
  ASSUME TypeOK, NEW e \in Event, AddEvent(e)
  PROVE  /\ m_objEventSyncQueue' \in Seq(Event)
         /\ Length' \in Nat /\ Length' <= EVENT_SYNC_QUEUE_NUM /\ Length <= Length'
         /\ \A i \in 1..Length : m_objEventSyncQueue'[i] = m_objEventSyncQueue[i]
         /\ HasRoom => Length' = Length + 1 /\ m_objEventSyncQueue'[Length + 1] = e
         /\ ~HasRoom => Length' = Length
<1>1. /\ m_objEventSyncQueue \in Seq(Event) /\ Length \in Nat
      /\ Length <= EVENT_SYNC_QUEUE_NUM /\ EVENT_SYNC_QUEUE_NUM \in Nat
  BY Types
<1>2. CASE HasRoom
  <2>1. m_objEventSyncQueue' = Append(m_objEventSyncQueue, e)
    BY <1>2 DEF AddEvent
  <2> QED
    BY <1>1, <1>2, <2>1 DEF HasRoom, Length
<1>3. CASE ~HasRoom
  <2>1. m_objEventSyncQueue' = m_objEventSyncQueue
    BY <1>3 DEF AddEvent
  <2> QED
    BY <1>1, <1>3, <2>1 DEF Length
<1> QED
  BY <1>2, <1>3

\* Pop takes the front out, and the others move up.
LEMMA PopEffect ==
  ASSUME TypeOK, m_objEventSyncQueue # <<>>, Pop
  PROVE  /\ m_objEventSyncQueue' \in Seq(Event)
         /\ Length \in Nat /\ 1 <= Length /\ Length' = Length - 1 /\ Length' \in Nat
         /\ Length' <= EVENT_SYNC_QUEUE_NUM
         /\ \A i \in 1..Length' : m_objEventSyncQueue'[i] = m_objEventSyncQueue[i + 1]
         /\ Front = m_objEventSyncQueue[1] /\ Front \in Event
<1>1. /\ m_objEventSyncQueue \in Seq(Event) /\ Length \in Nat
      /\ Length <= EVENT_SYNC_QUEUE_NUM /\ EVENT_SYNC_QUEUE_NUM \in Nat
  BY Types
<1>2. m_objEventSyncQueue' = Tail(m_objEventSyncQueue)
  BY DEF Pop
<1> QED
  BY <1>1, <1>2 DEF Length, Front

\* What is queued, by place.
LEMMA QueuedAt ==
  ASSUME TypeOK
  PROVE  \A e : Queued(e) <=> \E i \in 1..Length : m_objEventSyncQueue[i] = e
BY Types DEF Queued

\* What the queue holds after a step is read in the new state.
LEMMA QueuedAtNext ==
  ASSUME m_objEventSyncQueue' \in Seq(Event)
  PROVE  \A e : Queued(e)' <=> \E i \in 1..Length' : m_objEventSyncQueue'[i] = e
<1>1. DOMAIN m_objEventSyncQueue' = 1..Length'
  BY DEF Length
<1> QED
  BY <1>1 DEF Queued

\* Adding an event keeps the order of the queue if, a REGISTER, it is of a
\* timer without events.
LEMMA AddQueue ==
  ASSUME TypeOK, QueueInv, NEW e \in Event, AddEvent(e),
         e.type \in {"REGISTER", "CANCEL"} => e.timer \in Timer,
         e.type = "REGISTER" =>
           \A i \in 1..Length : m_objEventSyncQueue[i].timer # e.timer
  PROVE  /\ QueueInv'
         /\ \A f : Queued(f)' <=> Queued(f) \/ (HasRoom /\ f = e)
         /\ \A t : (\A i \in 1..Length' : m_objEventSyncQueue'[i].timer # t) <=>
                     /\ \A i \in 1..Length : m_objEventSyncQueue[i].timer # t
                     /\ HasRoom => e.timer # t
<1> DEFINE q == m_objEventSyncQueue
<1>1. /\ Length \in Nat /\ Length' \in Nat /\ Length <= Length'
      /\ \A i \in 1..Length : q'[i] = q[i]
      /\ HasRoom => Length' = Length + 1 /\ q'[Length + 1] = e
      /\ ~HasRoom => Length' = Length
  BY AddEffect, Types
<1>2. /\ \A i \in 1..Length : q[i].type \in {"REGISTER", "CANCEL"} => q[i].timer \in Timer
      /\ \A i, j \in 1..Length :
           q[i].type = "REGISTER" /\ q[j].timer = q[i].timer => i <= j
  BY DEF QueueInv
<1>3. \A i \in 1..Length' : \/ i \in 1..Length /\ q'[i] = q[i]
                            \/ HasRoom /\ i = Length + 1 /\ q'[i] = e
  BY <1>1
<1>4. \A f : Queued(f)' <=> Queued(f) \/ (HasRoom /\ f = e)
  <2>1. \A f : Queued(f)' <=> \E i \in 1..Length' : q'[i] = f
    BY AddEffect, QueuedAtNext
  <2>2. \A f : Queued(f) <=> \E i \in 1..Length : q[i] = f
    BY QueuedAt
  <2> HIDE DEF q
  <2>3. ASSUME NEW f, Queued(f)' PROVE Queued(f) \/ (HasRoom /\ f = e)
    BY <1>3, <2>1, <2>2, <2>3
  <2>4. ASSUME NEW f, Queued(f) PROVE Queued(f)'
    BY <1>1, <2>1, <2>2, <2>4
  <2>5. ASSUME HasRoom PROVE Queued(e)'
    BY <1>1, <2>1, <2>5
  <2> QED
    BY <2>3, <2>4, <2>5
<1>5. \A t : (\A i \in 1..Length' : q'[i].timer # t) <=>
               /\ \A i \in 1..Length : q[i].timer # t
               /\ HasRoom => e.timer # t
  <2> HIDE DEF q
  <2> TAKE t
  <2>1. ASSUME \A i \in 1..Length' : q'[i].timer # t
        PROVE  /\ \A i \in 1..Length : q[i].timer # t
               /\ HasRoom => e.timer # t
    BY <1>1, <2>1
  <2>2. ASSUME \A i \in 1..Length : q[i].timer # t, HasRoom => e.timer # t
        PROVE  \A i \in 1..Length' : q'[i].timer # t
    BY <1>3, <2>2
  <2> QED
    BY <2>1, <2>2
<1>6. \A i \in 1..Length' : q'[i].type \in {"REGISTER", "CANCEL"} => q'[i].timer \in Timer
  BY <1>2, <1>3
<1>7. \A i, j \in 1..Length' :
        q'[i].type = "REGISTER" /\ q'[j].timer = q'[i].timer => i <= j
  <2>0. e.type = "REGISTER" => \A i \in 1..Length : q[i].timer # e.timer
    OBVIOUS
  <2> HIDE DEF q
  <2> SUFFICES ASSUME NEW i \in 1..Length', NEW j \in 1..Length',
                      q'[i].type = "REGISTER", q'[j].timer = q'[i].timer
               PROVE  i <= j
    OBVIOUS
  <2>1. CASE j \in 1..Length
    <3>1. CASE i \in 1..Length
      BY <1>1, <1>2, <2>1, <3>1
    <3>2. CASE i \notin 1..Length
      <4>1. q'[i] = e
        BY <1>3, <3>2
      <4>2. q[j].timer # e.timer
        BY <2>0, <2>1, <4>1
      <4>3. q'[j] = q[j]
        BY <1>1, <2>1
      <4> QED
        BY <4>1, <4>2, <4>3
    <3> QED
      BY <3>1, <3>2
  <2>2. CASE j \notin 1..Length
    BY <1>1, <1>3, <2>2
  <2> QED
    BY <2>1, <2>2
<1> QED
  BY <1>4, <1>5, <1>6, <1>7 DEF QueueInv

\* So does taking the front out, and the REGISTER of the timer of this event
\* is not in the queue any more.
LEMMA PopQueue ==
  ASSUME TypeOK, QueueInv, m_objEventSyncQueue # <<>>, Pop
  PROVE  /\ QueueInv'
         /\ \A f : Queued(f)' => Queued(f)
         /\ \A f : Queued(f) => Queued(f)' \/ f = Front
         /\ Queued(Front)
         /\ \A f : f = Ev("REGISTER", Front.timer) => ~Queued(f)'
         /\ \A t : (\A i \in 1..Length : m_objEventSyncQueue[i].timer # t) =>
                      /\ \A i \in 1..Length' : m_objEventSyncQueue'[i].timer # t
                      /\ Front.timer # t
         /\ (\A i \in 1..Length : m_objEventSyncQueue[i].type # "EXIT") =>
               \A i \in 1..Length' : m_objEventSyncQueue'[i].type # "EXIT"
<1> DEFINE q == m_objEventSyncQueue
<1>1. /\ Length \in Nat /\ 1 <= Length /\ Length' = Length - 1 /\ Length' \in Nat
      /\ \A i \in 1..Length' : q'[i] = q[i + 1] /\ i + 1 \in 1..Length
      /\ Front = q[1] /\ 1 \in 1..Length
  BY PopEffect
<1>2. /\ \A i \in 1..Length : q[i].type \in {"REGISTER", "CANCEL"} => q[i].timer \in Timer
      /\ \A i, j \in 1..Length :
           q[i].type = "REGISTER" /\ q[j].timer = q[i].timer => i <= j
  BY DEF QueueInv
<1>3. \A f : Queued(f)' <=> \E i \in 1..Length' : q'[i] = f
  BY PopEffect, QueuedAtNext
<1>4. \A f : Queued(f) <=> \E i \in 1..Length : q[i] = f
  BY QueuedAt
<1>5. \A i \in 1..Length : i # 1 => i - 1 \in 1..Length' /\ q'[i - 1] = q[i]
  <2> SUFFICES ASSUME NEW i \in 1..Length, i # 1
               PROVE  i - 1 \in 1..Length' /\ q'[i - 1] = q[i]
    OBVIOUS
  <2>1. i - 1 \in 1..Length' /\ (i - 1) + 1 = i
    BY <1>1
  <2> HIDE DEF q
  <2> QED
    BY <1>1, <2>1
<1> HIDE DEF q
<1>6. /\ \A f : Queued(f)' => Queued(f)
      /\ \A f : Queued(f) => Queued(f)' \/ f = Front
      /\ Queued(Front)
  <2>1. ASSUME NEW f, Queued(f)' PROVE Queued(f)
    BY <1>1, <1>3, <1>4, <2>1
  <2>2. ASSUME NEW f, Queued(f) PROVE Queued(f)' \/ f = Front
    <3>1. PICK i \in 1..Length : q[i] = f
      BY <1>4, <2>2
    <3>2. CASE i = 1
      BY <1>1, <3>1, <3>2
    <3>3. CASE i # 1
      BY <1>3, <1>5, <3>1, <3>3
    <3> QED
      BY <3>2, <3>3
  <2>3. Queued(Front)
    BY <1>1, <1>4
  <2> QED
    BY <2>1, <2>2, <2>3
<1>7. \A f : f = Ev("REGISTER", Front.timer) => ~Queued(f)'
  <2> SUFFICES ASSUME NEW e, e = Ev("REGISTER", Front.timer), Queued(e)' PROVE FALSE
    OBVIOUS
  <2> PICK i \in 1..Length' : q'[i] = e
    BY <1>3
  <2>1. q[i + 1].type = "REGISTER" /\ q[i + 1].timer = Front.timer /\ i + 1 \in 1..Length
    BY <1>1, EventFields
  <2>2. i + 1 <= 1
    BY <1>1, <1>2, <2>1
  <2> QED
    BY <1>1, <2>2
<1>8. /\ \A i \in 1..Length' : q'[i].type \in {"REGISTER", "CANCEL"} => q'[i].timer \in Timer
      /\ \A i, j \in 1..Length' :
           q'[i].type = "REGISTER" /\ q'[j].timer = q'[i].timer => i <= j
  <2>1. \A i \in 1..Length' : q'[i].type \in {"REGISTER", "CANCEL"} => q'[i].timer \in Timer
    BY <1>1, <1>2
  <2>2. ASSUME NEW i \in 1..Length', NEW j \in 1..Length',
               q'[i].type = "REGISTER", q'[j].timer = q'[i].timer
        PROVE  i <= j
    <3>1. i + 1 <= j + 1
      BY <1>1, <1>2, <2>2
    <3> QED
      BY <1>1, <3>1
  <2> QED
    BY <2>1, <2>2
<1>9. /\ \A t : (\A i \in 1..Length : q[i].timer # t) =>
                   /\ \A i \in 1..Length' : q'[i].timer # t
                   /\ Front.timer # t
      /\ (\A i \in 1..Length : q[i].type # "EXIT") =>
            \A i \in 1..Length' : q'[i].type # "EXIT"
  BY <1>1
<1> QED
  BY <1>6, <1>7, <1>8, <1>9 DEF QueueInv, q

\* A step that leaves the timers and the queue alone.
LEMMA TimersKept ==
  ASSUME IInv,
         UNCHANGED <<m_objEventSyncQueue, m_mapTimerIdToInfo, libVars, cancelVars>>,
         fini' = "up" => fini = "up" /\ m_bProcEventThreadRun' = m_bProcEventThreadRun
  PROVE  QueueInv' /\ LibInv' /\ FireInv' /\ ClearInv'
<1>1. /\ m_objEventSyncQueue' = m_objEventSyncQueue /\ Length' = Length
      /\ m_mapTimerIdToInfo' = m_mapTimerIdToInfo
      /\ m_ulTimerId' = m_ulTimerId /\ lib' = lib /\ fired' = fired
      /\ cancelled' = cancelled /\ lost' = lost
  BY DEF libVars, cancelVars, Length
<1>2. \A e : Queued(e)' <=> Queued(e)
  BY <1>1 DEF Queued
<1>3. QueueInv' /\ LibInv'
  BY <1>1 DEF IInv, QueueInv, LibInv, NotStarted
<1>4. FireInv'
  BY <1>1, <1>2 DEF IInv, FireInv, FiresOnce, Ev
<1>5. ClearInv'
  BY <1>1, <1>2 DEF IInv, ClearInv, MapIsCleared, Ev
<1> QED
  BY <1>3, <1>4, <1>5

\* A step that leaves the event thread's turn alone.
LEMMA TurnKept ==
  ASSUME IInv, UNCHANGED <<event, fired, m_mapTimerIdToInfo>>
  PROVE  TurnInv'
BY DEF IInv, TurnInv

\* A step that leaves the library's callers alone.
LEMMA HoldKept ==
  ASSUME IInv, UNCHANGED <<stack, event, m_minisip_mutex, m_ulTimerId, lib>>
  PROVE  HoldInv'
BY DEF IInv, HoldInv, Held

\* A CANCEL is added for a timer that was started: it is queued, or lost.
LEMMA CancelStep ==
  ASSUME IInv, NEW t \in Timer, lib[t] \notin {"new", "refused"}, CancelAdded(t),
         \/ m_mapTimerIdToInfo' = m_mapTimerIdToInfo
         \/ m_mapTimerIdToInfo[t] = "armed" /\ Mark(t),
         UNCHANGED <<m_ulTimerId, fired, lib, fini, m_bProcEventThreadRun>>
  PROVE  /\ m_objEventSyncQueue' \in Seq(Event) /\ Length' <= EVENT_SYNC_QUEUE_NUM
         /\ cancelled' \subseteq Timer /\ lost' \subseteq Timer
         /\ m_mapTimerIdToInfo' \in MapType
         /\ QueueInv' /\ LibInv' /\ FireInv' /\ ClearInv'
<1> PICK e \in Event : e = Ev("CANCEL", t)
  BY EventsAreTyped
<1>1. e.type = "CANCEL" /\ e.timer = t
  BY EventFields
<1>2. /\ AddEvent(e)
      /\ IF HasRoom THEN cancelled' = cancelled \cup {t} /\ lost' = lost
                    ELSE lost' = lost \cup {t} /\ cancelled' = cancelled
  BY DEF CancelAdded
<1>3. /\ QueueInv'
      /\ \A f : Queued(f)' <=> Queued(f) \/ (HasRoom /\ f = e)
      /\ \A s : (\A i \in 1..Length' : m_objEventSyncQueue'[i].timer # s) <=>
                  /\ \A i \in 1..Length : m_objEventSyncQueue[i].timer # s
                  /\ HasRoom => e.timer # s
  BY <1>1, <1>2, AddQueue DEF IInv
<1>4. /\ m_mapTimerIdToInfo \in MapType /\ m_mapTimerIdToInfo' \in MapType
      /\ \A s \in Timer : s # t => m_mapTimerIdToInfo'[s] = m_mapTimerIdToInfo[s]
      /\ \/ m_mapTimerIdToInfo'[t] = m_mapTimerIdToInfo[t]
         \/ m_mapTimerIdToInfo[t] = "armed" /\ m_mapTimerIdToInfo'[t] = "stopped"
  <2>1. m_mapTimerIdToInfo \in MapType
    BY Types DEF IInv
  <2> QED
    BY <2>1 DEF Mark, MapType
<1>5. \A s \in Timer : Queued(Ev("REGISTER", s))' <=> Queued(Ev("REGISTER", s))
  BY <1>1, <1>3, EventFields DEF Ev
<1>6. LibInv'
  <2> SUFFICES ASSUME NEW s \in Timer
               PROVE  /\ m_ulTimerId < s => lib[s] = "new"
                      /\ lib[s] \in {"new", "refused"} => NotStarted(s)'
    BY DEF LibInv
  <2>1. m_ulTimerId < s => lib[s] = "new"
    BY DEF IInv, LibInv
  <2>2. ASSUME lib[s] \in {"new", "refused"} PROVE NotStarted(s)'
    <3>1. s # t /\ NotStarted(s)
      BY <2>2 DEF IInv, LibInv
    <3> QED
      BY <1>1, <1>2, <1>3, <1>4, <3>1 DEF NotStarted
  <2> QED
    BY <2>1, <2>2
<1>7. FireInv'
  <2> SUFFICES ASSUME NEW s \in Timer
               PROVE  /\ fired[s] <= 1
                      /\ m_mapTimerIdToInfo'[s] = "armed" => fired[s] = 0
                      /\ Queued(Ev("REGISTER", s))' =>
                           fired[s] = 0 /\ m_mapTimerIdToInfo'[s] = "absent"
    BY DEF FireInv, FiresOnce, Ev
  <2>1. /\ fired[s] <= 1
        /\ m_mapTimerIdToInfo[s] = "armed" => fired[s] = 0
        /\ Queued(Ev("REGISTER", s)) => fired[s] = 0 /\ m_mapTimerIdToInfo[s] = "absent"
    BY DEF IInv, FireInv, FiresOnce
  <2> QED
    BY <1>4, <1>5, <2>1
<1>8. ClearInv'
  <2>1. fini = "up" => m_bProcEventThreadRun /\
          \A i \in 1..Length' : m_objEventSyncQueue'[i].type # "EXIT"
    <3>1. fini = "up" => m_bProcEventThreadRun /\
            \A i \in 1..Length : m_objEventSyncQueue[i].type # "EXIT"
      BY DEF IInv, ClearInv
    <3>2. \A i \in 1..Length' : \/ i \in 1..Length /\ m_objEventSyncQueue'[i] = m_objEventSyncQueue[i]
                                \/ m_objEventSyncQueue'[i] = e
      BY <1>2, AddEffect, Types DEF IInv
    <3> QED
      BY <1>1, <3>1, <3>2
  <2>2. ASSUME fini = "up", NEW s \in Timer, ~Queued(Ev("CANCEL", s))'
        PROVE  /\ s \in cancelled' =>
                    m_mapTimerIdToInfo'[s] = "absent" /\ ~Queued(Ev("REGISTER", s))'
               /\ m_mapTimerIdToInfo'[s] = "stopped" => s \in lost'
    <3>1. ~Queued(Ev("CANCEL", s)) /\ ~(HasRoom /\ s = t)
      BY <1>3, <2>2 DEF Ev
    <3>2. /\ s \in cancelled =>
               m_mapTimerIdToInfo[s] = "absent" /\ ~Queued(Ev("REGISTER", s))
          /\ m_mapTimerIdToInfo[s] = "stopped" => s \in lost
      BY <2>2, <3>1 DEF IInv, ClearInv, MapIsCleared
    <3>3. CASE s = t
      BY <1>2, <1>4, <1>5, <3>1, <3>2, <3>3
    <3>4. CASE s # t
      BY <1>2, <1>4, <1>5, <3>2, <3>4
    <3> QED
      BY <3>3, <3>4
  <2>3. MapIsCleared'
    BY <2>2, Zenon DEF MapIsCleared, Ev
  <2> QED
    BY <2>1, <2>3, Zenon DEF ClearInv
<1>9. cancelled' \subseteq Timer /\ lost' \subseteq Timer
  BY <1>2, Types DEF IInv
<1>10. m_objEventSyncQueue' \in Seq(Event) /\ Length' <= EVENT_SYNC_QUEUE_NUM
  BY <1>2, AddEffect DEF IInv
<1> QED
  BY <1>3, <1>4, <1>6, <1>7, <1>8, <1>9, <1>10

\* The library's thread adds the event it holds.
LEMMA AddsStep ==
  ASSUME IInv, NEW e \in Event, Held(e), LibraryAdds(e),
         UNCHANGED <<m_ulTimerId, fired, m_mapTimerIdToInfo, fini, m_bProcEventThreadRun>>
  PROVE  /\ m_objEventSyncQueue' \in Seq(Event) /\ Length' <= EVENT_SYNC_QUEUE_NUM
         /\ cancelled' \subseteq Timer /\ lost' \subseteq Timer /\ lib' \in LibType
         /\ QueueInv' /\ LibInv' /\ FireInv' /\ ClearInv'
<1> PICK t \in Timer : t = e.timer
  BY DEF Held
<1>1. lib \in LibType /\ Timer \subseteq Nat /\ m_ulTimerId \in Nat
  BY Types DEF IInv
<1>2. CASE e.type = "CANCEL"
  <2>1. lib[t] = "stopped" /\ CancelAdded(t) /\ lib' = lib
    BY <1>2 DEF Held, LibraryAdds
  <2> QED
    BY <1>1, <2>1, CancelStep
<1>3. CASE e.type = "REGISTER"
  <2>1. /\ AddEvent(e) /\ lib[t] = "new" /\ t <= m_ulTimerId
        /\ lib' = [lib EXCEPT ![t] = IF HasRoom THEN "running" ELSE "refused"]
        /\ cancelled' = cancelled /\ lost' = lost
    BY <1>3 DEF Held, LibraryAdds, cancelVars
  <2>2. NotStarted(t)
    BY <2>1 DEF IInv, LibInv
  <2>3. /\ QueueInv'
        /\ \A f : Queued(f)' <=> Queued(f) \/ (HasRoom /\ f = e)
        /\ \A s : (\A i \in 1..Length' : m_objEventSyncQueue'[i].timer # s) <=>
                    /\ \A i \in 1..Length : m_objEventSyncQueue[i].timer # s
                    /\ HasRoom => e.timer # s
    BY <1>3, <2>1, <2>2, AddQueue DEF IInv, NotStarted
  <2>4. /\ lib' \in LibType
        /\ \A s \in Timer : s # t => lib'[s] = lib[s]
        /\ lib'[t] = IF HasRoom THEN "running" ELSE "refused"
    BY <1>1, <2>1 DEF LibType
  <2>5. \A s \in Timer : s # t => (Queued(Ev("REGISTER", s))' <=> Queued(Ev("REGISTER", s)))
    BY <2>3, EventFields DEF Ev
  <2>6. \A s \in Timer : Queued(Ev("CANCEL", s))' <=> Queued(Ev("CANCEL", s))
    BY <1>3, <2>3, EventFields DEF Ev
  <2>7. LibInv'
    <3> SUFFICES ASSUME NEW s \in Timer
                 PROVE  /\ m_ulTimerId < s => lib'[s] = "new"
                        /\ lib'[s] \in {"new", "refused"} => NotStarted(s)'
      BY DEF LibInv
    <3>1. m_ulTimerId < s => lib'[s] = "new"
      BY <1>1, <2>1, <2>4 DEF IInv, LibInv
    <3>2. ASSUME lib'[s] \in {"new", "refused"} PROVE NotStarted(s)'
      <4>1. NotStarted(s)
        BY <2>2, <2>4, <3>2 DEF IInv, LibInv
      <4>2. HasRoom => e.timer # s
        BY <2>4, <3>2
      <4> QED
        BY <2>1, <2>3, <4>1, <4>2 DEF NotStarted
    <3> QED
      BY <3>1, <3>2
  <2>8. FireInv'
    <3> SUFFICES ASSUME NEW s \in Timer
                 PROVE  /\ fired[s] <= 1
                        /\ m_mapTimerIdToInfo[s] = "armed" => fired[s] = 0
                        /\ Queued(Ev("REGISTER", s))' =>
                             fired[s] = 0 /\ m_mapTimerIdToInfo[s] = "absent"
      BY DEF FireInv, FiresOnce, Ev
    <3>1. /\ fired[s] <= 1
          /\ m_mapTimerIdToInfo[s] = "armed" => fired[s] = 0
          /\ Queued(Ev("REGISTER", s)) => fired[s] = 0 /\ m_mapTimerIdToInfo[s] = "absent"
      BY DEF IInv, FireInv, FiresOnce
    <3> QED
      BY <2>2, <2>5, <3>1 DEF NotStarted
  <2>9. ClearInv'
    <3>1. fini = "up" => m_bProcEventThreadRun /\
            \A i \in 1..Length' : m_objEventSyncQueue'[i].type # "EXIT"
      <4>1. fini = "up" => m_bProcEventThreadRun /\
              \A i \in 1..Length : m_objEventSyncQueue[i].type # "EXIT"
        BY DEF IInv, ClearInv
      <4>2. \A i \in 1..Length' : \/ i \in 1..Length /\ m_objEventSyncQueue'[i] = m_objEventSyncQueue[i]
                                  \/ m_objEventSyncQueue'[i] = e
        BY <2>1, AddEffect, Types DEF IInv
      <4> QED
        BY <1>3, <4>1, <4>2
    <3>2. ASSUME fini = "up", NEW s \in Timer, ~Queued(Ev("CANCEL", s))'
          PROVE  /\ s \in cancelled =>
                      m_mapTimerIdToInfo[s] = "absent" /\ ~Queued(Ev("REGISTER", s))'
                 /\ m_mapTimerIdToInfo[s] = "stopped" => s \in lost
      <4>1. /\ s \in cancelled =>
                 m_mapTimerIdToInfo[s] = "absent" /\ ~Queued(Ev("REGISTER", s))
            /\ m_mapTimerIdToInfo[s] = "stopped" => s \in lost
        BY <2>6, <3>2 DEF IInv, ClearInv, MapIsCleared
      <4> QED
        BY <2>2, <2>5, <4>1 DEF NotStarted
    <3>3. MapIsCleared'
      BY <2>1, <3>2, Zenon DEF MapIsCleared, Ev
    <3> QED
      BY <3>1, <3>3, Zenon DEF ClearInv
  <2> QED
    BY <2>1, <2>3, <2>4, <2>7, <2>8, <2>9, AddEffect, Types DEF IInv
<1> QED
  BY <1>2, <1>3 DEF LibraryAdds

\* An event that is not a timer's is added: the trigger's or Fini's.
LEMMA OtherStep ==
  ASSUME IInv, NEW e \in Event, e.type \in {"TRIGGER", "EXIT"}, e.timer = NoTimer,
         AddEvent(e), UNCHANGED <<m_mapTimerIdToInfo, libVars, cancelVars>>,
         fini' = "up" => /\ fini = "up" /\ e.type # "EXIT"
                         /\ m_bProcEventThreadRun' = m_bProcEventThreadRun
  PROVE  /\ m_objEventSyncQueue' \in Seq(Event) /\ Length' <= EVENT_SYNC_QUEUE_NUM
         /\ QueueInv' /\ LibInv' /\ FireInv' /\ ClearInv'
<1>1. /\ m_mapTimerIdToInfo' = m_mapTimerIdToInfo
      /\ m_ulTimerId' = m_ulTimerId /\ lib' = lib /\ fired' = fired
      /\ cancelled' = cancelled /\ lost' = lost
      /\ NoTimer \notin Timer
  BY Types DEF libVars, cancelVars, IInv
<1>2. /\ QueueInv'
      /\ \A f : Queued(f)' <=> Queued(f) \/ (HasRoom /\ f = e)
      /\ \A s : (\A i \in 1..Length' : m_objEventSyncQueue'[i].timer # s) <=>
                  /\ \A i \in 1..Length : m_objEventSyncQueue[i].timer # s
                  /\ HasRoom => e.timer # s
  BY AddQueue DEF IInv
<1>3. \A s \in Timer : /\ Queued(Ev("REGISTER", s))' <=> Queued(Ev("REGISTER", s))
                       /\ Queued(Ev("CANCEL", s))' <=> Queued(Ev("CANCEL", s))
  BY <1>2, EventFields DEF Ev
<1>4. LibInv'
  <2>1. \A s \in Timer : NotStarted(s) => NotStarted(s)'
    BY <1>1, <1>2 DEF NotStarted
  <2> QED
    BY <1>1, <2>1 DEF IInv, LibInv
<1>5. FireInv'
  BY <1>1, <1>3, Zenon DEF IInv, FireInv, FiresOnce, Ev
<1>6. ClearInv'
  <2>1. MapIsCleared'
    BY <1>1, <1>3, Zenon DEF IInv, ClearInv, MapIsCleared, Ev
  <2>2. \A i \in 1..Length' : \/ i \in 1..Length /\ m_objEventSyncQueue'[i] = m_objEventSyncQueue[i]
                              \/ m_objEventSyncQueue'[i] = e
    BY AddEffect, Types DEF IInv
  <2> QED
    BY <2>1, <2>2 DEF IInv, ClearInv
<1> QED
  BY <1>2, <1>4, <1>5, <1>6, AddEffect DEF IInv

\* The library decides to start or to stop a timer.
LEMMA CallStep ==
  ASSUME IInv, NEW e \in Event, LibraryCall(e),
         UNCHANGED <<m_objEventSyncQueue, m_mapTimerIdToInfo, fired, cancelVars>>
  PROVE  /\ m_ulTimerId' \in 0..MaxTimers /\ lib' \in LibType /\ Held(e)' /\ LibInv'
<1>1. /\ m_ulTimerId \in 0..MaxTimers /\ MaxTimers \in Nat /\ Timer = 1..MaxTimers
      /\ lib \in LibType
  BY Types DEF IInv, Timer
<1>2. \A t \in Timer : NotStarted(t)' <=> NotStarted(t)
  BY DEF NotStarted, Length, cancelVars
<1>3. CASE /\ m_ulTimerId < MaxTimers /\ m_ulTimerId' = m_ulTimerId + 1
           /\ e = Ev("REGISTER", m_ulTimerId + 1) /\ lib' = lib
  <2>1. PICK t \in Timer : t = m_ulTimerId + 1
    BY <1>1, <1>3
  <2>2. e.type = "REGISTER" /\ e.timer = t
    BY <1>3, <2>1, EventFields
  <2>3. lib[t] = "new"
    BY <1>1, <2>1 DEF IInv, LibInv
  <2>4. Held(e)'
    BY <1>1, <1>3, <2>1, <2>2, <2>3 DEF Held
  <2>5. LibInv'
    BY <1>1, <1>2, <1>3 DEF IInv, LibInv
  <2> QED
    BY <1>1, <1>3, <2>4, <2>5
<1>4. CASE /\ m_ulTimerId' = m_ulTimerId
           /\ \E t \in Timer : /\ lib[t] = "running" /\ e = Ev("CANCEL", t)
                               /\ lib' = [lib EXCEPT ![t] = "stopped"]
  <2>1. PICK t \in Timer : /\ lib[t] = "running" /\ e = Ev("CANCEL", t)
                           /\ lib' = [lib EXCEPT ![t] = "stopped"]
    BY <1>4
  <2>2. /\ lib' \in LibType /\ lib'[t] = "stopped"
        /\ \A s \in Timer : s # t => lib'[s] = lib[s]
    BY <1>1, <2>1 DEF LibType
  <2>3. Held(e)'
    BY <2>1, <2>2, EventFields DEF Held
  <2>4. LibInv'
    BY <1>2, <1>4, <2>1, <2>2 DEF IInv, LibInv
  <2> QED
    BY <1>1, <1>4, <2>2, <2>3, <2>4
<1> QED
  BY <1>3, <1>4 DEF LibraryCall

\* Its decision does not touch the queue or the map.
LEMMA CallKeeps ==
  ASSUME IInv, UNCHANGED <<m_objEventSyncQueue, m_mapTimerIdToInfo, m_bProcEventThreadRun,
                           fini, fired, cancelVars>>
  PROVE  QueueInv' /\ FireInv' /\ ClearInv'
<1>1. \A e : Queued(e)' <=> Queued(e)
  BY DEF Queued
<1>2. QueueInv'
  BY DEF IInv, QueueInv, Length
<1>3. FireInv'
  BY <1>1 DEF IInv, FireInv, FiresOnce, Ev
<1>4. ClearInv'
  BY <1>1 DEF IInv, ClearInv, MapIsCleared, Ev, Length, cancelVars
<1> QED
  BY <1>2, <1>3, <1>4

\* What the event thread takes out of the queue while no turn is under way.
LEMMA PopStep ==
  ASSUME IInv, NEW type, AtEvent(type), Pop, NextRound
  PROVE  /\ m_objEventSyncQueue' \in Seq(Event) /\ Length' <= EVENT_SYNC_QUEUE_NUM
         /\ Front \in Event /\ Front.type = type
         /\ type \in {"REGISTER", "CANCEL"} => Front.timer \in Timer
         /\ event' \in EventType /\ event'.at = "while" /\ event'.todo = {}
         /\ QueueInv'
<1>1. m_objEventSyncQueue # <<>> /\ Front.type = type /\ event.at = "pop"
  BY DEF AtEvent
<1>2. /\ m_objEventSyncQueue' \in Seq(Event) /\ Length' <= EVENT_SYNC_QUEUE_NUM
      /\ Front \in Event /\ Front = m_objEventSyncQueue[1] /\ 1 \in 1..Length
  BY <1>1, PopEffect DEF IInv
<1>3. QueueInv'
  BY <1>1, PopQueue DEF IInv
<1>4. type \in {"REGISTER", "CANCEL"} => Front.timer \in Timer
  BY <1>1, <1>2 DEF IInv, QueueInv
<1>5. event \in EventType /\ event.todo = {}
  BY <1>1, Types DEF IInv, TurnInv
<1>6. event' \in EventType /\ event'.at = "while" /\ event'.todo = {}
  BY <1>5 DEF NextRound, EventType
<1> QED
  BY <1>1, <1>2, <1>3, <1>4, <1>6

\* Between its rounds the event thread has no turn and does not call the library.
LEMMA TurnOver ==
  ASSUME event'.at \notin {"scan", "lock", "in", "add"}, event'.todo = {}
  PROVE  TurnInv'
BY DEF TurnInv

-----------------------------------------------------------------------------
(* The actions.                                                            *)

\* The stack thread.
LEMMA StackStep ==
  ASSUME IInv, StackEnter \/ InLibrary
  PROVE  IInv'
<1>1. /\ stack \in StackType /\ event \in EventType
      /\ m_ulTimerId \in 0..MaxTimers /\ MaxTimers \in Nat /\ Timer = 1..MaxTimers
      /\ lib \in LibType
  BY Types DEF IInv, Timer
<1>2. CASE StackEnter
  <2>1. /\ m_minisip_mutex = "free" /\ m_minisip_mutex' = "stack"
        /\ stack' = [stack EXCEPT !.at = "in"]
        /\ UNCHANGED <<m_objEventSyncQueue, m_mapTimerIdToInfo, m_bProcEventThreadRun,
                       elapsed, trigger, event, fini, libVars, cancelVars>>
    BY <1>2 DEF StackEnter
  <2>2. stack' \in StackType /\ stack'.at = "in"
    BY <1>1, <2>1 DEF StackType
  <2>3. TypeOK'
    BY <2>1, <2>2 DEF IInv, TypeOK, StackType, libVars, cancelVars
  <2>4. HoldInv'
    BY <2>1, <2>2 DEF IInv, HoldInv
  <2> QED
    BY <2>1, <2>3, <2>4, TimersKept, TurnKept DEF IInv, libVars
<1>3. CASE StackLeave
  <2>1. /\ stack.at = "in" /\ m_minisip_mutex' = "free"
        /\ stack' = [stack EXCEPT !.at = "out"]
        /\ UNCHANGED <<m_objEventSyncQueue, m_mapTimerIdToInfo, m_bProcEventThreadRun,
                       elapsed, trigger, event, fini, libVars, cancelVars>>
    BY <1>3 DEF StackLeave
  <2>2. stack' \in StackType /\ stack'.at = "out"
    BY <1>1, <2>1 DEF StackType
  <2>3. TypeOK'
    BY <2>1, <2>2 DEF IInv, TypeOK, StackType, libVars, cancelVars
  <2>4. HoldInv'
    BY <2>1, <2>2 DEF IInv, HoldInv
  <2> QED
    BY <2>1, <2>3, <2>4, TimersKept, TurnKept DEF IInv, libVars
<1>4. CASE StackAdd
  <2>1. /\ stack.at = "add" /\ LibraryAdds(stack.add)
        /\ stack' = [at |-> "in", add |-> NoEvent]
        /\ UNCHANGED <<m_mapTimerIdToInfo, m_bProcEventThreadRun, m_ulTimerId, fired,
                       m_minisip_mutex, elapsed, trigger, event, fini>>
    BY <1>4 DEF StackAdd
  <2>2. PICK e \in Event : e = stack.add /\ Held(e)
    BY <1>1, <2>1 DEF StackType, IInv, HoldInv
  <2>3. /\ m_objEventSyncQueue' \in Seq(Event) /\ Length' <= EVENT_SYNC_QUEUE_NUM
        /\ cancelled' \subseteq Timer /\ lost' \subseteq Timer /\ lib' \in LibType
        /\ QueueInv' /\ LibInv' /\ FireInv' /\ ClearInv'
    BY <2>1, <2>2, AddsStep
  <2>4. stack' \in StackType /\ stack'.at = "in"
    BY <2>1, EventsAreTyped DEF StackType
  <2>5. TypeOK'
    BY <2>1, <2>3, <2>4 DEF IInv, TypeOK, StackType, LibType, Length
  <2>6. HoldInv'
    BY <2>1, <2>4 DEF IInv, HoldInv
  <2> QED
    BY <2>1, <2>3, <2>5, <2>6, TurnKept DEF IInv
<1>5. CASE StackCall
  <2>1. /\ stack.at = "in"
        /\ UNCHANGED <<m_objEventSyncQueue, m_mapTimerIdToInfo, m_bProcEventThreadRun,
                       m_minisip_mutex, elapsed, trigger, event, fini, fired, cancelVars>>
    BY <1>5 DEF StackCall
  <2>2. PICK e \in Event : LibraryCall(e) /\ stack' = [at |-> "add", add |-> e]
    BY <1>5 DEF StackCall
  <2>3. stack' \in StackType /\ stack'.at = "add" /\ stack'.add = e
    BY <2>2 DEF StackType
  <2>4. /\ m_ulTimerId' \in 0..MaxTimers /\ lib' \in LibType /\ Held(e)' /\ LibInv'
    BY <2>1, <2>2, CallStep
  <2>5. TypeOK'
    BY <2>1, <2>3, <2>4 DEF IInv, TypeOK, StackType, LibType, cancelVars
  <2>6. HoldInv'
    BY <2>1, <2>3, <2>4 DEF IInv, HoldInv
  <2>7. QueueInv' /\ FireInv' /\ ClearInv'
    BY <2>1, CallKeeps
  <2> QED
    BY <2>1, <2>4, <2>5, <2>6, <2>7, TurnKept DEF IInv
<1> QED
  BY <1>2, <1>3, <1>4, <1>5 DEF InLibrary

\* The time and the timer thread.
LEMMA TimeStep ==
  ASSUME IInv, OnTrigger \/ \E t \in Timer : Elapse(t)
  PROVE  IInv'
<1>1. CASE OnTrigger
  <2>1. /\ AddEvent(Ev("TRIGGER", NoTimer))
        /\ UNCHANGED <<m_mapTimerIdToInfo, m_bProcEventThreadRun, m_minisip_mutex,
                       elapsed, trigger, stack, event, fini, libVars, cancelVars>>
    BY <1>1 DEF OnTrigger
  <2>2. PICK e \in Event : e = Ev("TRIGGER", NoTimer) /\ e.type = "TRIGGER" /\ e.timer = NoTimer
    BY EventsAreTyped, EventFields
  <2>3. /\ m_objEventSyncQueue' \in Seq(Event) /\ Length' <= EVENT_SYNC_QUEUE_NUM
        /\ QueueInv' /\ LibInv' /\ FireInv' /\ ClearInv'
    BY <2>1, <2>2, OtherStep
  <2>4. TypeOK'
    BY <2>1, <2>3 DEF IInv, TypeOK, Length, libVars, cancelVars
  <2> QED
    BY <2>1, <2>3, <2>4, TurnKept, HoldKept DEF IInv, libVars
<1>2. ASSUME NEW t \in Timer, Elapse(t)
      PROVE  IInv'
  <2>1. /\ elapsed' = elapsed \cup {t}
        /\ UNCHANGED <<m_objEventSyncQueue, m_mapTimerIdToInfo, m_bProcEventThreadRun,
                       m_minisip_mutex, trigger, stack, event, fini, libVars, cancelVars>>
    BY <1>2 DEF Elapse
  <2>2. TypeOK'
    BY <2>1 DEF IInv, TypeOK, libVars, cancelVars
  <2> QED
    BY <2>1, <2>2, TimersKept, TurnKept, HoldKept DEF IInv, libVars
<1> QED
  BY <1>1, <1>2

\* The event thread between its rounds.
LEMMA LoopStep ==
  ASSUME IInv, While \/ Sleep \/ TriggerEnd \/ Drain
  PROVE  IInv'
<1>1. event \in EventType /\ EVENT_SYNC_QUEUE_NUM \in Nat
  BY Types DEF IInv
<1>2. /\ event.at \notin {"in", "add"} /\ event.todo = {}
      /\ event' \in EventType /\ event'.at \in {"while", "pop", "off"} /\ event'.todo = {}
      /\ UNCHANGED <<m_mapTimerIdToInfo, m_bProcEventThreadRun, m_minisip_mutex, elapsed,
                     trigger, stack, fini, libVars, cancelVars>>
  <2>1. \E p \in {"while", "pop", "off"} : event' = [event EXCEPT !.at = p]
    BY DEF While, Sleep, TriggerEnd, Drain, NextRound
  <2>2. event.at \notin {"in", "add"} /\ event.todo = {}
    BY DEF While, Sleep, TriggerEnd, Drain, IInv, TurnInv
  <2>3. event' \in EventType /\ event'.at \in {"while", "pop", "off"} /\ event'.todo = {}
    BY <1>1, <2>1, <2>2 DEF EventType
  <2>4. UNCHANGED <<m_mapTimerIdToInfo, m_bProcEventThreadRun, m_minisip_mutex, elapsed,
                    trigger, stack, fini, libVars, cancelVars>>
    BY DEF While, Sleep, TriggerEnd, Drain
  <2> QED
    BY <2>2, <2>3, <2>4
<1>3. TurnInv'
  BY <1>2, TurnOver
<1>4. HoldInv'
  <2>1. stack' = stack /\ lib' = lib /\ m_ulTimerId' = m_ulTimerId
        /\ m_minisip_mutex' = m_minisip_mutex
    BY <1>2 DEF libVars
  <2> QED
    BY <1>2, <2>1 DEF IInv, HoldInv, Held
<1>5. CASE ~Drain
  <2>1. m_objEventSyncQueue' = m_objEventSyncQueue
    BY <1>5 DEF While, Sleep, TriggerEnd
  <2>2. TypeOK'
    BY <1>2, <2>1 DEF IInv, TypeOK, EventType, libVars, cancelVars
  <2> QED
    BY <1>2, <1>3, <1>4, <2>1, <2>2, TimersKept DEF IInv
<1>6. CASE Drain
  <2>1. m_objEventSyncQueue' = <<>> /\ ~m_bProcEventThreadRun
    BY <1>6 DEF Drain
  <2>2. Length' = 0 /\ \A e : ~Queued(e)'
    BY <2>1 DEF Length, Queued
  <2>3. fini' # "up"
    BY <1>2, <2>1 DEF IInv, ClearInv
  <2>4. /\ m_mapTimerIdToInfo' = m_mapTimerIdToInfo
        /\ m_ulTimerId' = m_ulTimerId /\ lib' = lib /\ fired' = fired
        /\ cancelled' = cancelled
    BY <1>2 DEF libVars, cancelVars
  <2>5. TypeOK'
    BY <1>1, <1>2, <2>1 DEF IInv, TypeOK, EventType, libVars, cancelVars
  <2>6. QueueInv' /\ LibInv'
    BY <2>2, <2>4 DEF IInv, QueueInv, LibInv, NotStarted
  <2>7. FireInv'
    BY <2>2, <2>4 DEF IInv, FireInv, FiresOnce, Ev
  <2>8. ClearInv'
    BY <2>3 DEF ClearInv, MapIsCleared
  <2> QED
    BY <1>3, <1>4, <2>5, <2>6, <2>7, <2>8 DEF IInv
<1> QED
  BY <1>5, <1>6

\* The event thread takes the REGISTER of a timer, which arms it, its CANCEL,
\* which takes it out of the map, or the EXIT event.
LEMMA TakeStep ==
  ASSUME IInv, HandleEventTimerRegister \/ HandleEventTimerCancel \/ HandleExit
  PROVE  IInv'
<1>1. PICK type \in {"REGISTER", "CANCEL", "EXIT"} : AtEvent(type) /\ Pop /\ NextRound
  BY DEF HandleEventTimerRegister, HandleEventTimerCancel, HandleExit
<1>2. /\ m_objEventSyncQueue' \in Seq(Event) /\ Length' <= EVENT_SYNC_QUEUE_NUM
      /\ Front \in Event /\ Front.type = type
      /\ type \in {"REGISTER", "CANCEL"} => Front.timer \in Timer
      /\ event' \in EventType /\ event'.at = "while" /\ event'.todo = {}
      /\ QueueInv'
  BY <1>1, PopStep
<1>3. /\ \A f : Queued(f)' => Queued(f)
      /\ \A f : Queued(f) => Queued(f)' \/ f = Front
      /\ Queued(Front)
      /\ \A f : f = Ev("REGISTER", Front.timer) => ~Queued(f)'
      /\ \A t : (\A i \in 1..Length : m_objEventSyncQueue[i].timer # t) =>
                   /\ \A i \in 1..Length' : m_objEventSyncQueue'[i].timer # t
                   /\ Front.timer # t
      /\ (\A i \in 1..Length : m_objEventSyncQueue[i].type # "EXIT") =>
            \A i \in 1..Length' : m_objEventSyncQueue'[i].type # "EXIT"
  BY <1>1, PopQueue DEF IInv, AtEvent
<1>4. Front = Ev(type, Front.timer)
  BY <1>2 DEF Event, Ev
<1>5. /\ UNCHANGED <<m_minisip_mutex, elapsed, trigger, stack, fini, libVars, cancelVars>>
      /\ event.at = "pop"
  BY <1>1 DEF HandleEventTimerRegister, HandleEventTimerCancel, HandleExit, AtEvent
<1>6. /\ m_ulTimerId' = m_ulTimerId /\ lib' = lib /\ fired' = fired
      /\ cancelled' = cancelled /\ lost' = lost /\ stack' = stack /\ fini' = fini
      /\ m_minisip_mutex' = m_minisip_mutex
  BY <1>5 DEF libVars, cancelVars
<1>7. TurnInv'
  BY <1>2, TurnOver
<1>8. HoldInv'
  BY <1>2, <1>5, <1>6 DEF IInv, HoldInv, Held
<1>9. \A t \in Timer : Queued(Ev("REGISTER", t))' => Queued(Ev("REGISTER", t)) /\ t # Front.timer
  BY <1>3 DEF Ev
<1>10. m_mapTimerIdToInfo \in MapType
  BY Types DEF IInv
<1>11. CASE type = "EXIT"
  <2>1. HandleExit
    BY <1>1, <1>11 DEF HandleEventTimerRegister, HandleEventTimerCancel, AtEvent
  <2>2. m_mapTimerIdToInfo' = m_mapTimerIdToInfo /\ m_bProcEventThreadRun' = FALSE
    BY <2>1 DEF HandleExit
  <2>3. fini' # "up"
    <3>1. \E i \in 1..Length : m_objEventSyncQueue[i] = Front
      BY <1>3, QueuedAt DEF IInv
    <3> QED
      BY <1>2, <1>6, <1>11, <3>1 DEF IInv, ClearInv
  <2>4. LibInv'
    BY <1>3, <1>6, <2>2 DEF IInv, LibInv, NotStarted
  <2>5. FireInv'
    BY <1>6, <1>9, <2>2 DEF IInv, FireInv, FiresOnce, Ev
  <2>6. ClearInv'
    BY <2>3 DEF ClearInv, MapIsCleared
  <2>7. TypeOK'
    BY <1>2, <1>5, <2>2 DEF IInv, TypeOK, EventType, Length, libVars, cancelVars
  <2> QED
    BY <1>2, <1>7, <1>8, <2>4, <2>5, <2>6, <2>7 DEF IInv
<1>12. CASE type # "EXIT"
  <2> PICK t \in Timer : t = Front.timer
    BY <1>2, <1>12
  <2>1. /\ m_bProcEventThreadRun' = m_bProcEventThreadRun
        /\ m_mapTimerIdToInfo' = [m_mapTimerIdToInfo EXCEPT ![t] =
                                    IF type = "REGISTER" THEN "armed" ELSE "absent"]
    <3>1. CASE type = "REGISTER"
      <4>1. HandleEventTimerRegister
        BY <1>1, <3>1 DEF HandleExit, HandleEventTimerCancel, AtEvent
      <4> QED
        BY <3>1, <4>1 DEF HandleEventTimerRegister
    <3>2. CASE type = "CANCEL"
      <4>1. HandleEventTimerCancel
        BY <1>1, <3>2 DEF HandleExit, HandleEventTimerRegister, AtEvent
      <4> QED
        BY <3>2, <4>1 DEF HandleEventTimerCancel
    <3> QED
      BY <1>12, <3>1, <3>2
  <2>2. /\ m_mapTimerIdToInfo' \in MapType
        /\ \A s \in Timer : s # t => m_mapTimerIdToInfo'[s] = m_mapTimerIdToInfo[s]
        /\ m_mapTimerIdToInfo'[t] = IF type = "REGISTER" THEN "armed" ELSE "absent"
    BY <1>10, <2>1 DEF MapType
  <2>3. \A s \in Timer : NotStarted(s) => NotStarted(s)' /\ s # t
    <3> SUFFICES ASSUME NEW s \in Timer, NotStarted(s) PROVE NotStarted(s)' /\ s # t
      OBVIOUS
    <3>1. s # t /\ \A i \in 1..Length' : m_objEventSyncQueue'[i].timer # s
      BY <1>3 DEF NotStarted
    <3> QED
      BY <1>6, <2>2, <3>1 DEF NotStarted
  <2>4. LibInv'
    BY <1>6, <2>3 DEF IInv, LibInv
  <2>5. FireInv'
    <3> SUFFICES ASSUME NEW s \in Timer
                 PROVE  /\ fired[s] <= 1
                        /\ m_mapTimerIdToInfo'[s] = "armed" => fired[s] = 0
                        /\ Queued(Ev("REGISTER", s))' =>
                             fired[s] = 0 /\ m_mapTimerIdToInfo'[s] = "absent"
      BY <1>6 DEF FireInv, FiresOnce, Ev
    <3>1. /\ fired[s] <= 1
          /\ m_mapTimerIdToInfo[s] = "armed" => fired[s] = 0
          /\ Queued(Ev("REGISTER", s)) => fired[s] = 0 /\ m_mapTimerIdToInfo[s] = "absent"
      BY DEF IInv, FireInv, FiresOnce
    <3>2. type = "REGISTER" /\ s = t => Queued(Ev("REGISTER", s))
      BY <1>3, <1>4
    <3> QED
      BY <1>9, <2>2, <3>1, <3>2
  <2>6. ClearInv'
    <3>1. fini = "up" => m_bProcEventThreadRun' /\
            \A i \in 1..Length' : m_objEventSyncQueue'[i].type # "EXIT"
      BY <1>3, <2>1 DEF IInv, ClearInv
    <3>2. ASSUME fini = "up", NEW s \in Timer, ~Queued(Ev("CANCEL", s))'
          PROVE  /\ s \in cancelled =>
                      m_mapTimerIdToInfo'[s] = "absent" /\ ~Queued(Ev("REGISTER", s))'
                 /\ m_mapTimerIdToInfo'[s] = "stopped" => s \in lost
      <4>1. CASE Queued(Ev("CANCEL", s))
        <5>1. Ev("CANCEL", s) = Front
          BY <1>3, <3>2, <4>1 DEF Ev
        <5>2. type = "CANCEL" /\ s = t
          BY <1>2, <5>1, EventFields
        <5> QED
          BY <1>9, <2>2, <5>2
      <4>2. CASE ~Queued(Ev("CANCEL", s))
        <5>1. /\ s \in cancelled =>
                   m_mapTimerIdToInfo[s] = "absent" /\ ~Queued(Ev("REGISTER", s))
              /\ m_mapTimerIdToInfo[s] = "stopped" => s \in lost
          BY <3>2, <4>2 DEF IInv, ClearInv, MapIsCleared
        <5>2. CASE s # t
          BY <1>9, <2>2, <5>1, <5>2
        <5>3. CASE s = t
          <6>1. type = "REGISTER" => s \notin cancelled
            BY <1>3, <1>4, <5>1, <5>3
          <6> QED
            BY <1>9, <2>2, <5>1, <5>3, <6>1
        <5> QED
          BY <5>2, <5>3
      <4> QED
        BY <4>1, <4>2
    <3>3. MapIsCleared'
      BY <1>6, <3>2, Zenon DEF MapIsCleared, Ev
    <3> QED
      BY <1>6, <3>1, <3>3, Zenon DEF ClearInv
  <2>7. TypeOK'
    BY <1>2, <1>5, <2>1, <2>2 DEF IInv, TypeOK, EventType, MapType, Length, libVars, cancelVars
  <2> QED
    BY <1>2, <1>7, <1>8, <2>4, <2>5, <2>6, <2>7 DEF IInv
<1> QED
  BY <1>11, <1>12

\* A trigger: the timers elapsed are gathered, and marked and stopped one by one.
LEMMA ScanStep ==
  ASSUME IInv, TriggerBegin \/ TriggerNext
  PROVE  IInv'
<1>1. /\ event \in EventType /\ Timer \subseteq Nat /\ m_mapTimerIdToInfo \in MapType
      /\ EVENT_SYNC_QUEUE_NUM \in Nat /\ NoTimer \notin Timer /\ elapsed \subseteq Timer
  BY Types DEF IInv, TypeOK
<1>2. CASE TriggerBegin
  <2>1. /\ AtEvent("TRIGGER") /\ Pop /\ event.at = "pop" /\ m_objEventSyncQueue # <<>>
        /\ event' = [event EXCEPT !.at = "scan",
                       !.todo = {t \in elapsed : m_mapTimerIdToInfo[t] = "armed"}]
        /\ UNCHANGED <<m_mapTimerIdToInfo, m_bProcEventThreadRun, m_minisip_mutex,
                       elapsed, trigger, stack, fini, libVars, cancelVars>>
    BY <1>2 DEF TriggerBegin, AtEvent
  <2>2. /\ m_ulTimerId' = m_ulTimerId /\ lib' = lib /\ fired' = fired
        /\ cancelled' = cancelled /\ lost' = lost
        /\ m_mapTimerIdToInfo' = m_mapTimerIdToInfo
    BY <2>1 DEF libVars, cancelVars
  <2>3. /\ event' \in EventType /\ event'.at = "scan"
        /\ \A t \in event'.todo : m_mapTimerIdToInfo[t] = "armed"
    BY <1>1, <2>1 DEF EventType
  <2>4. /\ m_objEventSyncQueue' \in Seq(Event) /\ Length' <= EVENT_SYNC_QUEUE_NUM
        /\ Front.type = "TRIGGER"
    BY <2>1, PopEffect DEF IInv, AtEvent
  <2>5. /\ QueueInv'
        /\ \A f : Queued(f)' => Queued(f)
        /\ \A f : Queued(f) => Queued(f)' \/ f = Front
        /\ \A t : (\A i \in 1..Length : m_objEventSyncQueue[i].timer # t) =>
                     \A i \in 1..Length' : m_objEventSyncQueue'[i].timer # t
        /\ (\A i \in 1..Length : m_objEventSyncQueue[i].type # "EXIT") =>
              \A i \in 1..Length' : m_objEventSyncQueue'[i].type # "EXIT"
    BY <2>1, PopQueue DEF IInv
  <2>6. \A t \in Timer : /\ Queued(Ev("REGISTER", t))' => Queued(Ev("REGISTER", t))
                         /\ Queued(Ev("CANCEL", t))' <=> Queued(Ev("CANCEL", t))
    BY <2>4, <2>5, EventFields DEF Ev
  <2>7. TypeOK'
    BY <2>1, <2>3, <2>4 DEF IInv, TypeOK, EventType, Length, libVars, cancelVars
  <2>8. TurnInv'
    BY <2>2, <2>3 DEF TurnInv
  <2>9. HoldInv'
    BY <2>1, <2>2, <2>3 DEF IInv, HoldInv, Held
  <2>10. LibInv'
    BY <2>2, <2>5 DEF IInv, LibInv, NotStarted
  <2>11. FireInv'
    BY <2>2, <2>6 DEF IInv, FireInv, FiresOnce, Ev
  <2>12. ClearInv'
    <3>1. MapIsCleared'
      BY <2>1, <2>2, <2>6, Zenon DEF IInv, ClearInv, MapIsCleared, Ev
    <3> QED
      BY <2>1, <2>5, <3>1 DEF IInv, ClearInv
  <2> QED
    BY <2>5, <2>7, <2>8, <2>9, <2>10, <2>11, <2>12 DEF IInv
<1>3. CASE TriggerNext
  <2>1. /\ event.at = "scan" /\ event.todo # {} /\ event.todo \in SUBSET Timer
    BY <1>1, <1>3 DEF TriggerNext, EventType
  <2>2. PICK t \in Timer : t = Min(event.todo) /\ t \in event.todo
    <3>1. event.todo \in SUBSET Nat
      BY <1>1, <2>1
    <3> QED
      BY <2>1, <3>1, LeastIsIn
  <2>3. /\ Mark(t) /\ CancelAdded(t)
        /\ event' = [event EXCEPT !.at = "lock", !.timer = t, !.todo = @ \ {t}]
        /\ UNCHANGED <<m_bProcEventThreadRun, m_minisip_mutex, elapsed, trigger, stack,
                       fini, libVars>>
    BY <1>3, <2>2 DEF TriggerNext, Stop
  <2>4. m_mapTimerIdToInfo[t] = "armed"
    BY <2>2 DEF IInv, TurnInv
  <2>5. lib[t] \notin {"new", "refused"} /\ fired[t] = 0
    BY <2>4 DEF IInv, LibInv, NotStarted, FireInv
  <2>6. /\ m_objEventSyncQueue' \in Seq(Event) /\ Length' <= EVENT_SYNC_QUEUE_NUM
        /\ cancelled' \subseteq Timer /\ lost' \subseteq Timer
        /\ m_mapTimerIdToInfo' \in MapType
        /\ QueueInv' /\ LibInv' /\ FireInv' /\ ClearInv'
    BY <2>3, <2>4, <2>5, CancelStep DEF libVars
  <2>7. /\ event' \in EventType /\ event'.at = "lock" /\ event'.timer = t
        /\ event'.todo = event.todo \ {t}
    BY <1>1, <2>3 DEF EventType
  <2>8. /\ m_mapTimerIdToInfo'[t] = "stopped"
        /\ \A s \in Timer : s # t => m_mapTimerIdToInfo'[s] = m_mapTimerIdToInfo[s]
    BY <1>1, <2>3 DEF Mark, MapType
  <2>9. TypeOK'
    BY <2>3, <2>6, <2>7 DEF IInv, TypeOK, EventType, MapType, Length, libVars
  <2>10. TurnInv'
    <3>1. \A s \in event'.todo : m_mapTimerIdToInfo'[s] = "armed"
      BY <2>1, <2>7, <2>8 DEF IInv, TurnInv
    <3>2. fired'[t] = 0
      BY <2>3, <2>5 DEF libVars
    <3> QED
      BY <2>7, <2>8, <3>1, <3>2 DEF TurnInv
  <2>11. HoldInv'
    BY <2>1, <2>3, <2>7 DEF IInv, HoldInv, Held, libVars
  <2> QED
    BY <2>6, <2>9, <2>10, <2>11 DEF IInv
<1> QED
  BY <1>2, <1>3

\* The timer whose turn it is fires.
LEMMA LockStep ==
  ASSUME IInv, TriggerLock
  PROVE  IInv'
<1>1. /\ event \in EventType /\ fired \in [Timer -> Nat] /\ lib \in LibType
  BY Types DEF IInv
<1>2. /\ event.at = "lock" /\ m_minisip_mutex = "free" /\ m_minisip_mutex' = "event"
      /\ event' = [event EXCEPT !.at = "in"]
      /\ UNCHANGED <<m_objEventSyncQueue, m_mapTimerIdToInfo, m_bProcEventThreadRun,
                     m_ulTimerId, elapsed, trigger, stack, fini, cancelVars>>
  BY DEF TriggerLock
<1>3. PICK t \in Timer : t = event.timer
  BY <1>2 DEF IInv, TurnInv
<1>4. /\ fired' = [fired EXCEPT ![t] = @ + 1]
      /\ lib' = [lib EXCEPT ![t] = IF @ = "running" THEN "expired" ELSE @]
  BY <1>3 DEF TriggerLock
<1>5. m_mapTimerIdToInfo[t] = "stopped" /\ fired[t] = 0
  BY <1>2, <1>3 DEF IInv, TurnInv
<1>6. /\ fired' \in [Timer -> Nat] /\ fired'[t] = 1
      /\ \A s \in Timer : s # t => fired'[s] = fired[s]
  BY <1>1, <1>4, <1>5
<1>7. /\ lib' \in LibType
      /\ \A s \in Timer : lib'[s] \in {"new", "refused"} <=> lib[s] \in {"new", "refused"}
      /\ \A s \in Timer : lib[s] = "new" => lib'[s] = "new"
  BY <1>1, <1>4 DEF LibType
<1>8. /\ event' \in EventType /\ event'.at = "in" /\ event'.timer = t
      /\ event'.todo = event.todo
  BY <1>1, <1>2, <1>3 DEF EventType
<1>9. \A e : Queued(e)' <=> Queued(e)
  BY <1>2 DEF Queued
<1>10. TypeOK'
  BY <1>2, <1>6, <1>7, <1>8 DEF IInv, TypeOK, EventType, LibType, cancelVars
<1>11. HoldInv'
  BY <1>2, <1>8 DEF IInv, HoldInv
<1>12. QueueInv'
  BY <1>2 DEF IInv, QueueInv, Length
<1>13. LibInv'
  <2>1. \A s \in Timer : NotStarted(s) => NotStarted(s)'
    BY <1>2, <1>5, <1>6 DEF NotStarted, Length, cancelVars
  <2> QED
    BY <1>2, <1>7, <2>1 DEF IInv, LibInv
<1>14. FireInv'
  <2> SUFFICES ASSUME NEW s \in Timer
               PROVE  /\ fired'[s] <= 1
                      /\ m_mapTimerIdToInfo[s] = "armed" => fired'[s] = 0
                      /\ Queued(Ev("REGISTER", s)) =>
                           fired'[s] = 0 /\ m_mapTimerIdToInfo[s] = "absent"
    BY <1>2, <1>9 DEF FireInv, FiresOnce, Ev
  <2>1. /\ fired[s] <= 1
        /\ m_mapTimerIdToInfo[s] = "armed" => fired[s] = 0
        /\ Queued(Ev("REGISTER", s)) => fired[s] = 0 /\ m_mapTimerIdToInfo[s] = "absent"
    BY DEF IInv, FireInv, FiresOnce
  <2> QED
    BY <1>5, <1>6, <2>1
<1>15. TurnInv'
  BY <1>2, <1>5, <1>8 DEF IInv, TurnInv
<1>16. ClearInv'
  BY <1>2, <1>9 DEF IInv, ClearInv, MapIsCleared, Ev, Length, cancelVars
<1> QED
  BY <1>10, <1>11, <1>12, <1>13, <1>14, <1>15, <1>16 DEF IInv

\* The library's handler on the event thread, until it returns.
LEMMA HandlerStep ==
  ASSUME IInv, TriggerCall \/ TriggerAdd \/ TriggerUnlock
  PROVE  IInv'
<1>1. /\ stack \in StackType /\ event \in EventType
      /\ m_ulTimerId \in 0..MaxTimers /\ MaxTimers \in Nat /\ Timer = 1..MaxTimers
      /\ lib \in LibType
  BY Types DEF IInv, Timer
<1>2. CASE TriggerUnlock
  <2>1. /\ event.at = "in" /\ m_minisip_mutex' = "free"
        /\ event' = [event EXCEPT !.at = "scan", !.timer = NoTimer]
        /\ UNCHANGED <<m_objEventSyncQueue, m_mapTimerIdToInfo, m_bProcEventThreadRun,
                       elapsed, trigger, stack, fini, libVars, cancelVars>>
    BY <1>2 DEF TriggerUnlock
  <2>2. event' \in EventType /\ event'.at = "scan" /\ event'.todo = event.todo
    BY <1>1, <2>1 DEF EventType
  <2>3. TypeOK'
    BY <2>1, <2>2 DEF IInv, TypeOK, EventType, libVars, cancelVars
  <2>4. HoldInv'
    BY <2>1, <2>2 DEF IInv, HoldInv
  <2>5. TurnInv'
    BY <2>1, <2>2 DEF IInv, TurnInv
  <2> QED
    BY <2>1, <2>3, <2>4, <2>5, TimersKept DEF IInv
<1>3. CASE TriggerAdd
  <2>1. /\ event.at = "add" /\ LibraryAdds(event.add)
        /\ event' = [event EXCEPT !.at = "in", !.add = NoEvent]
        /\ UNCHANGED <<m_mapTimerIdToInfo, m_bProcEventThreadRun, m_ulTimerId, fired,
                       m_minisip_mutex, elapsed, trigger, stack, fini>>
    BY <1>3 DEF TriggerAdd
  <2>2. PICK e \in Event : e = event.add /\ Held(e)
    BY <1>1, <2>1 DEF EventType, IInv, HoldInv
  <2>3. /\ m_objEventSyncQueue' \in Seq(Event) /\ Length' <= EVENT_SYNC_QUEUE_NUM
        /\ cancelled' \subseteq Timer /\ lost' \subseteq Timer /\ lib' \in LibType
        /\ QueueInv' /\ LibInv' /\ FireInv' /\ ClearInv'
    BY <2>1, <2>2, AddsStep
  <2>4. /\ event' \in EventType /\ event'.at = "in" /\ event'.todo = event.todo
        /\ event'.timer = event.timer
    BY <1>1, <2>1, EventsAreTyped DEF EventType
  <2>5. TypeOK'
    BY <2>1, <2>3, <2>4 DEF IInv, TypeOK, EventType, LibType, Length
  <2>6. HoldInv'
    BY <2>1, <2>4 DEF IInv, HoldInv
  <2>7. TurnInv'
    BY <2>1, <2>4 DEF IInv, TurnInv
  <2> QED
    BY <2>3, <2>5, <2>6, <2>7 DEF IInv
<1>4. CASE TriggerCall
  <2>1. /\ event.at = "in"
        /\ UNCHANGED <<m_objEventSyncQueue, m_mapTimerIdToInfo, m_bProcEventThreadRun,
                       m_minisip_mutex, elapsed, trigger, stack, fini, fired, cancelVars>>
    BY <1>4 DEF TriggerCall
  <2>2. PICK e \in Event : LibraryCall(e) /\ event' = [event EXCEPT !.at = "add", !.add = e]
    BY <1>4 DEF TriggerCall
  <2>3. /\ event' \in EventType /\ event'.at = "add" /\ event'.add = e
        /\ event'.todo = event.todo /\ event'.timer = event.timer
    BY <1>1, <2>2 DEF EventType
  <2>4. /\ m_ulTimerId' \in 0..MaxTimers /\ lib' \in LibType /\ Held(e)' /\ LibInv'
    BY <2>1, <2>2, CallStep
  <2>5. TypeOK'
    BY <2>1, <2>3, <2>4 DEF IInv, TypeOK, EventType, LibType, cancelVars
  <2>6. HoldInv'
    BY <2>1, <2>3, <2>4 DEF IInv, HoldInv
  <2>7. TurnInv'
    BY <2>1, <2>3 DEF IInv, TurnInv
  <2>8. QueueInv' /\ FireInv' /\ ClearInv'
    BY <2>1, CallKeeps
  <2> QED
    BY <2>4, <2>5, <2>6, <2>7, <2>8 DEF IInv
<1> QED
  BY <1>2, <1>3, <1>4

\* CSipStack::Fini.
LEMMA FiniStep ==
  ASSUME IInv, FiniCancel \/ InFini
  PROVE  IInv'
<1>1. CASE FiniCancel \/ FiniFlag \/ FiniJoin
  <2>1. /\ UNCHANGED <<m_objEventSyncQueue, m_mapTimerIdToInfo, m_minisip_mutex,
                       elapsed, event, libVars, cancelVars>>
        /\ fini' \in {"cancel", "exit", "done"}
        /\ trigger' \in BOOLEAN /\ m_bProcEventThreadRun' \in BOOLEAN
    BY <1>1, Types DEF FiniCancel, FiniFlag, FiniJoin, IInv
  <2>2. stack' = stack \/ (stack.at = "out" /\ stack' = [stack EXCEPT !.at = "off"])
    BY <1>1 DEF FiniCancel, FiniFlag, FiniJoin
  <2>3. stack \in StackType
    BY Types DEF IInv
  <2>4. /\ stack' \in StackType
        /\ stack' = stack \/ (stack.at = "out" /\ stack'.at = "off")
    BY <2>2, <2>3 DEF StackType
  <2>5. TypeOK'
    BY <2>1, <2>4 DEF IInv, TypeOK, StackType, libVars, cancelVars
  <2>6. HoldInv'
    BY <2>1, <2>4 DEF IInv, HoldInv, Held, libVars
  <2>7. QueueInv' /\ LibInv' /\ FireInv' /\ ClearInv'
    BY <2>1, TimersKept
  <2> QED
    BY <2>1, <2>5, <2>6, <2>7, TurnKept DEF IInv, libVars
<1>2. CASE FiniExit
  <2>1. /\ AddEvent(Ev("EXIT", NoTimer)) /\ fini' = "join"
        /\ UNCHANGED <<m_mapTimerIdToInfo, m_bProcEventThreadRun, m_minisip_mutex, elapsed,
                       trigger, stack, event, libVars, cancelVars>>
    BY <1>2 DEF FiniExit
  <2>2. PICK e \in Event : e = Ev("EXIT", NoTimer) /\ e.type = "EXIT" /\ e.timer = NoTimer
    BY EventsAreTyped, EventFields
  <2>3. /\ m_objEventSyncQueue' \in Seq(Event) /\ Length' <= EVENT_SYNC_QUEUE_NUM
        /\ QueueInv' /\ LibInv' /\ FireInv' /\ ClearInv'
    BY <2>1, <2>2, OtherStep
  <2>4. TypeOK'
    BY <2>1, <2>3 DEF IInv, TypeOK, Length, libVars, cancelVars
  <2> QED
    BY <2>1, <2>3, <2>4, TurnKept, HoldKept DEF IInv, libVars
<1> QED
  BY <1>1, <1>2 DEF InFini

-----------------------------------------------------------------------------
(* The invariant and what it says of the timers.                           *)

\* The initial states satisfy the invariant.
LEMMA InitInv == Init => IInv
<1> SUFFICES ASSUME Init PROVE IInv
  OBVIOUS
<1>1. m_objEventSyncQueue = <<>> /\ Length = 0 /\ \A e : ~Queued(e)
  BY DEF Init, Length, Queued
<1>2. TypeOK
  <2>1. m_objEventSyncQueue \in Seq(Event) /\ Len(m_objEventSyncQueue) <= EVENT_SYNC_QUEUE_NUM
    BY <1>1, StackTimersAssumption DEF Length
  <2>2. stack \in [at : {"out", "in", "add", "off"}, add : Event]
    BY EventsAreTyped DEF Init
  <2>3. event \in [at : {"while", "pop", "scan", "lock", "in", "add", "off"},
                   add : Event, timer : Timer \cup {NoTimer}, todo : SUBSET Timer]
    BY EventsAreTyped DEF Init
  <2> QED
    BY <2>1, <2>2, <2>3, StackTimersAssumption DEF Init, TypeOK
<1>3. HoldInv
  BY DEF Init, HoldInv
<1>4. QueueInv
  BY <1>1 DEF QueueInv
<1>5. LibInv
  BY <1>1 DEF Init, LibInv, NotStarted
<1>6. FireInv
  BY <1>1 DEF Init, FireInv, FiresOnce
<1>7. TurnInv
  BY DEF Init, TurnInv
<1>8. ClearInv
  BY <1>1 DEF Init, ClearInv, MapIsCleared
<1> QED
  BY <1>2, <1>3, <1>4, <1>5, <1>6, <1>7, <1>8 DEF IInv

\* Every step keeps it.
LEMMA NextInv == IInv /\ [Next]_vars => IInv'
<1> SUFFICES ASSUME IInv, [Next]_vars PROVE IInv'
  OBVIOUS
<1>1. CASE StackEnter \/ InLibrary
  BY <1>1, StackStep
<1>2. CASE OnTrigger \/ \E t \in Timer : Elapse(t)
  BY <1>2, TimeStep
<1>3. CASE ProcEventThread
  BY <1>3, LoopStep, TakeStep, ScanStep, LockStep, HandlerStep DEF ProcEventThread
<1>4. CASE FiniCancel \/ InFini
  BY <1>4, FiniStep
<1>5. CASE UNCHANGED vars
  <2>1. TypeOK'
    BY <1>5 DEF vars, IInv, TypeOK
  <2>2. QueueInv' /\ LibInv' /\ FireInv' /\ ClearInv'
    BY <1>5, TimersKept DEF vars, libVars, cancelVars
  <2>3. TurnInv' /\ HoldInv'
    BY <1>5, TurnKept, HoldKept DEF vars
  <2> QED
    BY <2>1, <2>2, <2>3 DEF IInv
<1> QED
  BY <1>1, <1>2, <1>3, <1>4, <1>5 DEF Next

\* The inductive invariant holds in every reachable state.
THEOREM Invariant == Spec => []IInv
BY InitInv, NextInv, PTL DEF Spec

\* Every variable keeps its type, and the event queue its limit.
THEOREM TypeCorrect == Spec => []TypeOK
<1>1. IInv => TypeOK
  BY DEF IInv
<1> QED
  BY Invariant, <1>1, PTL

\* The library's handler is called at most once for a timer.
THEOREM TimersFireOnce == Spec => []FiresOnce
<1>1. IInv => FiresOnce
  BY DEF IInv, FireInv
<1> QED
  BY Invariant, <1>1, PTL

\* Until Fini, what is left over in the map has its CANCEL still to come, or
\* lost it to a full queue.
THEOREM NoTimerIsLeft == Spec => []MapIsCleared
<1>1. IInv => MapIsCleared
  BY DEF IInv, ClearInv
<1> QED
  BY Invariant, <1>1, PTL
-----------------------------------------------------------------------------
(* The refinement: what the library sees of its timers.                    *)

\* What the steps of TimerService need besides the invariant: the stack thread
\* is gone when Fini begins and the event thread when it has returned, only
\* timers that have elapsed wait for their turn, and only one that has fired is
\* expired for the library.
ServiceInv ==
  /\ fini # "up" => stack.at = "off"
  /\ fini = "done" => event.at = "off"
  /\ event.todo \subseteq elapsed
  /\ event.at = "lock" => event.timer \in elapsed
  /\ \A t \in Timer : lib[t] = "expired" => fired[t] # 0

\* The library sees nothing of a step that leaves its timers alone.
Unseen == UNCHANGED <<lib, elapsed, fired>> /\ (fini' = "done" <=> fini = "done")

LEMMA UnseenStutters == Unseen => UNCHANGED Timers!vars
BY DEF Unseen, Timers!vars

\* A timer is started, or refused, when its REGISTER is or is not queued; the
\* CANCEL of one that the library has stopped changes nothing for it.
LEMMA AddStarts ==
  ASSUME IInv, ServiceInv, NEW e \in Event, Held(e), LibraryAdds(e), fini # "done",
         UNCHANGED <<elapsed, fired, fini>>
  PROVE  /\ Timers!Next \/ UNCHANGED Timers!vars
         /\ \A t \in Timer : lib'[t] = "expired" => fired'[t] # 0
<1>1. lib \in LibType
  BY Types DEF IInv
<1>2. PICK t \in Timer : t = e.timer
  BY DEF Held
<1>3. \A s \in Timer : lib[s] = "expired" => fired[s] # 0
  BY DEF ServiceInv
<1>4. CASE e.type = "REGISTER"
  <2>1. lib[t] = "new"
    BY <1>2, <1>4 DEF Held
  <2>2. \/ lib' = [lib EXCEPT ![t] = "running"]
        \/ lib' = [lib EXCEPT ![t] = "refused"]
    BY <1>2, <1>4 DEF LibraryAdds
  <2>3. Timers!Start(t)
    BY <2>1, <2>2 DEF Timers!Start, Timers!Becomes
  <2>4. \A s \in Timer : lib'[s] = "expired" => lib[s] = "expired"
    BY <1>1, <2>2 DEF LibType
  <2> QED
    BY <1>3, <2>3, <2>4 DEF Timers!Next
<1>5. CASE e.type # "REGISTER"
  <2>1. UNCHANGED lib
    BY <1>5 DEF LibraryAdds
  <2>2. Unseen
    BY <2>1 DEF Unseen
  <2> QED
    BY <1>3, <2>1, <2>2, UnseenStutters
<1> QED
  BY <1>4, <1>5

\* The library stops a timer that runs when it decides to; what it starts has
\* no timer yet.
LEMMA CallStops ==
  ASSUME IInv, ServiceInv, NEW e \in Event, LibraryCall(e), fini # "done",
         UNCHANGED <<elapsed, fired, fini>>
  PROVE  /\ Timers!Next \/ UNCHANGED Timers!vars
         /\ \A t \in Timer : lib'[t] = "expired" => fired'[t] # 0
<1>1. lib \in LibType
  BY Types DEF IInv
<1>2. \A s \in Timer : lib[s] = "expired" => fired[s] # 0
  BY DEF ServiceInv
<1>3. CASE UNCHANGED lib
  <2>1. Unseen
    BY <1>3 DEF Unseen
  <2> QED
    BY <1>2, <1>3, <2>1, UnseenStutters
<1>4. CASE ~UNCHANGED lib
  <2>1. PICK t \in Timer : lib[t] = "running" /\ lib' = [lib EXCEPT ![t] = "stopped"]
    BY <1>4 DEF LibraryCall
  <2>2. Timers!Stop(t)
    BY <2>1 DEF Timers!Stop, Timers!Becomes
  <2>3. \A s \in Timer : lib'[s] = "expired" => lib[s] = "expired"
    BY <1>1, <2>1 DEF LibType
  <2> QED
    BY <1>2, <2>2, <2>3 DEF Timers!Next
<1> QED
  BY <1>3, <1>4

\* The stack thread starts and stops timers inside the library only.
LEMMA StackServes ==
  ASSUME IInv, ServiceInv, StackEnter \/ InLibrary
  PROVE  ServiceInv' /\ (Timers!Next \/ UNCHANGED Timers!vars)
<1>1. stack \in StackType
  BY Types DEF IInv
<1>2. /\ fini = "up" /\ UNCHANGED <<elapsed, event, fini, fired>>
  BY <1>1 DEF StackEnter, InLibrary, StackCall, StackAdd, StackLeave, ServiceInv,
              StackType, libVars
<1>3. CASE StackEnter \/ StackLeave
  <2>1. UNCHANGED lib
    BY <1>3 DEF StackEnter, StackLeave, libVars
  <2>2. Unseen
    BY <1>2, <2>1 DEF Unseen
  <2> QED
    BY <1>2, <2>1, <2>2, UnseenStutters DEF ServiceInv
<1>4. CASE StackCall
  <2>1. PICK e \in Event : LibraryCall(e)
    BY <1>4 DEF StackCall
  <2> QED
    BY <1>2, <2>1, CallStops DEF ServiceInv
<1>5. CASE StackAdd
  <2>1. PICK e \in Event : e = stack.add /\ Held(e) /\ LibraryAdds(e)
    BY <1>1, <1>5 DEF StackAdd, StackType, IInv, HoldInv
  <2> QED
    BY <1>2, <2>1, AddStarts DEF ServiceInv
<1> QED
  BY <1>3, <1>4, <1>5 DEF InLibrary

\* So does the event thread, inside the handler.
LEMMA HandlerServes ==
  ASSUME IInv, ServiceInv, TriggerCall \/ TriggerAdd \/ TriggerUnlock
  PROVE  ServiceInv' /\ (Timers!Next \/ UNCHANGED Timers!vars)
<1>1. event \in EventType
  BY Types DEF IInv
<1>2. /\ fini # "done" /\ UNCHANGED <<elapsed, stack, fini, fired>>
      /\ event'.at \in {"in", "add", "scan"} /\ event'.todo = event.todo
  BY <1>1 DEF TriggerCall, TriggerAdd, TriggerUnlock, ServiceInv, EventType, libVars
<1>3. CASE TriggerUnlock
  <2>1. UNCHANGED lib
    BY <1>3 DEF TriggerUnlock, libVars
  <2>2. Unseen
    BY <1>2, <2>1 DEF Unseen
  <2> QED
    BY <1>2, <2>1, <2>2, UnseenStutters DEF ServiceInv
<1>4. CASE TriggerCall
  <2>1. PICK e \in Event : LibraryCall(e)
    BY <1>4 DEF TriggerCall
  <2> QED
    BY <1>2, <2>1, CallStops DEF ServiceInv
<1>5. CASE TriggerAdd
  <2>1. PICK e \in Event : e = event.add /\ Held(e) /\ LibraryAdds(e)
    BY <1>1, <1>5 DEF TriggerAdd, EventType, IInv, HoldInv
  <2> QED
    BY <1>2, <2>1, AddStarts DEF ServiceInv
<1> QED
  BY <1>3, <1>4, <1>5

\* The handler is called for a timer that has elapsed, has not fired and was
\* started: it runs, or the library has stopped it in the meantime.
LEMMA LockFires ==
  ASSUME IInv, ServiceInv, TriggerLock
  PROVE  ServiceInv' /\ Timers!Next
<1>1. event \in EventType /\ lib \in LibType /\ fired \in [Timer -> Nat]
  BY Types DEF IInv
<1>2. /\ event.at = "lock" /\ event' = [event EXCEPT !.at = "in"]
      /\ UNCHANGED <<elapsed, stack, fini>>
  BY DEF TriggerLock
<1>3. PICK t \in Timer : t = event.timer
  BY <1>2 DEF IInv, TurnInv
<1>4. fired[t] = 0 /\ m_mapTimerIdToInfo[t] = "stopped"
  BY <1>2, <1>3 DEF IInv, TurnInv
<1>5. lib[t] \in {"running", "stopped"}
  <2>1. lib[t] \notin {"new", "refused"}
    BY <1>4 DEF IInv, LibInv, NotStarted
  <2>2. lib[t] # "expired"
    BY <1>2, <1>3, <1>4 DEF ServiceInv
  <2> QED
    BY <1>1, <2>1, <2>2 DEF LibType
<1>6. /\ fired' = [fired EXCEPT ![t] = 1]
      /\ lib' = [lib EXCEPT ![t] = IF lib[t] = "running" THEN "expired" ELSE lib[t]]
  BY <1>1, <1>3, <1>4 DEF TriggerLock
<1>7. Timers!Fire(t)
  <2>1. fini # "done" /\ t \in elapsed
    BY <1>2, <1>3 DEF ServiceInv
  <2>2. CASE lib[t] = "running"
    BY <1>2, <1>4, <1>6, <2>1, <2>2 DEF Timers!Fire, Timers!Becomes
  <2>3. CASE lib[t] = "stopped"
    <3>1. lib' = lib
      BY <1>1, <1>6, <2>3 DEF LibType
    <3> QED
      BY <1>2, <1>4, <1>6, <2>1, <2>3, <3>1 DEF Timers!Fire
  <2> QED
    BY <1>5, <2>2, <2>3
<1>8. event'.at = "in" /\ event'.todo = event.todo
  BY <1>1, <1>2 DEF EventType
<1>9. ASSUME NEW s \in Timer, lib'[s] = "expired" PROVE fired'[s] # 0
  <2>1. CASE s = t
    BY <1>1, <1>6, <2>1
  <2>2. CASE s # t
    <3>1. lib'[s] = lib[s] /\ fired'[s] = fired[s]
      BY <1>1, <1>6, <2>2 DEF LibType
    <3> QED
      BY <1>9, <3>1 DEF ServiceInv
  <2> QED
    BY <2>1, <2>2
<1> QED
  BY <1>2, <1>7, <1>8, <1>9 DEF ServiceInv, Timers!Next

\* The rest of the event thread's loop is its own affair: the queue, the map
\* and the choice of the timers whose time has come.
LEMMA LoopServes ==
  ASSUME IInv, ServiceInv,
         \/ While \/ Sleep \/ Drain
         \/ HandleEventTimerRegister \/ HandleEventTimerCancel \/ HandleExit
         \/ TriggerBegin \/ TriggerNext \/ TriggerEnd
  PROVE  ServiceInv' /\ Unseen
<1>1. event \in EventType /\ Timer \subseteq Nat
  BY Types DEF IInv
<1>2. event.at # "off" /\ UNCHANGED <<elapsed, stack, fini, lib, fired>>
  BY DEF While, Sleep, Drain, HandleEventTimerRegister, HandleEventTimerCancel,
         HandleExit, TriggerBegin, TriggerNext, TriggerEnd, AtEvent, libVars
<1>3. event'.todo \subseteq elapsed /\ (event'.at = "lock" => event'.timer \in elapsed)
  <2>1. CASE TriggerBegin
    BY <1>1, <2>1 DEF TriggerBegin, EventType
  <2>2. CASE TriggerNext
    <3>1. event.todo # {} /\ event.todo \in SUBSET Nat
      BY <1>1, <2>2 DEF TriggerNext, EventType
    <3>2. PICK t \in event.todo : t = Min(event.todo)
      BY <3>1, LeastIsIn
    <3>3. event' = [event EXCEPT !.at = "lock", !.timer = t, !.todo = @ \ {t}]
      BY <2>2, <3>2 DEF TriggerNext
    <3>4. event'.todo \subseteq event.todo /\ event'.timer = t
      BY <1>1, <3>3 DEF EventType
    <3> QED
      BY <3>2, <3>4 DEF ServiceInv
  <2>3. CASE \/ While \/ Sleep \/ Drain
             \/ HandleEventTimerRegister \/ HandleEventTimerCancel \/ HandleExit
             \/ TriggerEnd
    <3>1. event'.todo = event.todo /\ event'.at # "lock"
      BY <1>1, <2>3 DEF While, Sleep, Drain, HandleEventTimerRegister,
           HandleEventTimerCancel, HandleExit, TriggerEnd, NextRound, EventType
    <3> QED
      BY <3>1 DEF ServiceInv
  <2> QED
    BY <2>1, <2>2, <2>3
<1>4. fini # "done"
  BY <1>2 DEF ServiceInv
<1> QED
  BY <1>2, <1>3, <1>4 DEF ServiceInv, Unseen

\* Time passes, and Fini ends: its return is the end of the service.
LEMMA RestServes ==
  ASSUME IInv, ServiceInv,
         OnTrigger \/ (\E t \in Timer : Elapse(t)) \/ FiniCancel \/ InFini
  PROVE  ServiceInv' /\ (Timers!Next \/ UNCHANGED Timers!vars)
<1>1. stack \in StackType
  BY Types DEF IInv
<1>2. CASE OnTrigger
  <2>1. UNCHANGED <<lib, elapsed, fired, fini, stack, event>>
    BY <1>2 DEF OnTrigger, libVars
  <2>2. Unseen
    BY <2>1 DEF Unseen
  <2> QED
    BY <2>1, <2>2, UnseenStutters DEF ServiceInv
<1>3. CASE \E t \in Timer : Elapse(t)
  <2>1. PICK t \in Timer : Elapse(t)
    BY <1>3
  <2>2. elapsed' = elapsed \cup {t} /\ UNCHANGED <<lib, fired, fini, stack, event>>
    BY <2>1 DEF Elapse, libVars
  <2>3. Timers!Elapse(t)
    BY <2>2 DEF Timers!Elapse
  <2> QED
    BY <2>2, <2>3 DEF ServiceInv, Timers!Next
<1>4. CASE FiniJoin
  <2>1. /\ fini = "join" /\ event.at = "off" /\ fini' = "done"
        /\ UNCHANGED <<lib, elapsed, fired, stack, event>>
    BY <1>4 DEF FiniJoin, libVars
  <2>2. Timers!Close
    BY <2>1 DEF Timers!Close
  <2> QED
    BY <2>1, <2>2 DEF ServiceInv, Timers!Next
<1>5. CASE FiniCancel \/ FiniFlag \/ FiniExit
  <2>1. /\ fini \in {"up", "cancel", "exit"} /\ fini' \in {"cancel", "exit", "join"}
        /\ UNCHANGED <<lib, elapsed, fired, event>>
    BY <1>5 DEF FiniCancel, FiniFlag, FiniExit, libVars
  <2>2. stack'.at = "off"
    BY <1>1, <1>5 DEF FiniCancel, FiniFlag, FiniExit, ServiceInv, StackType
  <2>3. Unseen
    BY <2>1 DEF Unseen
  <2> QED
    BY <2>1, <2>2, <2>3, UnseenStutters DEF ServiceInv
<1> QED
  BY <1>2, <1>3, <1>4, <1>5 DEF InFini

\* Every step of the two threads, the time and Fini is a step of the service,
\* or none.
LEMMA NextServes ==
  IInv /\ ServiceInv /\ [Next]_vars => ServiceInv' /\ [Timers!Next]_(Timers!vars)
<1> SUFFICES ASSUME IInv, ServiceInv, [Next]_vars
             PROVE  ServiceInv' /\ (Timers!Next \/ UNCHANGED Timers!vars)
  OBVIOUS
<1>1. CASE StackEnter \/ InLibrary
  BY <1>1, StackServes
<1>2. CASE OnTrigger \/ (\E t \in Timer : Elapse(t)) \/ FiniCancel \/ InFini
  BY <1>2, RestServes
<1>3. CASE ProcEventThread
  BY <1>3, HandlerServes, LockFires, LoopServes, UnseenStutters DEF ProcEventThread
<1>4. CASE UNCHANGED vars
  <2>1. UNCHANGED <<lib, elapsed, fired, fini, stack, event>>
    BY <1>4 DEF vars
  <2>2. Unseen
    BY <2>1 DEF Unseen
  <2> QED
    BY <2>1, <2>2, UnseenStutters DEF ServiceInv
<1> QED
  BY <1>1, <1>2, <1>3, <1>4 DEF Next

\* The queue, the two threads and Fini together implement the timers the
\* library is promised, whatever the queue refuses or Fini throws away.
THEOREM TimersKeepTime == Spec => TimersAreServed
<1>1. Init => Timers!Init /\ ServiceInv
  BY DEF Init, Timers!Init, ServiceInv
<1> QED
  BY <1>1, NextServes, Invariant, PTL DEF Spec, TimersAreServed, Timers!Spec

=============================================================================
