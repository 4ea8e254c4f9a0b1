# A verification development of the SIP SDK

This directory holds TLA+ models of `src/source/SipSDK`, the configurations
that check them with TLC, and proofs checked by TLAPS. The SDK is a SIP user
agent in C++: an application calls the facade (`sipsdk.cpp`), the *agent*
classes turn the calls into missions for one stack thread, and that thread runs
an external SIP library (MiniSip) and reports what the library receives back to
the application. A second, independent library (`eSDK_RtpPacket`) turns RTP
packets into media frames. All source paths below are relative to
`src/source/SipSDK`, and stack files without a directory are in
`sipsdk/dcg/src/sipstack` or `sipsdk/dcg/src/depend`.

    tlc -workers 2 -config SipStackTask.cfg MCSipStackTask.tla
    tlapm DialogsProofs.tla

`PROJECT.json` lists for every definition the lines it models, for every run
its properties, for every property a change of the code that violates it, and
for every hazard the properties that cover it.

## 1. Inventory

    application threads --calls--> facade --> agent client
        |                                        | RequestToPu (missions)
        | waits in a sync handler                v
        |                                 CSipStackTask: request, response and
        |         network thread --------> datagram queues --> stack thread
        |         (CConnMgr) RecvToPost          under the MiniSip mutex |
        |                                        v                       |
        |          timer thread --> event queue --> event thread --> MiniSip
        |          (CNVSTimer)      (CSyncQueue)    (ProcEvent)      library
        |                                                               |
        |                                CSipStack::HandleSipTxn* upcalls
        |                                                               v
        +--<-- sync handler <-- client HandleRcvMsg <-- agent server: queue, threads

| Component | State | Operations | What is hard | What makes it correct |
|---|---|---|---|---|
| Stack task, `sipstack_task.cpp` | two pairs of mission lists with a read index each, a datagram list and its counter, `m_init_b`, `m_work_b` | `RequestToPu`, `RespondToPu`, `PostToApp`, `svc`, `Init`, `Fini` | the thread reads a list without its mutex; producers race `Fini` | one owner per mission, order kept, what is accepted is served, nothing runs after `Fini` |
| Overload control, `sipstack_msg_ctrl.cpp` | table of lengths and kinds, current level | `UpdateCondition`, `IsControl2Drop`, `LoadConfig` | the level follows a length that goes up and down | the level comes down again |
| Synchronous calls, `sipstack_agent_client_impl.cpp`, `sipstack_sync_agent_msg_handler_impl.cpp` | map from Call-ID to a handler on the caller's stack, one message per handler, its mutex and condition | `SyncSend*`, `SendRegister`, `HandleRcvMsg`, `Wait`, `GetMsg` | answers race the timeout; the handler dies with the call | own answer or none, no dead handler used, no lost wake-up, every call ends |
| Agent server, `sipstack_agent_server_impl.cpp` | message queue, counter, flags | `RcvMsg`, `svc`, `Init`, `Fini` | a counter kept under a read lock; blocked threads at `Fini`; headers with two owners | exact counter, bound, one owner, `Fini` ends |
| Requests and answers, `CSipStack.cpp`, `sipstack_msg_wrap.cpp` | CSeq counter, map from CSeq to request, register, redirect and challenge state | `SendRegister`..., `HandleSipTxnHiSfRspInd` and its success, failure, 401 and 3xx parts, `ClearAllMsgInfo` | answers late, doubled, out of order, to a request sent again since | one outcome per request, challenges and redirects end |
| Incoming requests and dialogs, `CSipStack.cpp`, `sipstack_msg_wrap.cpp` | dialog tables, `m_msgMap` of notes by response ID | `HandleSipTxnHiSfReqInd`, INVITE, ACK, BYE, the answers, `InsertReqMsg`, `GetReqMsg`, `CheckReqMsg` | the timer's thread releases notes while the stack thread uses them; an ID comes back late, twice or never | a note is released once, an ID names its call, one answer per request |
| Event thread and library timers, `CSipStack.cpp`, `MiniSip.cpp`, `CSyncQueue.h` | bounded event queue, map of timers | `SipStartTimer`, `SipStopTimer`, `OnTrigger`, `ProcEvent`, `Fini` | a full queue, triggers left over, the mutex taken by the thread that empties the queue | a timer fires once, stopped timers go away, no deadlock |
| Facade and agent manager, `sipsdk.cpp`, `sipstack_agent_mgr_impl.cpp`, `CDcgStack.cpp` | globals and singletons | `SIP_SDK_Init`, `UnInit`, and the calls between them | a start that fails half way, four threads joined one by one | nothing used after it was deleted, what was started is stopped, both calls return |
| Timer thread, `CNVSTimer.cpp` | list of timers, a mutex | `init`, `run`, `exit`, `registerTimer`, `cancelTimer`, the thread | cancel during the scan and the callback | no callback after `cancelTimer` has returned |
| Network layer, `CConnMgr.cpp` | manager, list of handles, select threads | `init`, `run`, `exit`, `regUdpSocket`, `removeUdpSocket`, the thread | close between select and receive | no callback after removal, a datagram is read |
| RTP library, `eSDK_RtpPacket/` | frame organizer's queue, converters, channels | `insertRtpPacket`, PS and ES conversion, `Open/CloseChannel` | wrapping numbers, loss, fragments, closing a channel in use | losses are reported, packets are in order, every byte is handed out once |

Not worth modelling: MiniSip adaptation other than its timers (building and
reading headers for an external library), digest, MD5 and random numbers
(computation without control), agent messages, log, exceptions, crash dumps
(data holders, output), the VOS layer (the operating system's threads, mutexes
and conditions: the primitives of the models), the demonstration program and
the vendored libraries.

## 2. What is modelled

One module per component, an MC module where the instance needs definitions.
Histories (`fate`, `result`, `fired`, `released` ...) are variables the code does not
have; they record what became of an object so that properties can speak of it.
Definitions whose name ends in `Mutant` are slips a programmer could make in the
definition they stand before; `PROJECT.json` says which property finds each.

Six modules are abstract specifications: what a component promises to those who
use it, without its threads, locks, maps and lists. Each is refined by the
module in brackets, which instantiates it with a refinement mapping and states the
instance's `Spec` as a property.

- **`MissionQueue`** (`SipStackTask`): one first-in first-out queue with one
  consumer that is started, stopped and discards what is left.
- **`BlockingCall`** (`SyncCall`): a synchronous call is refused, or ends at one
  instant with the last message given to it by then, or none; nothing is dropped
  before that instant or given to another call.
- **`WorkQueue`** (`AgentServer`): a first-in first-out queue with several workers
  and a limit, which refuses only when the limit of items wait or are in the workers'
  hands, and is closed over empty hands.
- **`RequestService`** (`SipTransactions`): a request is refused or sent, and one that
  waits is answered, redirected to a new server or cleared by UNREGISTER with all
  others; the challenges between two answers are limited.
- **`ResponseIds`** (`Dialogs`): a response ID is given out once, is live, kept by an
  ACK, and spent for good by a BYE, an answer or its age; a BYE goes out for
  acknowledged calls only, and a request is answered at most once and is not given an
  ID if the stack answered it.
- **`TimerService`** (`StackTimers`): a timer that was started fires at most once, after
  its time and before `Fini` has returned.

**`FlowControl`** holds the overload levels as operators, the map as two
sequences and the iterator as an index, 0 for `end()`.

**`SipStackTask`** (extends `FlowControl`) is `CSipStackTask`. The three
producers test `m_init_b` (`Offer`), take the queue's mutex and read the index
(`Lock`), append and leave (`Push`); a datagram is appended in one step
(`PostToApp`), because its mutex covers the whole call. The thread's loop is split
wherever it reads without the mutex: `Test`, `Swap` (under the mutex), `Recheck`,
`Pop`, `Execute`, `Leave`, then `TakePost` and `HandleRecvMession`. `Execute` is one
step: the call runs under the MiniSip mutex, and what it does is
`SipTransactions`, `Dialogs` and `StackTimers`. `Init` and `Fini` are split where a
thread is started or joined and where each of the five lists is emptied
(`FiniClear`). It instantiates `MissionQueue` twice; the abstract queue is the
list being read followed by the one being written.

**`SyncCall`** has a place for one handler per calling thread, its stack, which
the thread's next call uses again. A call inserts the handler under the map's
write lock, takes the handler's mutex, posts the request, waits, is woken by the
signal or the timeout, leaves the mutex, takes the message out *afterwards*,
and erases the handler. A dispatcher (a thread of the agent server) looks the
Call-ID up under the map's read lock, which it keeps until the handler has been
given the message. `MaxMsgs` messages may arrive under one Call-ID: the answer
and requests of the peer. Sending without a handler is left out.

**`AgentServer`** has two receivers, the stack and the event thread: the library
calls up on both. They hold the MiniSip mutex and count a message under a READ
lock, in the steps a `++` is made of (`Load`, `Store`). The server's threads poll
the queue, block in `getq`, count off, handle. `DeleteHeader` is the indication of a
request without a transaction, which deletes the header it has just queued.
`Fini` is in the order of the code: flag, join, deactivate. `getq` fails only after
deactivate, which the join makes unreachable, so that branch is left out.

**`SipTransactions`**: sending and every final answer as one action each, since
both run under the MiniSip mutex. `wire` keeps every copy sent; an answer of any
kind may come for any copy at any time, any number of times, and is matched as
the code does, by CSeq. Provisional answers and unknown CSeqs change nothing and
are left out; credentials and headers are abstracted except Expires, which flows
from an answer into the next REGISTER. The event of a redirect is never followed
in this version (the case is commented out, `CSipStack.cpp:624`).

**`Dialogs`**: what the application has to come back to is a note in `m_msgMap`:
the 200 of its INVITE, or a request of the peer. The note's key is the response ID the
application gets, and ACK, BYE and the answers come with it at any time, any number
of times. The stack thread's two critical sections on the map, getting a note
(`Get`) and using it (`SendInviteAck`, `SendInviteBye`, `SendRspMsg`), are steps of
their own; between them the timer's thread (`CheckReqMsg`) releases old notes, and
the only thing that keeps a note that stays in the map is its state `OCCUPIED`.
`m_mapDialogInfoToId` is the other direction of `m_mapDialogIdToInfo` and derived from
it. The sorts of requests of the peer differ in whether they are noted, reported
and answered at once; an INVITE of the peer is always refused, without an answer,
because its To header has no tag yet (`MiniSip.cpp:2920`, `CSipStack.cpp:2786`).

**`StackTimers`**: the library's calls add events in one step each; the event
thread pops an event, and for a trigger goes through the timers with the lookup,
the mark `bStop`, the stop, the lock and the library's handler as separate steps.
A timer has elapsed or not; time itself is abstract. It starts when
`CSipStack::Init` has returned. Redirect events and timers of other modules
(which do nothing) are left out.

**`NVSTimer`** is `CNVSTimer`, the process's timer: the thread holds the list's
mutex over its whole scan and the callbacks in it; `cancelTimer` only marks an item
removed, and the owner deletes its trigger when it has returned. `exit` is three
steps (flag, `clearTimer`, join). **`ConnMgr`** is `CConnMgr` with the UDP socket the
SDK registers: its thread builds the set for select and calls back under the
list's mutex, selects without it, and takes `EPOLLIN` from the handle while the
callback runs; `close` takes the handle's own mutex only. Neither has a run of its own.
They are composed in **`StackLifecycle`**, which is
`SIP_SDK_Init` and `SIP_SDK_UnInit` step by step in the code's order, with the
threads running meanwhile. Most steps of a start may fail (`InitFails`). A failed
start is not undone (`m_bInit` was not set, so `Fini` returns at once): the next
start makes a new manager, handle, stack and event thread, and what the old ones
own goes on. What the stack, server and event threads do is reduced to idle and
busy; a busy thread uses the objects that the properties speak of.

**`RtpFrameOrganizer`** is `CRtpFrameOrganizer`: each call is one action under
the mutex of `CPs2EsProcessor::receviePacket`, written as functions on the record
of its members, one per function or branch of the code. The sender numbers
packets and marks the last one of a frame; the network loses, doubles and delays
them. The history `before` is the place of the packet handed out before the frames of
the last call, or 0 when `m_unLastDequeueSeq` is invalid; no action's guard reads it, and
`WholeFrames` compares the first packet of a frame with it. Packets that do not
parse are left out. An audio frame hands out nothing
(`handleMediaFrame` has no case for it).

**`FrameConversion`** is what is handed out of one frame, as operators.
`handleVideoRtpFrame` cuts the units (NALUs) out of RTP packets, alone
(`parseSingleNalu`) or fragments put together (`WritePacket`). `handleMediaFrame`
takes pictures and sound out of the packs of a program stream (`ParsePESHeader`,
`ParsePSPacket`, `HSPspkt2ESFrm`: what is copied where, over what was there before)
and cuts the pictures into units (`parseH264frame`). The reference both are checked against is
the frame itself. A byte is a cell that names its unit and part; the fields of
the headers are left out, and so are the sizes of the buffers. `MCRtpFrames` adds to the organizer
the conversion of one frame at the start of the stream: the converters keep
nothing from one frame to the next. The frames are the shapes the comments speak
of (`Es2PsProcessor.cpp:489-491`). Outside them the code has more to say: an IDR that
fits in one packet is thrown away, although the comment at `Es2PsProcessor.cpp:518`
names it; of several slices of one packet each only the last is kept; an SEI before
the SPS is not handed out by `CPs2EsProcessor`.

## 3. Runs

| Run | Module, cfg | Instance | Shows |
|---|---|---|---|
| `task` | `MCSipStackTask`, `SipStackTask.cfg` | 2 producers, 2 missions, 2 sessions, levels 0 and 1; 39,148 states | lock-free reads race no append and find what they expect (`ReadsAreSafe`), `OneOwner`, `CounterCoversQueue`, `StoppedAfterFini`, refinement of `MissionQueue` (`MissionQueues`), `AcceptedIsServed` (and `Fini` ends) |
| `sync_call` | `SyncCall`, `SyncCall.cfg` | 2 callers, 2 dispatchers, 2 Call-IDs, 2 messages each; 269,743 states | `UsedIsLive`, `NoLostWakeup`, refinement of `BlockingCall` (`BlockingCalls`), `CallReturns` |
| `agent_server` | `AgentServer`, `AgentServer.cfg` | 2 threads, 3 messages, one of them without a transaction, limit 1; 10,374 states | `MessagesAreCounted`, refinement of `WorkQueue` (`BoundedQueue`), `QueuedIsHandled` |
| `agent_server_fini` | `AgentServer`, `AgentServerFini.cfg` | 2 messages | **violated**: `FiniEnds` |
| `agent_server_header` | `AgentServer`, `AgentServerHeader.cfg` | 2 messages, one without a transaction | **violated**: `DeletedByServer` |
| `sip_txn` | `MCSipTransactions`, `SipTransactions.cfg` | 4 requests, 4 CSeqs, limit 1 on challenges, 3 servers; 605,740 states | `OneOutcome`, `OwnCSeq`, `ResendsAreBounded`, refinement of `RequestService` (`RequestsAreServed`) |
| `sip_expires` | `MCSipTransactions`, `SipExpires.cfg` | 2 requests | **violated**: `RegisterNeverUnregisters` |
| `dialogs` | `Dialogs`, `Dialogs.cfg` | 2 calls, a request of the peer, 3 notes; 73,267 states | `NoteHasOneOwner`, `IdNamesItsCall`, refinement of `ResponseIds` (`IdsAreServed`), `NotesAreReleased` |
| `timers` | `StackTimers`, `StackTimers.cfg` | 2 timers, event queue of 2; 29,691 states | `MapIsCleared`, refinement of `TimerService` (`TimersAreServed`), `ElapsedFires`, `CallsReturn` |
| `lifecycle` | `MCStackLifecycle`, `StackLifecycle.cfg` | 2 starts, each of which may fail; 90,204 states | `NothingIsUsedAfterDelete`, `StopsWhatItStarted`, `CallsReturn`, `DatagramsAreRead` |
| `rtp_frames` | `MCRtpFrames`, `RtpFrameOrganizer.cfg` | 6 packets from number 14 of 0..15, late by up to 2 others, cache 2, queue 4; 39 frames in 4,167 program streams; 934,410 states | `QueueIsKnown`, `WholeFrames`, `UnitsAreHandedOut` |
| `rtp_reversal` | `RtpFrameOrganizer`, `RtpReversal.cfg` | the same stream | **violated**: `QueueIsInOrder` |

Every passing run also checks its module's `TypeOK`. What a refinement implies has
no run of its own and is proved only: `OwnAnswer` (from `BlockingCalls`),
`ReportsOfThisRegistration` (from `RequestsAreServed`), `AnsweredOnce` (from
`IdsAreServed`) and `FiresOnce` (from `TimersAreServed`); so is the agent server's
`StoppedAfterFini`, whose part about the threads is the closed queue of `BoundedQueue`.

Why these bounds are enough. The races of the stack task are between the thread
and the producers of one queue: two producers show mutual exclusion among
producers as well, two missions show order, and two sessions show what one
session leaves to the next. Here and below the proofs lift the safety part to any
bounds.
In `SyncCall` a thread's second call reuses a handler's place while a dispatcher
still serves the first, two callers' handlers are in the map at once, and a
second message per Call-ID is what `GetMsg` outside the mutex is exposed to. In
`AgentServer` the limit of one is reached with a message more than it and two
threads race for the last message. In `SipTransactions` four CSeqs allow a
request, two challenges (one above the limit) and another request, or an
UNREGISTER between two registrations or with others waiting. In `Dialogs` three keys are a note of each
call and one of the peer's request, so that one note is used while another is
released and a third inserted. In
`StackTimers` a queue of two is filled by one timer's events. In `StackLifecycle` a
second start follows one that failed at any step, or one that was stopped. In
`RtpFrameOrganizer` the stream starts two packets before the wrap, which then
moves through the whole queue, and four queued packets overflow it; numbers 0..15
keep the packets under way below half of them, the distance the code relies on
(`MaxSent < Half`). The frames have up to three parameter units and two fields of
up to three packets; their program streams have the picture in one PES packet or
cut into two at any byte, sound before, between or behind, in one pack or two.
`MaxCells` is more than any of them has. Symmetry is used in `sip_txn` and
`sip_expires` only, which check no liveness; the specifications refined are symmetric as well.

`CHECK_DEADLOCK FALSE` is said where the model may stop: all missions, messages,
calls, requests, starts, timers or packets of the bound are used up, or Fini has
ended. Waiting for ever where the code should not is what the liveness properties are
about.

**Fairness.** Weak fairness of each thread that is inside an operation: the
system schedules it. Nobody is assumed to start a call, to send or to answer, and a
waiting call's timeout, which the code always gives, is a step of its thread.

- `SyncCall`: also each dispatcher, which polls for ever.
- `Dialogs`: the stack thread with a note in hand, and the timer, which is registered
  for good; a note gets older, so a scan that finds it too old comes.
- `StackTimers`: strong fairness of one step, the event thread's getting the
  MiniSip mutex, which the stack thread releases between any two missions
  (otherwise it might lose every race for it), and weak fairness of the periodic
  trigger while it is registered.
- `StackLifecycle`: strong fairness of the steps of `SIP_SDK_UnInit`, which wait for
  mutexes that the timer's and the network's threads take and give back between
  their sleeps; weak fairness of every thread, also of those a failed start left.

## 4. Findings

- `agent_server_fini`: `Fini` joins threads before it deactivates the queue one of
  them may be blocked in (`sipstack_agent_server_impl.cpp:99`), so
  `SIP_SDK_UnInit` may never return.
- `agent_server_header`: the indication of a request without a transaction, such as
  an ACK, deletes the header that waits in the server's queue
  (`CSipStack.cpp:2296`); the thread reads it and deletes it again.
- `sip_expires`: a 200 without Expires makes the next REGISTER carry Expires 0
  (`CSipStack.cpp:1813`).
- `rtp_reversal`: after a wrap inside the queue, a late packet from before the wrap
  with a number smaller than the first queued one is put behind the packets from
  after the wrap (`RtpFrameOrganizer.cpp:357`), and the frame comes out in the wrong
  order, taken for one with a loss.

Five more statements stand in the modules without a run; TLC refutes each when it is
added to the cfg named.

- `AcceptedIsReleased` (`SipStackTask.cfg`): a producer past the unlocked test of
  `m_init_b` puts its mission into a list `Fini` has already emptied; it was
  accepted and nobody releases it (`sipstack_task.cpp:927`).
- `LevelComesDown` (`SipStackTask.cfg`): the overload level never comes down
  (`sipstack_msg_ctrl.cpp:276`).
- `DialogIsForgotten` (`Dialogs.cfg`): the dialog of a call stays in the table
  after its BYE was sent (`sipstack_msg_wrap.cpp:1098`).
- `FramesAreComplete` (`RtpFrameOrganizer.cfg`): a frame handed out without a loss
  has all of its packets, as the comment at `checkFrame` has it
  (`RtpFrameOrganizer.cpp:418`). When a frame's last packets are late or lost, the first
  packet of the next frame makes `EndFrame` mark the packet in front of them
  (`:287`-`:296`), and the frame is handed out as complete; the loss is reported with the
  next frame. Packets missing at the head are not reported when there is no number to
  compare with: at the start of the stream, and after a full queue was thrown away (`:264`).
- `SoundIsHandedOut` (`RtpFrameOrganizer.cfg`): sound is copied to where the next
  picture bytes of the frame go, and its length counted again for every pack behind it,
  because `audio_length` is never set back (`HstPESParse.cpp:877`,
  `Ps2EsProcessor.cpp:453`). So only sound that closes its stream is handed out as it was
  sent, which `UnitsAreHandedOut` says; pictures are whole wherever the sound is.

## 5. Proofs

The safety part of every component's runs is proved, for every value of the constants
that the modules' named `ASSUME`s allow, except one property of data
(`UnitsAreHandedOut`). A proof module `XProofs` extends the module `X`. Each has
the same shape: an inductive invariant `IInv`, one lemma per action and part of it
that the action disturbs, one theorem `Spec => []IInv` (`Inductive` or `Invariant`)
by the disjuncts of `Next`, and one theorem per property, which `IInv` implies. A
refinement is proved from `IInv` too: the initial states map to initial ones, and each
action, under `IInv`, maps to a step of the abstract specification or a stutter.

| Module | Theorem | Statement |
|---|---|---|
| `SipStackTaskProofs` | `TypeCorrect` | `Spec => []TypeOK` |
| | `LockFreeReads` | `Spec => []ReadsAreSafe` |
| | `CounterCovers` | `Spec => []CounterCoversQueue` |
| | `NothingRunsAfterFini` | `Spec => []StoppedAfterFini` |
| | `MissionsHaveOneOwner` | `Spec => []OneOwner` |
| | `RequestsAreFifo`, `ResponsesAreFifo`, `QueuesAreFifo` | each pair of lists, then both, implements `MissionQueue` |
| `SyncCallProofs` | `TypeCorrect` | `Spec => []TypeOK` |
| | `CallsGetTheirAnswer` | `Spec => []OwnAnswer` |
| | `NothingUsedIsGone` | `Spec => []UsedIsLive` |
| | `WakeupsAreKept` | `Spec => []NoLostWakeup` |
| | `CallsAreAtomic` | `Spec => BlockingCalls`, refinement of `BlockingCall` |
| `AgentServerProofs` | `TypeCorrect` | `Spec => []TypeOK` |
| | `CountedAndOwned` | `Spec => []MessagesAreCounted` |
| | `NothingRunsAfterFini` | `Spec => []StoppedAfterFini` |
| | `ServerIsQueue` | `Spec => BoundedQueue`, refinement of `WorkQueue` |
| `SipTransactionsProofs` | `TypeCorrect` | `Spec => []TypeOK` |
| | `EveryRequestHasOneOutcome` | `Spec => []OneOutcome` |
| | `CopiesAreToldApart` | `Spec => []OwnCSeq` |
| | `ResendsEnd` | `Spec => []ResendsAreBounded` |
| | `OnlyThisRegistrationIsReported` | `Spec => ReportsOfThisRegistration`, an action property |
| | `RequestsEndOnce` | `Spec => RequestsAreServed`, refinement of `RequestService` |
| `DialogsProofs` | `TypeCorrect` | `Spec => []TypeOK` |
| | `NotesHaveOneOwner` | `Spec => []NoteHasOneOwner` |
| | `IdsNameTheirCalls` | `Spec => []IdNamesItsCall` |
| | `OneAnswer` | `Spec => []AnsweredOnce` |
| | `NotesAreIds` | `Spec => IdsAreServed`, refinement of `ResponseIds` |
| `StackTimersProofs` | `TypeCorrect` | `Spec => []TypeOK` |
| | `TimersFireOnce` | `Spec => []FiresOnce` |
| | `NoTimerIsLeft` | `Spec => []MapIsCleared` |
| | `TimersKeepTime` | `Spec => TimersAreServed`, refinement of `TimerService` |
| `StackLifecycleProofs` | `TypeCorrect` | `Spec => []TypeOK` |
| | `NothingDeletedIsUsed` | `Spec => []NothingIsUsedAfterDelete` |
| | `StopsEverything` | `Spec => []StopsWhatItStarted` |
| `RtpFrameOrganizerProofs` | `TypeCorrect` | `Spec => []TypeOK` |
| | `TheQueueIsKnown` | `Spec => []QueueIsKnown` |
| | `NoPacketIsRefused` | whatever packet comes next, `insert` does not lose the place of the wrap |
| | `FramesAreWhole` | `Spec => []WholeFrames` |

**Assumptions.** The `No...` constants are not members of the sets they stand beside.
Calls and requests of the peer, and callers and dispatchers, are different things.
The overload table is not empty and its lengths increase, as the keys of a map do.
The agent server's threads are finitely many (their number is a constant of
the server), because the counter is compared with how many of them are at one place.
The configured and granted Expires are positive and redirects list known
servers. The RTP queue and cache hold at least one packet and one frame (3,072 and 3 in
the code). The packets of a run are fewer than half of the numbers, the distance
beyond which the code cannot tell a late packet from an early one: the model's network
may keep a copy for as long as it likes, so what `FramesAreWhole` says is
about a stretch of a stream that is shorter and wraps at most once, from any first number.

**`SipStackTaskProofs`**, for any producers, missions and sessions and every overload
table. `IInv` adds to the types `CallInv` (a producer inside the mutex holds the
mutex its queue's field names, and the index it read is still the list not being
read), `WorkerInv` (what the thread learnt without a lock is still true when it acts:
only the thread removes from the list it reads, and producers append to the other
one), `LifeInv` (in which parts of Init and Fini the thread exists) and `CountInv` (the
counter against the list, and when a Fini may have emptied the list but not the
counter). `OneOwner` needs a second invariant on top, `OwnInv`: no mission is twice in
the five lists taken together, its fate says where it is (a list, the thread's hand, a
producer), and no two producers offer the same. The refinement maps the
abstract queue to the concatenation of both lists: the swap is a stutter, because
the list read is empty, which `WorkerInv` supplies; `Push` appends to the concatenation's
end, because by `CallInv` it appends to the list not being read.

**`SyncCallProofs`**, for any callers, dispatchers, Call-IDs and messages under one. The
map and the callers agree in both directions (`PlaceInv`), so that a caller's place,
reused by its next call, is reached under one Call-ID only. `DispatchInv`: a
dispatcher past its lookup keeps the read lock, so the call it found is not over;
that is `UsedIsLive`. `MutexInv` says who has a handler's mutex and
`HandlerInv` that a handler is empty until its mutex has been left: hence no wakeup is
lost. `TakenInv` and `ResultInv` follow what the caller takes outside the mutex, where a
second message may replace it; `OwnAnswer` speaks of both. For `CallsAreAtomic` the
call's instant is `GetMsg`: before it every message for the call is put into its
handler, after it one finds no handler, or goes into a handler nobody looks at any
more, which is dropping it. What was taken stays the answer although the thread has yet to erase its handler. The
one fact `IInv` lacks is `PostInv`: a refused call was never posted, one that
waits was.

**`AgentServerProofs`**, for any finite set of threads, any messages and limit.
`PlaceInv` supplies that receivers exclude each other by the MiniSip mutex although
they share only the read lock; so the number one has read is still the counter
(`CountInv`), and the increment loses nothing. `OwnerInv` gives each message one
place, and `DeleteInv` counts how often its header was deleted, which for a request
without a transaction is one time too many (the finding of `agent_server_header`).
`LifeInv` says what runs in which part of Init and Fini. `ServerIsQueue` maps the
queue, the threads' hands and the fates of the messages. That a message is refused only at
the limit takes `CountInv`: the counter tested covers the queue and
at most the threads that have taken a message and not counted it off, whose hands
are occupied.

**`SipTransactionsProofs`**, for any requests, servers, limit and number of CSeqs.
`NoteInv` relates notes, waiting requests and copies on the wire one to one;
`EpochInv` says that what waits was sent in this registration, and needs that
UNREGISTER drops every note. `WireInv` counts the copies of a request.
`BoundInv` is the potential argument behind `ResendsAreBounded`: a challenge either
adds one to the counter of changes or concludes a request, and a concluded request
pays for as many copies as the counter may have grown by since the last one.
`RedirectInv`: every redirect that swallowed an answer has brought a server not used
before. `RequestsEndOnce` reads the abstract outcome, copies and registration off the
histories and the counters off the code's members: an answer matched by CSeq is of a
request that waits, in this registration, because by `NoteInv` exactly those are
noted.

**`DialogsProofs`**, for any calls, requests of the peer and number of notes. `IInv`
adds `StackInv` (between its two critical sections the stack thread holds the
response ID of the call or request it acts for), `GivenInv` (the note under a
response ID given out is of the call or request it was given out for), `DialogInv` (a
call that may be ended has its own tags), `OnceInv` (a call or request is given at
most one ID: an INVITE that has one is no longer noted, a request that has one, or an
answer, was seen) and `AnswerInv` (a request whose note is in the map or in the stack
thread's hand has not been answered). `AnsweredOnce` needs them all: an answer is
sent for the note in hand, which is no longer in the map, and no second note with an
ID can be of the same request. `NotesAreIds` reads the state of an ID off the map: none
before a key was given out, live or kept while its note is there, spent afterwards. The
keys only grow, so a spent ID is not live again; the timer's scan is one `Expire`
of all it releases. It adds `AckedInv`, that only a call with an ID is acknowledged.

**`StackTimersProofs`**, for any number of timers and length of the queue. A timer can
fire twice only if it is registered twice or is not marked. `QueueInv` says that a
timer's REGISTER is before every other event of it, so there is one and it is not
overtaken by the CANCEL; `LibInv` and `HoldInv` that the events about to be queued are of
timers for which this holds; `FireInv` and `TurnInv` that a timer registered or under way has
not fired. `ClearInv`: until Fini nothing tells the event thread to end, so no event
is thrown away. `TimersKeepTime` adds `ServiceInv`: what the event thread has found
elapsed is, until the handler is called, and neither thread is in a call when `Fini`
has returned.

**`StackLifecycleProofs`**, for any number of starts, failed and successful ones in any
order, with `ConnMgr` and `NVSTimer` in it. Its invariants say for the
objects of every start which of them exist at each step of `SIP_SDK_Init` and `SIP_SDK_UnInit`,
in the code's order: the sets `AfterClose`, `AfterRemove`, ... are the
steps from one on. What a failed start left goes on for ever, so the
invariants must hold of its event thread, its select thread and its triggers too:
the event thread is idle because the library calls only into the stack that is up, the
socket keeps the port until it is closed (`ConnInv`), and the triggers leave the
list when the next start initialises the timer (`TimerInv`).
`CancelledTriggersAreQuiet` and the conjunct `RemovedIsQuiet` are the promises of the two
modules to their callers.

**`RtpFrameOrganizerProofs`**, for every range of numbers, first number, length of queue
and cache. `QueueInv` (the numbers of the queue fall at the recorded place of the wrap and
nowhere else; the count of frames is that of the markers) is inductive whatever the
network does: each function of `CRtpFrameOrganizer` has a lemma that keeps it for packets
of any set. It also shows that the refusal at `RtpFrameOrganizer.cpp:348` is unreachable.
`WholeFrames` needs the sender: `StreamInv` says that all that is queued or under way
is of one stream, a packet's number and time stamp being a function of its place in
it. Among fewer than half of the numbers the number determines the
place, so packets that are adjacent by number are adjacent in the stream; and one
without a marker is followed in the stream by another of its frame, so a frame with
markers on its last packet only and no gap in its numbers is all of one frame. The
exception, packet 0 lost at the wrap, is in the property. That a frame also starts where
the one before it stopped takes two more facts. `NumberOut`, a part of `StreamInv`, says
that `m_unLastDequeueSeq` is the number of the packet handed out last (`LastOut`). `One`
and `Two` say how the number moves along with the frames that one call hands out (at most
two, by `EndFrame` and at the end of `insert`), and `NextPlace` turns the next number into
the next place. `WholeFrames` does not say that a frame has all of its packets, which is
`FramesAreComplete` of section 4 and false: lost last packets show on the next frame, and
lost first ones do not show where `LastOut` is 0. That a set of numbers has a least
element, which the lemmas about searches use, is taken from `WellFoundedInduction`.

**Only model-checked.** Liveness, because fairness and ENABLED are out of the prover's
reach: `AcceptedIsServed`, `CallReturns`, `QueuedIsHandled`, `NotesAreReleased`,
`ElapsedFires`, `CallsReturn`, `DatagramsAreRead`. And `UnitsAreHandedOut`: what the
conversions copy out of a frame of any length is an induction over the sequence of
its bytes. The theorems about recursive and folded definitions that this would
take are out of reach as well.

## 6. Not modelled

- Failed allocation, and failures of the operating system's primitives other
  than those of starting and stopping; the failures of a start after the timer runs
  (`sipstack_agent_server_impl.cpp:76`).
- The real sizes (65,536 sequence numbers, 1,024 packets per frame, buffers of
  1.5 MB): the bounds are constants or left out.
- The application's callback and the calls it may make, and a second application
  thread inside the SDK during `SIP_SDK_UnInit`: nothing in the repository says what
  is allowed.
- Answers without a request noted, provisional answers and header details.
- In `CConnMgr` the TCP client, server and connection classes, which are never
  instantiated, and the deletion of removed nodes with several sockets
  (`CConnMgr.cpp:1921`); in `CNVSTimer` the one-shot triggers the program does not have.
- In the RTP library the channels (`PacketProcessMgr.cpp`, `eSDK_RtpPacket.cpp`), the
  recovery of a program stream after a loss (`Ps2EsProcessor.cpp:462-502`), and
  empty PES packets. `sendEsRtpPacket`, `cutSliceToRtp`, `sendPsRtpPacket` and the media
  pool are dead code: nothing calls them, or initialises them.
- Header text: building and reading SIP headers (`MiniSip.cpp`, the wrappers' `Build...`
  functions), digest and MD5. They are computations around an external library
  without control of interest.

About half of the repository's lines are vendored libraries (tinyxml, jsoncpp,
log4cpp), generated projects and a demonstration program; they hold nothing of the
SDK's own logic.

## 7. Plan

Order of what is to come, by importance:

1. The RTP library's channels: `GetProcessor` hands out a processor that `CloseChannel`
   may delete (`PacketProcessMgr.cpp:45`), and `OpenChannel` reads the map after it has
   released its mutex (`:54`).
2. The application's callback as a caller, over `AgentServer` and `SyncCall`
   (`sipstack_agent_server_impl.cpp:284`), and the composition of `Dialogs` with
   `SipTransactions`. `BlockingCall`, `WorkQueue`, `RequestService` and `ResponseIds`
   are small enough to be composed in place of the modules that implement them.
3. An abstract specification for `StackLifecycle` (a session that is open or closed, in
   which datagrams are read), the one composition without one.
