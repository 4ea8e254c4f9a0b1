------------------------------ MODULE Dialogs ------------------------------
(***************************************************************************)
(* The calls CSipStack sets up and the requests it takes from the peer.    *)
(* Whatever the application has to come back to, the 200 of its INVITE or  *)
(* a request of the peer, is kept as a note in m_msgMap, and the           *)
(* application is given the note's key as a response ID (SIP_SDK_INVITE's  *)
(* iResponseID).  ACK, BYE and the answers come back with that ID.  The    *)
(* timer's thread releases notes nobody came back for (CheckReqMsg).       *)
(*                                                                         *)
(* The stack thread runs the library's indications and the application's   *)
(* missions one at a time (SipStackTask), so only its two critical         *)
(* sections, getting a note and using it, are steps of their own: the      *)
(* timer comes between them.  The 40 seconds a note may stay are the       *)
(* timer's choice of the newest note it finds too old.                     *)
(***************************************************************************)
EXTENDS Naturals, FiniteSets

CONSTANTS Call,     \* INVITEs of the application, named by their dialog IDs
          Req,      \* requests of the peer
          NoCall, NoOne, NoNote,
          MaxKey    \* bound: notes inserted

ASSUME DialogsAssumption ==
  /\ NoCall \notin Call
  /\ NoOne \notin Call \cup Req
  /\ Call \cap Req = {}
  /\ NoNote \notin [of : Call \cup Req, state : {"INIT", "OCCUPIED"}]
  /\ MaxKey \in Nat

Key == 1..MaxKey
PeerState == {"none", "invited", "up", "ended"}
Use == {"ACK", "BYE", "ANSWER"}

VARIABLES
  m_mapDialogIdToInfo, \* dialog ID to bRecvOK and the call its tags belong to
  noted,               \* the INVITEs noted in m_mapCSeqToSipMsgInfo
  m_msgMap,            \* key to the note: what it is of, and its state
  m_mapKey,            \* the next key
  stack,               \* the stack thread: what it does with which note
  released,            \* history: how often each note was released
  given,               \* history: the response ID given out for whom
  answers,             \* history: final answers sent to each request
  seen,                \* the requests of the peer that were handled
  peer,                \* what the peer knows of each call
  wire                 \* history: ACKs and BYEs sent

vars == <<m_mapDialogIdToInfo, noted, m_msgMap, m_mapKey, stack, released,
          given, answers, seen, peer, wire>>

NoInfo == [bRecvOK |-> FALSE, tags |-> NoOne]
Info(ok, c) == [bRecvOK |-> ok, tags |-> c]
Idle == [use |-> "idle", key |-> 0, of |-> NoOne]
Note(x, s) == [of |-> x, state |-> s]
Entries == {k \in Key : m_msgMap[k] # NoNote}

\* The type of every variable; a dialog's tags are those of its own call.
TypeOK ==
  /\ m_mapDialogIdToInfo \in
       [Call -> [bRecvOK : BOOLEAN, tags : Call \cup {NoCall, NoOne}]]
  /\ \A c \in Call : m_mapDialogIdToInfo[c].tags \in {c, NoCall, NoOne}
  /\ noted \subseteq Call
  /\ m_msgMap \in [Key -> [of : Call \cup Req, state : {"INIT", "OCCUPIED"}] \cup {NoNote}]
  /\ m_mapKey \in 1..(MaxKey + 1)
  /\ stack \in [use : Use \cup {"idle"}, key : 0..MaxKey, of : Call \cup Req \cup {NoOne}]
  /\ released \in [Key -> Nat]
  /\ given \in [Call \cup Req -> 0..MaxKey]
  /\ answers \in [Req -> Nat]
  /\ seen \subseteq Req
  /\ peer \in [Call -> PeerState]
  /\ wire \subseteq [use : Use, key : Key, call : Call]

Init ==
  /\ m_mapDialogIdToInfo = [c \in Call |-> NoInfo]
  /\ noted = {}
  /\ m_msgMap = [k \in Key |-> NoNote]
  /\ m_mapKey = 1
  /\ stack = Idle
  /\ released = [k \in Key |-> 0]
  /\ given = [x \in Call \cup Req |-> 0]
  /\ answers = [r \in Req |-> 0]
  /\ seen = {}
  /\ peer = [c \in Call |-> "none"]
  /\ wire = {}

HasDialog(c) == m_mapDialogIdToInfo[c].tags # NoOne

-----------------------------------------------------------------------------
(* Notes.                                                                  *)

\* Inserts the note of x under the next key ...
InsertReqMsg(x) ==
  /\ m_mapKey \in Key
  /\ m_msgMap' = [m_msgMap EXCEPT ![m_mapKey] = Note(x, "INIT")]
  /\ m_mapKey' = m_mapKey + 1

\* Mutant: returns the next key.
InsertedMutant == IF m_mapKey < MaxKey THEN m_mapKey + 1 ELSE 0

\* ... and returns m_mapKey - 1, after the increment ...
Inserted == m_mapKey

\* ... for the header that is reported, which may not reach the application.
Report(x) ==
  \E reported \in BOOLEAN :
    given' = IF reported THEN [given EXCEPT ![x] = Inserted] ELSE given

\* The caller takes the note out, or marks it as one that must stay.
GetReqMsg(k, bGetAndDelete) ==
  m_msgMap' = [m_msgMap EXCEPT ![k] =
                 IF bGetAndDelete THEN NoNote ELSE Note(@.of, "OCCUPIED")]

\* Mutant: the scan stops at the first occupied note.
TooOldStopMutant(k) ==
  {j \in Entries : j <= k /\ \A i \in Entries : i <= j => m_msgMap[i].state # "OCCUPIED"}

\* Mutant: occupied notes are released as well.
TooOldMutant(k) == {j \in Entries : j <= k}

\* Notes are inserted in the order of their times, so those too old are the
\* ones up to some key; an occupied note stays however old it is.
TooOld(k) == {j \in Entries : j <= k /\ m_msgMap[j].state # "OCCUPIED"}

\* The timer's trigger: every note too old is taken out and released.
CheckReqMsg(k) ==
  /\ TooOld(k) # {}
  /\ m_msgMap' = [j \in Key |-> IF j \in TooOld(k) THEN NoNote ELSE m_msgMap[j]]
  /\ released' = [j \in Key |-> released[j] + (IF j \in TooOld(k) THEN 1 ELSE 0)]
  /\ UNCHANGED <<m_mapDialogIdToInfo, noted, m_mapKey, stack, given, answers, seen, peer, wire>>

-----------------------------------------------------------------------------
(* INVITE, ACK and BYE.                                                    *)

\* SIP_SDK_INVITE's mission: the request is noted and sent, and
\* PostSendSuccess enters the dialog without tags.
SendInvite(c) ==
  /\ stack = Idle /\ peer[c] = "none"
  /\ noted' = noted \cup {c}
  /\ m_mapDialogIdToInfo' = [m_mapDialogIdToInfo EXCEPT ![c] = Info(FALSE, NoCall)]
  /\ peer' = [peer EXCEPT ![c] = "invited"]
  /\ UNCHANGED <<m_msgMap, m_mapKey, stack, released, given, answers, seen, wire>>

\* UNREGISTER: the requests noted are forgotten, dialogs and notes are not.
ClearAllMsgInfo ==
  /\ stack = Idle /\ noted # {}
  /\ noted' = {}
  /\ UNCHANGED <<m_mapDialogIdToInfo, m_msgMap, m_mapKey, stack, released,
                 given, answers, seen, peer, wire>>

\* The peer takes the call (its 200 may be on its way for a while).
Accept(c) ==
  /\ peer[c] = "invited"
  /\ peer' = [peer EXCEPT ![c] = "up"]
  /\ UNCHANGED <<m_mapDialogIdToInfo, noted, m_msgMap, m_mapKey, stack,
                 released, given, answers, seen, wire>>

\* 200 with a body: nothing but the note of the answer is kept.
InviteSucceeded(c) ==
  /\ stack = Idle /\ c \in noted /\ peer[c] \in {"up", "ended"}
  /\ noted' = noted \ {c}
  /\ InsertReqMsg(c) /\ Report(c)
  /\ UNCHANGED <<m_mapDialogIdToInfo, stack, released, answers, seen, peer, wire>>

\* Any other final answer, and a 200 without a body, ends the matter for the
\* stack; the dialog stays entered.
InviteFailed(c) ==
  /\ stack = Idle /\ c \in noted /\ peer[c] # "none"
  /\ noted' = noted \ {c}
  /\ peer' = [peer EXCEPT ![c] = IF @ = "invited" THEN "ended" ELSE @]
  /\ UNCHANGED <<m_mapDialogIdToInfo, m_msgMap, m_mapKey, stack, released,
                 given, answers, seen, wire>>

\* The first half of every mission that comes back with a response ID the
\* application was given: SIP_SDK_ACK, SIP_SDK_BYE and the answers.  An ID
\* whose note is gone is refused, which nobody is told.
Get(x) ==
  /\ stack = Idle /\ given[x] \in Entries
  /\ \E use \in IF x \in Call THEN {"ACK", "BYE"} ELSE {"ANSWER"} :
       /\ GetReqMsg(given[x], use # "ACK")
       /\ stack' = [use |-> use, key |-> given[x], of |-> m_msgMap[given[x]].of]
  /\ UNCHANGED <<m_mapDialogIdToInfo, noted, m_mapKey, released, given,
                 answers, seen, peer, wire>>

Release(k) == released' = [released EXCEPT ![k] = @ + 1]
Send(use, c) == wire' = wire \cup {[use |-> use, key |-> stack.key, call |-> c]}

\* SendInviteAck: the ACK's wrapper enters the tags of the 200 in the dialog
\* the note names, unless one of them is missing; then the ACK is sent.
SendInviteAck ==
  /\ stack.use = "ACK"
  /\ \/ /\ HasDialog(stack.of)
        /\ \E tagged \in BOOLEAN :
             m_mapDialogIdToInfo' =
               IF tagged
               THEN [m_mapDialogIdToInfo EXCEPT ![stack.of] = Info(TRUE, stack.of)]
               ELSE m_mapDialogIdToInfo
        /\ \E sent \in BOOLEAN :
             IF sent THEN Send("ACK", stack.of) ELSE UNCHANGED wire
     \/ ~HasDialog(stack.of) /\ UNCHANGED <<m_mapDialogIdToInfo, wire>>
  /\ stack' = Idle
  /\ UNCHANGED <<noted, m_msgMap, m_mapKey, released, given, answers, seen, peer>>

\* Nothing ever enters a dialog here: CSipStackMsgWrapInviteResp does so for
\* a dialog ID other than 0, and SendInviteResp passes 0.
m_mapDialogInfoToId == {}
GetDialogIdByInfo(info) == {d \in Call : <<info, d>> \in m_mapDialogInfoToId}

\* A dialog that is found by its tags is erased from both maps.
Erase(info) ==
  [c \in Call |-> IF c \in GetDialogIdByInfo(info) THEN NoInfo ELSE m_mapDialogIdToInfo[c]]

\* Mutant: a dialog without the peer's tags is ended like any other.
MayByeMutant(c) == HasDialog(c)

\* A dialog whose 200 was not acknowledged has no tags for a BYE.
MayBye(c) == m_mapDialogIdToInfo[c].bRecvOK

\* SendInviteBye.  A CANCEL instead of the BYE needs the INVITE's note under
\* its CSeq, which the final answer has removed.  The note is released in
\* any case.
SendInviteBye ==
  /\ stack.use = "BYE"
  /\ \/ /\ MayBye(stack.of)
        /\ Send("BYE", m_mapDialogIdToInfo[stack.of].tags)
        /\ m_mapDialogIdToInfo' = Erase(m_mapDialogIdToInfo[stack.of])
        /\ peer' = [peer EXCEPT ![stack.of] = "ended"]
     \/ UNCHANGED <<m_mapDialogIdToInfo, wire, peer>>
  /\ Release(stack.key)
  /\ stack' = Idle
  /\ UNCHANGED <<noted, m_msgMap, m_mapKey, given, answers, seen>>

-----------------------------------------------------------------------------
(* Requests of the peer: HandleSipTxnHiSfReqInd.                           *)

Answer(r) == answers' = [answers EXCEPT ![r] = @ + 1]

\* A request of the peer is handled once; the transaction layer absorbs its
\* repetitions.
NewReq(r) ==
  /\ stack = Idle /\ r \notin seen
  /\ seen' = seen \cup {r}
  /\ UNCHANGED <<m_mapDialogIdToInfo, noted, stack, released, peer, wire>>

\* Three ways to go on: the request is answered there and then, ...
AnswerAtOnce(r) ==
  /\ NewReq(r)
  /\ Answer(r)
  /\ UNCHANGED <<m_msgMap, m_mapKey, given>>

\* ... or neither answered nor kept, because something in it is missing, ...
Refuse(r) ==
  /\ NewReq(r)
  /\ UNCHANGED <<m_msgMap, m_mapKey, given, answers>>

\* ... or kept for the application to answer.
Keep(r) ==
  /\ NewReq(r)
  /\ InsertReqMsg(r) /\ Report(r)
  /\ UNCHANGED answers

HandleReqOption(r) == Keep(r)

\* By the type in the body: what is not of a known type is answered by 200.
HandleReqNotify(r) == AnswerAtOnce(r) \/ Keep(r) \/ Refuse(r)

\* IsRespDirect has no value for which a MESSAGE would be kept.
HandleReqMessage(r) == AnswerAtOnce(r) \/ Refuse(r)

\* The tags of the peer's INVITE name no dialog, which is an error.
HandleReqInvite(r) == Refuse(r)

\* 503 under overload, 401 to a REGISTER without credentials, 200 to a CANCEL
\* and to the other methods; nothing to a method the library does not know.
HandleReqOther(r) == AnswerAtOnce(r) \/ Refuse(r)

\* Mutant: the application is told, as the code after the returns would.
HandleReqRegisterMutant(r) ==
  /\ NewReq(r)
  /\ InsertReqMsg(r) /\ Report(r)
  /\ Answer(r)

\* A REGISTER with credentials is noted, and then answered at once (unless
\* its source has no address) without being reported: the note waits for the
\* timer.
HandleReqRegister(r) ==
  /\ NewReq(r)
  /\ InsertReqMsg(r)
  /\ Answer(r) \/ UNCHANGED answers
  /\ UNCHANGED given

\* The peer ends a call; its BYE is reported and answered whether or not its
\* tags name a dialog.
HandleReqBye(c) ==
  /\ stack = Idle /\ peer[c] = "up"
  /\ peer' = [peer EXCEPT ![c] = "ended"]
  /\ m_mapDialogIdToInfo' = Erase(m_mapDialogIdToInfo[c])
  /\ UNCHANGED <<noted, m_msgMap, m_mapKey, stack, released, given, answers,
                 seen, wire>>

\* SendRegisterResp, SendKeepaliveResp, SendOptionResp, SendResp and AnsMsg:
\* the answer goes out, or fails to, and the note is released.
SendRspMsg ==
  /\ stack.use = "ANSWER"
  /\ Answer(stack.of) \/ UNCHANGED answers
  /\ Release(stack.key)
  /\ stack' = Idle
  /\ UNCHANGED <<m_mapDialogIdToInfo, noted, m_msgMap, m_mapKey, given, seen,
                 peer, wire>>

-----------------------------------------------------------------------------
OfCall(c) == \/ SendInvite(c) \/ Accept(c) \/ InviteSucceeded(c)
             \/ InviteFailed(c) \/ HandleReqBye(c)
OfReq(r) == \/ HandleReqOption(r) \/ HandleReqNotify(r) \/ HandleReqMessage(r)
            \/ HandleReqInvite(r) \/ HandleReqRegister(r) \/ HandleReqOther(r)
UseNote == SendInviteAck \/ SendInviteBye \/ SendRspMsg

Next ==
  \/ \E c \in Call : OfCall(c)
  \/ \E r \in Req : OfReq(r)
  \/ \E x \in Call \cup Req : Get(x)
  \/ UseNote
  \/ ClearAllMsgInfo
  \/ \E k \in Key : CheckReqMsg(k)

Spec == Init /\ [][Next]_vars

\* The stack thread goes on with a mission, and the timer fires for ever: it
\* is registered for good and a note gets older.
Fairness == WF_vars(UseNote) /\ WF_vars(\E k \in Key : CheckReqMsg(k))

FairSpec == Spec /\ Fairness

-----------------------------------------------------------------------------
(* Properties.                                                             *)

InHand(k) == stack.key = k /\ stack.use \in {"BYE", "ANSWER"}
Released(k) == released[k] = 1

\* A note has one owner: the map, the stack thread that took it out, or
\* nobody once it is released, so that the timer and a late ACK, BYE or
\* answer never use or release it twice.  A note used for an ACK stays in the
\* map, and there out of the timer's reach.
NoteHasOneOwner ==
  /\ \A k \in Key :
       IF k < m_mapKey
       THEN \/ k \in Entries /\ ~InHand(k) /\ released[k] = 0
            \/ k \notin Entries /\ InHand(k) /\ released[k] = 0
            \/ k \notin Entries /\ ~InHand(k) /\ released[k] = 1
       ELSE k \notin Entries /\ ~InHand(k) /\ released[k] = 0
  /\ stack.use = "ACK" =>
       stack.key \in Entries /\ m_msgMap[stack.key].state = "OCCUPIED"

\* What is sent under a response ID is about the call or the request the ID
\* was given out for, however many notes came and went between.
IdNamesItsCall ==
  /\ \A w \in wire : given[w.call] = w.key
  /\ stack # Idle => given[stack.of] = stack.key

\* A request of the peer gets one final answer at most, although the
\* application may answer it as often as it likes, and at any time.
AnsweredOnce == \A r \in Req : answers[r] <= 1

\* What the application sees of the note its response ID stands for.
IdState(x) ==
  CASE given[x] = 0 -> "none"
    [] given[x] \in Entries /\ m_msgMap[given[x]].state = "OCCUPIED" -> "kept"
    [] given[x] \in Entries /\ m_msgMap[given[x]].state # "OCCUPIED" -> "live"
    [] OTHER -> "spent"

\* The notes, their keys and the timer implement response IDs: the application
\* sees an ID live, kept by an ACK, and spent by one BYE, one answer or the
\* timer for good; no BYE goes out before the call's ACK; and a request of the
\* peer that is answered by the stack is never given an ID as well.
Ids == INSTANCE ResponseIds
         WITH id <- [x \in Call \cup Req |-> IdState(x)],
              using <- [use |-> stack.use, of |-> stack.of],
              acked <- {c \in Call : m_mapDialogIdToInfo[c].bRecvOK},
              sent <- {<<w.use, w.call>> : w \in wire}

IdsAreServed == Ids!Spec

\* A note nobody comes back for does not stay for ever.
NotesAreReleased ==
  \A k \in Key : m_msgMap[k] # NoNote
    ~> m_msgMap[k] = NoNote \/ m_msgMap[k].state = "OCCUPIED"

\* A call that was ended by a BYE is no longer entered (the comment in
\* CSipStackMsgWrapBye::PostSendSuccess, sipstack_msg_wrap.cpp:1098).
DialogIsForgotten == \A w \in wire : w.use = "BYE" => ~HasDialog(w.call)
=============================================================================
