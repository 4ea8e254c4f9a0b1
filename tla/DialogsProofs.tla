---------------------------- MODULE DialogsProofs ----------------------------
(***************************************************************************)
(* Proofs about Dialogs, for every set of calls, every set of requests of  *)
(* the peer and every number of notes.                                     *)
(***************************************************************************)
EXTENDS Dialogs, TLAPS

\* A dialog that has the peer's tags has those of its own call.
DialogInv ==
  \A c \in Call : m_mapDialogIdToInfo[c].bRecvOK => m_mapDialogIdToInfo[c].tags = c

\* Between its two critical sections the stack thread holds the response ID
\* of the call or request it acts for, and answers requests only.
StackInv ==
  IF stack.use = "idle"
  THEN stack = Idle
  ELSE /\ stack.key \in 1..(m_mapKey - 1)
       /\ stack.of \in Call \cup Req
       /\ given[stack.of] = stack.key
       /\ stack.use = "ANSWER" <=> stack.of \in Req

\* Response IDs are keys used before, and a note still in the map is the one
\* its ID was given out for.
GivenInv ==
  \A x \in Call \cup Req :
    /\ given[x] < m_mapKey
    /\ given[x] \in Entries => m_msgMap[given[x]].of = x

\* A call or a request is given an ID once: the INVITE is no longer noted
\* then, and the request has been seen.
OnceInv ==
  /\ \A c \in Call : /\ given[c] # 0 => c \notin noted
                     /\ given[c] # 0 \/ c \in noted => peer[c] # "none"
  /\ \A r \in Req : given[r] # 0 \/ answers[r] # 0 => r \in seen

\* A request whose note waits for an answer, or is being answered, has none.
AnswerInv ==
  /\ AnsweredOnce
  /\ \A r \in Req : given[r] \in Entries \/ stack.of = r => answers[r] = 0

WireInv == \A w \in wire : given[w.call] = w.key

NoteType == [of : Call \cup Req, state : {"INIT", "OCCUPIED"}]
noteVars == <<m_msgMap, m_mapKey, stack, released, given>>

\* The types of the variables that notes are about, and of the others.
NoteTypeOK ==
  /\ m_msgMap \in [Key -> NoteType \cup {NoNote}]
  /\ m_mapKey \in 1..(MaxKey + 1)
  /\ stack \in [use : Use \cup {"idle"}, key : 0..MaxKey, of : Call \cup Req \cup {NoOne}]
  /\ released \in [Key -> Nat]
  /\ given \in [Call \cup Req -> 0..MaxKey]

DialogTypeOK ==
  /\ m_mapDialogIdToInfo \in
       [Call -> [bRecvOK : BOOLEAN, tags : Call \cup {NoCall, NoOne}]]
  /\ \A c \in Call : m_mapDialogIdToInfo[c].tags \in {c, NoCall, NoOne}

PeerTypeOK ==
  /\ noted \subseteq Call
  /\ answers \in [Req -> Nat]
  /\ seen \subseteq Req
  /\ peer \in [Call -> PeerState]
  /\ wire \subseteq [use : Use, key : Key, call : Call]

\* The type invariant in three parts, one per group of variables.
LEMMA TypeParts == TypeOK <=> NoteTypeOK /\ DialogTypeOK /\ PeerTypeOK
BY Zenon DEF TypeOK, NoteTypeOK, DialogTypeOK, PeerTypeOK, NoteType

\* The part of the invariant that is about notes.
NoteInv == NoteTypeOK /\ NoteHasOneOwner /\ StackInv /\ GivenInv

\* The inductive invariant.
IInv == /\ NoteInv
        /\ DialogTypeOK /\ DialogInv
        /\ PeerTypeOK /\ OnceInv /\ AnswerInv /\ WireInv

-----------------------------------------------------------------------------
(* Notes.                                                                  *)

\* A step that leaves the notes alone leaves what is known of them.
LEMMA NotesStay ==
  ASSUME NoteInv, UNCHANGED noteVars
  PROVE  NoteInv' /\ Entries' = Entries
<1>1. /\ m_msgMap' = m_msgMap /\ m_mapKey' = m_mapKey /\ stack' = stack
      /\ released' = released /\ given' = given
  BY DEF noteVars
<1>2. Entries' = Entries /\ NoteTypeOK'
  BY <1>1 DEF Entries, NoteInv, NoteTypeOK
<1>3. NoteHasOneOwner' /\ StackInv' /\ GivenInv'
  BY <1>1, <1>2 DEF NoteInv, NoteHasOneOwner, StackInv, GivenInv, InHand
<1> QED
  BY <1>2, <1>3 DEF NoteInv

\* Inserting a note: its key is new, so that it is nobody's ID yet.
LEMMA NoteInserted ==
  ASSUME NoteInv, NEW x \in Call \cup Req, stack = Idle, given[x] = 0,
         InsertReqMsg(x), Report(x) \/ UNCHANGED given, UNCHANGED <<stack, released>>
  PROVE  /\ NoteInv'
         /\ given' \in {given, [given EXCEPT ![x] = m_mapKey]}
         /\ Entries' = Entries \cup {m_mapKey}
         /\ m_mapKey \in Key
<1>1. /\ m_mapKey \in Key /\ m_mapKey' = m_mapKey + 1
      /\ m_msgMap' = [m_msgMap EXCEPT ![m_mapKey] = Note(x, "INIT")]
      /\ stack' = stack /\ released' = released
  BY DEF InsertReqMsg
<1>2. given' \in {given, [given EXCEPT ![x] = m_mapKey]}
  BY DEF Report, Inserted
<1>3. NoteTypeOK
  BY DEF NoteInv
<1>4. Note(x, "INIT") \in NoteType /\ Note(x, "INIT") # NoNote /\ Note(x, "INIT").of = x
  BY DialogsAssumption DEF Note, NoteType
<1>5. Entries' = Entries \cup {m_mapKey}
  BY <1>1, <1>3, <1>4 DEF Entries, NoteTypeOK
<1>6. NoteTypeOK'
  BY <1>1, <1>2, <1>3, <1>4, DialogsAssumption DEF NoteTypeOK, Key
<1>7. NoteHasOneOwner'
  <2>1. \A k \in Key : ~InHand(k)' /\ ~InHand(k) /\ stack'.use # "ACK"
    BY <1>1 DEF InHand, Idle
  <2> QED
    BY <1>1, <1>3, <1>5, <2>1 DEF NoteInv, NoteHasOneOwner, NoteTypeOK, Key
<1>8. StackInv'
  BY <1>1 DEF StackInv, Idle
<1>9. GivenInv'
  <2> SUFFICES ASSUME NEW y \in Call \cup Req
               PROVE  /\ given'[y] < m_mapKey'
                      /\ given'[y] \in Entries' => m_msgMap'[given'[y]].of = y
    BY DEF GivenInv
  <2>1. given[y] < m_mapKey /\ (given[y] \in Entries => m_msgMap[given[y]].of = y)
    BY DEF NoteInv, GivenInv
  <2>2. \/ given'[y] = given[y]
        \/ y = x /\ given'[y] = m_mapKey
    BY <1>2, <1>3 DEF NoteTypeOK
  <2>3. CASE given'[y] = given[y]
    <3>1. given[y] \in Nat /\ m_mapKey \in Nat
      BY <1>1, <1>3, DialogsAssumption DEF NoteTypeOK, Key
    <3>2. given[y] # m_mapKey /\ given'[y] < m_mapKey'
      BY <1>1, <2>1, <2>3, <3>1
    <3>3. given[y] \in Key => m_msgMap'[given[y]] = m_msgMap[given[y]]
      BY <1>1, <1>3, <3>2 DEF NoteTypeOK
    <3> QED
      BY <1>5, <2>1, <2>3, <3>2, <3>3 DEF Entries
  <2>4. CASE y = x /\ given'[y] = m_mapKey
    <3>1. m_msgMap'[m_mapKey] = Note(x, "INIT")
      BY <1>1, <1>3 DEF NoteTypeOK
    <3> QED
      BY <1>1, <1>4, <2>4, <3>1 DEF Key
  <2> QED
    BY <2>2, <2>3, <2>4
<1> QED
  BY <1>1, <1>2, <1>5, <1>6, <1>7, <1>8, <1>9 DEF NoteInv

-----------------------------------------------------------------------------
(* The calls.                                                              *)

\* The initial states satisfy the invariant.
LEMMA InitIInv == Init => IInv
<1> SUFFICES ASSUME Init PROVE IInv
  OBVIOUS
<1>1. NoteTypeOK
  BY DialogsAssumption DEF Init, NoteTypeOK, Key, Idle, NoteType
<1>2. NoteHasOneOwner /\ StackInv /\ GivenInv
  BY DialogsAssumption
     DEF Init, NoteHasOneOwner, StackInv, GivenInv, Idle, InHand, Entries, Key
<1>3. DialogTypeOK /\ DialogInv
  BY DEF Init, DialogTypeOK, DialogInv, NoInfo
<1>4. PeerTypeOK /\ OnceInv /\ AnswerInv /\ WireInv
  BY DialogsAssumption
     DEF Init, PeerTypeOK, OnceInv, AnswerInv, AnsweredOnce, WireInv, PeerState,
         Entries, Key, Idle
<1> QED
  BY <1>1, <1>2, <1>3, <1>4 DEF IInv, NoteInv

\* SendInvite keeps it.
LEMMA SendInviteIInv ==
  ASSUME IInv, NEW c \in Call, SendInvite(c)
  PROVE  IInv'
<1>1. NoteInv' /\ Entries' = Entries
  BY NotesStay DEF IInv, SendInvite, noteVars
<1>2. DialogTypeOK' /\ DialogInv'
  BY DEF IInv, SendInvite, DialogTypeOK, DialogInv, Info
<1>3. PeerTypeOK'
  BY DEF IInv, SendInvite, PeerTypeOK, PeerState
<1>4. OnceInv'
  BY DEF IInv, SendInvite, OnceInv, PeerTypeOK
<1>5. AnswerInv' /\ WireInv'
  BY <1>1 DEF IInv, SendInvite, AnswerInv, AnsweredOnce, WireInv
<1> QED
  BY <1>1, <1>2, <1>3, <1>4, <1>5 DEF IInv

\* So does ClearAllMsgInfo.
LEMMA ClearAllMsgInfoIInv ==
  ASSUME IInv, ClearAllMsgInfo
  PROVE  IInv'
<1>1. NoteInv' /\ Entries' = Entries
  BY NotesStay DEF IInv, ClearAllMsgInfo, noteVars
<1>2. DialogTypeOK' /\ DialogInv'
  BY DEF IInv, ClearAllMsgInfo, DialogTypeOK, DialogInv
<1>3. PeerTypeOK' /\ OnceInv' /\ AnswerInv' /\ WireInv'
  BY <1>1 DEF IInv, ClearAllMsgInfo, PeerTypeOK, OnceInv, AnswerInv, AnsweredOnce, WireInv
<1> QED
  BY <1>1, <1>2, <1>3 DEF IInv

\* So does Accept.
LEMMA AcceptIInv ==
  ASSUME IInv, NEW c \in Call, Accept(c)
  PROVE  IInv'
<1>1. NoteInv' /\ Entries' = Entries
  BY NotesStay DEF IInv, Accept, noteVars
<1>2. DialogTypeOK' /\ DialogInv'
  BY DEF IInv, Accept, DialogTypeOK, DialogInv
<1>3. PeerTypeOK' /\ OnceInv'
  BY DEF IInv, Accept, PeerTypeOK, OnceInv, PeerState
<1>4. AnswerInv' /\ WireInv'
  BY <1>1 DEF IInv, Accept, AnswerInv, AnsweredOnce, WireInv
<1> QED
  BY <1>1, <1>2, <1>3, <1>4 DEF IInv

\* The INVITE was noted until now, so that nothing was given out or sent for
\* the call yet.
LEMMA InviteSucceededIInv ==
  ASSUME IInv, NEW c \in Call, InviteSucceeded(c)
  PROVE  IInv'
<1>1. c \in noted /\ given[c] = 0
  BY DEF IInv, InviteSucceeded, OnceInv
<1>2. /\ NoteInv'
      /\ given' \in {given, [given EXCEPT ![c] = m_mapKey]}
      /\ Entries' = Entries \cup {m_mapKey}
      /\ m_mapKey \in Key
  BY <1>1, NoteInserted DEF IInv, InviteSucceeded
<1>3. \A y \in Call \cup Req : y # c => given'[y] = given[y]
  BY <1>2 DEF IInv, NoteInv, NoteTypeOK
<1>4. DialogTypeOK' /\ DialogInv'
  BY DEF IInv, InviteSucceeded, DialogTypeOK, DialogInv
<1>5. PeerTypeOK'
  BY DEF IInv, InviteSucceeded, PeerTypeOK
<1>6. OnceInv'
  <2>1. c \notin Req
    BY DialogsAssumption
  <2> QED
    BY <1>3, <2>1 DEF IInv, InviteSucceeded, OnceInv
<1>7. AnswerInv'
  <2>1. /\ answers' = answers /\ stack' = stack
        /\ \A r \in Req : given'[r] = given[r] /\ given[r] # m_mapKey
    <3>1. \A r \in Req : given[r] < m_mapKey /\ given[r] \in Nat /\ m_mapKey \in Nat
      BY DialogsAssumption DEF IInv, NoteInv, NoteTypeOK, GivenInv
    <3> QED
      BY <1>3, <3>1, DialogsAssumption DEF InviteSucceeded
  <2> QED
    BY <1>2, <2>1 DEF IInv, AnswerInv, AnsweredOnce
<1>8. WireInv'
  <2>1. \A w \in wire : w.call \in Call /\ w.key \in Key /\ w.call # c
    BY <1>1 DEF IInv, PeerTypeOK, WireInv, Key
  <2> QED
    BY <1>3, <2>1 DEF IInv, InviteSucceeded, WireInv
<1> QED
  BY <1>2, <1>4, <1>5, <1>6, <1>7, <1>8 DEF IInv

\* So does an INVITE that fails.
LEMMA InviteFailedIInv ==
  ASSUME IInv, NEW c \in Call, InviteFailed(c)
  PROVE  IInv'
<1>1. NoteInv' /\ Entries' = Entries
  BY NotesStay DEF IInv, InviteFailed, noteVars
<1>2. DialogTypeOK' /\ DialogInv'
  BY DEF IInv, InviteFailed, DialogTypeOK, DialogInv
<1>3. PeerTypeOK' /\ OnceInv'
  BY DEF IInv, InviteFailed, PeerTypeOK, OnceInv, PeerState
<1>4. AnswerInv' /\ WireInv'
  BY <1>1 DEF IInv, InviteFailed, AnswerInv, AnsweredOnce, WireInv
<1> QED
  BY <1>1, <1>2, <1>3, <1>4 DEF IInv

\* Nothing is ever found by its tags, so that nothing is erased.
LEMMA EraseErasesNothing ==
  ASSUME DialogTypeOK, NEW info
  PROVE  Erase(info) = m_mapDialogIdToInfo
BY DEF DialogTypeOK, Erase, GetDialogIdByInfo, m_mapDialogInfoToId

\* So does a BYE of the peer.
LEMMA HandleReqByeIInv ==
  ASSUME IInv, NEW c \in Call, HandleReqBye(c)
  PROVE  IInv'
<1>1. NoteInv' /\ Entries' = Entries
  BY NotesStay DEF IInv, HandleReqBye, noteVars
<1>2. DialogTypeOK' /\ DialogInv'
  <2>1. m_mapDialogIdToInfo' = m_mapDialogIdToInfo
    BY EraseErasesNothing DEF IInv, HandleReqBye
  <2> QED
    BY <2>1 DEF IInv, DialogTypeOK, DialogInv
<1>3. PeerTypeOK' /\ OnceInv'
  BY DEF IInv, HandleReqBye, PeerTypeOK, OnceInv, PeerState
<1>4. AnswerInv' /\ WireInv'
  BY <1>1 DEF IInv, HandleReqBye, AnswerInv, AnsweredOnce, WireInv
<1> QED
  BY <1>1, <1>2, <1>3, <1>4 DEF IInv

-----------------------------------------------------------------------------
(* The requests of the peer.                                               *)

\* A request that is not kept may get its one answer.
LEMMA NotKeptIInv ==
  ASSUME IInv, NEW r \in Req, AnswerAtOnce(r) \/ Refuse(r)
  PROVE  IInv'
<1>1. /\ NewReq(r) /\ UNCHANGED <<m_msgMap, m_mapKey, given>>
      /\ answers' \in {answers, [answers EXCEPT ![r] = @ + 1]}
  BY DEF AnswerAtOnce, Refuse, Answer
<1>2. /\ r \notin seen /\ seen' = seen \cup {r} /\ stack = Idle
      /\ UNCHANGED <<m_mapDialogIdToInfo, noted, stack, released, peer, wire>>
  BY <1>1 DEF NewReq
<1>3. NoteInv' /\ Entries' = Entries
  BY <1>1, <1>2, NotesStay DEF IInv, noteVars
<1>4. DialogTypeOK' /\ DialogInv'
  BY <1>2 DEF IInv, DialogTypeOK, DialogInv
<1>5. given[r] = 0 /\ answers[r] = 0
  BY <1>2 DEF IInv, OnceInv
<1>6. /\ answers' \in [Req -> Nat]
      /\ \A q \in Req : answers'[q] = answers[q] \/ (q = r /\ answers'[q] = 1)
  BY <1>1, <1>5 DEF IInv, PeerTypeOK
<1>7. PeerTypeOK' /\ OnceInv'
  BY <1>1, <1>2, <1>6 DEF IInv, PeerTypeOK, OnceInv
<1>8. AnswerInv'
  <2>1. given[r] \notin Entries
    BY <1>5 DEF Entries, Key
  <2>2. \A q \in Req : stack.of # q
    BY <1>2, DialogsAssumption DEF Idle
  <2> QED
    BY <1>1, <1>2, <1>3, <1>6, <2>1, <2>2 DEF IInv, AnswerInv, AnsweredOnce
<1>9. WireInv'
  BY <1>1, <1>2 DEF IInv, WireInv
<1> QED
  BY <1>3, <1>4, <1>7, <1>8, <1>9 DEF IInv

\* A request whose note is inserted gets no answer with it, or the one answer
\* there is, and then no ID.
LEMMA KeptIInv ==
  ASSUME IInv, NEW r \in Req, NewReq(r), InsertReqMsg(r),
         \/ Report(r) /\ UNCHANGED answers
         \/ UNCHANGED given /\ (Answer(r) \/ UNCHANGED answers)
  PROVE  IInv'
<1>1. /\ r \notin seen /\ seen' = seen \cup {r} /\ stack = Idle
      /\ UNCHANGED <<m_mapDialogIdToInfo, noted, stack, released, peer, wire>>
  BY DEF NewReq
<1>2. given[r] = 0 /\ answers[r] = 0
  BY <1>1 DEF IInv, OnceInv
<1>3. /\ NoteInv'
      /\ given' \in {given, [given EXCEPT ![r] = m_mapKey]}
      /\ Entries' = Entries \cup {m_mapKey}
      /\ m_mapKey \in Key
  BY <1>1, <1>2, NoteInserted DEF IInv
<1>4. \A y \in Call \cup Req : y # r => given'[y] = given[y]
  BY <1>3 DEF IInv, NoteInv, NoteTypeOK
<1>5. /\ answers' \in [Req -> Nat]
      /\ \A q \in Req : \/ answers'[q] = answers[q]
                        \/ q = r /\ answers'[q] = 1 /\ given' = given
  BY <1>2 DEF IInv, PeerTypeOK, Answer
<1>6. DialogTypeOK' /\ DialogInv'
  BY <1>1 DEF IInv, DialogTypeOK, DialogInv
<1>7. PeerTypeOK' /\ OnceInv'
  BY <1>1, <1>4, <1>5, DialogsAssumption DEF IInv, PeerTypeOK, OnceInv
<1>8. AnswerInv'
  <2>1. \A q \in Req : stack'.of # q
    BY <1>1, DialogsAssumption DEF Idle
  <2>2. \A q \in Req : given[q] # m_mapKey
    <3>1. \A q \in Req : given[q] < m_mapKey /\ given[q] \in Nat /\ m_mapKey \in Nat
      BY DialogsAssumption DEF IInv, NoteInv, NoteTypeOK, GivenInv
    <3> QED
      BY <3>1
  <2>3. ASSUME NEW q \in Req, given'[q] \in Entries'
        PROVE  answers'[q] = 0
    <3>1. CASE q = r
      <4>1. given' # given
        BY <1>2, <1>3, <2>3, <3>1 DEF Entries, Key
      <4> QED
        BY <1>2, <1>5, <3>1, <4>1
    <3>2. CASE q # r
      BY <1>3, <1>4, <1>5, <2>2, <2>3, <3>2 DEF IInv, AnswerInv
    <3> QED
      BY <3>1, <3>2
  <2>4. AnsweredOnce'
    BY <1>5 DEF IInv, AnswerInv, AnsweredOnce
  <2> QED
    BY <2>1, <2>3, <2>4 DEF AnswerInv
<1>9. WireInv'
  <2>1. \A w \in wire : w.call \in Call /\ w.call # r
    BY DialogsAssumption DEF IInv, PeerTypeOK
  <2> QED
    BY <1>1, <1>4, <2>1 DEF IInv, WireInv
<1> QED
  BY <1>3, <1>6, <1>7, <1>8, <1>9 DEF IInv

\* So does an operation on a request of the peer.
LEMMA OfReqIInv ==
  ASSUME IInv, NEW r \in Req, OfReq(r)
  PROVE  IInv'
<1>1. ASSUME Keep(r) PROVE IInv'
  BY <1>1, KeptIInv DEF Keep
<1>2. ASSUME HandleReqRegister(r) PROVE IInv'
  BY <1>2, KeptIInv DEF HandleReqRegister
<1> QED
  BY <1>1, <1>2, NotKeptIInv
     DEF OfReq, HandleReqOption, HandleReqNotify, HandleReqMessage,
         HandleReqInvite, HandleReqOther

-----------------------------------------------------------------------------
(* The stack thread and the timer.                                         *)

\* Getting a note: it stays, out of the timer's reach, or it leaves the map
\* for the thread's hand.
LEMMA GetIInv ==
  ASSUME IInv, NEW x \in Call \cup Req, Get(x)
  PROVE  IInv'
<1> DEFINE k == given[x]
<1>1. /\ stack = Idle /\ k \in Entries
      /\ UNCHANGED <<m_mapDialogIdToInfo, noted, m_mapKey, released, given,
                     answers, seen, peer, wire>>
  BY DEF Get
<1>2. PICK use \in IF x \in Call THEN {"ACK", "BYE"} ELSE {"ANSWER"} :
        /\ GetReqMsg(k, use # "ACK")
        /\ stack' = [use |-> use, key |-> k, of |-> m_msgMap[k].of]
  BY DEF Get
<1>3. /\ k \in Key /\ k < m_mapKey /\ k \in Nat /\ m_mapKey \in Nat
      /\ m_msgMap[k] \in NoteType /\ m_msgMap[k].of = x
  BY <1>1, DialogsAssumption DEF IInv, NoteInv, NoteTypeOK, GivenInv, Entries, Key
<1>4. use \in Use /\ use # "idle" /\ (use = "ANSWER" <=> x \in Req)
  BY <1>2, DialogsAssumption DEF Use
<1>5. m_msgMap' = [m_msgMap EXCEPT ![k] =
                     IF use # "ACK" THEN NoNote ELSE Note(x, "OCCUPIED")]
  BY <1>2, <1>3 DEF GetReqMsg
<1>6. Note(x, "OCCUPIED") \in NoteType /\ Note(x, "OCCUPIED") # NoNote
  BY DialogsAssumption DEF Note, NoteType
<1>7. stack' = [use |-> use, key |-> k, of |-> x]
  BY <1>2, <1>3
<1>8. Entries' = IF use = "ACK" THEN Entries ELSE Entries \ {k}
  BY <1>1, <1>3, <1>5, <1>6 DEF Entries, IInv, NoteInv, NoteTypeOK
<1>9. NoteTypeOK'
  BY <1>1, <1>3, <1>4, <1>5, <1>6, <1>7 DEF IInv, NoteInv, NoteTypeOK, Key
<1>10. NoteHasOneOwner'
  <2>1. \A j \in Key : /\ ~InHand(j)
                       /\ InHand(j)' <=> j = k /\ use # "ACK"
    BY <1>1, <1>4, <1>7 DEF InHand, Idle, Use
  <2>2. use = "ACK" => m_msgMap'[k].state = "OCCUPIED"
    BY <1>3, <1>5, <1>6 DEF IInv, NoteInv, NoteTypeOK, Note
  <2> QED
    BY <1>1, <1>3, <1>7, <1>8, <2>1, <2>2 DEF IInv, NoteInv, NoteHasOneOwner
<1>11. StackInv'
  BY <1>1, <1>3, <1>4, <1>7 DEF StackInv, Key
<1>12. GivenInv'
  <2>1. \A y \in Call \cup Req : given[y] = k /\ k \in Entries => y = x
    BY <1>3 DEF IInv, NoteInv, GivenInv
  <2>2. \A j \in Key : j # k => m_msgMap'[j] = m_msgMap[j]
    BY <1>3, <1>5 DEF IInv, NoteInv, NoteTypeOK
  <2>3. use = "ACK" => m_msgMap'[k].of = x
    BY <1>3, <1>5, <1>6 DEF IInv, NoteInv, NoteTypeOK, Note
  <2> QED
    BY <1>1, <1>8, <2>1, <2>2, <2>3 DEF IInv, NoteInv, GivenInv, Entries
<1>13. DialogTypeOK' /\ DialogInv' /\ PeerTypeOK' /\ OnceInv' /\ WireInv'
  BY <1>1 DEF IInv, DialogTypeOK, DialogInv, PeerTypeOK, OnceInv, WireInv
<1>14. AnswerInv'
  BY <1>1, <1>7, <1>8 DEF IInv, AnswerInv, AnsweredOnce
<1> QED
  BY <1>9, <1>10, <1>11, <1>12, <1>13, <1>14 DEF IInv, NoteInv

\* The thread is done with a note that has stayed in the map, or releases the
\* one it has taken out.
LEMMA NoteUsed ==
  ASSUME NoteInv, stack.use # "idle", stack' = Idle,
         UNCHANGED <<m_msgMap, m_mapKey, given>>,
         IF stack.use = "ACK" THEN UNCHANGED released ELSE Release(stack.key)
  PROVE  /\ NoteInv' /\ Entries' = Entries
         /\ stack.key \in Key /\ given[stack.of] = stack.key
         /\ stack.use # "ACK" => stack.key \notin Entries
<1>1. /\ stack.key \in 1..(m_mapKey - 1) /\ stack.of \in Call \cup Req
      /\ given[stack.of] = stack.key
      /\ stack.use \in Use /\ NoteTypeOK
  BY DEF NoteInv, StackInv, NoteTypeOK
<1>2. stack.key \in Key
  BY <1>1, DialogsAssumption DEF NoteTypeOK, Key
<1>3. Entries' = Entries
  BY DEF Entries
<1>4. NoteTypeOK'
  <2>1. released' \in [Key -> Nat]
    BY <1>1 DEF NoteTypeOK, Release
  <2>2. (stack \in [use : Use \cup {"idle"}, key : 0..MaxKey, of : Call \cup Req \cup {NoOne}])'
    BY DialogsAssumption DEF Idle
  <2> QED
    BY <1>1, <2>1, <2>2 DEF NoteTypeOK
<1>5. \A k \in Key : /\ ~InHand(k)'
                     /\ InHand(k) <=> k = stack.key /\ stack.use # "ACK"
  BY <1>1 DEF InHand, Idle, Use
<1>6. stack.use # "ACK" => stack.key \notin Entries /\ released[stack.key] = 0
  BY <1>2, <1>5 DEF NoteInv, NoteHasOneOwner
<1>7. NoteHasOneOwner'
  <2>1. stack'.use # "ACK"
    BY DEF Idle
  <2>2. \A k \in Key : released'[k] = IF k = stack.key /\ stack.use # "ACK"
                                      THEN 1 ELSE released[k]
    BY <1>1, <1>2, <1>6 DEF Release, NoteTypeOK
  <2> QED
    BY <1>3, <1>5, <1>6, <2>1, <2>2 DEF NoteInv, NoteHasOneOwner
<1>8. StackInv' /\ GivenInv'
  BY <1>3 DEF NoteInv, StackInv, GivenInv, Idle
<1> QED
  BY <1>1, <1>2, <1>3, <1>4, <1>6, <1>7, <1>8 DEF NoteInv

\* So does the ACK.
LEMMA SendInviteAckIInv ==
  ASSUME IInv, SendInviteAck
  PROVE  IInv'
<1>1. /\ stack.use = "ACK" /\ stack' = Idle
      /\ UNCHANGED <<noted, m_msgMap, m_mapKey, released, given, answers, seen, peer>>
  BY DEF SendInviteAck
<1>2. stack.of \in Call
  BY <1>1 DEF IInv, NoteInv, StackInv
<1>3. /\ NoteInv' /\ Entries' = Entries
      /\ stack.key \in Key /\ given[stack.of] = stack.key
  BY <1>1, NoteUsed DEF IInv
<1>4. m_mapDialogIdToInfo' \in
        {m_mapDialogIdToInfo,
         [m_mapDialogIdToInfo EXCEPT ![stack.of] = Info(TRUE, stack.of)]}
  BY DEF SendInviteAck
<1>5. wire' \in {wire, wire \cup {[use |-> "ACK", key |-> stack.key, call |-> stack.of]}}
  BY DEF SendInviteAck, Send
<1>6. DialogTypeOK' /\ DialogInv'
  <2> DEFINE info == Info(TRUE, stack.of)
  <2>1. /\ info \in [bRecvOK : BOOLEAN, tags : Call \cup {NoCall, NoOne}]
        /\ info.tags = stack.of
    BY <1>2 DEF Info
  <2>2. DialogTypeOK /\ DialogInv
    BY DEF IInv
  <2> HIDE DEF info
  <2>3. CASE m_mapDialogIdToInfo' = m_mapDialogIdToInfo
    BY <2>2, <2>3 DEF DialogTypeOK, DialogInv
  <2>4. CASE m_mapDialogIdToInfo' = [m_mapDialogIdToInfo EXCEPT ![stack.of] = info]
    BY <1>2, <2>1, <2>2, <2>4 DEF DialogTypeOK, DialogInv
  <2> QED
    BY <1>4, <2>3, <2>4 DEF info
<1>7. PeerTypeOK' /\ WireInv'
  <2>1. \A w \in wire' : w \in wire
                         \/ w = [use |-> "ACK", key |-> stack.key, call |-> stack.of]
    BY <1>5
  <2>2. wire' \subseteq [use : Use, key : Key, call : Call]
    BY <1>2, <1>3, <2>1 DEF IInv, PeerTypeOK, Use
  <2>3. WireInv'
    BY <1>1, <1>3, <2>1 DEF IInv, WireInv
  <2> QED
    BY <1>1, <2>2, <2>3 DEF IInv, PeerTypeOK
<1>8. OnceInv'
  BY <1>1 DEF IInv, OnceInv
<1>9. AnswerInv'
  <2>1. \A r \in Req : stack'.of # r
    BY <1>1, DialogsAssumption DEF Idle
  <2> QED
    BY <1>1, <1>3, <2>1 DEF IInv, AnswerInv, AnsweredOnce
<1> QED
  BY <1>3, <1>6, <1>7, <1>8, <1>9 DEF IInv

\* So does our BYE.
LEMMA SendInviteByeIInv ==
  ASSUME IInv, SendInviteBye
  PROVE  IInv'
<1>1. /\ stack.use = "BYE" /\ stack' = Idle /\ Release(stack.key)
      /\ UNCHANGED <<noted, m_msgMap, m_mapKey, given, answers, seen>>
  BY DEF SendInviteBye
<1>2. stack.of \in Call
  BY <1>1 DEF IInv, NoteInv, StackInv
<1>3. /\ NoteInv' /\ Entries' = Entries
      /\ stack.key \in Key /\ given[stack.of] = stack.key
  BY <1>1, NoteUsed DEF IInv
<1>4. /\ m_mapDialogIdToInfo' = m_mapDialogIdToInfo
      /\ wire' \in {wire, wire \cup {[use |-> "BYE", key |-> stack.key, call |-> stack.of]}}
      /\ peer' \in {peer, [peer EXCEPT ![stack.of] = "ended"]}
  <2>1. CASE UNCHANGED <<m_mapDialogIdToInfo, wire, peer>>
    BY <2>1
  <2>2. CASE /\ MayBye(stack.of)
             /\ Send("BYE", m_mapDialogIdToInfo[stack.of].tags)
             /\ m_mapDialogIdToInfo' = Erase(m_mapDialogIdToInfo[stack.of])
             /\ peer' = [peer EXCEPT ![stack.of] = "ended"]
    <3>1. m_mapDialogIdToInfo[stack.of].tags = stack.of
      BY <1>2, <2>2 DEF IInv, DialogInv, MayBye
    <3> QED
      BY <2>2, <3>1, EraseErasesNothing DEF IInv, Send
  <2> QED
    BY <2>1, <2>2 DEF SendInviteBye
<1>5. DialogTypeOK' /\ DialogInv'
  BY <1>4 DEF IInv, DialogTypeOK, DialogInv
<1>6. WireInv'
  BY <1>1, <1>3, <1>4 DEF IInv, WireInv
<1>7. PeerTypeOK'
  <2>1. peer' \in [Call -> PeerState]
    BY <1>2, <1>4 DEF IInv, PeerTypeOK, PeerState
  <2>2. wire' \subseteq [use : Use, key : Key, call : Call]
    BY <1>2, <1>3, <1>4 DEF IInv, PeerTypeOK, Use
  <2> QED
    BY <1>1, <2>1, <2>2 DEF IInv, PeerTypeOK
<1>8. OnceInv'
  BY <1>1, <1>2, <1>4 DEF IInv, OnceInv, PeerTypeOK
<1>9. AnswerInv'
  <2>1. \A r \in Req : stack'.of # r
    BY <1>1, DialogsAssumption DEF Idle
  <2> QED
    BY <1>1, <1>3, <2>1 DEF IInv, AnswerInv, AnsweredOnce
<1> QED
  BY <1>3, <1>5, <1>6, <1>7, <1>8, <1>9 DEF IInv

\* The note has been taken out, so that no second answer can follow.
LEMMA SendRspMsgIInv ==
  ASSUME IInv, SendRspMsg
  PROVE  IInv'
<1> DEFINE r == stack.of
<1>1. /\ stack.use = "ANSWER" /\ stack' = Idle /\ Release(stack.key)
      /\ answers' \in {answers, [answers EXCEPT ![r] = @ + 1]}
      /\ UNCHANGED <<m_mapDialogIdToInfo, noted, m_msgMap, m_mapKey, given, seen,
                     peer, wire>>
  BY DEF SendRspMsg, Answer
<1>2. r \in Req
  BY <1>1 DEF IInv, NoteInv, StackInv
<1>3. /\ NoteInv' /\ Entries' = Entries
      /\ given[r] = stack.key /\ stack.key \in Key /\ stack.key \notin Entries
  BY <1>1, NoteUsed DEF IInv
<1>4. answers[r] = 0 /\ given[r] # 0 /\ r \in seen
  BY <1>2, <1>3 DEF IInv, AnswerInv, OnceInv, Key
<1>5. /\ answers' \in [Req -> Nat]
      /\ \A q \in Req : answers'[q] = answers[q] \/ (q = r /\ answers'[q] = 1)
  BY <1>1, <1>2, <1>4 DEF IInv, PeerTypeOK
<1>6. DialogTypeOK' /\ DialogInv' /\ WireInv'
  BY <1>1 DEF IInv, DialogTypeOK, DialogInv, WireInv
<1>7. PeerTypeOK' /\ OnceInv'
  BY <1>1, <1>4, <1>5 DEF IInv, PeerTypeOK, OnceInv
<1>8. AnswerInv'
  <2>1. \A q \in Req : stack'.of # q
    BY <1>1, DialogsAssumption DEF Idle
  <2> QED
    BY <1>1, <1>3, <1>5, <2>1 DEF IInv, AnswerInv, AnsweredOnce
<1> QED
  BY <1>3, <1>6, <1>7, <1>8 DEF IInv

\* The timer releases notes in the map only, and not the one the thread uses.
LEMMA CheckReqMsgIInv ==
  ASSUME IInv, NEW k \in Key, CheckReqMsg(k)
  PROVE  IInv'
<1> DEFINE old == TooOld(k)
<1>1. /\ m_msgMap' = [j \in Key |-> IF j \in old THEN NoNote ELSE m_msgMap[j]]
      /\ released' = [j \in Key |-> released[j] + (IF j \in old THEN 1 ELSE 0)]
      /\ UNCHANGED <<m_mapDialogIdToInfo, noted, m_mapKey, stack, given, answers,
                     seen, peer, wire>>
  BY DEF CheckReqMsg
<1>2. old \subseteq Entries /\ \A j \in old : m_msgMap[j].state # "OCCUPIED"
  BY DEF TooOld
<1>3. NoteTypeOK
  BY DEF IInv, NoteInv
<1> HIDE DEF old
<1>4. Entries' = Entries \ old
  BY <1>1 DEF Entries
<1>5. NoteTypeOK'
  <2>1. \A j \in Key : released[j] + (IF j \in old THEN 1 ELSE 0) \in Nat
    BY <1>3 DEF NoteTypeOK
  <2> QED
    BY <1>1, <1>3, <2>1 DEF NoteTypeOK
<1>6. NoteHasOneOwner'
  <2>1. NoteHasOneOwner /\ \A j \in Key : InHand(j)' <=> InHand(j)
    BY <1>1 DEF IInv, NoteInv, InHand
  <2>2. \A j \in Key : /\ j \in old => released'[j] = released[j] + 1
                       /\ j \notin old => released'[j] = released[j]
                       /\ j \notin old => m_msgMap'[j] = m_msgMap[j]
    BY <1>1, <1>3 DEF NoteTypeOK
  <2>3. stack.use = "ACK" => /\ stack.key \in Entries /\ stack.key \notin old
                             /\ m_msgMap[stack.key].state = "OCCUPIED"
    BY <1>2, <2>1 DEF NoteHasOneOwner
  <2>4. stack.use = "ACK" => m_msgMap'[stack.key].state = "OCCUPIED"
    BY <2>2, <2>3 DEF Entries
  <2> QED
    BY <1>1, <1>2, <1>4, <2>1, <2>2, <2>3, <2>4 DEF NoteHasOneOwner
<1>7. StackInv' /\ GivenInv'
  <2>1. \A j \in Entries' : m_msgMap'[j] = m_msgMap[j]
    BY <1>1, <1>4 DEF Entries
  <2> QED
    BY <1>1, <1>4, <2>1 DEF IInv, NoteInv, StackInv, GivenInv
<1>8. DialogTypeOK' /\ DialogInv' /\ PeerTypeOK' /\ OnceInv' /\ WireInv'
  BY <1>1 DEF IInv, DialogTypeOK, DialogInv, PeerTypeOK, OnceInv, WireInv
<1>9. AnswerInv'
  BY <1>1, <1>4 DEF IInv, AnswerInv, AnsweredOnce
<1> QED
  BY <1>5, <1>6, <1>7, <1>8, <1>9 DEF IInv, NoteInv

-----------------------------------------------------------------------------
(* The theorems.                                                           *)

\* So does a step that changes nothing.
LEMMA StutterIInv ==
  ASSUME IInv, UNCHANGED vars
  PROVE  IInv'
<1>1. NoteInv' /\ Entries' = Entries
  BY NotesStay DEF IInv, vars, noteVars
<1>2. UNCHANGED <<m_mapDialogIdToInfo, noted, stack, given, answers, seen, peer, wire>>
  BY DEF vars
<1>3. DialogTypeOK' /\ DialogInv' /\ PeerTypeOK' /\ OnceInv' /\ WireInv'
  BY <1>2 DEF IInv, DialogTypeOK, DialogInv, PeerTypeOK, OnceInv, WireInv
<1>4. AnswerInv'
  BY <1>1, <1>2 DEF IInv, AnswerInv, AnsweredOnce
<1> QED
  BY <1>1, <1>3, <1>4 DEF IInv

\* So does every step.
LEMMA NextIInv ==
  ASSUME IInv, [Next]_vars
  PROVE  IInv'
<1>1. ASSUME NEW c \in Call, OfCall(c) PROVE IInv'
  BY <1>1, SendInviteIInv, AcceptIInv, InviteSucceededIInv, InviteFailedIInv,
     HandleReqByeIInv DEF OfCall
<1>2. ASSUME UseNote PROVE IInv'
  BY <1>2, SendInviteAckIInv, SendInviteByeIInv, SendRspMsgIInv DEF UseNote
<1> QED
  BY <1>1, <1>2, OfReqIInv, GetIInv, ClearAllMsgInfoIInv, CheckReqMsgIInv,
     StutterIInv DEF Next

\* The invariant holds of every behaviour of the dialogs.
THEOREM Inductive == Spec => []IInv
<1>1. Init => IInv
  BY InitIInv
<1>2. IInv /\ [Next]_vars => IInv'
  BY NextIInv
<1> QED
  BY <1>1, <1>2, PTL DEF Spec

\* Every variable keeps its type, and a dialog never has another call's tags.
THEOREM TypeCorrect == Spec => []TypeOK
<1>1. IInv => TypeOK
  BY TypeParts DEF IInv, NoteInv
<1> QED
  BY <1>1, Inductive, PTL

\* The timer and the stack thread never use or release a note twice, however
\* many there are (GetReqMsg and CheckReqMsg, CSipStack.cpp).
THEOREM NotesHaveOneOwner == Spec => []NoteHasOneOwner
<1>1. IInv => NoteHasOneOwner
  BY DEF IInv, NoteInv
<1> QED
  BY <1>1, Inductive, PTL

\* A response ID is for ever that of the call or request it was given out for.
THEOREM IdsNameTheirCalls == Spec => []IdNamesItsCall
<1>1. IInv => IdNamesItsCall
  BY DEF IInv, NoteInv, StackInv, WireInv, IdNamesItsCall, Idle
<1> QED
  BY <1>1, Inductive, PTL

\* A request of the peer is answered once, however often the application
\* answers it.
THEOREM OneAnswer == Spec => []AnsweredOnce
<1>1. IInv => AnsweredOnce
  BY DEF IInv, AnswerInv
<1> QED
  BY <1>1, Inductive, PTL
-----------------------------------------------------------------------------
(* The refinement: what the application sees of its response IDs.          *)

Holder == Call \cup Req
IdOf == [x \in Call \cup Req |-> IdState(x)]
Using == [use |-> stack.use, of |-> stack.of]
Acked == {c \in Call : m_mapDialogIdToInfo[c].bRecvOK}
SentFor == {<<w.use, w.call>> : w \in wire}

\* Only a call that was given an ID is acknowledged.
AckedInv == \A c \in Call : m_mapDialogIdToInfo[c].bRecvOK => given[c] # 0

Unseen == UNCHANGED <<IdOf, Using, Acked, SentFor, seen, answers>>

LEMMA UnseenStutters == Unseen => UNCHANGED Ids!vars
BY DEF Unseen, IdOf, Using, Acked, SentFor, Ids!vars

\* The state of an ID, and of one that keeps its note.
LEMMA IdStates ==
  ASSUME NEW x \in Holder
  PROVE  /\ given[x] = 0 => IdState(x) = "none"
         /\ given[x] \in Entries =>
              IdState(x) = IF m_msgMap[given[x]].state = "OCCUPIED" THEN "kept" ELSE "live"
         /\ given[x] # 0 /\ given[x] \notin Entries => IdState(x) = "spent"
BY DEF IdState, Entries, Key

LEMMA IdStatesNext ==
  ASSUME NEW x \in Holder
  PROVE  /\ given'[x] = 0 => IdState(x)' = "none"
         /\ given'[x] \in Entries' =>
              IdState(x)' = IF m_msgMap'[given'[x]].state = "OCCUPIED" THEN "kept" ELSE "live"
         /\ given'[x] # 0 /\ given'[x] \notin Entries' => IdState(x)' = "spent"
BY DEF IdState, Entries, Key

LEMMA IdStays ==
  ASSUME NEW x \in Holder, given'[x] = given[x],
         given[x] \in Entries' <=> given[x] \in Entries,
         given[x] \in Entries => m_msgMap'[given[x]] = m_msgMap[given[x]]
  PROVE  IdState(x)' = IdState(x)
<1>1. CASE given[x] \in Entries
  BY <1>1, IdStates, IdStatesNext
<1>2. CASE given[x] \notin Entries
  BY <1>2, IdStates, IdStatesNext
<1> QED
  BY <1>1, <1>2

\* A step that leaves the notes and the IDs alone leaves what is seen of them.
LEMMA IdsStay ==
  ASSUME UNCHANGED <<m_msgMap, given>>
  PROVE  IdOf' = IdOf
<1>1. \A x \in Holder : IdState(x)' = IdState(x)
  BY IdStays DEF Entries
<1> QED
  BY <1>1 DEF IdOf, Holder

\* One ID changes.
LEMMA OneIdChanges ==
  ASSUME NEW x \in Holder, NEW s, IdState(x)' = s,
         \A y \in Holder : y # x => IdState(y)' = IdState(y)
  PROVE  IdOf' = [IdOf EXCEPT ![x] = s]
BY DEF IdOf, Holder

\* A note inserted is seen when its ID is given out, and then it is live.
LEMMA InsertedIsSeen ==
  ASSUME NoteInv, NEW x \in Holder, stack = Idle, given[x] = 0,
         InsertReqMsg(x), Report(x) \/ UNCHANGED given, UNCHANGED <<stack, released>>
  PROVE  /\ given' = given => IdOf' = IdOf
         /\ given' # given => Ids!Give(x)
         /\ \A y \in Holder : given[y] # 0 => given'[y] # 0
<1>1. /\ given' \in {given, [given EXCEPT ![x] = m_mapKey]}
      /\ Entries' = Entries \cup {m_mapKey}
      /\ m_mapKey \in Key
  BY NoteInserted DEF Holder
<1>2. /\ m_msgMap \in [Key -> NoteType \cup {NoNote}] /\ given \in [Holder -> 0..MaxKey]
      /\ m_mapKey \in Nat /\ m_mapKey # 0
      /\ \A y \in Holder : given[y] \in Nat /\ given[y] # m_mapKey
  <2>1. NoteTypeOK /\ GivenInv
    BY DEF NoteInv
  <2> QED
    BY <1>1, <2>1, DialogsAssumption DEF NoteTypeOK, GivenInv, Holder, Key
<1>3. m_msgMap' = [m_msgMap EXCEPT ![m_mapKey] = Note(x, "INIT")]
  BY DEF InsertReqMsg
<1>4. \A y \in Holder : given'[y] = given[y] => IdState(y)' = IdState(y)
  <2> SUFFICES ASSUME NEW y \in Holder, given'[y] = given[y]
               PROVE  IdState(y)' = IdState(y)
    OBVIOUS
  <2>1. given[y] \in Entries' <=> given[y] \in Entries
    BY <1>1, <1>2
  <2>2. given[y] \in Entries => m_msgMap'[given[y]] = m_msgMap[given[y]]
    BY <1>2, <1>3 DEF Entries
  <2> QED
    BY <2>1, <2>2, IdStays
<1>5. ASSUME given' # given PROVE Ids!Give(x)
  <2>1. given' = [given EXCEPT ![x] = m_mapKey]
    BY <1>1, <1>5
  <2>2. given'[x] = m_mapKey /\ \A y \in Holder : y # x => given'[y] = given[y]
    BY <1>2, <2>1
  <2>3. m_msgMap'[m_mapKey].state = "INIT"
    BY <1>1, <1>2, <1>3 DEF Note
  <2>4. IdState(x)' = "live" /\ IdState(x) = "none"
    BY <1>1, <2>2, <2>3, IdStates, IdStatesNext
  <2>5. IdOf' = [IdOf EXCEPT ![x] = "live"]
    BY <1>4, <2>2, <2>4, OneIdChanges
  <2> QED
    BY <2>4, <2>5 DEF IdOf, Holder, Ids!Give
<1>6. ASSUME given' = given PROVE IdOf' = IdOf
  BY <1>4, <1>6 DEF IdOf, Holder
<1>7. \A y \in Holder : given[y] # 0 => given'[y] # 0
  BY <1>1, <1>2
<1> QED
  BY <1>5, <1>6, <1>7

\* The calls: the application sees that one has succeeded.
LEMMA OfCallServes ==
  ASSUME IInv, AckedInv, NEW c \in Call, OfCall(c)
  PROVE  AckedInv' /\ (Ids!Next \/ UNCHANGED Ids!vars)
<1>1. CASE InviteSucceeded(c)
  <2>1. given[c] = 0 /\ c \in Holder
    BY <1>1 DEF IInv, InviteSucceeded, OnceInv, Holder
  <2>2. /\ given' = given => IdOf' = IdOf
        /\ given' # given => Ids!Give(c)
        /\ \A y \in Holder : given[y] # 0 => given'[y] # 0
    BY <1>1, <2>1, InsertedIsSeen DEF IInv, InviteSucceeded
  <2>3. UNCHANGED <<m_mapDialogIdToInfo, stack, answers, seen, wire>>
    BY <1>1 DEF InviteSucceeded
  <2>4. AckedInv'
    BY <2>2, <2>3 DEF AckedInv, Holder
  <2>5. CASE given' = given
    <3>1. Unseen
      BY <2>2, <2>3, <2>5 DEF Unseen, Using, Acked, SentFor
    <3> QED
      BY <2>4, <3>1, UnseenStutters
  <2>6. CASE given' # given
    <3>1. Ids!Succeed(c)
      BY <2>2, <2>3, <2>6 DEF Ids!Succeed
    <3> QED
      BY <2>4, <3>1 DEF Ids!Next
  <2> QED
    BY <2>5, <2>6
<1>2. CASE ~InviteSucceeded(c)
  <2>1. UNCHANGED <<m_msgMap, given, stack, answers, seen, wire>>
    BY <1>2 DEF OfCall, SendInvite, Accept, InviteFailed, HandleReqBye
  <2>2. \A d \in Call : m_mapDialogIdToInfo'[d].bRecvOK = m_mapDialogIdToInfo[d].bRecvOK
    <3>1. CASE SendInvite(c)
      <4>1. m_mapDialogIdToInfo' = [m_mapDialogIdToInfo EXCEPT ![c] = Info(FALSE, NoCall)]
        BY <3>1 DEF SendInvite
      <4>2. m_mapDialogIdToInfo[c].bRecvOK = FALSE
        BY <3>1 DEF SendInvite, AckedInv, IInv, OnceInv, DialogTypeOK
      <4> QED
        BY <4>1, <4>2 DEF Info, IInv, DialogTypeOK
    <3>2. CASE Accept(c) \/ InviteFailed(c)
      BY <3>2 DEF Accept, InviteFailed
    <3>3. CASE HandleReqBye(c)
      BY <3>3, EraseErasesNothing DEF HandleReqBye, IInv
    <3> QED
      BY <1>2, <3>1, <3>2, <3>3 DEF OfCall
  <2>3. Unseen
    BY <2>1, <2>2, IdsStay DEF Unseen, Using, Acked, SentFor
  <2> QED
    BY <2>1, <2>2, <2>3, UnseenStutters DEF AckedInv
<1> QED
  BY <1>1, <1>2

\* A request of the peer is handled: given an ID, answered, or neither.
LEMMA OfReqServes ==
  ASSUME IInv, AckedInv, NEW r \in Req, OfReq(r)
  PROVE  AckedInv' /\ (Ids!Next \/ UNCHANGED Ids!vars)
<1>1. NewReq(r)
  BY DEF OfReq, HandleReqOption, HandleReqNotify, HandleReqMessage, HandleReqInvite,
         HandleReqRegister, HandleReqOther, AnswerAtOnce, Refuse, Keep
<1>2. /\ r \notin seen /\ seen' = seen \cup {r} /\ stack = Idle
      /\ UNCHANGED <<m_mapDialogIdToInfo, stack, released, wire>>
  BY <1>1 DEF NewReq
<1>3. given[r] = 0 /\ answers[r] = 0 /\ r \in Holder
  BY <1>2 DEF IInv, OnceInv, Holder
<1>4. Answer(r) => Ids!Answer(r)
  BY <1>3 DEF Answer, Ids!Answer
<1>5. UNCHANGED <<Using, Acked, SentFor>>
  BY <1>2 DEF Using, Acked, SentFor
<1>6. CASE AnswerAtOnce(r) \/ Refuse(r)
  <2>1. /\ UNCHANGED <<m_msgMap, given>>
        /\ Answer(r) \/ UNCHANGED answers
    BY <1>6 DEF AnswerAtOnce, Refuse
  <2>2. IdOf' = IdOf
    BY <2>1, IdsStay
  <2>3. Ids!Handle(r)
    BY <1>2, <1>4, <1>5, <2>1, <2>2 DEF Ids!Handle, IdOf, Using, Acked, SentFor
  <2> QED
    BY <1>2, <2>1, <2>3 DEF AckedInv, Ids!Next
<1>7. CASE Keep(r) \/ HandleReqRegister(r)
  <2>1. /\ InsertReqMsg(r)
        /\ \/ Report(r) /\ UNCHANGED answers
           \/ UNCHANGED given /\ (Answer(r) \/ UNCHANGED answers)
    BY <1>7 DEF Keep, HandleReqRegister
  <2>2. /\ given' = given => IdOf' = IdOf
        /\ given' # given => Ids!Give(r) /\ UNCHANGED answers
        /\ \A y \in Holder : given[y] # 0 => given'[y] # 0
    BY <1>2, <1>3, <2>1, InsertedIsSeen DEF IInv
  <2>3. Ids!Handle(r)
    BY <1>2, <1>4, <1>5, <2>1, <2>2 DEF Ids!Handle, IdOf, Using, Acked, SentFor
  <2> QED
    BY <1>2, <2>2, <2>3 DEF AckedInv, Holder, Ids!Next
<1> QED
  BY <1>6, <1>7 DEF OfReq, HandleReqOption, HandleReqNotify, HandleReqMessage,
                    HandleReqInvite, HandleReqOther

\* Getting a note begins a use of its ID, which keeps or spends the ID.
LEMMA GetServes ==
  ASSUME IInv, AckedInv, NEW x \in Call \cup Req, Get(x)
  PROVE  AckedInv' /\ (Ids!Next \/ UNCHANGED Ids!vars)
<1> DEFINE k == given[x]
<1>1. /\ stack = Idle /\ k \in Entries
      /\ UNCHANGED <<m_mapDialogIdToInfo, given, answers, seen, wire>>
  BY DEF Get
<1>2. PICK use \in IF x \in Call THEN {"ACK", "BYE"} ELSE {"ANSWER"} :
        /\ GetReqMsg(k, use # "ACK")
        /\ stack' = [use |-> use, key |-> k, of |-> m_msgMap[k].of]
  BY DEF Get
<1>3. /\ m_msgMap \in [Key -> NoteType \cup {NoNote}]
      /\ k \in Key /\ m_msgMap[k].of = x
      /\ \A y \in Holder : given[y] \in Entries => m_msgMap[given[y]].of = y
  BY <1>1 DEF IInv, NoteInv, NoteTypeOK, GivenInv, Entries, Holder
<1>4. m_msgMap' = [m_msgMap EXCEPT ![k] =
                     IF use # "ACK" THEN NoNote ELSE Note(x, "OCCUPIED")]
  BY <1>2, <1>3 DEF GetReqMsg
<1>5. Note(x, "OCCUPIED") # NoNote /\ Note(x, "OCCUPIED").state = "OCCUPIED"
  BY DialogsAssumption DEF Note
<1>6. IdState(x) \in {"live", "kept"} /\ k # 0
  BY <1>1, IdStates DEF Holder, Entries, Key
<1>7. IdState(x)' = IF use = "ACK" THEN "kept" ELSE "spent"
  <2>1. CASE use = "ACK"
    <3>1. m_msgMap'[k].state = "OCCUPIED" /\ m_msgMap'[k] # NoNote
      BY <1>3, <1>4, <1>5, <2>1
    <3>2. k \in Entries'
      BY <1>3, <3>1 DEF Entries
    <3> QED
      BY <1>1, <2>1, <3>1, <3>2, IdStatesNext DEF Holder
  <2>2. CASE use # "ACK"
    <3>1. k \notin Entries'
      BY <1>3, <1>4, <2>2 DEF Entries
    <3> QED
      BY <1>1, <1>6, <2>2, <3>1, IdStatesNext DEF Holder
  <2> QED
    BY <2>1, <2>2
<1>8. ASSUME NEW y \in Holder, y # x PROVE IdState(y)' = IdState(y)
  <2>1. given[y] # k
    BY <1>1, <1>3, <1>8
  <2>2. given[y] \in Key => m_msgMap'[given[y]] = m_msgMap[given[y]]
    BY <1>3, <1>4, <2>1
  <2>3. given[y] \in Entries' <=> given[y] \in Entries
    BY <2>2 DEF Entries
  <2> QED
    BY <1>1, <2>2, <2>3, IdStays DEF Entries
<1>9. IdOf' = [IdOf EXCEPT ![x] = IF use = "ACK" THEN "kept" ELSE "spent"]
  BY <1>7, <1>8, OneIdChanges DEF Holder
<1>10. Using = Ids!Idle /\ Using' = [use |-> use, of |-> x]
  BY <1>1, <1>2, <1>3 DEF Using, Idle, Ids!Idle
<1>11. UNCHANGED <<Acked, SentFor>>
  BY <1>1 DEF Acked, SentFor
<1>12. IdOf[x] \in {"live", "kept"}
  BY <1>6 DEF IdOf
<1>13. Ids!Use(x, use)
  BY <1>1, <1>9, <1>10, <1>11, <1>12 DEF Ids!Use, IdOf, Using, Acked, SentFor
<1>14. AckedInv'
  BY <1>1 DEF AckedInv
<1> QED
  BY <1>2, <1>13, <1>14 DEF Ids!Next

\* What is sent goes out under the ID's call.
LEMMA SentIsSeen ==
  ASSUME NEW use, NEW key, NEW c,
         wire' = wire \cup {[use |-> use, key |-> key, call |-> c]}
  PROVE  SentFor' = SentFor \cup {<<use, c>>}
<1> DEFINE new == [use |-> use, key |-> key, call |-> c]
<1>1. new.use = use /\ new.call = c
  OBVIOUS
<1>2. new \in wire' /\ \A w \in wire' : w \in wire \/ w = new
  OBVIOUS
<1>3. wire \subseteq wire'
  OBVIOUS
<1> HIDE DEF new
<1> QED
  BY <1>1, <1>2, <1>3 DEF SentFor

\* The second half of an ACK, a BYE or an answer ends the use.
LEMMA UseServes ==
  ASSUME IInv, AckedInv, UseNote
  PROVE  AckedInv' /\ (Ids!Next \/ UNCHANGED Ids!vars)
<1>1. /\ stack.use \in Use /\ stack' = Idle
      /\ UNCHANGED <<m_msgMap, given, seen>>
  BY DEF UseNote, SendInviteAck, SendInviteBye, SendRspMsg, Use
<1>2. /\ stack.key \in 1..(m_mapKey - 1) /\ stack.of \in Call \cup Req
      /\ given[stack.of] = stack.key /\ (stack.use = "ANSWER" <=> stack.of \in Req)
  BY <1>1 DEF IInv, NoteInv, StackInv, Use
<1>3. IdOf' = IdOf
  BY <1>1, IdsStay
<1>4. /\ Using.use = stack.use /\ Using.of = stack.of /\ Using' = Ids!Idle
  BY <1>1 DEF Using, Idle, Ids!Idle
<1>5. given[stack.of] # 0
  BY <1>2
<1>6. CASE SendInviteAck
  <2>1. stack.use = "ACK" /\ stack.of \in Call /\ UNCHANGED answers
    BY <1>2, <1>6 DEF SendInviteAck
  <2>2. wire' \in {wire, wire \cup {[use |-> "ACK", key |-> stack.key, call |-> stack.of]}}
    BY <1>6 DEF SendInviteAck, Send
  <2>3. SentFor' \in {SentFor, SentFor \cup {<<"ACK", stack.of>>}}
    <3>1. CASE wire' = wire
      BY <3>1 DEF SentFor
    <3>2. CASE wire' # wire
      BY <2>2, <3>2, SentIsSeen
    <3> QED
      BY <3>1, <3>2
  <2>4. m_mapDialogIdToInfo' \in
          {m_mapDialogIdToInfo,
           [m_mapDialogIdToInfo EXCEPT ![stack.of] = Info(TRUE, stack.of)]}
    BY <1>6 DEF SendInviteAck
  <2>5. \/ \A d \in Call : m_mapDialogIdToInfo'[d].bRecvOK = m_mapDialogIdToInfo[d].bRecvOK
        \/ /\ m_mapDialogIdToInfo'[stack.of].bRecvOK = TRUE
           /\ \A d \in Call : d # stack.of =>
                m_mapDialogIdToInfo'[d].bRecvOK = m_mapDialogIdToInfo[d].bRecvOK
    BY <2>1, <2>4 DEF Info, IInv, DialogTypeOK
  <2>6. Acked' \in {Acked, Acked \cup {stack.of}}
    BY <2>1, <2>5 DEF Acked
  <2>7. AckedInv'
    BY <1>1, <1>5, <2>5 DEF AckedInv
  <2>8. Ids!Used
    BY <1>1, <1>3, <1>4, <2>1, <2>3, <2>6
       DEF Ids!Used, Ids!MaySend, IdOf, Using, Acked, SentFor
  <2> QED
    BY <2>7, <2>8 DEF Ids!Next
<1>7. CASE SendInviteBye
  <2>1. stack.use = "BYE" /\ stack.of \in Call /\ UNCHANGED answers
    BY <1>2, <1>7 DEF SendInviteBye
  <2>2. /\ m_mapDialogIdToInfo' = m_mapDialogIdToInfo
        /\ \/ wire' = wire
           \/ /\ stack.of \in Acked
              /\ wire' = wire \cup {[use |-> "BYE", key |-> stack.key, call |-> stack.of]}
    <3>1. CASE UNCHANGED <<m_mapDialogIdToInfo, wire, peer>>
      BY <3>1
    <3>2. CASE /\ MayBye(stack.of)
               /\ Send("BYE", m_mapDialogIdToInfo[stack.of].tags)
               /\ m_mapDialogIdToInfo' = Erase(m_mapDialogIdToInfo[stack.of])
      <4>1. m_mapDialogIdToInfo[stack.of].tags = stack.of
        BY <2>1, <3>2 DEF IInv, DialogInv, MayBye
      <4> QED
        BY <2>1, <3>2, <4>1, EraseErasesNothing DEF IInv, Send, MayBye, Acked
    <3> QED
      BY <1>7, <3>1, <3>2 DEF SendInviteBye
  <2>3. \/ UNCHANGED SentFor
        \/ stack.of \in Acked /\ SentFor' = SentFor \cup {<<"BYE", stack.of>>}
    <3>1. CASE wire' = wire
      BY <3>1 DEF SentFor
    <3>2. CASE wire' # wire
      BY <2>2, <3>2, SentIsSeen
    <3> QED
      BY <3>1, <3>2
  <2>4. UNCHANGED Acked /\ AckedInv'
    BY <1>1, <2>2 DEF Acked, AckedInv
  <2>5. Ids!Used
    BY <1>1, <1>3, <1>4, <2>1, <2>3, <2>4
       DEF Ids!Used, Ids!MaySend, IdOf, Using, Acked, SentFor
  <2> QED
    BY <2>4, <2>5 DEF Ids!Next
<1>8. CASE SendRspMsg
  <2>1. /\ stack.use = "ANSWER" /\ stack.of \in Req
        /\ UNCHANGED <<m_mapDialogIdToInfo, wire>>
    BY <1>2, <1>8 DEF SendRspMsg
  <2>2. answers[stack.of] = 0
    BY <2>1 DEF IInv, AnswerInv
  <2>3. Ids!Answer(stack.of) \/ UNCHANGED answers
    BY <1>8, <2>2 DEF SendRspMsg, Answer, Ids!Answer
  <2>4. UNCHANGED <<Acked, SentFor>> /\ AckedInv'
    BY <1>1, <2>1 DEF Acked, SentFor, AckedInv
  <2>5. Ids!Used
    BY <1>1, <1>3, <1>4, <2>1, <2>3, <2>4 DEF Ids!Used, IdOf, Using, Acked, SentFor
  <2> QED
    BY <2>4, <2>5 DEF Ids!Next
<1> QED
  BY <1>6, <1>7, <1>8 DEF UseNote

\* The timer spends the IDs whose notes it releases, all live.
LEMMA CheckServes ==
  ASSUME IInv, AckedInv, NEW k \in Key, CheckReqMsg(k)
  PROVE  AckedInv' /\ (Ids!Next \/ UNCHANGED Ids!vars)
<1> DEFINE S == {x \in Holder : given[x] \in TooOld(k)}
<1>1. /\ m_msgMap' = [j \in Key |-> IF j \in TooOld(k) THEN NoNote ELSE m_msgMap[j]]
      /\ UNCHANGED <<m_mapDialogIdToInfo, stack, given, answers, seen, wire>>
  BY DEF CheckReqMsg
<1>2. TooOld(k) \subseteq Entries /\ \A j \in TooOld(k) : m_msgMap[j].state # "OCCUPIED"
  BY DEF TooOld
<1>3. ASSUME NEW x \in S PROVE IdState(x) = "live" /\ IdState(x)' = "spent"
  <2>1. x \in Holder /\ given[x] \in TooOld(k) /\ given[x] \in Entries
    BY <1>2, <1>3
  <2>2. given[x] # 0
    BY <2>1 DEF Entries, Key
  <2>3. given[x] \notin Entries'
    BY <1>1, <2>1 DEF Entries
  <2> QED
    BY <1>1, <1>2, <2>1, <2>2, <2>3, IdStates, IdStatesNext
<1>4. ASSUME NEW x \in Holder, x \notin S PROVE IdState(x)' = IdState(x)
  <2>1. given[x] \notin TooOld(k)
    BY <1>4
  <2>2. given[x] \in Key => m_msgMap'[given[x]] = m_msgMap[given[x]]
    BY <1>1, <2>1
  <2>3. given[x] \in Entries' <=> given[x] \in Entries
    BY <2>2 DEF Entries
  <2> QED
    BY <1>1, <2>2, <2>3, IdStays DEF Entries
<1>5. S \in SUBSET (Call \cup Req)
  BY DEF Holder
<1> HIDE DEF S
<1>6. IdOf' = [x \in Call \cup Req |-> IF x \in S THEN "spent" ELSE IdOf[x]]
  BY <1>3, <1>4, <1>5 DEF IdOf, Holder
<1>7. \A x \in S : IdOf[x] = "live"
  BY <1>3, <1>5 DEF IdOf
<1>8. UNCHANGED <<Using, Acked, SentFor>> /\ AckedInv'
  BY <1>1 DEF Using, Acked, SentFor, AckedInv
<1>9. Ids!Expire(S)
  BY <1>1, <1>6, <1>7, <1>8 DEF Ids!Expire, IdOf, Using, Acked, SentFor
<1> QED
  BY <1>5, <1>8, <1>9 DEF Ids!Next

\* Every step of the stack thread, the peer and the timer is a step of the IDs,
\* or none.
LEMMA NextServes ==
  IInv /\ AckedInv /\ [Next]_vars => AckedInv' /\ [Ids!Next]_(Ids!vars)
<1> SUFFICES ASSUME IInv, AckedInv, [Next]_vars
             PROVE  AckedInv' /\ (Ids!Next \/ UNCHANGED Ids!vars)
  OBVIOUS
<1>1. CASE ClearAllMsgInfo \/ UNCHANGED vars
  <2>1. UNCHANGED <<m_mapDialogIdToInfo, m_msgMap, stack, given, answers, seen, wire>>
    BY <1>1 DEF ClearAllMsgInfo, vars
  <2>2. Unseen
    BY <2>1, IdsStay DEF Unseen, Using, Acked, SentFor
  <2> QED
    BY <2>1, <2>2, UnseenStutters DEF AckedInv
<1> QED
  BY <1>1, OfCallServes, OfReqServes, GetServes, UseServes, CheckServes DEF Next

\* The notes, their keys and the timer implement the response IDs that the
\* application is given.
THEOREM NotesAreIds == Spec => IdsAreServed
<1>1. Init => Ids!Init /\ AckedInv
  <2> SUFFICES ASSUME Init PROVE Ids!Init /\ AckedInv
    OBVIOUS
  <2>1. given = [x \in Call \cup Req |-> 0] /\ \A x \in Holder : given[x] = 0
    BY DEF Init, Holder
  <2>2. IdOf = [x \in Call \cup Req |-> "none"]
    BY <2>1, IdStates DEF IdOf, Holder
  <2>3. Using = Ids!Idle /\ seen = {} /\ answers = [r \in Req |-> 0]
    BY DEF Init, Using, Idle, Ids!Idle
  <2>4. \A c \in Call : ~m_mapDialogIdToInfo[c].bRecvOK
    BY DEF Init, NoInfo
  <2>5. SentFor = {}
    BY DEF Init, SentFor
  <2>6. Acked = {}
    BY <2>4 DEF Acked
  <2> QED
    BY <2>2, <2>3, <2>4, <2>5, <2>6 DEF Ids!Init, AckedInv, IdOf, Using, Acked, SentFor
<1> QED
  BY <1>1, NextServes, Inductive, PTL DEF Spec, IdsAreServed, Ids!Spec

=============================================================================
