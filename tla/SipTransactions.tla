-------------------------- MODULE SipTransactions --------------------------
(***************************************************************************)
(* The requests CSipStack sends and the answers it takes: the wrappers of  *)
(* sipstack_msg_wrap.cpp build a request, note it under its CSeq and hand  *)
(* it to the MiniSip library; HandleSipTxnHiSfRspInd takes the note out    *)
(* again when a final answer comes and reports it, sends the request again *)
(* with credentials (401), or turns it into a redirect event (301, 302).   *)
(*                                                                         *)
(* Every handler runs under the MiniSip mutex (sipstack_task.cpp:972 and   *)
(* :1048) and is one action.  The library and the peer are the             *)
(* environment: any final answer to any copy of a request on the wire, in  *)
(* any order and any number of times.  Provisional answers and answers     *)
(* whose CSeq is not noted change nothing and are left out; memory         *)
(* allocation is taken to succeed.                                         *)
(***************************************************************************)
EXTENDS Naturals, Sequences, FiniteSets, FiniteSetsExt

CONSTANTS Request,          \* requests handed to the stack
          NoRequest,
          Server,           \* addresses of servers
          LoginServer,      \* the one SIP_SDK_Init configures
          Contacts,         \* Contact lists a redirect answer may carry
          ConfiguredExpires,\* CSipStackServiceCfg::GetExpires
          GrantedExpires,   \* Expires values an answer may carry
          MAX_NUM_AUTH_INFO_CHANGE,
          MaxCSeq           \* bound: CSeq numbers drawn

ASSUME SipTransactionsAssumption ==
  /\ NoRequest \notin Request
  /\ LoginServer \in Server
  /\ Contacts \subseteq Seq(Server)
  /\ ConfiguredExpires \in Nat \ {0}
  /\ GrantedExpires \subseteq Nat \ {0}
  /\ MAX_NUM_AUTH_INFO_CHANGE \in Nat
  /\ MaxCSeq \in Nat

Kind == {"REGISTER", "UNREGISTER", "MESSAGE", "INVITE", "SUBSCRIBE"}
Outcome == {"unsent", "refused", "waiting", "succeeded", "failed",
            "silent", "redirected", "cleared"}
Reported == {"succeeded", "failed"}
CSeq == 1..MaxCSeq

VARIABLES
  m_ulCSeq,
  m_mapCSeqToSipMsgInfo,  \* CSeq to the request noted and its Expires header
  m_bRegister,
  ulExpireTime,           \* m_stRegisterInfo.ulExpireTime
  m_ulPlatAuthInfoChangeNum,
  m_bHasRedirect,
  m_bTempRedirect,
  m_bRedirected,
  m_vectorServerInfo,
  m_listSvrInfoUsed,      \* a list the code only searches and appends to
  m_objServerAddr,
  req,                    \* history: kind, registration, outcome and copies
  wire,                   \* history: what was sent
  unregistered            \* history: UNREGISTERs sent

redirectVars == <<m_bHasRedirect, m_bTempRedirect, m_bRedirected,
                  m_vectorServerInfo, m_listSvrInfoUsed, m_objServerAddr>>
vars == <<m_ulCSeq, m_mapCSeqToSipMsgInfo, m_bRegister, ulExpireTime,
          m_ulPlatAuthInfoChangeNum, redirectVars, req, wire, unregistered>>

Info(r, x) == [req |-> r, expires |-> x]
NoInfo == Info(NoRequest, 0)

\* The type of every variable; the number of challenges goes one beyond the
\* limit at most, and the server in use is always among those noted as used.
TypeOK ==
  /\ m_ulCSeq \in 0..MaxCSeq
  /\ m_mapCSeqToSipMsgInfo \in
       [CSeq -> [req : Request \cup {NoRequest}, expires : Nat]]
  /\ m_bRegister \in BOOLEAN
  /\ ulExpireTime \in Nat
  /\ m_ulPlatAuthInfoChangeNum \in 0..(MAX_NUM_AUTH_INFO_CHANGE + 1)
  /\ {m_bHasRedirect, m_bTempRedirect, m_bRedirected} \subseteq BOOLEAN
  /\ m_vectorServerInfo \in Seq(Server)
  /\ m_listSvrInfoUsed \subseteq Server
  /\ m_objServerAddr \in m_listSvrInfoUsed
  /\ req \in [Request -> [kind : Kind, epoch : Nat, outcome : Outcome, copies : Nat]]
  /\ wire \subseteq [cseq : CSeq, req : Request, expires : Nat]
  /\ unregistered \in Nat

\* CSipStack's constructor, then SetRegisterInfo with one server.
Init ==
  /\ m_ulCSeq = 0
  /\ m_mapCSeqToSipMsgInfo = [c \in CSeq |-> NoInfo]
  /\ m_bRegister = FALSE
  /\ ulExpireTime = ConfiguredExpires
  /\ m_ulPlatAuthInfoChangeNum = 0
  /\ m_bHasRedirect = FALSE
  /\ m_bTempRedirect = FALSE
  /\ m_bRedirected = FALSE
  /\ m_vectorServerInfo = <<LoginServer>>
  /\ m_listSvrInfoUsed = {LoginServer}
  /\ m_objServerAddr = LoginServer
  /\ req = [r \in Request |-> [kind |-> "MESSAGE", epoch |-> 0,
                               outcome |-> "unsent", copies |-> 0]]
  /\ wire = {}
  /\ unregistered = 0

Noted == {m_mapCSeqToSipMsgInfo[c].req : c \in CSeq} \ {NoRequest}

-----------------------------------------------------------------------------
(* Sending.                                                                *)

\* CDcgStack draws the sequence number of an INVITE (and one more for its
\* dialog) and of a SUBSCRIBE, and the wrapper keeps it as the CSeq, also when
\* the request is sent again; for the others SetVarHeader draws a new one for
\* every copy.
Drawn(k) == CASE k = "INVITE" -> 2 [] k = "SUBSCRIBE" -> 1 [] OTHER -> 0
KeepsCSeq(k) == Drawn(k) > 0

\* SetSpecialHeader of all wrappers but SUBSCRIBE's sets m_bRegister.
SetsRegister(k) == k # "SUBSCRIBE"

ExpiresHeader(k) == CASE k = "REGISTER" -> ulExpireTime [] OTHER -> 0

\* Every SDK call but SIP_SDK_REGISTER is refused before a REGISTER succeeded.
g_isReg == \E r \in Request : req[r].kind = "REGISTER" /\ req[r].outcome = "succeeded"
MayCall(k) == k = "REGISTER" \/ g_isReg

\* SendMsg ends at one of its early returns.
SendMsgFails(r, k) ==
  /\ req[r].outcome = "unsent" /\ MayCall(k)
  /\ \E stage \in {"create", "header", "send"} :
       /\ m_ulCSeq' = m_ulCSeq + (IF stage = "send" /\ Drawn(k) = 0 THEN 1 ELSE Drawn(k))
       /\ m_ulCSeq' <= MaxCSeq
       /\ m_bRegister' = (m_bRegister \/ (SetsRegister(k) /\ stage # "create"))
  /\ req' = [req EXCEPT ![r].outcome = "refused"]
  /\ UNCHANGED <<m_mapCSeqToSipMsgInfo, ulExpireTime, m_ulPlatAuthInfoChangeNum,
                 redirectVars, wire, unregistered>>

\* The request is noted, handed to the library and, SetVarHeader having drawn
\* its CSeq unless CDcgStack has, it is on the wire.
SendMsg(r, k) ==
  /\ req[r].outcome = "unsent" /\ MayCall(k) /\ k # "UNREGISTER"
  /\ m_ulCSeq' = m_ulCSeq + (IF KeepsCSeq(k) THEN Drawn(k) ELSE 1)
  /\ m_ulCSeq' <= MaxCSeq
  /\ LET copy == [cseq |-> m_ulCSeq + 1, req |-> r, expires |-> ExpiresHeader(k)]
     IN /\ wire' = wire \cup {copy}
        /\ m_mapCSeqToSipMsgInfo' =
             [m_mapCSeqToSipMsgInfo EXCEPT ![copy.cseq] = Info(r, copy.expires)]
  /\ m_bRegister' = (m_bRegister \/ SetsRegister(k))
  /\ req' = [req EXCEPT ![r] = [kind |-> k, epoch |-> unregistered,
                                outcome |-> "waiting", copies |-> 1]]
  /\ UNCHANGED <<ulExpireTime, m_ulPlatAuthInfoChangeNum, redirectVars, unregistered>>

\* Every transaction is ended and every note freed.
ClearAllMsgInfo == m_mapCSeqToSipMsgInfo' = [c \in CSeq |-> NoInfo]

\* An UNREGISTER that was sent ends the registration at once, and with it
\* every transaction, its own included: its answer is never seen.
SendUnRegister(r) ==
  /\ req[r].outcome = "unsent" /\ MayCall("UNREGISTER")
  /\ m_ulCSeq < MaxCSeq
  /\ m_ulCSeq' = m_ulCSeq + 1
  /\ wire' = wire \cup {[cseq |-> m_ulCSeq', req |-> r, expires |-> 0]}
  /\ m_bRegister' = FALSE
  /\ ClearAllMsgInfo
  /\ req' = [q \in Request |->
               IF q = r THEN [kind |-> "UNREGISTER", epoch |-> unregistered,
                              outcome |-> "cleared", copies |-> 1]
               ELSE IF q \in Noted THEN [req[q] EXCEPT !.outcome = "cleared"]
               ELSE req[q]]
  /\ unregistered' = unregistered + 1
  /\ UNCHANGED <<ulExpireTime, m_ulPlatAuthInfoChangeNum, redirectVars>>

-----------------------------------------------------------------------------
(* Final answers: HandleSipTxnHiSfRspInd.                                  *)

\* An answer is looked at only while m_bRegister is set and its CSeq noted.
Expected(c) == m_bRegister /\ m_mapCSeqToSipMsgInfo[c] # NoInfo
Asker(c) == m_mapCSeqToSipMsgInfo[c].req

\* Mutant: the note is found but stays in the map.
GetSipMsgInfoByCSeqMutant(c) == m_mapCSeqToSipMsgInfo

\* The map without the note that answers to CSeq c.
GetSipMsgInfoByCSeq(c) == [m_mapCSeqToSipMsgInfo EXCEPT ![c] = NoInfo]

Use(s) ==
  /\ m_listSvrInfoUsed' = m_listSvrInfoUsed \cup {s}
  /\ m_objServerAddr' = s

\* With the flag set, the first server not used before becomes the server and
\* a redirect event swallows the answer; the flag stays set.  Without such a
\* server, or when the event queue is full, the answer is reported.
HasRedirectEvent(r, outcome, has, temp, servers) ==
  LET fresh == {i \in DOMAIN servers : servers[i] \notin m_listSvrInfoUsed}
  IN \/ /\ has /\ fresh # {}
        /\ Use(servers[Min(fresh)])
        /\ m_bRedirected' = (m_bRedirected \/ ~temp)
        /\ \E added \in BOOLEAN :
             /\ m_bHasRedirect' = added
             /\ req' = [req EXCEPT ![r].outcome = IF added THEN "redirected" ELSE outcome]
     \/ /\ ~has \/ fresh = {}
        /\ m_bHasRedirect' = FALSE
        /\ req' = [req EXCEPT ![r].outcome = outcome]
        /\ UNCHANGED <<m_bRedirected, m_listSvrInfoUsed, m_objServerAddr>>

\* Mutant: the count of challenges is not begun anew.
ResetChangesMutant == UNCHANGED m_ulPlatAuthInfoChangeNum

ResetChanges == m_ulPlatAuthInfoChangeNum' = 0

\* What every final answer but a 401 sent again ends with.
Conclude(c, outcome, has, temp, servers) ==
  /\ m_mapCSeqToSipMsgInfo' = GetSipMsgInfoByCSeq(c)
  /\ ResetChanges
  /\ m_bTempRedirect' = temp
  /\ m_vectorServerInfo' = servers
  /\ HasRedirectEvent(Asker(c), outcome, has, temp, servers)
  /\ UNCHANGED <<wire, unregistered>>

\* 200 to a REGISTER: the redirect is over, and the Expires granted, or 0
\* when the answer has no such header, becomes the next REGISTER's.
HandleSuccessRespRegister(c) ==
  /\ Expected(c) /\ req[Asker(c)].kind = "REGISTER"
  /\ ulExpireTime' \in GrantedExpires \cup {0}
  /\ m_bRegister' = TRUE
  /\ Conclude(c, "succeeded", FALSE, m_bTempRedirect, m_vectorServerInfo)
  /\ UNCHANGED m_ulCSeq

\* 200 to another request; that to an INVITE is reported only with a body.
HandleSuccess(c) ==
  /\ Expected(c) /\ req[Asker(c)].kind # "REGISTER"
  /\ \E outcome \in {"succeeded", "silent"} :
       /\ outcome = "silent" => req[Asker(c)].kind = "INVITE"
       /\ Conclude(c, outcome, m_bHasRedirect, m_bTempRedirect, m_vectorServerInfo)
  /\ UNCHANGED <<m_ulCSeq, m_bRegister, ulExpireTime>>

\* 408 and every code without a case of its own.
HandleFailure(c) ==
  /\ Expected(c)
  /\ Conclude(c, "failed", m_bHasRedirect, m_bTempRedirect, m_vectorServerInfo)
  /\ UNCHANGED <<m_ulCSeq, m_bRegister, ulExpireTime>>

\* 301 and 302; GetRedirectInfo replaces the servers by the answer's.
HandleRedirect(c) ==
  /\ Expected(c)
  /\ \E temporarily \in BOOLEAN, servers \in Contacts :
       Conclude(c, "failed", TRUE, m_bTempRedirect \/ temporarily, servers)
  /\ UNCHANGED <<m_ulCSeq, m_bRegister, ulExpireTime>>

\* Mutant: the limit is not tested.
WithinLimitMutant == TRUE

WithinLimit == m_ulPlatAuthInfoChangeNum <= MAX_NUM_AUTH_INFO_CHANGE

\* Mutant: the changes are not counted.
CountChangeMutant == UNCHANGED m_ulPlatAuthInfoChangeNum

CountChange == m_ulPlatAuthInfoChangeNum' = m_ulPlatAuthInfoChangeNum + 1

\* Mutant: SetVarHeader keeps the CSeq of the copy that was challenged.
ResendCSeqMutant(c) == c

\* The CSeq of the copy sent again, where c was challenged.
ResendCSeq(c) == IF KeepsCSeq(req[Asker(c)].kind) THEN c ELSE m_ulCSeq + 1

Larger(a, b) == IF a < b THEN b ELSE a

\* 401, answered by sending the noted message again.
ReAuth(c) ==
  /\ Expected(c)
  /\ WithinLimit
  /\ CountChange
  /\ LET info == m_mapCSeqToSipMsgInfo[c]
         again == ResendCSeq(c)
     IN /\ again <= MaxCSeq
        /\ m_ulCSeq' = Larger(m_ulCSeq, again)
        /\ m_mapCSeqToSipMsgInfo' = [GetSipMsgInfoByCSeq(c) EXCEPT ![again] = info]
        /\ wire' = wire \cup {[cseq |-> again, req |-> info.req, expires |-> info.expires]}
        /\ req' = [req EXCEPT ![info.req].copies = @ + 1]
  /\ UNCHANGED <<m_bRegister, ulExpireTime, redirectVars, unregistered>>

\* 401, reported: it has no challenge, the limit is reached, or the copy
\* could not be sent, before or after its CSeq was drawn.
HandleUnAuthRespFails(c) ==
  /\ Expected(c)
  /\ m_ulCSeq' \in {m_ulCSeq} \cup (IF WithinLimit THEN {Larger(m_ulCSeq, ResendCSeq(c))} ELSE {})
  /\ m_ulCSeq' <= MaxCSeq
  /\ Conclude(c, "failed", m_bHasRedirect, m_bTempRedirect, m_vectorServerInfo)
  /\ UNCHANGED <<m_bRegister, ulExpireTime>>

Send(r) == (\E k \in Kind : SendMsg(r, k) \/ SendMsgFails(r, k)) \/ SendUnRegister(r)
Answer(c) ==
  \/ HandleSuccessRespRegister(c) \/ HandleSuccess(c) \/ HandleFailure(c)
  \/ HandleRedirect(c) \/ ReAuth(c) \/ HandleUnAuthRespFails(c)

Next == (\E r \in Request : Send(r)) \/ (\E c \in CSeq : Answer(c))

Spec == Init /\ [][Next]_vars

-----------------------------------------------------------------------------
(* Properties.                                                             *)

\* A request has one outcome: it is noted under exactly one CSeq while its
\* answer is awaited, through every challenge, and under none afterwards, so
\* no answer, late, doubled or out of order, is reported a second time; and
\* while answers are dropped because of m_bRegister, nobody waits for one but
\* a SUBSCRIBE, whose wrapper does not set the flag.
OneOutcome ==
  /\ \A r \in Request :
       Cardinality({c \in CSeq : m_mapCSeqToSipMsgInfo[c].req = r}) =
         IF req[r].outcome = "waiting" THEN 1 ELSE 0
  /\ ~m_bRegister => \A r \in Noted : req[r].kind = "SUBSCRIBE"

\* Two copies on the wire with one CSeq are copies of one challenged INVITE or
\* SUBSCRIBE: every copy of another request has a CSeq of its own, by which a
\* late answer to the challenged copy is told from the answer to the next.
OwnCSeq ==
  /\ \A v, w \in wire : v.cseq = w.cseq => v.req = w.req
  /\ \A r \in Request :
       ~KeepsCSeq(req[r].kind) => Cardinality({w \in wire : w.req = r}) = req[r].copies

\* Challenges end: between two requests concluded, at most one copy more than
\* the limit is sent again, whichever requests are challenged meanwhile.  And
\* redirects end: every answer swallowed by a redirect event brought a server
\* the stack had not used yet.
ResendsAreBounded ==
  LET resent == UNION {{r} \X (2..req[r].copies) : r \in Request}
      concluded == {r \in Request : req[r].outcome \in Reported \cup {"silent", "redirected"}}
      redirected == {r \in Request : req[r].outcome = "redirected"}
  IN /\ Cardinality(resent) <=
          (MAX_NUM_AUTH_INFO_CHANGE + 1) * (Cardinality(concluded) + 1)
     /\ Cardinality(redirected) < Cardinality(m_listSvrInfoUsed)

\* What was sent before an UNREGISTER is not reported after it, not even when
\* a later request makes the stack listen to answers again.
ReportsOfThisRegistration ==
  [][\A r \in Request :
       req'[r].outcome # req[r].outcome /\ req'[r].outcome \in Reported
         => req[r].epoch = unregistered]_vars

\* The notes, the CSeqs and the flags of the redirects implement what the
\* application is promised of its requests: each ends once, all that wait are
\* cleared at once, every answer renews the challenges that may be met, and
\* every redirect brings a new server.
Service == INSTANCE RequestService
             WITH Limit <- MAX_NUM_AUTH_INFO_CHANGE,
                  outcome <- [r \in Request |-> req[r].outcome],
                  copies <- [r \in Request |-> req[r].copies],
                  sentIn <- [r \in Request |-> req[r].epoch],
                  registration <- unregistered,
                  challenges <- m_ulPlatAuthInfoChangeNum,
                  used <- m_listSvrInfoUsed

RequestsAreServed == Service!Spec

\* A REGISTER asks for a registration, not for its end (CSipStack.cpp:1746: an
\* answer without Expires leaves 0, "the original value is used";
\* sipsdk.h:91: a validity of 0 is what UNREGISTER sends).
RegisterNeverUnregisters ==
  \A w \in wire : req[w.req].kind = "REGISTER" => w.expires # 0
=============================================================================
