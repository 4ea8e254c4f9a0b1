----------------------- MODULE SipTransactionsProofs -----------------------
(***************************************************************************)
(* Proofs about SipTransactions, for every set of requests and of servers, *)
(* every limit of challenges and every number of CSeqs.                    *)
(***************************************************************************)
EXTENDS SipTransactions, FiniteSetTheorems, WellFoundedInduction, TLAPS

\* A note is of a request that waits, has a copy on the wire under the CSeq it
\* is noted by, and was sent since the last UNREGISTER; a request that waits
\* has one note; and only SUBSCRIBEs wait while answers are not listened to.
NoteInv ==
  /\ \A c \in CSeq : Asker(c) = NoRequest => m_mapCSeqToSipMsgInfo[c] = NoInfo
  /\ \A c \in CSeq : Asker(c) # NoRequest =>
       /\ [cseq |-> c, req |-> Asker(c), expires |-> m_mapCSeqToSipMsgInfo[c].expires] \in wire
       /\ req[Asker(c)].outcome = "waiting"
       /\ m_bRegister \/ req[Asker(c)].kind = "SUBSCRIBE"
  /\ \A c, d \in CSeq : Asker(c) = Asker(d) /\ Asker(c) # NoRequest => c = d
  /\ \A r \in Request : req[r].outcome = "waiting" => \E c \in CSeq : Asker(c) = r

\* The registration a request that waits was sent under is the present one.
EpochInv ==
  \A r \in Request : req[r].outcome = "waiting" => req[r].epoch = unregistered

\* CSeqs on the wire have been drawn, by requests that were sent.
CopiesOf(r) == {w \in wire : w.req = r}

WireInv ==
  /\ IsFiniteSet(wire)
  /\ \A w \in wire : w.cseq <= m_ulCSeq /\ req[w.req].outcome # "unsent"
  /\ \A v, w \in wire : v.cseq = w.cseq => v.req = w.req
  /\ \A r \in Request :
       /\ req[r].outcome = "unsent" => req[r].copies = 0
       /\ req[r].outcome = "waiting" => req[r].copies # 0
       /\ ~KeepsCSeq(req[r].kind) => Cardinality(CopiesOf(r)) = req[r].copies

\* The copies sent again, and the requests that are concluded.
Resent == UNION {{r} \X (2..req[r].copies) : r \in Request}
Concluded == {r \in Request : req[r].outcome \in Reported \cup {"silent", "redirected"}}
Redirected == {r \in Request : req[r].outcome = "redirected"}

\* The copies sent again are paid for by the requests concluded and by the
\* count of changes since the last of these.
BoundInv ==
  /\ IsFiniteSet(Resent) /\ IsFiniteSet(Concluded)
  /\ Cardinality(Resent) <=
       (MAX_NUM_AUTH_INFO_CHANGE + 1) * Cardinality(Concluded) + m_ulPlatAuthInfoChangeNum

\* Every request redirected has brought a server.
RedirectInv ==
  /\ IsFiniteSet(Redirected) /\ IsFiniteSet(m_listSvrInfoUsed)
  /\ Cardinality(Redirected) < Cardinality(m_listSvrInfoUsed)

\* The inductive invariant.
IInv == TypeOK /\ NoteInv /\ EpochInv /\ WireInv /\ BoundInv /\ RedirectInv
-----------------------------------------------------------------------------
(* Lemmas.                                                                 *)

\* A set of natural numbers that is not empty has a least element, which the
\* stack takes when it looks for the first server not used before.
LEMMA LeastIsIn ==
  ASSUME NEW S \in SUBSET Nat, S # {}
  PROVE  Min(S) \in S
<1>1. \E x \in S : \A y \in S : x =< y
  <2>1. PICK x \in S : \A y \in S : ~ (<<y, x>> \in OpToRel(<,Nat))
    BY NatLessThanWellFounded, WFMin, Zenon
  <2>2. \A y \in S : ~ (y < x)
    BY <2>1 DEF OpToRel
  <2> QED
    BY <2>2
<1> QED
  BY <1>1 DEF Min

\* The copies sent again when a request has been sent once more.
LEMMA OneCopyMore ==
  ASSUME NEW n \in [Request -> Nat], NEW m \in [Request -> Nat], NEW r \in Request,
         n[r] # 0, m[r] = n[r] + 1, \A q \in Request : q # r => m[q] = n[q]
  PROVE  /\ UNION {{q} \X (2..m[q]) : q \in Request} =
              (UNION {{q} \X (2..n[q]) : q \in Request}) \cup {<<r, m[r]>>}
         /\ <<r, m[r]>> \notin UNION {{q} \X (2..n[q]) : q \in Request}
<1> DEFINE Before == UNION {{q} \X (2..n[q]) : q \in Request}
           After == UNION {{q} \X (2..m[q]) : q \in Request}
<1>1. 2..m[r] = (2..n[r]) \cup {m[r]}
  OBVIOUS
<1>2. {r} \X (2..m[r]) = ({r} \X (2..n[r])) \cup {<<r, m[r]>>}
  BY <1>1
<1>3. \A q \in Request : q # r => {q} \X (2..m[q]) = {q} \X (2..n[q])
  OBVIOUS
<1>4. After \subseteq Before \cup {<<r, m[r]>>}
  <2> SUFFICES ASSUME NEW q \in Request, NEW p \in {q} \X (2..m[q])
               PROVE  p \in Before \cup {<<r, m[r]>>}
    OBVIOUS
  <2> QED
    BY <1>2, <1>3
<1>5. Before \subseteq After
  <2> SUFFICES ASSUME NEW q \in Request, NEW p \in {q} \X (2..n[q])
               PROVE  p \in After
    OBVIOUS
  <2> QED
    BY <1>2, <1>3
<1>6. <<r, m[r]>> \in After
  BY <1>2
<1>7. <<r, m[r]>> \notin Before
  <2> SUFFICES ASSUME NEW q \in Request, <<r, m[r]>> \in {q} \X (2..n[q])
               PROVE  FALSE
    OBVIOUS
  <2>1. r = q /\ m[r] \in 2..n[q]
    OBVIOUS
  <2> QED
    BY <2>1
<1>8. After = Before \cup {<<r, m[r]>>}
  <2> HIDE DEF After, Before
  <2> QED
    BY <1>4, <1>5, <1>6
<1> QED
  BY <1>7, <1>8

\* The counts of the invariant are natural numbers.
LEMMA Counts ==
  ASSUME IInv
  PROVE  /\ Cardinality(Resent) \in Nat
         /\ Cardinality(Concluded) \in Nat
         /\ Cardinality(Redirected) \in Nat
         /\ Cardinality(m_listSvrInfoUsed) \in Nat
         /\ MAX_NUM_AUTH_INFO_CHANGE \in Nat
BY FS_CardinalityType, SipTransactionsAssumption DEF IInv, BoundInv, RedirectInv

\* One element more.
LEMMA OneMore ==
  ASSUME NEW S, NEW x, x \notin S, IsFiniteSet(S)
  PROVE  IsFiniteSet(S \cup {x}) /\ Cardinality(S \cup {x}) = Cardinality(S) + 1
BY FS_AddElement

\* The types of the notes, the requests and the wire.
LEMMA Types ==
  ASSUME TypeOK
  PROVE  /\ m_mapCSeqToSipMsgInfo \in
              [CSeq -> [req : Request \cup {NoRequest}, expires : Nat]]
         /\ req \in [Request -> [kind : Kind, epoch : Nat, outcome : Outcome, copies : Nat]]
         /\ wire \subseteq [cseq : CSeq, req : Request, expires : Nat]
         /\ m_ulCSeq \in Nat /\ m_ulCSeq <= MaxCSeq /\ MaxCSeq \in Nat
         /\ CSeq \subseteq Nat /\ \A i \in Nat : i \in CSeq <=> i # 0 /\ i <= MaxCSeq
BY SipTransactionsAssumption DEF TypeOK, CSeq

\* A CSeq that is answered is noted by a request that waits.
LEMMA ExpectedIsNoted ==
  ASSUME TypeOK, NoteInv, NEW c \in CSeq, Expected(c)
  PROVE  /\ Asker(c) \in Request /\ Asker(c) # NoRequest
         /\ m_bRegister
         /\ req[Asker(c)].outcome = "waiting"
<1>1. Asker(c) \in Request \cup {NoRequest}
  BY Types DEF Asker
<1>2. Asker(c) # NoRequest /\ m_bRegister
  BY DEF NoteInv, Expected
<1> QED
  BY <1>1, <1>2 DEF NoteInv

-----------------------------------------------------------------------------
(* A final answer that is not answered by a copy.                          *)

\* The outcome of a request is set once; a redirect event brings a server.
Final == Reported \cup {"silent", "redirected"}
Ends(r, o) ==
  /\ req' = [req EXCEPT ![r].outcome = o]
  /\ o = "redirected" =>
       \E s \in Server : /\ s \notin m_listSvrInfoUsed
                         /\ m_listSvrInfoUsed' = m_listSvrInfoUsed \cup {s}

\* What concluding a request may change.
LEMMA ConcludeEffect ==
  ASSUME TypeOK, NEW c \in CSeq, Asker(c) \in Request,
         NEW outcome \in Reported \cup {"silent"}, NEW has \in BOOLEAN,
         NEW temp \in BOOLEAN, NEW servers \in Seq(Server),
         Conclude(c, outcome, has, temp, servers)
  PROVE  /\ \E o \in Final : Ends(Asker(c), o)
         /\ \/ m_listSvrInfoUsed' = m_listSvrInfoUsed
            \/ \E s \in Server : m_listSvrInfoUsed' = m_listSvrInfoUsed \cup {s}
         /\ m_objServerAddr' \in m_listSvrInfoUsed'
         /\ m_bHasRedirect' \in BOOLEAN /\ m_bTempRedirect' \in BOOLEAN
         /\ m_bRedirected' \in BOOLEAN /\ m_vectorServerInfo' \in Seq(Server)
<1> DEFINE fresh == {i \in DOMAIN servers : servers[i] \notin m_listSvrInfoUsed}
<1>1. /\ m_bTempRedirect' = temp /\ m_vectorServerInfo' = servers
      /\ HasRedirectEvent(Asker(c), outcome, has, temp, servers)
  BY DEF Conclude
<1>2. m_objServerAddr \in m_listSvrInfoUsed /\ m_bRedirected \in BOOLEAN
  BY DEF TypeOK
<1>3. CASE has /\ fresh # {}
  <2>1. fresh \in SUBSET Nat
    OBVIOUS
  <2>2. Min(fresh) \in fresh
    BY <1>3, <2>1, LeastIsIn
  <2> DEFINE s == servers[Min(fresh)]
  <2>3. s \in Server /\ s \notin m_listSvrInfoUsed
    BY <2>2
  <2>4. /\ Use(s)
        /\ m_bRedirected' = (m_bRedirected \/ ~temp)
        /\ \E added \in BOOLEAN :
             /\ m_bHasRedirect' = added
             /\ req' = [req EXCEPT ![Asker(c)].outcome =
                          IF added THEN "redirected" ELSE outcome]
    BY <1>1, <1>3 DEF HasRedirectEvent
  <2> HIDE DEF s, fresh
  <2>5. m_listSvrInfoUsed' = m_listSvrInfoUsed \cup {s} /\ m_objServerAddr' = s
    BY <2>4 DEF Use
  <2>6. PICK added \in BOOLEAN :
          /\ m_bHasRedirect' = added
          /\ req' = [req EXCEPT ![Asker(c)].outcome =
                       IF added THEN "redirected" ELSE outcome]
    BY <2>4
  <2>7. \E o \in Final : Ends(Asker(c), o)
    <3>1. CASE added
      <4>1. req' = [req EXCEPT ![Asker(c)].outcome = "redirected"]
        BY <2>6, <3>1
      <4> QED
        BY <4>1, <2>3, <2>5 DEF Final, Ends
    <3>2. CASE ~added
      <4>1. req' = [req EXCEPT ![Asker(c)].outcome = outcome]
        BY <2>6, <3>2
      <4> QED
        BY <4>1, <2>3, <2>5 DEF Final, Ends
    <3> QED
      BY <3>1, <3>2
  <2> QED
    BY <1>1, <1>2, <2>3, <2>4, <2>5, <2>6, <2>7
<1>4. CASE ~(has /\ fresh # {})
  <2>1. /\ m_bHasRedirect' = FALSE
        /\ req' = [req EXCEPT ![Asker(c)].outcome = outcome]
        /\ UNCHANGED <<m_bRedirected, m_listSvrInfoUsed, m_objServerAddr>>
    BY <1>1, <1>4 DEF HasRedirectEvent
  <2>2. outcome \in Final /\ Ends(Asker(c), outcome)
    BY <2>1 DEF Final, Reported, Ends
  <2> QED
    BY <1>1, <1>2, <2>1, <2>2
<1> QED
  BY <1>3, <1>4

\* It preserves the invariant: the note is gone, the request has its outcome,
\* and the requests concluded are one more.
LEMMA ConcludeStep ==
  ASSUME IInv, NEW c \in CSeq, Expected(c),
         NEW outcome \in Reported \cup {"silent"}, NEW has \in BOOLEAN,
         NEW temp \in BOOLEAN, NEW servers \in Seq(Server),
         Conclude(c, outcome, has, temp, servers),
         m_bRegister', m_bRegister' \in BOOLEAN, ulExpireTime' \in Nat,
         m_ulCSeq' \in Nat, m_ulCSeq <= m_ulCSeq', m_ulCSeq' <= MaxCSeq
  PROVE  IInv'
<1> DEFINE r == Asker(c)
<1>1. /\ r \in Request /\ r # NoRequest
      /\ req[r].outcome = "waiting"
  BY ExpectedIsNoted DEF IInv
<1>2. PICK o \in Final : Ends(r, o)
  BY <1>1, ConcludeEffect DEF IInv
<1>3. /\ \/ m_listSvrInfoUsed' = m_listSvrInfoUsed
         \/ \E s \in Server : m_listSvrInfoUsed' = m_listSvrInfoUsed \cup {s}
      /\ m_objServerAddr' \in m_listSvrInfoUsed'
      /\ m_bHasRedirect' \in BOOLEAN /\ m_bTempRedirect' \in BOOLEAN
      /\ m_bRedirected' \in BOOLEAN /\ m_vectorServerInfo' \in Seq(Server)
  BY <1>1, ConcludeEffect DEF IInv
<1>4. /\ m_mapCSeqToSipMsgInfo' = [m_mapCSeqToSipMsgInfo EXCEPT ![c] = NoInfo]
      /\ m_ulPlatAuthInfoChangeNum' = 0
      /\ wire' = wire /\ unregistered' = unregistered
  BY DEF Conclude, ResetChanges, GetSipMsgInfoByCSeq
<1>5. o \in Outcome /\ o \notin {"waiting", "unsent"}
  BY DEF Final, Reported, Outcome
<1> HIDE DEF r
<1>6. /\ req' \in [Request -> [kind : Kind, epoch : Nat, outcome : Outcome, copies : Nat]]
      /\ \A q \in Request : /\ req'[q].kind = req[q].kind
                            /\ req'[q].epoch = req[q].epoch
                            /\ req'[q].copies = req[q].copies
                            /\ q # r => req'[q].outcome = req[q].outcome
      /\ req'[r].outcome = o
  <2>1. req \in [Request -> [kind : Kind, epoch : Nat, outcome : Outcome, copies : Nat]]
    BY Types DEF IInv
  <2> QED
    BY <1>1, <1>2, <1>5, <2>1 DEF Ends
<1>7. /\ m_mapCSeqToSipMsgInfo' \in
           [CSeq -> [req : Request \cup {NoRequest}, expires : Nat]]
      /\ Asker(c)' = NoRequest /\ m_mapCSeqToSipMsgInfo'[c] = NoInfo
      /\ \A d \in CSeq : d # c => m_mapCSeqToSipMsgInfo'[d] = m_mapCSeqToSipMsgInfo[d]
  <2>1. m_mapCSeqToSipMsgInfo \in
          [CSeq -> [req : Request \cup {NoRequest}, expires : Nat]]
    BY Types DEF IInv
  <2> QED
    BY <1>4, <2>1 DEF Asker, NoInfo, Info
<1>8. TypeOK'
  <2>1. /\ wire' \subseteq [cseq : CSeq, req : Request, expires : Nat]
        /\ unregistered' \in Nat /\ m_listSvrInfoUsed \subseteq Server
    BY <1>4 DEF IInv, TypeOK
  <2>2. m_ulPlatAuthInfoChangeNum' \in 0..(MAX_NUM_AUTH_INFO_CHANGE + 1)
    BY <1>4, SipTransactionsAssumption
  <2>3. m_ulCSeq' \in 0..MaxCSeq /\ m_listSvrInfoUsed' \subseteq Server
    BY <1>3, <2>1, SipTransactionsAssumption
  <2> QED
    BY <1>3, <1>6, <1>7, <2>1, <2>2, <2>3 DEF TypeOK
<1>9. \A d \in CSeq : d # c => Asker(d)' = Asker(d)
  BY <1>7 DEF Asker
<1>10. \A d \in CSeq : d # c /\ Asker(d) # NoRequest => Asker(d) # r
  BY <1>1 DEF IInv, NoteInv, r
<1>11. NoteInv'
  <2>1. \A d \in CSeq : Asker(d)' = NoRequest => m_mapCSeqToSipMsgInfo'[d] = NoInfo
    BY <1>7, <1>9 DEF IInv, NoteInv
  <2>2. \A d \in CSeq : Asker(d)' # NoRequest =>
          /\ [cseq |-> d, req |-> Asker(d)', expires |-> m_mapCSeqToSipMsgInfo'[d].expires] \in wire'
          /\ req'[Asker(d)'].outcome = "waiting"
          /\ m_bRegister'
    <3> SUFFICES ASSUME NEW d \in CSeq, Asker(d)' # NoRequest
                 PROVE  /\ [cseq |-> d, req |-> Asker(d)',
                            expires |-> m_mapCSeqToSipMsgInfo'[d].expires] \in wire'
                        /\ req'[Asker(d)'].outcome = "waiting"
      OBVIOUS
    <3>1. /\ d # c /\ Asker(d)' = Asker(d)
          /\ m_mapCSeqToSipMsgInfo'[d] = m_mapCSeqToSipMsgInfo[d]
      BY <1>7, <1>9
    <3>2. Asker(d) \in Request /\ Asker(d) # r
      BY <3>1, <1>10, Types DEF IInv, Asker
    <3>3. /\ [cseq |-> d, req |-> Asker(d), expires |-> m_mapCSeqToSipMsgInfo[d].expires] \in wire
          /\ req[Asker(d)].outcome = "waiting"
      BY <3>1 DEF IInv, NoteInv
    <3> QED
      BY <1>4, <1>6, <3>1, <3>2, <3>3
  <2>3. \A d, e \in CSeq : Asker(d)' = Asker(e)' /\ Asker(d)' # NoRequest => d = e
    BY <1>7, <1>9 DEF IInv, NoteInv
  <2>4. \A q \in Request : req'[q].outcome = "waiting" => \E d \in CSeq : Asker(d)' = q
    BY <1>5, <1>6, <1>9 DEF IInv, NoteInv, r
  <2> QED
    BY <2>1, <2>2, <2>3, <2>4 DEF NoteInv, Asker
<1>12. EpochInv'
  BY <1>4, <1>5, <1>6 DEF IInv, EpochInv
<1>13. WireInv'
  <2>1. \A w \in wire : w.cseq \in Nat /\ w.req \in Request
    BY Types DEF IInv
  <2>2. IsFiniteSet(wire') /\ \A v, w \in wire' : v.cseq = w.cseq => v.req = w.req
    BY <1>4 DEF IInv, WireInv
  <2>3. \A w \in wire' : w.cseq <= m_ulCSeq' /\ req'[w.req].outcome # "unsent"
    <3>1. \A w \in wire : w.cseq <= m_ulCSeq /\ req[w.req].outcome # "unsent"
      BY DEF IInv, WireInv
    <3>2. m_ulCSeq \in Nat
      BY Types DEF IInv
    <3>3. \A q \in Request : req[q].outcome # "unsent" => req'[q].outcome # "unsent"
      BY <1>5, <1>6
    <3> QED
      BY <1>4, <2>1, <3>1, <3>2, <3>3
  <2>4. \A q \in Request :
          /\ req'[q].outcome = "unsent" => req'[q].copies = 0
          /\ req'[q].outcome = "waiting" => req'[q].copies # 0
          /\ ~KeepsCSeq(req'[q].kind) => Cardinality(CopiesOf(q)') = req'[q].copies
    <3>1. \A q \in Request : CopiesOf(q)' = CopiesOf(q)
      BY <1>4 DEF CopiesOf
    <3> QED
      BY <1>5, <1>6, <3>1 DEF IInv, WireInv
  <2> QED
    BY <2>2, <2>3, <2>4 DEF WireInv, KeepsCSeq, Drawn
<1>14. BoundInv'
  <2>1. Resent' = Resent
    BY <1>6 DEF Resent
  <2>2. Concluded' = Concluded \cup {r} /\ r \notin Concluded
    BY <1>1, <1>6, Zenon DEF Concluded, Final, Reported
  <2>3. /\ IsFiniteSet(Concluded')
        /\ Cardinality(Concluded') = Cardinality(Concluded) + 1
    BY <2>2, OneMore DEF IInv, BoundInv
  <2>4. /\ Cardinality(Resent) \in Nat /\ Cardinality(Concluded) \in Nat
        /\ MAX_NUM_AUTH_INFO_CHANGE \in Nat
    BY Counts
  <2>5. m_ulPlatAuthInfoChangeNum \in Nat
        /\ m_ulPlatAuthInfoChangeNum <= MAX_NUM_AUTH_INFO_CHANGE + 1
    BY <2>4 DEF IInv, TypeOK
  <2>6. Cardinality(Resent) <=
          (MAX_NUM_AUTH_INFO_CHANGE + 1) * Cardinality(Concluded) + m_ulPlatAuthInfoChangeNum
    BY DEF IInv, BoundInv
  <2>7. Cardinality(Resent) <=
          (MAX_NUM_AUTH_INFO_CHANGE + 1) * (Cardinality(Concluded) + 1)
    BY <2>4, <2>5, <2>6
  <2>8. IsFiniteSet(Resent)
    BY DEF IInv, BoundInv
  <2>9. /\ (MAX_NUM_AUTH_INFO_CHANGE + 1) * (Cardinality(Concluded) + 1) + 0
             = (MAX_NUM_AUTH_INFO_CHANGE + 1) * (Cardinality(Concluded) + 1)
    BY <2>4
  <2>10. Cardinality(Resent') <=
           (MAX_NUM_AUTH_INFO_CHANGE + 1) * Cardinality(Concluded') + m_ulPlatAuthInfoChangeNum'
    BY <1>4, <2>1, <2>3, <2>7, <2>9
  <2> QED
    BY <2>1, <2>3, <2>8, <2>10 DEF BoundInv
<1>15. RedirectInv'
  <2>1. /\ IsFiniteSet(Redirected) /\ IsFiniteSet(m_listSvrInfoUsed)
        /\ Cardinality(Redirected) < Cardinality(m_listSvrInfoUsed)
    BY DEF IInv, RedirectInv
  <2>2. Cardinality(Redirected) \in Nat /\ Cardinality(m_listSvrInfoUsed) \in Nat
    BY Counts
  <2>3. CASE o = "redirected"
    <3>1. PICK s \in Server : /\ s \notin m_listSvrInfoUsed
                              /\ m_listSvrInfoUsed' = m_listSvrInfoUsed \cup {s}
      BY <1>2, <2>3 DEF Ends
    <3>2. Redirected' = Redirected \cup {r} /\ r \notin Redirected
      BY <1>1, <1>6, <2>3, Zenon DEF Redirected
    <3>3. /\ IsFiniteSet(Redirected')
          /\ Cardinality(Redirected') = Cardinality(Redirected) + 1
      BY <2>1, <3>2, OneMore
    <3>4. /\ IsFiniteSet(m_listSvrInfoUsed')
          /\ Cardinality(m_listSvrInfoUsed') = Cardinality(m_listSvrInfoUsed) + 1
      BY <2>1, <3>1, OneMore
    <3> QED
      BY <2>1, <2>2, <3>3, <3>4 DEF RedirectInv
  <2>4. CASE o # "redirected"
    <3>1. Redirected' = Redirected
      BY <1>1, <1>6, <2>4 DEF Redirected
    <3>2. /\ IsFiniteSet(m_listSvrInfoUsed')
          /\ Cardinality(m_listSvrInfoUsed') \in Nat
          /\ Cardinality(m_listSvrInfoUsed) <= Cardinality(m_listSvrInfoUsed')
      <4>1. CASE m_listSvrInfoUsed' = m_listSvrInfoUsed
        BY <2>1, <2>2, <4>1
      <4>2. ASSUME NEW s \in Server, m_listSvrInfoUsed' = m_listSvrInfoUsed \cup {s}
            PROVE  /\ IsFiniteSet(m_listSvrInfoUsed')
                   /\ Cardinality(m_listSvrInfoUsed') \in Nat
                   /\ Cardinality(m_listSvrInfoUsed) <= Cardinality(m_listSvrInfoUsed')
          <5>1. /\ IsFiniteSet(m_listSvrInfoUsed \cup {s})
                /\ Cardinality(m_listSvrInfoUsed \cup {s}) =
                     IF s \in m_listSvrInfoUsed THEN Cardinality(m_listSvrInfoUsed)
                                                ELSE Cardinality(m_listSvrInfoUsed) + 1
            BY <2>1, FS_AddElement
          <5> QED
            BY <2>2, <4>2, <5>1
      <4> QED
        BY <1>3, <4>1, <4>2
    <3> QED
      BY <2>1, <2>2, <3>1, <3>2 DEF RedirectInv
  <2> QED
    BY <2>3, <2>4
<1> QED
  BY <1>8, <1>11, <1>12, <1>13, <1>14, <1>15 DEF IInv

-----------------------------------------------------------------------------
(* Sending.                                                                *)

\* A CSeq that has not been drawn is not noted and not on the wire.
LEMMA FreshCSeq ==
  ASSUME IInv, NEW c \in CSeq, m_ulCSeq < c
  PROVE  /\ Asker(c) = NoRequest
         /\ \A w \in wire : w.cseq # c
<1>1. \A w \in wire : w.cseq # c
  <2> SUFFICES ASSUME NEW w \in wire PROVE w.cseq # c
    OBVIOUS
  <2>1. w.cseq <= m_ulCSeq
    BY DEF IInv, WireInv
  <2>2. m_ulCSeq \in Nat /\ c \in Nat
    BY Types DEF IInv
  <2> QED
    BY <2>1, <2>2
<1>2. Asker(c) = NoRequest
  <2> SUFFICES ASSUME Asker(c) # NoRequest PROVE FALSE
    OBVIOUS
  <2> DEFINE w == [cseq |-> c, req |-> Asker(c), expires |-> m_mapCSeqToSipMsgInfo[c].expires]
  <2>1. w \in wire
    BY DEF IInv, NoteInv
  <2> QED
    BY <1>1, <2>1
<1> QED
  BY <1>1, <1>2

\* The first copy of a request is on the wire: what is known of the wire and
\* of the bounds stays true, the request being neither challenged nor concluded.
LEMMA FirstCopy ==
  ASSUME IInv, NEW r \in Request, req[r].outcome = "unsent",
         NEW c \in CSeq, c = m_ulCSeq + 1, NEW x \in Nat,
         wire' = wire \cup {[cseq |-> c, req |-> r, expires |-> x]},
         m_ulCSeq' \in Nat, c <= m_ulCSeq',
         req' \in [Request -> [kind : Kind, epoch : Nat, outcome : Outcome, copies : Nat]],
         \A q \in Request : q # r =>
           /\ req'[q].kind = req[q].kind /\ req'[q].copies = req[q].copies
           /\ req'[q].outcome # req[q].outcome =>
                req[q].outcome = "waiting" /\ req'[q].outcome = "cleared",
         req'[r].copies = 1, req'[r].outcome \in {"waiting", "cleared"},
         UNCHANGED <<m_ulPlatAuthInfoChangeNum, m_listSvrInfoUsed>>
  PROVE  /\ wire' \subseteq [cseq : CSeq, req : Request, expires : Nat]
         /\ WireInv' /\ BoundInv' /\ RedirectInv'
<1> PICK copy \in [cseq : CSeq, req : Request, expires : Nat] :
      copy = [cseq |-> c, req |-> r, expires |-> x]
  OBVIOUS
<1>1. /\ wire' = wire \cup {copy} /\ copy.cseq = c /\ copy.req = r
      /\ copy \notin wire
  BY Types DEF IInv, WireInv
<1>2. /\ wire \subseteq [cseq : CSeq, req : Request, expires : Nat]
      /\ m_ulCSeq \in Nat /\ c \in Nat
      /\ req \in [Request -> [kind : Kind, epoch : Nat, outcome : Outcome, copies : Nat]]
  BY Types DEF IInv
<1>3. \A w \in wire : w.cseq # c /\ w.cseq <= m_ulCSeq /\ w.req # r /\ w.req \in Request
  <2>1. \A w \in wire : w.cseq <= m_ulCSeq /\ req[w.req].outcome # "unsent"
    BY DEF IInv, WireInv
  <2> QED
    BY <1>2, <2>1, FreshCSeq
<1>4. WireInv'
  <2>1. IsFiniteSet(wire')
    BY <1>1, FS_AddElement DEF IInv, WireInv
  <2>2. \A w \in wire' : w.cseq <= m_ulCSeq' /\ req'[w.req].outcome # "unsent"
    <3> SUFFICES ASSUME NEW w \in wire'
                 PROVE  w.cseq <= m_ulCSeq' /\ req'[w.req].outcome # "unsent"
      OBVIOUS
    <3>1. CASE w = copy
      BY <1>1, <3>1
    <3>2. CASE w \in wire
      <4>1. /\ w.req \in Request /\ w.req # r /\ req[w.req].outcome # "unsent"
            /\ w.cseq <= m_ulCSeq /\ w.cseq \in Nat
        BY <1>2, <1>3, <3>2, Types DEF IInv, WireInv
      <4>2. req'[w.req].outcome # "unsent"
        BY <4>1
      <4> QED
        BY <1>2, <4>1, <4>2
    <3> QED
      BY <1>1, <3>1, <3>2
  <2>3. \A v, w \in wire' : v.cseq = w.cseq => v.req = w.req
    BY <1>1, <1>3 DEF IInv, WireInv
  <2>4. ASSUME NEW q \in Request
        PROVE  /\ req'[q].outcome = "unsent" => req'[q].copies = 0
               /\ req'[q].outcome = "waiting" => req'[q].copies # 0
               /\ ~KeepsCSeq(req'[q].kind) => Cardinality(CopiesOf(q)') = req'[q].copies
    <3>1. CASE q = r
      <4>1. CopiesOf(r)' = {copy}
        BY <1>1, <1>3 DEF CopiesOf
      <4>2. Cardinality(CopiesOf(r)') = 1
        <5>1. Cardinality({copy}) = 1
          BY FS_Singleton
        <5> QED
          BY <4>1, <5>1
      <4> QED
        BY <3>1, <4>2
    <3>2. CASE q # r
      <4>1. CopiesOf(q)' = CopiesOf(q)
        BY <1>1, <3>2 DEF CopiesOf
      <4>2. /\ req[q].outcome = "unsent" => req[q].copies = 0
            /\ req[q].outcome = "waiting" => req[q].copies # 0
            /\ ~KeepsCSeq(req[q].kind) => Cardinality(CopiesOf(q)) = req[q].copies
        BY DEF IInv, WireInv
      <4>3. /\ req'[q].kind = req[q].kind /\ req'[q].copies = req[q].copies
            /\ req'[q].outcome # req[q].outcome =>
                 req[q].outcome = "waiting" /\ req'[q].outcome = "cleared"
        BY <3>2
      <4> QED
        BY <4>1, <4>2, <4>3
    <3> QED
      BY <3>1, <3>2
  <2> QED
    BY <2>1, <2>2, <2>3, <2>4, Zenon DEF WireInv, KeepsCSeq, Drawn
<1>5. \A q \in Request : 2..req'[q].copies = 2..req[q].copies
  <2>1. req[r].copies = 0
    BY DEF IInv, WireInv
  <2> QED
    BY <2>1
<1>6. Resent' = Resent
  <2>1. \A q \in Request : {q} \X (2..req'[q].copies) = {q} \X (2..req[q].copies)
    BY <1>5, Zenon
  <2>2. {{q} \X (2..req'[q].copies) : q \in Request} = {{q} \X (2..req[q].copies) : q \in Request}
    BY <2>1
  <2> QED
    BY <2>2, Zenon DEF Resent
<1>7. Concluded' = Concluded /\ Redirected' = Redirected
  BY Zenon DEF Concluded, Redirected, Reported
<1>8. BoundInv' /\ RedirectInv'
  BY <1>6, <1>7 DEF IInv, BoundInv, RedirectInv
<1> QED
  BY <1>1, <1>2, <1>4, <1>8

\* SendMsg: a CSeq drawn, a note under it and a copy on the wire.
LEMMA SendMsgStep ==
  ASSUME IInv, NEW r \in Request, NEW k \in Kind, SendMsg(r, k)
  PROVE  IInv'
<1>1. /\ m_mapCSeqToSipMsgInfo \in
           [CSeq -> [req : Request \cup {NoRequest}, expires : Nat]]
      /\ req \in [Request -> [kind : Kind, epoch : Nat, outcome : Outcome, copies : Nat]]
      /\ m_ulCSeq \in Nat /\ unregistered \in Nat /\ r # NoRequest
      /\ CSeq \subseteq Nat /\ \A i \in Nat : i \in CSeq <=> i # 0 /\ i <= MaxCSeq
  BY Types, SipTransactionsAssumption DEF IInv, TypeOK
<1>2. /\ m_ulCSeq' \in Nat /\ m_ulCSeq + 1 <= m_ulCSeq' /\ m_ulCSeq' <= MaxCSeq
  <2>1. Drawn(k) \in Nat /\ (KeepsCSeq(k) => Drawn(k) > 0)
    BY DEF Drawn, KeepsCSeq
  <2>2. m_ulCSeq' = m_ulCSeq + (IF KeepsCSeq(k) THEN Drawn(k) ELSE 1) /\ m_ulCSeq' <= MaxCSeq
    BY DEF SendMsg
  <2> QED
    BY <1>1, <2>1, <2>2
<1>3. PICK c \in CSeq : c = m_ulCSeq + 1
  BY <1>1, <1>2, SipTransactionsAssumption
<1>4. PICK x \in Nat : x = ExpiresHeader(k)
  BY DEF ExpiresHeader, IInv, TypeOK
<1>5. /\ wire' = wire \cup {[cseq |-> c, req |-> r, expires |-> x]}
      /\ m_mapCSeqToSipMsgInfo' = [m_mapCSeqToSipMsgInfo EXCEPT ![c] = Info(r, x)]
      /\ m_bRegister' = (m_bRegister \/ SetsRegister(k))
      /\ req' = [req EXCEPT ![r] = [kind |-> k, epoch |-> unregistered,
                                    outcome |-> "waiting", copies |-> 1]]
      /\ req[r].outcome = "unsent"
      /\ UNCHANGED <<ulExpireTime, m_ulPlatAuthInfoChangeNum, redirectVars, unregistered>>
  BY <1>3, <1>4 DEF SendMsg
<1>6. /\ req' \in [Request -> [kind : Kind, epoch : Nat, outcome : Outcome, copies : Nat]]
      /\ \A q \in Request : q # r => req'[q] = req[q]
      /\ req'[r].kind = k /\ req'[r].outcome = "waiting"
      /\ req'[r].epoch = unregistered /\ req'[r].copies = 1
  BY <1>1, <1>5 DEF Outcome
<1>7. /\ m_mapCSeqToSipMsgInfo' \in
           [CSeq -> [req : Request \cup {NoRequest}, expires : Nat]]
      /\ m_mapCSeqToSipMsgInfo'[c].req = r /\ m_mapCSeqToSipMsgInfo'[c].expires = x
      /\ \A d \in CSeq : d # c => m_mapCSeqToSipMsgInfo'[d] = m_mapCSeqToSipMsgInfo[d]
  BY <1>1, <1>5 DEF Info
<1>8. /\ wire' \subseteq [cseq : CSeq, req : Request, expires : Nat]
      /\ WireInv' /\ BoundInv' /\ RedirectInv'
  BY <1>2, <1>3, <1>5, <1>6, FirstCopy DEF redirectVars
<1>9. TypeOK'
  BY <1>2, <1>5, <1>6, <1>7, <1>8, SipTransactionsAssumption
     DEF IInv, TypeOK, redirectVars, SetsRegister
<1>10. /\ Asker(c)' = r
       /\ \A d \in CSeq : d # c => Asker(d)' = Asker(d)
       /\ Asker(c) = NoRequest
       /\ \A d \in CSeq : Asker(d) # r
  <2>1. Asker(c) = NoRequest
    BY <1>1, <1>3, FreshCSeq
  <2>2. \A d \in CSeq : Asker(d) # r
    BY <1>1, <1>5 DEF IInv, NoteInv
  <2> QED
    BY <1>7, <2>1, <2>2 DEF Asker
<1>11. NoteInv'
  <2>1. \A d \in CSeq : Asker(d)' = NoRequest => m_mapCSeqToSipMsgInfo'[d] = NoInfo
    BY <1>1, <1>7, <1>10 DEF IInv, NoteInv
  <2>2. ASSUME NEW d \in CSeq, Asker(d)' # NoRequest
        PROVE  /\ [cseq |-> d, req |-> Asker(d)',
                   expires |-> m_mapCSeqToSipMsgInfo'[d].expires] \in wire'
               /\ req'[Asker(d)'].outcome = "waiting"
               /\ m_bRegister' \/ req'[Asker(d)'].kind = "SUBSCRIBE"
    <3>1. CASE d = c
      BY <1>5, <1>6, <1>7, <1>10, <3>1 DEF SetsRegister
    <3>2. CASE d # c
      <4>1. /\ Asker(d)' = Asker(d) /\ Asker(d) # r /\ Asker(d) # NoRequest
            /\ m_mapCSeqToSipMsgInfo'[d] = m_mapCSeqToSipMsgInfo[d]
        BY <1>7, <1>10, <2>2, <3>2
      <4>2. Asker(d) \in Request
        BY <1>1, <4>1 DEF Asker
      <4>3. /\ [cseq |-> d, req |-> Asker(d), expires |-> m_mapCSeqToSipMsgInfo[d].expires] \in wire
            /\ req[Asker(d)].outcome = "waiting"
            /\ m_bRegister \/ req[Asker(d)].kind = "SUBSCRIBE"
        BY <4>1 DEF IInv, NoteInv
      <4> QED
        <5>1. req'[Asker(d)'] = req[Asker(d)]
          BY <1>6, <4>1, <4>2
        <5>2. m_bRegister => m_bRegister'
          BY <1>5
        <5>3. [cseq |-> d, req |-> Asker(d)',
               expires |-> m_mapCSeqToSipMsgInfo'[d].expires] \in wire'
          BY <1>5, <4>1, <4>3
        <5> QED
          BY <4>3, <5>1, <5>2, <5>3
    <3> QED
      BY <3>1, <3>2
  <2>3. \A d, e \in CSeq : Asker(d)' = Asker(e)' /\ Asker(d)' # NoRequest => d = e
    BY <1>10 DEF IInv, NoteInv
  <2>4. \A q \in Request : req'[q].outcome = "waiting" => \E d \in CSeq : Asker(d)' = q
    <3> SUFFICES ASSUME NEW q \in Request, req'[q].outcome = "waiting"
                 PROVE  \E d \in CSeq : Asker(d)' = q
      OBVIOUS
    <3>1. CASE q = r
      BY <1>10, <3>1
    <3>2. CASE q # r
      <4>1. PICK d \in CSeq : Asker(d) = q
        BY <1>6, <3>2 DEF IInv, NoteInv
      <4>2. d # c
        BY <1>10, <4>1, SipTransactionsAssumption
      <4> QED
        BY <1>10, <4>1, <4>2
    <3> QED
      BY <3>1, <3>2
  <2> QED
    BY <2>1, <2>2, <2>3, <2>4 DEF NoteInv, Asker
<1>12. EpochInv'
  BY <1>5, <1>6 DEF IInv, EpochInv
<1> QED
  BY <1>8, <1>9, <1>11, <1>12 DEF IInv

\* A request refused: at most CSeqs are drawn and answers listened to.
LEMMA SendMsgFailsStep ==
  ASSUME IInv, NEW r \in Request, NEW k \in Kind, SendMsgFails(r, k)
  PROVE  IInv'
<1>1. /\ req \in [Request -> [kind : Kind, epoch : Nat, outcome : Outcome, copies : Nat]]
      /\ m_ulCSeq \in Nat
  BY Types DEF IInv
<1>2. /\ m_ulCSeq' \in Nat /\ m_ulCSeq <= m_ulCSeq' /\ m_ulCSeq' <= MaxCSeq
      /\ m_bRegister' \in BOOLEAN /\ (m_bRegister => m_bRegister')
  <2>1. Drawn(k) \in Nat /\ m_bRegister \in BOOLEAN
    BY DEF Drawn, IInv, TypeOK
  <2>2. PICK stage \in {"create", "header", "send"} :
          /\ m_ulCSeq' = m_ulCSeq + (IF stage = "send" /\ Drawn(k) = 0 THEN 1 ELSE Drawn(k))
          /\ m_ulCSeq' <= MaxCSeq
          /\ m_bRegister' = (m_bRegister \/ (SetsRegister(k) /\ stage # "create"))
    BY DEF SendMsgFails
  <2> QED
    BY <1>1, <2>1, <2>2
<1>3. /\ req' = [req EXCEPT ![r].outcome = "refused"]
      /\ req[r].outcome = "unsent"
      /\ UNCHANGED <<m_mapCSeqToSipMsgInfo, ulExpireTime, m_ulPlatAuthInfoChangeNum,
                     redirectVars, wire, unregistered>>
  BY DEF SendMsgFails
<1>4. /\ req' \in [Request -> [kind : Kind, epoch : Nat, outcome : Outcome, copies : Nat]]
      /\ \A q \in Request : /\ req'[q].kind = req[q].kind /\ req'[q].epoch = req[q].epoch
                            /\ req'[q].copies = req[q].copies
                            /\ q # r => req'[q].outcome = req[q].outcome
      /\ req'[r].outcome = "refused"
  BY <1>1, <1>3 DEF Outcome
<1>5. TypeOK'
  <2>1. m_ulCSeq' \in 0..MaxCSeq
    BY <1>2, Types DEF IInv
  <2>2. /\ (ulExpireTime \in Nat)' /\ (unregistered \in Nat)'
        /\ (m_ulPlatAuthInfoChangeNum \in 0..(MAX_NUM_AUTH_INFO_CHANGE + 1))'
        /\ (m_mapCSeqToSipMsgInfo \in
               [CSeq -> [req : Request \cup {NoRequest}, expires : Nat]])'
        /\ (wire \subseteq [cseq : CSeq, req : Request, expires : Nat])'
    BY <1>3 DEF IInv, TypeOK
  <2>3. /\ ({m_bHasRedirect, m_bTempRedirect, m_bRedirected} \subseteq BOOLEAN)'
        /\ (m_vectorServerInfo \in Seq(Server))'
        /\ (m_listSvrInfoUsed \subseteq Server)'
        /\ (m_objServerAddr \in m_listSvrInfoUsed)'
    BY <1>3 DEF IInv, TypeOK, redirectVars
  <2> QED
    BY <1>2, <1>4, <2>1, <2>2, <2>3 DEF TypeOK
<1>6. \A q \in Request : req'[q].outcome = "waiting" <=> req[q].outcome = "waiting"
  BY <1>3, <1>4
<1>7. NoteInv'
  <2>1. \A d \in CSeq : /\ Asker(d)' = Asker(d)
                        /\ m_mapCSeqToSipMsgInfo'[d] = m_mapCSeqToSipMsgInfo[d]
                        /\ Asker(d) \in Request \cup {NoRequest}
    BY <1>3, Types DEF Asker, IInv
  <2>2. \A d \in CSeq : Asker(d)' = NoRequest => m_mapCSeqToSipMsgInfo'[d] = NoInfo
    BY <2>1 DEF IInv, NoteInv
  <2>3. ASSUME NEW d \in CSeq, Asker(d)' # NoRequest
        PROVE  /\ [cseq |-> d, req |-> Asker(d)',
                   expires |-> m_mapCSeqToSipMsgInfo'[d].expires] \in wire'
               /\ req'[Asker(d)'].outcome = "waiting"
               /\ m_bRegister' \/ req'[Asker(d)'].kind = "SUBSCRIBE"
    <3>1. /\ [cseq |-> d, req |-> Asker(d), expires |-> m_mapCSeqToSipMsgInfo[d].expires] \in wire
          /\ req[Asker(d)].outcome = "waiting"
          /\ m_bRegister \/ req[Asker(d)].kind = "SUBSCRIBE"
          /\ Asker(d) \in Request
      BY <2>1, <2>3 DEF IInv, NoteInv
    <3> QED
      BY <1>2, <1>3, <1>4, <1>6, <2>1, <3>1
  <2>4. \A d, e \in CSeq : Asker(d)' = Asker(e)' /\ Asker(d)' # NoRequest => d = e
    BY <2>1 DEF IInv, NoteInv
  <2>5. \A q \in Request : req'[q].outcome = "waiting" => \E d \in CSeq : Asker(d)' = q
    BY <1>6, <2>1 DEF IInv, NoteInv
  <2> QED
    BY <2>2, <2>3, <2>4, <2>5 DEF NoteInv, Asker
<1>8. EpochInv'
  BY <1>3, <1>4, <1>6 DEF IInv, EpochInv
<1>9. WireInv'
  <2>1. IsFiniteSet(wire') /\ \A v, w \in wire' : v.cseq = w.cseq => v.req = w.req
    BY <1>3 DEF IInv, WireInv
  <2>2. ASSUME NEW w \in wire'
        PROVE  w.cseq <= m_ulCSeq' /\ req'[w.req].outcome # "unsent"
    <3>1. /\ w.cseq <= m_ulCSeq /\ req[w.req].outcome # "unsent"
          /\ w.req \in Request /\ w.cseq \in Nat
      BY <1>3, <2>2, Types DEF IInv, WireInv
    <3>2. w.cseq <= m_ulCSeq'
      BY <1>1, <1>2, <3>1
    <3> QED
      BY <1>4, <3>1, <3>2
  <2>3. \A q \in Request :
          /\ req'[q].outcome = "unsent" => req'[q].copies = 0
          /\ req'[q].outcome = "waiting" => req'[q].copies # 0
          /\ ~KeepsCSeq(req'[q].kind) => Cardinality(CopiesOf(q)') = req'[q].copies
    <3>1. \A q \in Request : CopiesOf(q)' = CopiesOf(q)
      BY <1>3 DEF CopiesOf
    <3> QED
      BY <1>4, <3>1 DEF IInv, WireInv
  <2> QED
    BY <2>1, <2>2, <2>3, Zenon DEF WireInv, KeepsCSeq, Drawn
<1>10. Resent' = Resent /\ Concluded' = Concluded /\ Redirected' = Redirected
  <2>1. Resent' = Resent
    BY <1>4 DEF Resent
  <2>2. Concluded' = Concluded /\ Redirected' = Redirected
    BY <1>3, <1>4, Zenon DEF Concluded, Redirected, Reported
  <2> QED
    BY <2>1, <2>2
<1>11. BoundInv' /\ RedirectInv'
  BY <1>3, <1>10 DEF IInv, BoundInv, RedirectInv, redirectVars
<1> QED
  BY <1>5, <1>7, <1>8, <1>9, <1>11 DEF IInv

\* SendUnRegister: no note is left, and no request waits.
LEMMA SendUnRegisterStep ==
  ASSUME IInv, NEW r \in Request, SendUnRegister(r)
  PROVE  IInv'
<1>1. /\ m_mapCSeqToSipMsgInfo \in
           [CSeq -> [req : Request \cup {NoRequest}, expires : Nat]]
      /\ req \in [Request -> [kind : Kind, epoch : Nat, outcome : Outcome, copies : Nat]]
      /\ m_ulCSeq \in Nat /\ unregistered \in Nat /\ r # NoRequest
      /\ CSeq \subseteq Nat /\ \A i \in Nat : i \in CSeq <=> i # 0 /\ i <= MaxCSeq
  BY Types, SipTransactionsAssumption DEF IInv, TypeOK
<1>2. /\ req[r].outcome = "unsent"
      /\ m_ulCSeq < MaxCSeq /\ m_ulCSeq' = m_ulCSeq + 1
      /\ m_bRegister' = FALSE
      /\ m_mapCSeqToSipMsgInfo' = [c \in CSeq |-> NoInfo]
      /\ unregistered' = unregistered + 1
      /\ UNCHANGED <<ulExpireTime, m_ulPlatAuthInfoChangeNum, redirectVars>>
  BY DEF SendUnRegister, ClearAllMsgInfo
<1>3. PICK c \in CSeq : c = m_ulCSeq + 1
  BY <1>1, <1>2, SipTransactionsAssumption
<1>4. wire' = wire \cup {[cseq |-> c, req |-> r, expires |-> 0]}
  BY <1>2, <1>3 DEF SendUnRegister
<1>5. req' = [q \in Request |->
                IF q = r THEN [kind |-> "UNREGISTER", epoch |-> unregistered,
                               outcome |-> "cleared", copies |-> 1]
                ELSE IF q \in Noted THEN [req[q] EXCEPT !.outcome = "cleared"]
                ELSE req[q]]
  BY DEF SendUnRegister
<1>6. \A q \in Request : q \in Noted <=> req[q].outcome = "waiting"
  <2>1. \A q \in Request : q \in Noted <=> \E d \in CSeq : Asker(d) = q
    BY SipTransactionsAssumption DEF Noted, Asker
  <2> QED
    <3>1. \A d \in CSeq : Asker(d) # NoRequest => req[Asker(d)].outcome = "waiting"
      BY DEF IInv, NoteInv
    <3>2. \A q \in Request : req[q].outcome = "waiting" => \E d \in CSeq : Asker(d) = q
      BY DEF IInv, NoteInv
    <3>3. \A q \in Request : q # NoRequest
      BY SipTransactionsAssumption
    <3> QED
      BY <2>1, <3>1, <3>2, <3>3
<1>7. /\ req'[r].outcome = "cleared" /\ req'[r].copies = 1
      /\ req'[r] \in [kind : Kind, epoch : Nat, outcome : Outcome, copies : Nat]
  <2>1. req'[r] = [kind |-> "UNREGISTER", epoch |-> unregistered,
                   outcome |-> "cleared", copies |-> 1]
    BY <1>5
  <2> QED
    BY <1>1, <2>1 DEF Kind, Outcome
<1>8. ASSUME NEW q \in Request, q # r
      PROVE  /\ req'[q].kind = req[q].kind /\ req'[q].copies = req[q].copies
             /\ req'[q].outcome =
                  IF req[q].outcome = "waiting" THEN "cleared" ELSE req[q].outcome
             /\ req'[q] \in [kind : Kind, epoch : Nat, outcome : Outcome, copies : Nat]
  <2>1. CASE req[q].outcome = "waiting"
    <3>1. req'[q] = [req[q] EXCEPT !.outcome = "cleared"]
      BY <1>5, <1>6, <1>8, <2>1
    <3> QED
      BY <1>1, <2>1, <3>1 DEF Outcome
  <2>2. CASE req[q].outcome # "waiting"
    <3>1. req'[q] = req[q]
      BY <1>5, <1>6, <1>8, <2>2
    <3> QED
      BY <1>1, <2>2, <3>1
  <2> QED
    BY <2>1, <2>2
<1>9. req' \in [Request -> [kind : Kind, epoch : Nat, outcome : Outcome, copies : Nat]]
  <2>1. req' = [q \in Request |-> req'[q]]
    BY <1>5
  <2>2. \A q \in Request :
          req'[q] \in [kind : Kind, epoch : Nat, outcome : Outcome, copies : Nat]
    BY <1>7, <1>8
  <2> QED
    BY <2>1, <2>2
<1>10. /\ wire' \subseteq [cseq : CSeq, req : Request, expires : Nat]
       /\ WireInv' /\ BoundInv' /\ RedirectInv'
  <2>1. \A q \in Request : q # r =>
          /\ req'[q].kind = req[q].kind /\ req'[q].copies = req[q].copies
          /\ req'[q].outcome # req[q].outcome =>
               req[q].outcome = "waiting" /\ req'[q].outcome = "cleared"
    BY <1>8
  <2>2. m_ulCSeq' \in Nat /\ c <= m_ulCSeq'
    BY <1>1, <1>2, <1>3
  <2> QED
    BY <1>2, <1>3, <1>4, <1>7, <1>9, <2>1, <2>2, FirstCopy DEF redirectVars
<1>11. TypeOK'
  <2>1. m_mapCSeqToSipMsgInfo' \in
          [CSeq -> [req : Request \cup {NoRequest}, expires : Nat]]
    BY <1>2 DEF NoInfo, Info
  <2>2. m_ulCSeq' \in 0..MaxCSeq /\ unregistered' \in Nat
    BY <1>1, <1>2, SipTransactionsAssumption
  <2> QED
    BY <1>2, <1>9, <1>10, <2>1, <2>2 DEF IInv, TypeOK, redirectVars
<1>12. \A q \in Request : req'[q].outcome # "waiting"
  BY <1>7, <1>8
<1>13. \A d \in CSeq : m_mapCSeqToSipMsgInfo'[d] = NoInfo /\ Asker(d)' = NoRequest
  BY <1>2 DEF Asker, NoInfo, Info
<1>14. NoteInv' /\ EpochInv'
  BY <1>12, <1>13 DEF NoteInv, EpochInv, Asker
<1> QED
  BY <1>10, <1>11, <1>14 DEF IInv

-----------------------------------------------------------------------------
(* A copy sent again.                                                      *)

\* A challenged INVITE or SUBSCRIBE is sent again under its CSeq, and notes
\* and wire stay as they are; another request has its note moved to a CSeq
\* that has not been drawn, and one copy more on the wire.
LEMMA ReAuthStep ==
  ASSUME IInv, NEW c \in CSeq, ReAuth(c)
  PROVE  IInv'
<1> DEFINE again == ResendCSeq(c)
<1>1. PICK r \in Request : r = Asker(c)
  BY ExpectedIsNoted DEF IInv, ReAuth
<1>2. req[r].outcome = "waiting" /\ r # NoRequest /\ m_bRegister
  BY <1>1, ExpectedIsNoted DEF IInv, ReAuth
<1>3. PICK x \in Nat : x = m_mapCSeqToSipMsgInfo[c].expires
  BY Types DEF IInv
<1>4. /\ m_mapCSeqToSipMsgInfo \in
           [CSeq -> [req : Request \cup {NoRequest}, expires : Nat]]
      /\ req \in [Request -> [kind : Kind, epoch : Nat, outcome : Outcome, copies : Nat]]
      /\ wire \subseteq [cseq : CSeq, req : Request, expires : Nat]
      /\ m_ulCSeq \in Nat /\ m_ulCSeq <= MaxCSeq /\ MaxCSeq \in Nat
      /\ CSeq \subseteq Nat /\ \A i \in Nat : i \in CSeq <=> i # 0 /\ i <= MaxCSeq
  BY Types DEF IInv
<1>5. [cseq |-> c, req |-> r, expires |-> x] \in wire /\ c <= m_ulCSeq
  <2>1. [cseq |-> c, req |-> r, expires |-> x] \in wire
    BY <1>1, <1>2, <1>3 DEF IInv, NoteInv
  <2>2. [cseq |-> c, req |-> r, expires |-> x].cseq <= m_ulCSeq
    BY <2>1 DEF IInv, WireInv
  <2> QED
    BY <2>1, <2>2
<1>6. PICK a \in CSeq :
        /\ a = again
        /\ m_ulCSeq' = Larger(m_ulCSeq, a)
        /\ m_mapCSeqToSipMsgInfo' =
             [GetSipMsgInfoByCSeq(c) EXCEPT ![a] = m_mapCSeqToSipMsgInfo[c]]
        /\ wire' = wire \cup {[cseq |-> a, req |-> r, expires |-> x]}
        /\ req' = [req EXCEPT ![r].copies = @ + 1]
  <2>1. again = c \/ again = m_ulCSeq + 1
    BY DEF ResendCSeq
  <2>2. again <= MaxCSeq
    BY DEF ReAuth
  <2>3. again \in CSeq
    BY <1>4, <2>1, <2>2
  <2>4. /\ m_ulCSeq' = Larger(m_ulCSeq, again)
        /\ m_mapCSeqToSipMsgInfo' =
             [GetSipMsgInfoByCSeq(c) EXCEPT ![again] = m_mapCSeqToSipMsgInfo[c]]
        /\ wire' = wire \cup {[cseq |-> again, req |-> m_mapCSeqToSipMsgInfo[c].req,
                               expires |-> m_mapCSeqToSipMsgInfo[c].expires]}
        /\ req' = [req EXCEPT ![m_mapCSeqToSipMsgInfo[c].req].copies = @ + 1]
    BY DEF ReAuth
  <2>5. m_mapCSeqToSipMsgInfo[c].req = r
    BY <1>1 DEF Asker
  <2> HIDE DEF again
  <2> QED
    BY <1>3, <2>3, <2>4, <2>5
<1>7. /\ WithinLimit
      /\ m_ulPlatAuthInfoChangeNum' = m_ulPlatAuthInfoChangeNum + 1
      /\ UNCHANGED <<m_bRegister, ulExpireTime, redirectVars, unregistered>>
  BY DEF ReAuth, CountChange
<1>8. /\ req' \in [Request -> [kind : Kind, epoch : Nat, outcome : Outcome, copies : Nat]]
      /\ \A q \in Request : /\ req'[q].kind = req[q].kind /\ req'[q].epoch = req[q].epoch
                            /\ req'[q].outcome = req[q].outcome
                            /\ q # r => req'[q].copies = req[q].copies
      /\ req'[r].copies = req[r].copies + 1
  BY <1>4, <1>6
<1>9. IF KeepsCSeq(req[r].kind) THEN a = c ELSE a = m_ulCSeq + 1
  BY <1>1, <1>6 DEF ResendCSeq
<1> HIDE DEF again
<1>10. m_ulCSeq' \in Nat /\ m_ulCSeq <= m_ulCSeq' /\ a <= m_ulCSeq' /\ m_ulCSeq' <= MaxCSeq
  BY <1>4, <1>6 DEF Larger
<1>11. /\ m_mapCSeqToSipMsgInfo' \in
            [CSeq -> [req : Request \cup {NoRequest}, expires : Nat]]
       /\ m_mapCSeqToSipMsgInfo'[a] = m_mapCSeqToSipMsgInfo[c]
       /\ a # c => m_mapCSeqToSipMsgInfo'[c] = NoInfo
       /\ \A d \in CSeq : d # c /\ d # a => m_mapCSeqToSipMsgInfo'[d] = m_mapCSeqToSipMsgInfo[d]
  BY <1>4, <1>6 DEF GetSipMsgInfoByCSeq, NoInfo, Info
<1>12. /\ Asker(a)' = r
       /\ a # c => Asker(c)' = NoRequest /\ Asker(a) = NoRequest
       /\ \A d \in CSeq : d # c /\ d # a => Asker(d)' = Asker(d)
       /\ \A d \in CSeq : Asker(d) = r => d = c
  <2>1. a # c => Asker(a) = NoRequest
    <3> SUFFICES ASSUME a # c PROVE Asker(a) = NoRequest
      OBVIOUS
    <3>1. m_ulCSeq < a
      BY <1>4, <1>9
    <3> QED
      BY <3>1, FreshCSeq
  <2>2. \A d \in CSeq : Asker(d) = r => d = c
    BY <1>1, <1>2 DEF IInv, NoteInv
  <2> QED
    BY <1>1, <1>11, <2>1, <2>2 DEF Asker, NoInfo, Info
<1>13. TypeOK'
  <2>1. wire' \subseteq [cseq : CSeq, req : Request, expires : Nat]
    BY <1>4, <1>6
  <2>2. m_ulPlatAuthInfoChangeNum' \in 0..(MAX_NUM_AUTH_INFO_CHANGE + 1)
    BY <1>7, SipTransactionsAssumption DEF WithinLimit, IInv, TypeOK
  <2>3. m_ulCSeq' \in 0..MaxCSeq
    BY <1>4, <1>10
  <2> QED
    BY <1>7, <1>8, <1>11, <2>1, <2>2, <2>3 DEF IInv, TypeOK, redirectVars
<1>14. NoteInv'
  <2>1. \A d \in CSeq : Asker(d)' = NoRequest => m_mapCSeqToSipMsgInfo'[d] = NoInfo
    BY <1>2, <1>11, <1>12 DEF IInv, NoteInv
  <2>2. ASSUME NEW d \in CSeq, Asker(d)' # NoRequest
        PROVE  /\ [cseq |-> d, req |-> Asker(d)',
                   expires |-> m_mapCSeqToSipMsgInfo'[d].expires] \in wire'
               /\ req'[Asker(d)'].outcome = "waiting"
               /\ m_bRegister' \/ req'[Asker(d)'].kind = "SUBSCRIBE"
    <3>1. CASE d = a
      <4>1. m_mapCSeqToSipMsgInfo'[d].expires = x
        BY <1>3, <1>11, <3>1
      <4> QED
        BY <1>2, <1>6, <1>7, <1>8, <1>12, <3>1, <4>1
    <3>2. CASE d # a
      <4>1. d # c
        BY <1>12, <2>2, <3>2
      <4>2. /\ Asker(d)' = Asker(d) /\ Asker(d) # r /\ Asker(d) # NoRequest
            /\ m_mapCSeqToSipMsgInfo'[d] = m_mapCSeqToSipMsgInfo[d]
        BY <1>11, <1>12, <2>2, <3>2, <4>1
      <4>3. Asker(d) \in Request
        BY <1>4, <4>2 DEF Asker
      <4>4. /\ [cseq |-> d, req |-> Asker(d), expires |-> m_mapCSeqToSipMsgInfo[d].expires] \in wire
            /\ req[Asker(d)].outcome = "waiting"
        BY <4>2 DEF IInv, NoteInv
      <4>5. [cseq |-> d, req |-> Asker(d)',
             expires |-> m_mapCSeqToSipMsgInfo'[d].expires] \in wire'
        BY <1>6, <4>2, <4>4
      <4>6. req'[Asker(d)'].outcome = "waiting"
        BY <1>8, <4>2, <4>3, <4>4
      <4> QED
        BY <1>2, <1>7, <4>5, <4>6
    <3> QED
      BY <3>1, <3>2
  <2>3. \A d, e \in CSeq : Asker(d)' = Asker(e)' /\ Asker(d)' # NoRequest => d = e
    <3>1. \A d, e \in CSeq : Asker(d) = Asker(e) /\ Asker(d) # NoRequest => d = e
      BY DEF IInv, NoteInv
    <3> QED
      BY <1>12, <3>1
  <2>4. ASSUME NEW q \in Request, req'[q].outcome = "waiting"
        PROVE  \E d \in CSeq : Asker(d)' = q
    <3>1. CASE q = r
      BY <1>12, <3>1
    <3>2. CASE q # r
      <4>1. PICK d \in CSeq : Asker(d) = q
        BY <1>8, <2>4 DEF IInv, NoteInv
      <4>2. d # c /\ d # a
        BY <1>1, <1>12, <3>2, <4>1, SipTransactionsAssumption
      <4> QED
        BY <1>12, <4>1, <4>2
    <3> QED
      BY <3>1, <3>2
  <2> QED
    BY <2>1, <2>2, <2>3, <2>4 DEF NoteInv, Asker
<1>15. EpochInv'
  BY <1>7, <1>8 DEF IInv, EpochInv
<1>16. WireInv'
  <2> PICK copy \in [cseq : CSeq, req : Request, expires : Nat] :
        copy = [cseq |-> a, req |-> r, expires |-> x]
    OBVIOUS
  <2>1. wire' = wire \cup {copy} /\ copy.cseq = a /\ copy.req = r
    BY <1>6
  <2>2. IsFiniteSet(wire) /\ IsFiniteSet(wire')
    BY <2>1, FS_AddElement DEF IInv, WireInv
  <2>3. \A w \in wire : /\ w.cseq <= m_ulCSeq /\ req[w.req].outcome # "unsent"
                        /\ w.cseq \in Nat /\ w.req \in Request
    BY <1>4 DEF IInv, WireInv
  <2>4. ASSUME NEW w \in wire'
        PROVE  w.cseq <= m_ulCSeq' /\ req'[w.req].outcome # "unsent"
    <3>1. CASE w = copy
      BY <1>2, <1>8, <1>10, <2>1, <3>1
    <3>2. CASE w \in wire
      BY <1>4, <1>8, <1>10, <2>3, <3>2
    <3> QED
      BY <2>1, <3>1, <3>2
  <2>5. \A w \in wire : w.cseq = a => w.req = r
    <3>1. CASE a = c
      BY <1>5, <3>1 DEF IInv, WireInv
    <3>2. CASE a # c
      BY <1>4, <1>9, <2>3, <3>2
    <3> QED
      BY <3>1, <3>2
  <2>6. \A v, w \in wire' : v.cseq = w.cseq => v.req = w.req
    BY <2>1, <2>5 DEF IInv, WireInv
  <2>7. ASSUME NEW q \in Request
        PROVE  /\ req'[q].outcome = "unsent" => req'[q].copies = 0
               /\ req'[q].outcome = "waiting" => req'[q].copies # 0
               /\ ~KeepsCSeq(req'[q].kind) => Cardinality(CopiesOf(q)') = req'[q].copies
    <3>1. /\ req[q].outcome = "unsent" => req[q].copies = 0
          /\ req[q].outcome = "waiting" => req[q].copies # 0
          /\ ~KeepsCSeq(req[q].kind) => Cardinality(CopiesOf(q)) = req[q].copies
      BY DEF IInv, WireInv
    <3>2. CASE q # r
      <4>1. CopiesOf(q)' = CopiesOf(q)
        BY <2>1, <3>2 DEF CopiesOf
      <4>2. /\ req'[q].kind = req[q].kind /\ req'[q].outcome = req[q].outcome
            /\ req'[q].copies = req[q].copies
        BY <1>8, <3>2
      <4> QED
        BY <3>1, <4>1, <4>2
    <3>3. CASE q = r
      <4>1. req[r].copies \in Nat /\ req'[r].copies = req[r].copies + 1
            /\ req'[r].kind = req[r].kind /\ req'[r].outcome = req[r].outcome
        BY <1>4, <1>8
      <4>2. ASSUME ~KeepsCSeq(req[r].kind)
            PROVE  Cardinality(CopiesOf(r)') = req[r].copies + 1
        <5>1. \A w \in wire : w.cseq # copy.cseq
          BY <1>4, <1>9, <2>1, <2>3, <4>2
        <5>2. CopiesOf(r)' = CopiesOf(r) \cup {copy}
          BY <2>1 DEF CopiesOf
        <5>3. copy \notin CopiesOf(r)
          BY <5>1 DEF CopiesOf
        <5>4. CopiesOf(r) \in SUBSET wire
          BY DEF CopiesOf
        <5>5. IsFiniteSet(CopiesOf(r))
          BY <2>2, <5>4, FS_Subset
        <5>6. Cardinality(CopiesOf(r) \cup {copy}) = Cardinality(CopiesOf(r)) + 1
          BY <5>3, <5>5, OneMore
        <5> QED
          BY <3>1, <3>3, <4>2, <5>2, <5>6
      <4> QED
        BY <1>2, <3>3, <4>1, <4>2
    <3> QED
      BY <3>2, <3>3
  <2> QED
    BY <2>2, <2>4, <2>6, <2>7, Zenon DEF WireInv, KeepsCSeq, Drawn
<1>17. Concluded' = Concluded /\ Redirected' = Redirected
  BY <1>8, Zenon DEF Concluded, Redirected
<1>18. /\ IsFiniteSet(Resent')
       /\ Cardinality(Resent') = Cardinality(Resent) + 1
  <2> DEFINE n == [q \in Request |-> req[q].copies]
             m == [q \in Request |-> req'[q].copies]
  <2>1. /\ n \in [Request -> Nat] /\ m \in [Request -> Nat]
        /\ \A q \in Request : n[q] = req[q].copies /\ m[q] = req'[q].copies
    BY <1>4, <1>8
  <2>2. n[r] # 0 /\ m[r] = n[r] + 1 /\ \A q \in Request : q # r => m[q] = n[q]
    BY <1>2, <1>8, <2>1 DEF IInv, WireInv
  <2> HIDE DEF n, m
  <2>3. /\ UNION {{q} \X (2..m[q]) : q \in Request} =
             (UNION {{q} \X (2..n[q]) : q \in Request}) \cup {<<r, m[r]>>}
        /\ <<r, m[r]>> \notin UNION {{q} \X (2..n[q]) : q \in Request}
    BY <2>1, <2>2, OneCopyMore
  <2>4. {{q} \X (2..m[q]) : q \in Request} = {{q} \X (2..req'[q].copies) : q \in Request}
    BY <2>1
  <2>5. {{q} \X (2..n[q]) : q \in Request} = {{q} \X (2..req[q].copies) : q \in Request}
    BY <2>1
  <2>6. Resent' = Resent \cup {<<r, m[r]>>} /\ <<r, m[r]>> \notin Resent
    BY <2>3, <2>4, <2>5, Zenon DEF Resent
  <2> QED
    BY <2>6, OneMore DEF IInv, BoundInv
<1>19. BoundInv'
  <2>1. /\ Cardinality(Resent) \in Nat /\ Cardinality(Concluded) \in Nat
        /\ MAX_NUM_AUTH_INFO_CHANGE \in Nat /\ m_ulPlatAuthInfoChangeNum \in Nat
    BY Counts DEF IInv, TypeOK
  <2>2. PICK n \in Nat : n = (MAX_NUM_AUTH_INFO_CHANGE + 1) * Cardinality(Concluded)
    BY <2>1
  <2>3. Cardinality(Resent) <= n + m_ulPlatAuthInfoChangeNum
    BY <2>2 DEF IInv, BoundInv
  <2>4. Cardinality(Resent') <= n + m_ulPlatAuthInfoChangeNum'
    BY <1>7, <1>18, <2>1, <2>3
  <2>5. Cardinality(Resent') <=
          (MAX_NUM_AUTH_INFO_CHANGE + 1) * Cardinality(Concluded') + m_ulPlatAuthInfoChangeNum'
    BY <1>17, <2>2, <2>4
  <2> QED
    BY <1>17, <1>18, <2>5 DEF IInv, BoundInv
<1>20. RedirectInv'
  BY <1>7, <1>17 DEF IInv, RedirectInv, redirectVars
<1> QED
  BY <1>13, <1>14, <1>15, <1>16, <1>19, <1>20 DEF IInv

-----------------------------------------------------------------------------
(* The invariant.                                                          *)

\* The five answers that end a request are instances of Conclude.
LEMMA AnswerIsConclude ==
  ASSUME IInv, NEW c \in CSeq, Answer(c), ~ReAuth(c)
  PROVE  /\ Expected(c)
         /\ \E outcome \in Reported \cup {"silent"}, has \in BOOLEAN, temp \in BOOLEAN,
               servers \in Seq(Server) : Conclude(c, outcome, has, temp, servers)
         /\ m_bRegister' /\ m_bRegister' \in BOOLEAN /\ ulExpireTime' \in Nat
         /\ m_ulCSeq' \in Nat /\ m_ulCSeq <= m_ulCSeq' /\ m_ulCSeq' <= MaxCSeq
<1>1. /\ m_ulCSeq \in Nat /\ m_ulCSeq <= MaxCSeq /\ MaxCSeq \in Nat
      /\ c \in Nat /\ c <= MaxCSeq
  BY Types DEF IInv
<1>2. /\ m_bHasRedirect \in BOOLEAN /\ m_bTempRedirect \in BOOLEAN
      /\ m_vectorServerInfo \in Seq(Server) /\ ulExpireTime \in Nat
      /\ m_bRegister \in BOOLEAN
  BY DEF IInv, TypeOK
<1>3. CASE HandleSuccessRespRegister(c)
  <2>1. Conclude(c, "succeeded", FALSE, m_bTempRedirect, m_vectorServerInfo)
    BY <1>3 DEF HandleSuccessRespRegister
  <2>2. \E outcome \in Reported \cup {"silent"}, has \in BOOLEAN, temp \in BOOLEAN,
           servers \in Seq(Server) : Conclude(c, outcome, has, temp, servers)
    BY <1>2, <2>1 DEF Reported
  <2> QED
    BY <1>1, <1>3, <2>2, SipTransactionsAssumption DEF HandleSuccessRespRegister
<1>4. CASE HandleSuccess(c)
  <2>1. \E outcome \in {"succeeded", "silent"} :
          Conclude(c, outcome, m_bHasRedirect, m_bTempRedirect, m_vectorServerInfo)
    BY <1>4 DEF HandleSuccess
  <2>2. \E outcome \in Reported \cup {"silent"}, has \in BOOLEAN, temp \in BOOLEAN,
           servers \in Seq(Server) : Conclude(c, outcome, has, temp, servers)
    BY <1>2, <2>1 DEF Reported
  <2> QED
    <3>1. /\ Expected(c) /\ m_ulCSeq' = m_ulCSeq
          /\ m_bRegister' = m_bRegister /\ ulExpireTime' = ulExpireTime
      BY <1>4 DEF HandleSuccess
    <3>2. m_bRegister' /\ m_bRegister' \in BOOLEAN
      BY <1>2, <3>1 DEF Expected
    <3>3. /\ ulExpireTime' \in Nat
          /\ m_ulCSeq' \in Nat /\ m_ulCSeq <= m_ulCSeq' /\ m_ulCSeq' <= MaxCSeq
      BY <1>1, <1>2, <3>1
    <3> QED
      BY <2>2, <3>1, <3>2, <3>3
<1>5. CASE HandleFailure(c)
  <2>1. Conclude(c, "failed", m_bHasRedirect, m_bTempRedirect, m_vectorServerInfo)
    BY <1>5 DEF HandleFailure
  <2>2. \E outcome \in Reported \cup {"silent"}, has \in BOOLEAN, temp \in BOOLEAN,
           servers \in Seq(Server) : Conclude(c, outcome, has, temp, servers)
    BY <1>2, <2>1 DEF Reported
  <2> QED
    BY <1>1, <1>2, <1>5, <2>2 DEF HandleFailure, Expected
<1>6. CASE HandleRedirect(c)
  <2>1. PICK temporarily \in BOOLEAN, servers \in Contacts :
          Conclude(c, "failed", TRUE, m_bTempRedirect \/ temporarily, servers)
    BY <1>6 DEF HandleRedirect
  <2>2. servers \in Seq(Server) /\ (m_bTempRedirect \/ temporarily) \in BOOLEAN
    BY <1>2, SipTransactionsAssumption
  <2>3. \E outcome \in Reported \cup {"silent"}, has \in BOOLEAN, temp \in BOOLEAN,
           list \in Seq(Server) : Conclude(c, outcome, has, temp, list)
    BY <2>1, <2>2 DEF Reported
  <2> QED
    BY <1>1, <1>2, <1>6, <2>3 DEF HandleRedirect, Expected
<1>7. CASE HandleUnAuthRespFails(c)
  <2>1. Conclude(c, "failed", m_bHasRedirect, m_bTempRedirect, m_vectorServerInfo)
    BY <1>7 DEF HandleUnAuthRespFails
  <2>2. \E outcome \in Reported \cup {"silent"}, has \in BOOLEAN, temp \in BOOLEAN,
           servers \in Seq(Server) : Conclude(c, outcome, has, temp, servers)
    BY <1>2, <2>1 DEF Reported
  <2>3. m_ulCSeq' \in Nat /\ m_ulCSeq <= m_ulCSeq' /\ m_ulCSeq' <= MaxCSeq
    <3>1. ResendCSeq(c) \in Nat
      BY <1>1 DEF ResendCSeq
    <3>2. /\ m_ulCSeq' = m_ulCSeq \/ m_ulCSeq' = Larger(m_ulCSeq, ResendCSeq(c))
          /\ m_ulCSeq' <= MaxCSeq
      BY <1>7 DEF HandleUnAuthRespFails
    <3> QED
      BY <1>1, <3>1, <3>2 DEF Larger
  <2> QED
    BY <1>2, <1>7, <2>2, <2>3 DEF HandleUnAuthRespFails, Expected
<1> QED
  BY <1>3, <1>4, <1>5, <1>6, <1>7 DEF Answer

\* The initial states satisfy the invariant.
LEMMA InitInv == Init => IInv
<1> SUFFICES ASSUME Init PROVE IInv
  OBVIOUS
<1>1. TypeOK
  <2>1. m_mapCSeqToSipMsgInfo \in
          [CSeq -> [req : Request \cup {NoRequest}, expires : Nat]]
    BY DEF Init, NoInfo, Info
  <2>2. req \in [Request -> [kind : Kind, epoch : Nat, outcome : Outcome, copies : Nat]]
    BY DEF Init, Kind, Outcome
  <2>3. /\ m_ulCSeq \in 0..MaxCSeq /\ unregistered \in Nat /\ ulExpireTime \in Nat
        /\ m_ulPlatAuthInfoChangeNum \in 0..(MAX_NUM_AUTH_INFO_CHANGE + 1)
    BY SipTransactionsAssumption DEF Init
  <2>4. /\ m_vectorServerInfo \in Seq(Server) /\ m_listSvrInfoUsed \subseteq Server
        /\ m_objServerAddr \in m_listSvrInfoUsed
    BY SipTransactionsAssumption DEF Init
  <2>5. /\ m_bRegister \in BOOLEAN /\ wire \subseteq [cseq : CSeq, req : Request, expires : Nat]
        /\ {m_bHasRedirect, m_bTempRedirect, m_bRedirected} \subseteq BOOLEAN
    BY DEF Init
  <2> QED
    BY <2>1, <2>2, <2>3, <2>4, <2>5 DEF TypeOK
<1>2. \A c \in CSeq : m_mapCSeqToSipMsgInfo[c] = NoInfo /\ Asker(c) = NoRequest
  BY DEF Init, Asker, NoInfo, Info
<1>3. \A r \in Request : /\ req[r].kind = "MESSAGE" /\ req[r].outcome = "unsent"
                         /\ req[r].copies = 0
  BY DEF Init
<1>4. NoteInv /\ EpochInv
  BY <1>2, <1>3 DEF NoteInv, EpochInv
<1>5. WireInv
  <2>1. wire = {} /\ \A r \in Request : CopiesOf(r) = {}
    BY DEF Init, CopiesOf
  <2> QED
    BY <1>3, <2>1, FS_EmptySet DEF WireInv
<1>6. Resent = {} /\ Concluded = {} /\ Redirected = {}
  <2>1. \A r \in Request : {r} \X (2..req[r].copies) = {}
    BY <1>3
  <2>2. Resent = {}
    BY <2>1 DEF Resent
  <2>3. Concluded = {} /\ Redirected = {}
    BY <1>3 DEF Concluded, Redirected, Reported
  <2> QED
    BY <2>2, <2>3
<1>7. BoundInv
  <2>1. /\ IsFiniteSet(Resent) /\ IsFiniteSet(Concluded)
        /\ Cardinality(Resent) = 0 /\ Cardinality(Concluded) = 0
    BY <1>6, FS_EmptySet
  <2>2. m_ulPlatAuthInfoChangeNum = 0
    BY DEF Init
  <2> QED
    BY <2>1, <2>2, SipTransactionsAssumption DEF BoundInv
<1>8. RedirectInv
  <2>1. IsFiniteSet(Redirected) /\ Cardinality(Redirected) = 0
    BY <1>6, FS_EmptySet
  <2>2. /\ IsFiniteSet({LoginServer}) /\ Cardinality({LoginServer}) = 1
    BY FS_Singleton
  <2>3. m_listSvrInfoUsed = {LoginServer}
    BY DEF Init
  <2> QED
    BY <2>1, <2>2, <2>3 DEF RedirectInv
<1> QED
  BY <1>1, <1>4, <1>5, <1>7, <1>8 DEF IInv

\* Every step keeps it.
LEMMA NextInv == IInv /\ [Next]_vars => IInv'
<1> SUFFICES ASSUME IInv, [Next]_vars PROVE IInv'
  OBVIOUS
<1>1. CASE \E r \in Request : Send(r)
  BY <1>1, SendMsgStep, SendMsgFailsStep, SendUnRegisterStep DEF Send
<1>2. ASSUME NEW c \in CSeq, Answer(c)
      PROVE  IInv'
  <2>1. CASE ReAuth(c)
    BY <2>1, ReAuthStep
  <2>2. CASE ~ReAuth(c)
    <3>1. PICK outcome \in Reported \cup {"silent"}, has \in BOOLEAN, temp \in BOOLEAN,
               servers \in Seq(Server) : Conclude(c, outcome, has, temp, servers)
      BY <1>2, <2>2, AnswerIsConclude
    <3>2. /\ Expected(c)
          /\ m_bRegister' /\ m_bRegister' \in BOOLEAN /\ ulExpireTime' \in Nat
          /\ m_ulCSeq' \in Nat /\ m_ulCSeq <= m_ulCSeq' /\ m_ulCSeq' <= MaxCSeq
      BY <1>2, <2>2, AnswerIsConclude
    <3> QED
      BY <3>1, <3>2, ConcludeStep
  <2> QED
    BY <2>1, <2>2
<1>3. CASE UNCHANGED vars
  <2>1. /\ UNCHANGED <<m_ulCSeq, m_mapCSeqToSipMsgInfo, m_bRegister, ulExpireTime>>
        /\ UNCHANGED <<m_ulPlatAuthInfoChangeNum, req, wire, unregistered>>
        /\ UNCHANGED redirectVars
    BY <1>3 DEF vars
  <2>2. TypeOK'
    BY <2>1 DEF redirectVars, IInv, TypeOK
  <2>3. NoteInv' /\ EpochInv'
    BY <2>1 DEF IInv, NoteInv, EpochInv, Asker
  <2>4. WireInv'
    BY <2>1 DEF IInv, WireInv, CopiesOf
  <2>5. BoundInv' /\ RedirectInv'
    BY <2>1 DEF redirectVars, IInv, BoundInv, RedirectInv, Resent, Concluded, Redirected
  <2> QED
    BY <2>2, <2>3, <2>4, <2>5 DEF IInv
<1> QED
  BY <1>1, <1>2, <1>3 DEF Next

\* The inductive invariant holds in every reachable state.
THEOREM Invariant == Spec => []IInv
BY InitInv, NextInv, PTL DEF Spec

-----------------------------------------------------------------------------
(* What it says of the requests.                                           *)

\* Every variable keeps its type: challenges are counted to one beyond the
\* limit at most, and the server in use has been noted as used.
THEOREM TypeCorrect == Spec => []TypeOK
<1>1. IInv => TypeOK
  BY DEF IInv
<1> QED
  BY Invariant, <1>1, PTL

\* A request is noted under one CSeq while its answer is awaited and under
\* none afterwards, so it has one outcome.
THEOREM EveryRequestHasOneOutcome == Spec => []OneOutcome
<1>1. IInv => OneOutcome
  <2> SUFFICES ASSUME IInv PROVE OneOutcome
    OBVIOUS
  <2>1. ASSUME NEW r \in Request
        PROVE  Cardinality({c \in CSeq : m_mapCSeqToSipMsgInfo[c].req = r}) =
                 IF req[r].outcome = "waiting" THEN 1 ELSE 0
    <3> DEFINE S == {c \in CSeq : m_mapCSeqToSipMsgInfo[c].req = r}
    <3>1. \A c \in CSeq : c \in S <=> Asker(c) = r
      BY DEF Asker
    <3>2. r # NoRequest
      BY SipTransactionsAssumption
    <3>3. CASE req[r].outcome = "waiting"
      <4>1. PICK c \in CSeq : Asker(c) = r
        BY <3>3 DEF IInv, NoteInv
      <4>2. \A d \in CSeq : Asker(d) = r => d = c
        BY <3>2, <4>1 DEF IInv, NoteInv
      <4>3. S = {c}
        BY <3>1, <4>1, <4>2
      <4>4. Cardinality({c}) = 1
        BY FS_Singleton
      <4> QED
        BY <3>3, <4>3, <4>4
    <3>4. CASE req[r].outcome # "waiting"
      <4>1. \A d \in CSeq : Asker(d) # r
        BY <3>2, <3>4 DEF IInv, NoteInv
      <4>2. S = {}
        BY <3>1, <4>1
      <4> QED
        BY <3>4, <4>2, FS_EmptySet
    <3> QED
      BY <3>3, <3>4
  <2>2. ~m_bRegister => \A r \in Noted : req[r].kind = "SUBSCRIBE"
    <3>1. \A r \in Noted : \E c \in CSeq : Asker(c) = r /\ r # NoRequest
      BY DEF Noted, Asker
    <3> QED
      <4> SUFFICES ASSUME ~m_bRegister, NEW r \in Noted PROVE req[r].kind = "SUBSCRIBE"
        OBVIOUS
      <4>1. PICK c \in CSeq : Asker(c) = r /\ r # NoRequest
        BY <3>1
      <4> QED
        BY <4>1 DEF IInv, NoteInv
  <2> QED
    BY <2>1, <2>2 DEF OneOutcome
<1> QED
  BY Invariant, <1>1, PTL

\* Every copy of a request has a CSeq of its own, an INVITE's and a
\* SUBSCRIBE's apart, and no two requests share one.
THEOREM CopiesAreToldApart == Spec => []OwnCSeq
<1>1. IInv => OwnCSeq
  BY DEF IInv, WireInv, OwnCSeq, CopiesOf
<1> QED
  BY Invariant, <1>1, PTL

\* Challenges and redirects end.
THEOREM ResendsEnd == Spec => []ResendsAreBounded
<1>1. IInv => ResendsAreBounded
  <2> SUFFICES ASSUME IInv PROVE ResendsAreBounded
    OBVIOUS
  <2>1. /\ Cardinality(Resent) \in Nat /\ Cardinality(Concluded) \in Nat
        /\ MAX_NUM_AUTH_INFO_CHANGE \in Nat
    BY Counts
  <2>2. /\ m_ulPlatAuthInfoChangeNum \in Nat
        /\ m_ulPlatAuthInfoChangeNum <= MAX_NUM_AUTH_INFO_CHANGE + 1
    BY <2>1 DEF IInv, TypeOK
  <2>3. Cardinality(Resent) <=
          (MAX_NUM_AUTH_INFO_CHANGE + 1) * Cardinality(Concluded) + m_ulPlatAuthInfoChangeNum
    BY DEF IInv, BoundInv
  <2>4. Cardinality(Resent) <=
          (MAX_NUM_AUTH_INFO_CHANGE + 1) * (Cardinality(Concluded) + 1)
    BY <2>1, <2>2, <2>3
  <2>5. Cardinality(Redirected) < Cardinality(m_listSvrInfoUsed)
    BY DEF IInv, RedirectInv
  <2> QED
    BY <2>4, <2>5, Zenon DEF ResendsAreBounded, Resent, Concluded, Redirected
<1> QED
  BY Invariant, <1>1, PTL

\* What was sent before an UNREGISTER is not reported after it.
THEOREM OnlyThisRegistrationIsReported == Spec => ReportsOfThisRegistration
<1> DEFINE P == \A r \in Request :
                  (req'[r].outcome # req[r].outcome /\ req'[r].outcome \in Reported
                     => req[r].epoch = unregistered)
<1>1. ASSUME IInv, Next
      PROVE  P
  <2>1. req \in [Request -> [kind : Kind, epoch : Nat, outcome : Outcome, copies : Nat]]
    BY <1>1, Types DEF IInv
  <2>2. ASSUME NEW r \in Request, NEW k \in Kind, SendMsg(r, k)
        PROVE  P
    <3>1. req' = [req EXCEPT ![r] = [kind |-> k, epoch |-> unregistered,
                                     outcome |-> "waiting", copies |-> 1]]
      BY <2>2 DEF SendMsg
    <3> QED
      BY <2>1, <3>1 DEF Reported
  <2>3. ASSUME NEW r \in Request, NEW k \in Kind, SendMsgFails(r, k)
        PROVE  P
    <3>1. req' = [req EXCEPT ![r].outcome = "refused"]
      BY <2>3 DEF SendMsgFails
    <3> QED
      BY <2>1, <3>1 DEF Reported
  <2>4. ASSUME NEW r \in Request, SendUnRegister(r)
        PROVE  P
    <3>1. req' = [q \in Request |->
                    IF q = r THEN [kind |-> "UNREGISTER", epoch |-> unregistered,
                                   outcome |-> "cleared", copies |-> 1]
                    ELSE IF q \in Noted THEN [req[q] EXCEPT !.outcome = "cleared"]
                    ELSE req[q]]
      BY <2>4 DEF SendUnRegister
    <3> SUFFICES ASSUME NEW q \in Request,
                        req'[q].outcome # req[q].outcome, req'[q].outcome \in Reported
                 PROVE  FALSE
      OBVIOUS
    <3>2. CASE q = r
      BY <3>1, <3>2 DEF Reported
    <3>3. CASE q # r /\ q \in Noted
      <4>1. req'[q] = [req[q] EXCEPT !.outcome = "cleared"]
        BY <3>1, <3>3
      <4> QED
        BY <2>1, <4>1 DEF Reported
    <3>4. CASE q # r /\ q \notin Noted
      <4>1. req'[q] = req[q]
        BY <3>1, <3>4
      <4> QED
        BY <4>1
    <3> QED
      BY <3>2, <3>3, <3>4
  <2>5. ASSUME NEW c \in CSeq, Answer(c)
        PROVE  P
    <3>1. CASE ReAuth(c)
      <4>1. PICK r \in Request : r = Asker(c)
        BY <1>1, <3>1, ExpectedIsNoted DEF IInv, ReAuth
      <4>2. req' = [req EXCEPT ![r].copies = @ + 1]
        BY <3>1, <4>1 DEF ReAuth, Asker
      <4> QED
        BY <2>1, <4>2
    <3>2. CASE ~ReAuth(c)
      <4>1. PICK r \in Request : r = Asker(c) /\ req[r].outcome = "waiting"
        BY <1>1, <2>5, <3>2, AnswerIsConclude, ExpectedIsNoted DEF IInv
      <4>2. PICK outcome \in Reported \cup {"silent"}, has \in BOOLEAN, temp \in BOOLEAN,
                 servers \in Seq(Server) : Conclude(c, outcome, has, temp, servers)
        BY <1>1, <2>5, <3>2, AnswerIsConclude
      <4>3. PICK o \in Final : Ends(r, o)
        BY <1>1, <4>1, <4>2, ConcludeEffect DEF IInv
      <4>4. \A q \in Request : q # r => req'[q].outcome = req[q].outcome
        BY <2>1, <4>3 DEF Ends
      <4>5. req[r].epoch = unregistered
        BY <1>1, <4>1 DEF IInv, EpochInv
      <4> QED
        BY <4>4, <4>5
    <3> QED
      BY <3>1, <3>2
  <2> QED
    BY <1>1, <2>2, <2>3, <2>4, <2>5 DEF Next, Send
<1>2. IInv /\ [Next]_vars => [P]_vars
  BY <1>1
<1>3. [][P]_vars <=> ReportsOfThisRegistration
  BY DEF ReportsOfThisRegistration
<1> QED
  BY Invariant, <1>2, <1>3, PTL DEF Spec
-----------------------------------------------------------------------------
(* The refinement: what the application sees of its requests.              *)

Outcomes == [r \in Request |-> req[r].outcome]
Copies == [r \in Request |-> req[r].copies]
Epochs == [r \in Request |-> req[r].epoch]

\* A request that changes alone is the only one that the three functions of
\* the mapping change at.
LEMMA OneChanges ==
  ASSUME NEW r \in Request, req' \in [Request -> [kind : Kind, epoch : Nat,
                                                  outcome : Outcome, copies : Nat]],
         \A q \in Request : q # r => req'[q] = req[q]
  PROVE  /\ Outcomes' = [Outcomes EXCEPT ![r] = req'[r].outcome]
         /\ Copies' = [Copies EXCEPT ![r] = req'[r].copies]
         /\ Epochs' = [Epochs EXCEPT ![r] = req'[r].epoch]
<1>1. \A q \in Request : q # r => /\ req'[q].outcome = req[q].outcome
                                  /\ req'[q].copies = req[q].copies
                                  /\ req'[q].epoch = req[q].epoch
  OBVIOUS
<1> QED
  BY <1>1 DEF Outcomes, Copies, Epochs

\* SendMsg sends a request, or refuses it.
LEMMA SendServes ==
  ASSUME IInv, NEW r \in Request, NEW k \in Kind, SendMsg(r, k) \/ SendMsgFails(r, k)
  PROVE  Service!Next
<1>1. /\ req \in [Request -> [kind : Kind, epoch : Nat, outcome : Outcome, copies : Nat]]
      /\ req' \in [Request -> [kind : Kind, epoch : Nat, outcome : Outcome, copies : Nat]]
      /\ unregistered \in Nat
  <2>1. IInv'
    BY SendMsgStep, SendMsgFailsStep
  <2> QED
    BY <2>1 DEF IInv, TypeOK
<1>2. /\ Outcomes[r] = "unsent"
      /\ UNCHANGED <<m_ulPlatAuthInfoChangeNum, m_listSvrInfoUsed, unregistered>>
  BY DEF SendMsg, SendMsgFails, Outcomes, redirectVars
<1>3. CASE SendMsg(r, k)
  <2>1. req' = [req EXCEPT ![r] = [kind |-> k, epoch |-> unregistered,
                                   outcome |-> "waiting", copies |-> 1]]
    BY <1>3 DEF SendMsg
  <2>2. /\ req'[r].outcome = "waiting" /\ req'[r].copies = 1
        /\ req'[r].epoch = unregistered
        /\ \A q \in Request : q # r => req'[q] = req[q]
    BY <1>1, <2>1
  <2>3. /\ Outcomes' = [Outcomes EXCEPT ![r] = "waiting"]
        /\ Copies' = [Copies EXCEPT ![r] = 1]
        /\ Epochs' = [Epochs EXCEPT ![r] = unregistered]
    BY <1>1, <2>2, OneChanges
  <2>4. Service!Send(r)
    BY <1>2, <2>3 DEF Outcomes, Copies, Epochs, Service!Send, Service!Sent
  <2> QED
    BY <2>4 DEF Service!Next
<1>4. CASE SendMsgFails(r, k)
  <2>1. req' = [req EXCEPT ![r].outcome = "refused"]
    BY <1>4 DEF SendMsgFails
  <2>2. /\ req'[r].outcome = "refused" /\ req'[r].copies = req[r].copies
        /\ req'[r].epoch = req[r].epoch
        /\ \A q \in Request : q # r => req'[q] = req[q]
    BY <1>1, <2>1
  <2>3. /\ Outcomes' = [Outcomes EXCEPT ![r] = "refused"]
        /\ Copies' = Copies /\ Epochs' = Epochs
    BY <1>1, <2>2, OneChanges DEF Copies, Epochs
  <2>4. Service!Refuse(r)
    BY <1>2, <2>3 DEF Outcomes, Copies, Epochs, Service!Refuse
  <2> QED
    BY <2>4 DEF Service!Next
<1> QED
  BY <1>3, <1>4

\* What is noted is what waits.
LEMMA NotedWaits ==
  ASSUME IInv
  PROVE  \A q \in Request : q \in Noted <=> req[q].outcome = "waiting"
<1>1. \A q \in Request : q # NoRequest
  BY SipTransactionsAssumption
<1>2. \A q \in Request : q \in Noted <=> \E d \in CSeq : Asker(d) = q
  BY <1>1 DEF Noted, Asker
<1> QED
  BY <1>1, <1>2 DEF IInv, NoteInv

\* An UNREGISTER clears all that wait at once.
LEMMA UnregisterServes ==
  ASSUME IInv, NEW r \in Request, SendUnRegister(r)
  PROVE  Service!Next
<1>1. req \in [Request -> [kind : Kind, epoch : Nat, outcome : Outcome, copies : Nat]]
  BY Types DEF IInv
<1>2. /\ Outcomes[r] = "unsent" /\ unregistered' = unregistered + 1
      /\ UNCHANGED <<m_ulPlatAuthInfoChangeNum, m_listSvrInfoUsed>>
  BY DEF SendUnRegister, Outcomes, redirectVars
<1>3. req' = [q \in Request |->
                IF q = r THEN [kind |-> "UNREGISTER", epoch |-> unregistered,
                               outcome |-> "cleared", copies |-> 1]
                ELSE IF q \in Noted THEN [req[q] EXCEPT !.outcome = "cleared"]
                ELSE req[q]]
  BY DEF SendUnRegister
<1>4. /\ req'[r].outcome = "cleared" /\ req'[r].copies = 1
      /\ req'[r].epoch = unregistered
  <2>1. req'[r] = [kind |-> "UNREGISTER", epoch |-> unregistered,
                   outcome |-> "cleared", copies |-> 1]
    BY <1>3
  <2> QED
    BY <2>1
<1>5. ASSUME NEW q \in Request, q # r
      PROVE  /\ req'[q].outcome = IF req[q].outcome = "waiting" THEN "cleared"
                                                                ELSE req[q].outcome
             /\ req'[q].copies = req[q].copies /\ req'[q].epoch = req[q].epoch
  <2>1. CASE req[q].outcome = "waiting"
    <3>1. req'[q] = [req[q] EXCEPT !.outcome = "cleared"]
      BY <1>3, <1>5, <2>1, NotedWaits
    <3> QED
      BY <1>1, <2>1, <3>1
  <2>2. CASE req[q].outcome # "waiting"
    <3>1. req'[q] = req[q]
      BY <1>3, <1>5, <2>2, NotedWaits
    <3> QED
      BY <2>2, <3>1
  <2> QED
    BY <2>1, <2>2
<1>6. /\ Outcomes' = [q \in Request |-> IF q = r \/ Outcomes[q] = "waiting"
                                        THEN "cleared" ELSE Outcomes[q]]
      /\ Copies' = [Copies EXCEPT ![r] = 1]
      /\ Epochs' = [Epochs EXCEPT ![r] = unregistered]
  BY <1>4, <1>5 DEF Outcomes, Copies, Epochs
<1>7. Service!Unregister(r)
  BY <1>2, <1>6 DEF Outcomes, Copies, Epochs, Service!Unregister, Service!Sent
<1> QED
  BY <1>7 DEF Service!Next

\* A 401 that is answered by a copy is a challenge.
LEMMA ReAuthServes ==
  ASSUME IInv, NEW c \in CSeq, ReAuth(c)
  PROVE  Service!Next
<1>1. /\ req \in [Request -> [kind : Kind, epoch : Nat, outcome : Outcome, copies : Nat]]
      /\ req' \in [Request -> [kind : Kind, epoch : Nat, outcome : Outcome, copies : Nat]]
  <2>1. IInv'
    BY ReAuthStep
  <2> QED
    BY <2>1 DEF IInv, TypeOK
<1>2. PICK r \in Request : r = Asker(c) /\ req[r].outcome = "waiting"
  BY ExpectedIsNoted DEF IInv, ReAuth
<1>3. /\ req' = [req EXCEPT ![r].copies = @ + 1]
      /\ m_ulPlatAuthInfoChangeNum <= MAX_NUM_AUTH_INFO_CHANGE
      /\ m_ulPlatAuthInfoChangeNum' = m_ulPlatAuthInfoChangeNum + 1
      /\ UNCHANGED <<m_listSvrInfoUsed, unregistered>>
  BY <1>2 DEF ReAuth, Asker, WithinLimit, CountChange, redirectVars
<1>4. /\ req'[r].copies = req[r].copies + 1 /\ req'[r].outcome = req[r].outcome
      /\ req'[r].epoch = req[r].epoch
      /\ \A q \in Request : q # r => req'[q] = req[q]
  BY <1>1, <1>3
<1>5. /\ Copies' = [Copies EXCEPT ![r] = @ + 1]
      /\ Outcomes' = Outcomes /\ Epochs' = Epochs
  BY <1>1, <1>4, OneChanges DEF Outcomes, Copies, Epochs
<1>6. Outcomes[r] = "waiting" /\ Epochs[r] = unregistered
  BY <1>2 DEF IInv, EpochInv, Outcomes, Epochs
<1>7. Service!Challenge(r)
  BY <1>3, <1>5, <1>6 DEF Outcomes, Copies, Epochs, Service!Challenge, Service!Waits
<1> QED
  BY <1>7 DEF Service!Next

\* An outcome with or without a new server, as HasRedirectEvent chooses it.
LEMMA ConcludeServers ==
  ASSUME IInv, NEW c \in CSeq, Asker(c) \in Request,
         NEW outcome \in Reported \cup {"silent"}, NEW has \in BOOLEAN,
         NEW temp \in BOOLEAN, NEW servers \in Seq(Server),
         Conclude(c, outcome, has, temp, servers)
  PROVE  \/ /\ \E o \in Reported \cup {"silent"} :
                 req' = [req EXCEPT ![Asker(c)].outcome = o]
            /\ UNCHANGED m_listSvrInfoUsed
         \/ /\ \E o \in Final : req' = [req EXCEPT ![Asker(c)].outcome = o]
            /\ \E s \in Server \ m_listSvrInfoUsed :
                 m_listSvrInfoUsed' = m_listSvrInfoUsed \cup {s}
<1> DEFINE fresh == {i \in DOMAIN servers : servers[i] \notin m_listSvrInfoUsed}
<1>1. HasRedirectEvent(Asker(c), outcome, has, temp, servers)
  BY DEF Conclude
<1>2. CASE has /\ fresh # {}
  <2>1. fresh \in SUBSET Nat
    OBVIOUS
  <2>2. PICK i \in fresh : i = Min(fresh)
    BY <1>2, <2>1, LeastIsIn
  <2>3. PICK s \in Server \ m_listSvrInfoUsed : s = servers[i]
    <3>1. i \in DOMAIN servers /\ servers[i] \notin m_listSvrInfoUsed
      BY <2>2
    <3>2. servers[i] \in Server
      BY <3>1
    <3> QED
      BY <3>1, <3>2
  <2>4. /\ Use(servers[Min(fresh)])
        /\ \E added \in BOOLEAN :
             req' = [req EXCEPT ![Asker(c)].outcome = IF added THEN "redirected" ELSE outcome]
    BY <1>1, <1>2 DEF HasRedirectEvent
  <2>5. m_listSvrInfoUsed' = m_listSvrInfoUsed \cup {s}
    BY <2>2, <2>3, <2>4 DEF Use
  <2>6. \E o \in Final : req' = [req EXCEPT ![Asker(c)].outcome = o]
    BY <2>4 DEF Final
  <2> QED
    BY <2>5, <2>6
<1>3. CASE ~(has /\ fresh # {})
  BY <1>1, <1>3 DEF HasRedirectEvent
<1> QED
  BY <1>2, <1>3

\* Every other final answer ends its request, in its own registration, and
\* begins the count of challenges anew.
LEMMA AnswerServes ==
  ASSUME IInv, NEW c \in CSeq, Answer(c), ~ReAuth(c)
  PROVE  Service!Next
<1>1. PICK outcome \in Reported \cup {"silent"}, has \in BOOLEAN, temp \in BOOLEAN,
           servers \in Seq(Server) : Conclude(c, outcome, has, temp, servers)
  BY AnswerIsConclude
<1>2. PICK r \in Request : r = Asker(c) /\ req[r].outcome = "waiting"
  BY AnswerIsConclude, ExpectedIsNoted DEF IInv
<1>3. req \in [Request -> [kind : Kind, epoch : Nat, outcome : Outcome, copies : Nat]]
  BY Types DEF IInv
<1>4. m_ulPlatAuthInfoChangeNum' = 0 /\ UNCHANGED unregistered
  BY <1>1 DEF Conclude, ResetChanges
<1>5. ASSUME NEW o \in Final, req' = [req EXCEPT ![r].outcome = o]
      PROVE  /\ Outcomes' = [Outcomes EXCEPT ![r] = o]
             /\ Copies' = Copies /\ Epochs' = Epochs
  <2>1. /\ req'[r].outcome = o /\ req'[r].copies = req[r].copies
        /\ req'[r].epoch = req[r].epoch
        /\ \A q \in Request : q # r => req'[q] = req[q]
    BY <1>3, <1>5
  <2>2. \A q \in Request : q # r => req'[q].outcome = req[q].outcome
    BY <2>1
  <2>3. \A q \in Request : req'[q].copies = req[q].copies /\ req'[q].epoch = req[q].epoch
    BY <2>1
  <2> QED
    BY <2>1, <2>2, <2>3 DEF Outcomes, Copies, Epochs
<1>6. Outcomes[r] = "waiting" /\ Epochs[r] = unregistered
  BY <1>2 DEF IInv, EpochInv, Outcomes, Epochs
<1>7. \/ /\ \E o \in Reported \cup {"silent"} : req' = [req EXCEPT ![r].outcome = o]
         /\ UNCHANGED m_listSvrInfoUsed
      \/ /\ \E o \in Final : req' = [req EXCEPT ![r].outcome = o]
         /\ \E s \in Server \ m_listSvrInfoUsed :
              m_listSvrInfoUsed' = m_listSvrInfoUsed \cup {s}
  BY <1>1, <1>2, ConcludeServers
<1>8. /\ Copies' = Copies /\ Epochs' = Epochs
      /\ \/ /\ \E o \in {"succeeded", "failed", "silent"} :
                 Outcomes' = [Outcomes EXCEPT ![r] = o]
            /\ UNCHANGED m_listSvrInfoUsed
         \/ /\ \E o \in {"succeeded", "failed", "silent", "redirected"} :
                 Outcomes' = [Outcomes EXCEPT ![r] = o]
            /\ \E s \in Server \ m_listSvrInfoUsed :
                 m_listSvrInfoUsed' = m_listSvrInfoUsed \cup {s}
  BY <1>5, <1>7 DEF Final, Reported
<1>9. Service!Answer(r)
  BY <1>4, <1>6, <1>8 DEF Outcomes, Copies, Epochs, Service!Answer, Service!Waits
<1> QED
  BY <1>9 DEF Service!Next

\* The stack implements the service: what it keeps besides, the notes, the
\* CSeqs and the flags of the redirects, is not seen.
THEOREM RequestsEndOnce == Spec => RequestsAreServed
<1>1. Init => Service!Init
  BY DEF Init, Service!Init
<1>2. IInv /\ [Next]_vars => [Service!Next]_(Service!vars)
  <2> SUFFICES ASSUME IInv, [Next]_vars
               PROVE  Service!Next \/ UNCHANGED Service!vars
    OBVIOUS
  <2>1. CASE \E r \in Request : Send(r)
    BY <2>1, SendServes, UnregisterServes DEF Send
  <2>2. CASE \E c \in CSeq : Answer(c)
    BY <2>2, ReAuthServes, AnswerServes
  <2>3. CASE UNCHANGED vars
    BY <2>3 DEF vars, redirectVars, Service!vars
  <2> QED
    BY <2>1, <2>2, <2>3 DEF Next
<1> QED
  BY <1>1, <1>2, Invariant, PTL DEF Spec, RequestsAreServed, Service!Spec

=============================================================================
