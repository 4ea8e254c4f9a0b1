------------------------------- MODULE ConnMgr -------------------------------
(***************************************************************************)
(* CConnMgr as CSipStack uses it: one UDP socket, a manager object         *)
(* (CUdpSockMgr) with a thread around select, and the handle that the      *)
(* thread calls back when a datagram has come.  Every start of the stack   *)
(* makes a new manager and a new handle, numbered like the start.          *)
(*                                                                         *)
(* The list's mutex is the thread's while it builds the set for select and *)
(* from before a callback until after it; close() takes the handle's own   *)
(* mutex only and may come at any moment.  Written for the select build    *)
(* (Windows), the one the SDK is made for.                                 *)
(***************************************************************************)
EXTENDS Naturals

CONSTANT MaxStarts  \* bound: starts of the stack

Start == 1..MaxStarts

VARIABLES
  m_pUdpSockMgr,  \* the manager in use, 0 if there is none
  m_bExit,        \* per manager
  select,         \* its thread: where it is, and whether the set has the socket
  node,           \* the handle's CHandleNode in the manager's list
  handle,         \* m_lSockFD, EPOLLIN in m_ulEvents, m_bReadSelected
  port,           \* the start whose socket is bound to the SIP port, 0 if none
  pending         \* datagrams wait at the socket

connVars == <<m_pUdpSockMgr, m_bExit, select, node, handle, port, pending>>

ConnTypeOK ==
  /\ m_pUdpSockMgr \in 0..MaxStarts
  /\ m_bExit \in [Start -> BOOLEAN]
  /\ select \in [Start -> [at : {"off", "while", "set", "select", "check", "recv", "ended"},
                           readSet : BOOLEAN]]
  /\ node \in [Start -> {"none", "listed", "removed", "erased", "freed"}]
  /\ handle \in [Start -> [open : BOOLEAN, EPOLLIN : BOOLEAN, m_bReadSelected : BOOLEAN]]
  /\ port \in 0..MaxStarts
  /\ pending \in BOOLEAN

ConnInit ==
  /\ m_pUdpSockMgr = 0
  /\ m_bExit = [n \in Start |-> FALSE]
  /\ select = [n \in Start |-> [at |-> "off", readSet |-> FALSE]]
  /\ node = [n \in Start |-> "none"]
  /\ handle = [n \in Start |-> [open |-> FALSE, EPOLLIN |-> TRUE, m_bReadSelected |-> FALSE]]
  /\ port = 0
  /\ pending = FALSE

ListOfHandleIsFree(n) == select[n].at # "recv"
GoTo(n, place) == select' = [select EXCEPT ![n].at = place]

-----------------------------------------------------------------------------
(* The operations.                                                         *)

\* CConnMgr::init and run: a manager that is still there is forgotten, and
\* its thread goes on.
ConnInitRun(n) ==
  /\ m_pUdpSockMgr' = n
  /\ GoTo(n, "while")
  /\ UNCHANGED <<m_bExit, node, handle, port, pending>>

\* regUdpSocket succeeds if nobody has the port.
regUdpSocket(n) ==
  /\ ListOfHandleIsFree(n)
  /\ port = 0
  /\ port' = n
  /\ handle' = [handle EXCEPT ![n].open = TRUE, ![n].EPOLLIN = TRUE]
  /\ node' = [node EXCEPT ![n] = "listed"]
  /\ UNCHANGED <<m_pUdpSockMgr, m_bExit, select, pending>>

\* CUdpSockHandle::close.
close(n) ==
  /\ handle' = [handle EXCEPT ![n].open = FALSE]
  /\ port' = IF handle[n].open THEN 0 ELSE port
  /\ pending' = (pending /\ ~handle[n].open)

\* removeUdpSocket closes the socket first, whatever the thread is doing with
\* it, ...
removeUdpSocketClose(n) ==
  /\ close(n)
  /\ UNCHANGED <<m_pUdpSockMgr, m_bExit, select, node>>

\* ... and removeHandle detaches the node, which stays in the list.
removeHandle(n) ==
  /\ ListOfHandleIsFree(n)
  /\ node' = [node EXCEPT ![n] = IF @ = "listed" THEN "removed" ELSE @]
  /\ close(n)
  /\ UNCHANGED <<m_pUdpSockMgr, m_bExit, select>>

\* CConnMgr::exit: the flag, under its own mutex, ...
ConnExitFlag(n) ==
  /\ m_bExit' = [m_bExit EXCEPT ![n] = TRUE]
  /\ UNCHANGED <<m_pUdpSockMgr, select, node, handle, port, pending>>

\* Mutant: the thread is not joined.
ConnExitDeleteMutant(n) ==
  /\ m_pUdpSockMgr' = 0
  /\ node' = [node EXCEPT ![n] = IF @ \in {"listed", "removed"} THEN "freed" ELSE @]
  /\ UNCHANGED <<m_bExit, select, handle, port, pending>>

\* ... and when the thread has been joined the manager is deleted, with the
\* nodes still in its list.
ConnExitDelete(n) ==
  /\ select[n].at = "ended"
  /\ m_pUdpSockMgr' = 0
  /\ node' = [node EXCEPT ![n] = IF @ \in {"listed", "removed"} THEN "freed" ELSE @]
  /\ UNCHANGED <<m_bExit, select, handle, port, pending>>

-----------------------------------------------------------------------------
(* mainLoop of manager n.                                                  *)

ConnWhile(n) ==
  /\ select[n].at = "while"
  /\ GoTo(n, IF m_bExit[n] THEN "ended" ELSE "set")
  /\ UNCHANGED <<m_pUdpSockMgr, m_bExit, node, handle, port, pending>>

\* A node that was removed is erased from the list (and never freed: the
\* pointer deleted there is NULL); a handle that is open and wants to read is
\* put into the set.
setSelectFd(n) ==
  LET reads == node[n] = "listed" /\ handle[n].open /\ handle[n].EPOLLIN
  IN /\ select[n].at = "set"
     /\ select' = [select EXCEPT ![n] =
                     [at |-> IF reads THEN "select" ELSE "while", readSet |-> reads]]
     /\ handle' = [handle EXCEPT ![n].m_bReadSelected =
                     IF node[n] = "listed" THEN reads ELSE @]
     /\ node' = [node EXCEPT ![n] = IF @ = "removed" THEN "erased" ELSE @]
     /\ UNCHANGED <<m_pUdpSockMgr, m_bExit, port, pending>>

\* select: a datagram is there, or nothing for the whole period, or the
\* socket was closed meanwhile, which is an error.
Select(n) ==
  /\ select[n].at = "select"
  /\ GoTo(n, IF pending /\ handle[n].open THEN "check" ELSE "while")
  /\ UNCHANGED <<m_pUdpSockMgr, m_bExit, node, handle, port, pending>>

\* checkSelectEvent and checkSelectResult: the handle is called back if it is
\* still there and open.
checkSelectEvent(n) ==
  LET calls == /\ node[n] = "listed" /\ handle[n].open
               /\ select[n].readSet /\ handle[n].m_bReadSelected
  IN /\ select[n].at = "check"
     /\ GoTo(n, IF calls THEN "recv" ELSE "while")
     /\ handle' = [handle EXCEPT ![n].EPOLLIN = IF calls THEN FALSE ELSE @]
     /\ UNCHANGED <<m_pUdpSockMgr, m_bExit, node, port, pending>>

\* Mutant: the early return for an error comes before setHandleRecv.
setHandleRecvMutant(n, received) ==
  handle' = [handle EXCEPT ![n].EPOLLIN = received]

\* The handle wants to read again, whatever recvfrom returned.
setHandleRecv(n, received) ==
  handle' = [handle EXCEPT ![n].EPOLLIN = TRUE]

\* handle_recv: recvfrom gives a datagram, or an error, for the one that
\* select reported or because the socket was closed.
handle_recv(n, received) ==
  /\ select[n].at = "recv"
  /\ received => handle[n].open
  /\ pending' = (pending /\ ~handle[n].open)
  /\ setHandleRecv(n, received)
  /\ GoTo(n, "while")
  /\ UNCHANGED <<m_pUdpSockMgr, m_bExit, node, port>>

\* A datagram comes for the socket that has the port.
Datagram ==
  /\ port # 0 /\ ~pending
  /\ pending' = TRUE
  /\ UNCHANGED <<m_pUdpSockMgr, m_bExit, select, node, handle, port>>

SelectThread(n) == ConnWhile(n) \/ setSelectFd(n) \/ Select(n) \/ checkSelectEvent(n)

-----------------------------------------------------------------------------
\* When removeUdpSocket has returned (the handle is deleted a little later),
\* the socket is closed and the handle is not being called back, although
\* the thread may have been on its way to it.
RemovedIsQuiet ==
  \A n \in Start :
    node[n] \in {"removed", "erased", "freed"} =>
      ~handle[n].open /\ port # n /\ select[n].at # "recv"

\* A datagram at the socket is read, unless the socket is closed, errors on
\* the way notwithstanding.
DatagramsAreRead == pending ~> ~pending
=============================================================================
