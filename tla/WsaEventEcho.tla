--------------------------- MODULE WsaEventEcho ---------------------------
(***************************************************************************)
(* 02_final/ch21_asyncNoti-WSAEvent-server.c: one thread, one event object *)
(* per socket, two parallel arrays.  The kernel records network events of  *)
(* a socket and signals its event object; FD_READ and FD_ACCEPT are        *)
(* recorded again only after recv or accept has been called.               *)
(*                                                                         *)
(* A socket is named by its client, server_sock is Listener, and an event  *)
(* object has the name of the socket WSAEventSelect ties it to.            *)
(* FD_ACCEPT and FD_READ report no error but that the network is down; the *)
(* breaks of lines 87-90 and 108-111 are left out.                         *)
(***************************************************************************)
EXTENDS TcpPeer, SequencesExt

CONSTANTS
  Listener,    \* server_sock
  Invalid,     \* INVALID_SOCKET, and the event object created for it
  BufLen,      \* BUF_LEN
  SndBuf,      \* how many bytes of a connection the transport buffers
  MaxEvents    \* WSA_MAXIMUM_WAIT_EVENTS

\* Any number of clients: more than the arrays have room for may connect.
ASSUME WsaAssumption ==
  /\ Listener \notin Clients /\ Invalid \notin Clients /\ Listener # Invalid
  /\ BufLen \in Nat \ {0} /\ SndBuf \in Nat \ {0}
  /\ MaxEvents \in Nat \ {0} /\ IsFiniteSet(Clients)

VARIABLES
  conn,        \* conn[c]: the server's end of client c's connection
  recorded,    \* recorded[s]: the network events recorded for socket s
  signaled,    \* the event objects that are signaled
  armed,       \* the sockets for which the kernel may record FD_READ, FD_ACCEPT
  closing,     \* the sockets for which it has recorded FD_CLOSE
  socks,       \* socket_array[0..socket_count-1]
  events,      \* event_array[0..socket_count-1]
  pc,          \* "wait", "scan", "handle", "send", or "wild": it has written
               \* outside an array, may do anything and is not followed further
  i,           \* the loop variable, counted from 1
  net,         \* networkEvents.lNetworkEvents, as far as not handled yet
  bytesLen     \* bytes_len

winVars == <<recorded, signaled, armed, closing>>
srvVars == <<conn, socks, events, pc, i, net, bytesLen>>
vars == <<tcpVars, winVars, srvVars>>

Sockets == Clients \cup {Listener, Invalid}

\* "ABORT" is FD_CLOSE with an error code.
NetworkEvent == {"ACCEPT", "READ", "CLOSE", "ABORT"}

WsaTypeOK ==
  /\ conn \in [Clients -> {"none", "open", "invalid", "closed"}]
  /\ recorded \in [Sockets -> SUBSET NetworkEvent]
  /\ signaled \subseteq Sockets /\ armed \subseteq Sockets /\ closing \subseteq Clients
  /\ socks \in Seq(Sockets) /\ events \in Seq(Sockets)
  /\ Len(socks) <= MaxEvents
  /\ pc \in {"wait", "scan", "handle", "send", "wild"}
  /\ i \in Nat \ {0}
  /\ net \subseteq NetworkEvent
  /\ bytesLen \in 0..BufLen

\* Lines 19-56.
Init ==
  /\ TcpInit
  /\ conn = [c \in Clients |-> "none"]
  /\ recorded = [s \in Sockets |-> {}]
  /\ signaled = {} /\ armed = {Listener} /\ closing = {}
  /\ socks = <<Listener>> /\ events = <<Listener>>
  /\ pc = "wait" /\ i = 1 /\ net = {} /\ bytesLen = 0

Pending == {c \in Clients : conn[c] = "none" /\ peer[c] # "away"}

-----------------------------------------------------------------------------
(* The kernel.                                                             *)

Record(s, e) ==
  /\ recorded' = [recorded EXCEPT ![s] = @ \cup {e}]
  /\ signaled' = signaled \cup {s}

NotifyAccept ==
  /\ Pending # {} /\ Listener \in armed
  /\ Record(Listener, "ACCEPT")
  /\ armed' = armed \ {Listener}
  /\ UNCHANGED <<tcpVars, closing, srvVars>>

NotifyRead(c) ==
  /\ conn[c] = "open" /\ peer[c] # "rst"
  /\ Unread(c) > 0 /\ c \in armed
  /\ Record(c, "READ")
  /\ armed' = armed \ {c}
  /\ UNCHANGED <<tcpVars, closing, srvVars>>

\* FD_CLOSE comes once, at the end of the stream when all of it has been read,
\* or with an error when the connection is reset.
NotifyClose(c) ==
  /\ conn[c] = "open" /\ c \notin closing
  /\ \/ peer[c] = "fin" /\ Unread(c) = 0 /\ Record(c, "CLOSE")
     \/ peer[c] = "rst" /\ Record(c, "ABORT")
  /\ closing' = closing \cup {c}
  /\ UNCHANGED <<tcpVars, armed, srvVars>>

Deliver(c) ==
  /\ peer[c] # "rst" /\ delivered[c] < Len(wire[c])
  /\ delivered' = [delivered EXCEPT ![c] = @ + 1]
  /\ UNCHANGED <<peer, sent, read, wire, winVars, srvVars>>

Kernel(c) == NotifyRead(c) \/ NotifyClose(c) \/ Deliver(c)

-----------------------------------------------------------------------------
(* The server: lines 58-142.                                               *)

\* WSAWaitForMultipleEvents returns the first index that is signaled.
Wait ==
  /\ pc = "wait"
  /\ \E k \in 1..Len(events) :
       /\ events[k] \in signaled
       /\ \A j \in 1..(k - 1) : events[j] \notin signaled
       /\ i' = k
  /\ pc' = "scan"
  /\ UNCHANGED <<tcpVars, winVars, conn, socks, events, net, bytesLen>>

Skip ==
  /\ pc = "scan" /\ i <= Len(events) /\ events[i] \notin signaled
  /\ i' = i + 1
  /\ UNCHANGED <<tcpVars, winVars, conn, socks, events, pc, net, bytesLen>>

\* WSAEnumNetworkEvents hands out the record of socket_array[i], clears it,
\* and resets event_array[i].
Enum ==
  /\ pc = "scan" /\ i <= Len(events) /\ events[i] \in signaled
  /\ net' = recorded[socks[i]]
  /\ recorded' = [recorded EXCEPT ![socks[i]] = {}]
  /\ signaled' = signaled \ {events[i]}
  /\ pc' = "handle"
  /\ UNCHANGED <<tcpVars, armed, closing, conn, socks, events, i, bytesLen>>

\* Variant: FD_READ is left out of the events that are asked for.
AcceptCloseOnly(c) ==
  /\ pc = "handle" /\ "ACCEPT" \in net
  /\ c \in Pending /\ Len(socks) < MaxEvents
  /\ LET s == IF peer[c] = "rst" THEN Invalid ELSE c IN
     /\ conn' = [conn EXCEPT ![c] = IF s = c THEN "open" ELSE "invalid"]
     /\ socks' = Append(socks, s) /\ events' = Append(events, s)
     /\ armed' = armed \cup {Listener}
  /\ net' = net \ {"ACCEPT"}
  /\ UNCHANGED <<tcpVars, recorded, signaled, closing, pc, i, bytesLen>>

\* accept, WSACreateEvent, WSAEventSelect, both arrays.  The handle of a
\* connection that is already reset is INVALID_SOCKET; it gets a place too.
AcceptClient(c) ==
  /\ pc = "handle" /\ "ACCEPT" \in net
  /\ c \in Pending /\ Len(socks) < MaxEvents
  /\ LET s == IF peer[c] = "rst" THEN Invalid ELSE c IN
     /\ conn' = [conn EXCEPT ![c] = IF s = c THEN "open" ELSE "invalid"]
     /\ socks' = Append(socks, s) /\ events' = Append(events, s)
     /\ armed' = armed \cup {Listener} \cup ({s} \ {Invalid})
  /\ net' = net \ {"ACCEPT"}
  /\ UNCHANGED <<tcpVars, recorded, signaled, closing, pc, i, bytesLen>>

\* socket_array and event_array are written without a look at their length
\* (lines 101 and 102), and buf[bytes_len] is (line 117) whether recv has filled
\* buf or has returned -1.  The first is always fatal; the byte beside buf may
\* also do no harm, and then the server goes on as below.
Overrun(c) ==
  /\ pc = "handle"
  /\ \/ "ACCEPT" \in net /\ c \in Pending /\ Len(socks) = MaxEvents
     \/ "READ" \in net /\ c = socks[i] /\ (peer[c] = "rst" \/ Unread(c) \notin 1..(BufLen - 1))
  /\ pc' = "wild"
  /\ UNCHANGED <<tcpVars, winVars, conn, socks, events, i, net, bytesLen>>

\* recv with nothing to return, or after a reset: send has nothing to send.
RecvNothing(c) ==
  /\ pc = "handle" /\ "READ" \in net /\ c = socks[i]
  /\ peer[c] = "rst" \/ Unread(c) = 0
  /\ armed' = armed \cup {c}
  /\ net' = net \ {"READ"}
  /\ UNCHANGED <<tcpVars, recorded, signaled, closing, conn, socks, events, pc, i, bytesLen>>

\* One recv per FD_READ; if it leaves bytes behind, FD_READ comes again.
RecvData(c) ==
  /\ pc = "handle" /\ "READ" \in net /\ c = socks[i]
  /\ peer[c] # "rst"
  /\ \E n \in 1..BufLen :
       /\ n <= Unread(c)
       /\ read' = [read EXCEPT ![c] = @ + n]
       /\ bytesLen' = n
  /\ armed' = armed \cup {c}
  /\ pc' = "send"
  /\ UNCHANGED <<peer, sent, wire, delivered, recorded, signaled, closing,
                 conn, socks, events, i, net>>

\* Variant: what does not fit is sent again from the start of the buffer.
TakenTwice(c) ==
  LET lo == read[c] - bytesLen + 1 IN Chunk(lo, bytesLen) \o Chunk(lo, 1)

\* What a send on a non-blocking socket takes: what there is room for.
Taken(c) ==
  LET room == SndBuf - (Len(wire[c]) - delivered[c]) IN
  Chunk(read[c] - bytesLen + 1, IF bytesLen <= room THEN bytesLen ELSE room)

\* send; nobody looks at how much it took.
SendBack(c) ==
  /\ pc = "send" /\ c = socks[i]
  /\ wire' = IF peer[c] = "rst" THEN wire ELSE [wire EXCEPT ![c] = @ \o Taken(c)]
  /\ bytesLen' = 0
  /\ net' = net \ {"READ"}
  /\ pc' = "handle"
  /\ UNCHANGED <<peer, sent, read, delivered, winVars, conn, socks, events, i>>

\* Variants: the error code is tested the wrong way round; compress_events
\* is forgotten.
CloseBroken(c) ==
  /\ pc = "handle" /\ net = {"CLOSE"} /\ c = socks[i]
  /\ net' = {} /\ pc' = "wait"
  /\ UNCHANGED <<tcpVars, winVars, conn, socks, events, i, bytesLen>>

CloseSocketOnly(c) ==
  /\ pc = "handle" /\ net = {"CLOSE"} /\ c = socks[i]
  /\ conn' = [conn EXCEPT ![c] = "closed"]
  /\ signaled' = signaled \ {events[i]}
  /\ socks' = RemoveAt(socks, i)
  /\ events' = SubSeq(events, 1, Len(events) - 1)
  /\ net' = {} /\ pc' = "scan"
  /\ UNCHANGED <<tcpVars, recorded, armed, closing, i, bytesLen>>

\* WSACloseEvent, closesocket, compress_sockets, compress_events, i--: the
\* loop goes on with the socket that moved into the gap.
CloseClient(c) ==
  /\ pc = "handle" /\ net = {"CLOSE"} /\ c = socks[i]
  /\ conn' = [conn EXCEPT ![c] = "closed"]
  /\ signaled' = signaled \ {events[i]}
  /\ socks' = RemoveAt(socks, i) /\ events' = RemoveAt(events, i)
  /\ net' = {} /\ pc' = "scan"
  /\ UNCHANGED <<tcpVars, recorded, armed, closing, i, bytesLen>>

\* "Close Error": the break leaves the inner loop, and the socket and its
\* event stay where they are.
CloseError ==
  /\ pc = "handle" /\ net = {"ABORT"}
  /\ net' = {} /\ pc' = "wait"
  /\ UNCHANGED <<tcpVars, winVars, conn, socks, events, i, bytesLen>>

\* Variant: the event is reset once more when the socket has been handled.
HandledResetting ==
  /\ pc = "handle" /\ net = {}
  /\ signaled' = signaled \ {events[i]}
  /\ pc' = "scan" /\ i' = i + 1
  /\ UNCHANGED <<tcpVars, recorded, armed, closing, conn, socks, events, net, bytesLen>>

Handled ==
  /\ pc = "handle" /\ net = {}
  /\ pc' = "scan" /\ i' = i + 1
  /\ UNCHANGED <<tcpVars, winVars, conn, socks, events, net, bytesLen>>

ScanDone ==
  /\ pc = "scan" /\ i > Len(socks)
  /\ pc' = "wait"
  /\ UNCHANGED <<tcpVars, winVars, conn, socks, events, i, net, bytesLen>>

Server ==
  \/ Wait \/ Skip \/ Enum \/ CloseError \/ Handled \/ ScanDone
  \/ \E c \in Clients : \/ AcceptClient(c) \/ Overrun(c) \/ RecvNothing(c)
                        \/ RecvData(c) \/ SendBack(c) \/ CloseClient(c)

Peer(c) == PeerStep(c) /\ UNCHANGED <<winVars, srvVars>>

Next == Server \/ NotifyAccept \/ \E c \in Clients : Kernel(c) \/ Peer(c)

\* The thread is scheduled, the kernel records and delivers in the end.
Fairness ==
  /\ WF_vars(Server) /\ WF_vars(NotifyAccept)
  /\ \A c \in Clients :
       WF_vars(NotifyRead(c)) /\ WF_vars(NotifyClose(c)) /\ WF_vars(Deliver(c))

Spec == Init /\ [][Next]_vars /\ Fairness
-----------------------------------------------------------------------------
(* What must hold.                                                         *)

TypeOK == TcpTypeOK /\ WsaTypeOK

\* The connections that have a place in the arrays.
Placed == {c \in Clients : conn[c] \in {"open", "invalid"}}

\* The event at each index is the one of the socket at that index, after any
\* number of accepts and compressions; server_sock stays first.  A socket whose
\* FD_CLOSE has been taken leaves the arrays, unless it has been reset (126-129),
\* so that its place is free again: no place is lost or taken twice, and line 101
\* writes behind the arrays only when every place is that of server_sock, of an
\* open connection, or of one that was reset.
ArraysMatch ==
  /\ socks = events
  /\ Head(socks) = Listener
  /\ \A j, k \in 1..Len(socks) : socks[j] = socks[k] /\ socks[j] # Invalid => j = k
  /\ \A c \in Clients : conn[c] = "open" <=> c \in Range(socks)
  /\ \A c \in closing : conn[c] = "open" =>
       peer[c] = "rst" \/ recorded[c] # {} \/ (pc \in {"handle", "wild"} /\ socks[i] = c)
  /\ Len(socks) = 1 + Cardinality(Placed)
  /\ pc = "wild" /\ socks[i] = Listener => Cardinality(Placed) = MaxEvents - 1

\* Bytes come back in the order they were received, none twice: a full
\* transport may cost bytes, it never changes their order.
EchoAscends ==
  \A c \in Clients :
    /\ \A j, k \in 1..Len(wire[c]) : j < k => wire[c][j] < wire[c][k]
    /\ \A k \in 1..Len(wire[c]) : wire[c][k] <= read[c]

\* Notifications and bytes match.  None is lost: bytes that wait to be read
\* will be recorded, are recorded with the event object signaled, or are about
\* to be read.  None is spurious: FD_READ finds something to read, unless the
\* connection has been reset.  So line 117 writes to buf[-1] only after a reset,
\* and otherwise beside buf only when as many bytes are there as buf has.
NotificationsMatchBytes ==
  /\ \A c \in Clients :
       conn[c] = "open" /\ Unread(c) > 0 /\ c \notin armed /\ peer[c] # "rst" =>
         \/ "READ" \in recorded[c] /\ c \in signaled
         \/ pc \in {"handle", "send", "wild"} /\ socks[i] = c /\ "READ" \in net
  /\ pc \in {"handle", "wild"} /\ "READ" \in net =>
       Unread(socks[i]) > 0 \/ peer[socks[i]] = "rst"
  /\ pc = "wild" /\ socks[i] # Listener =>
       Unread(socks[i]) >= BufLen \/ peer[socks[i]] = "rst"

\* A connection whose client has closed it is closed, whatever happens to the
\* other connections, as long as the server has not left its arrays.
ReleasedAfterFin ==
  \A c \in Clients \ Resetters : (peer[c] = "fin") ~> (conn[c] = "closed" \/ pc = "wild")

\* The echo of a client that never has more under way than the transport
\* takes always catches up, with what one recv leaves behind too, as long as the
\* server has not left its arrays.
EveryByteEchoed ==
  \A c \in Clients \ (Resetters \cup Impatient) :
    MaxBytes[c] <= SndBuf => []<>(delivered[c] = sent[c] \/ pc = "wild")
-----------------------------------------------------------------------------
(* Why the invariants hold: an inductive one.                              *)

InHand(c) == pc \in {"handle", "wild"} /\ socks[i] = c

\* A client has at most one place; places of INVALID_SOCKET are never looked at.
PlaceInv ==
  /\ socks = events /\ Len(socks) >= 1 /\ socks[1] = Listener
  /\ \A j, k \in 1..Len(socks) : socks[j] = socks[k] /\ socks[j] # Invalid => j = k
  /\ \A c \in Clients : conn[c] = "open" <=> \E k \in 1..Len(socks) : socks[k] = c
  /\ Len(socks) = 1 + Cardinality(Placed)
  /\ pc \in {"handle", "send", "wild"} => i <= Len(socks)

\* Which events a socket can have, and that they are signaled.
RecordInv ==
  /\ recorded[Invalid] = {} /\ Invalid \notin signaled
  /\ recorded[Listener] \subseteq {"ACCEPT"}
  /\ \A c \in Clients :
       /\ "ACCEPT" \notin recorded[c]
       /\ "ABORT" \in recorded[c] => peer[c] = "rst"
       /\ conn[c] = "none" => recorded[c] = {} /\ c \notin signaled /\ c \notin closing
       /\ conn[c] = "open" /\ recorded[c] # {} => c \in signaled
  /\ pc \in {"handle", "wild"} =>
                      \/ socks[i] = Listener /\ net \subseteq {"ACCEPT"}
                      \/ socks[i] \in Clients /\ "ACCEPT" \notin net
  /\ pc = "send" => socks[i] \in Clients /\ "ACCEPT" \notin net

\* Why the server has left an array.
WildInv ==
  pc = "wild" =>
    \/ "ACCEPT" \in net /\ Len(socks) = MaxEvents
    \/ "READ" \in net /\ (peer[socks[i]] = "rst" \/ Unread(socks[i]) >= BufLen)

\* FD_READ of an open connection is in one place at a time: it may be recorded,
\* it is recorded, or it is about to be handled.
ReadInv ==
  \A c \in Clients : conn[c] = "open" =>
    /\ c \in armed \/ "READ" \in recorded[c] \/ (InHand(c) /\ "READ" \in net)
    /\ "READ" \in recorded[c] \/ (InHand(c) /\ "READ" \in net) =>
         c \notin armed /\ (Unread(c) > 0 \/ peer[c] = "rst")
    /\ ~("READ" \in recorded[c] /\ InHand(c) /\ "READ" \in net)

\* FD_CLOSE of a connection that was not reset comes alone.
CloseInv ==
  \A c \in closing : conn[c] = "open" /\ peer[c] # "rst" =>
    /\ peer[c] = "fin" /\ Unread(c) = 0
    /\ "CLOSE" \in recorded[c] \/ (InHand(c) /\ net = {"CLOSE"})

\* What of c's bytes is in buf and still to be sent.
InBuf(c) == IF pc = "send" /\ socks[i] = c THEN bytesLen ELSE 0

EchoInv ==
  \A c \in Clients :
    /\ read[c] <= sent[c] /\ InBuf(c) <= read[c]
    /\ delivered[c] <= Len(wire[c]) /\ Len(wire[c]) <= delivered[c] + SndBuf
    /\ \A k \in 1..Len(wire[c]) : wire[c][k] <= read[c] - InBuf(c)
    /\ \A j, k \in 1..Len(wire[c]) : j < k => wire[c][j] < wire[c][k]

IInv == TypeOK /\ PlaceInv /\ RecordInv /\ ReadInv /\ CloseInv /\ EchoInv
=============================================================================
