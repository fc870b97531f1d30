---------------------------- MODULE SelectEcho ----------------------------
(***************************************************************************)
(* 02_final/ch12_IOM-select-server.c: one thread serves all clients.  It   *)
(* lets select wait on a copy of readfds and then walks through readfds    *)
(* itself, adding to it and removing from it on the way.                   *)
(*                                                                         *)
(* A value of type SOCKET is a member of Handles: the system hands the     *)
(* value of a closed socket out again.                                     *)
(***************************************************************************)
EXTENDS TcpPeer, SequencesExt

CONSTANTS
  Handles,     \* the values a connected socket can have
  Listener,    \* server_sock
  Invalid,     \* INVALID_SOCKET
  Nobody,
  FdSetSize,   \* FD_SETSIZE
  BufLen,      \* BUF_LEN
  Deaf,        \* clients that do not read what comes back
  Window       \* how many bytes are taken from the server for such a client

ASSUME SelectAssumption ==
  /\ Listener \notin Handles /\ Invalid \notin Handles /\ Listener # Invalid
  /\ Nobody \notin Clients
  /\ FdSetSize \in Nat \ {0}
  /\ BufLen \in Nat \ {0, 1}
  /\ Deaf \subseteq Clients /\ Window \in Nat

VARIABLES
  conn,        \* conn[c]: the server's end of client c's connection
  owner,       \* owner[h]: the client whose connection h is, or Nobody
  readfds,     \* fd_array[0..fd_count-1] of readfds
  tempfds,     \* the sockets select left in tempfds
  pc,          \* "select", "walk", "send" or "exit"
  i,           \* the loop variable, counted from 1
  bytesLen     \* bytes_len

srvVars == <<conn, owner, readfds, tempfds, pc, i, bytesLen>>
vars == <<tcpVars, srvVars>>

SelectTypeOK ==
  /\ conn \in [Clients -> {"none", "open", "invalid", "closed", "aborted"}]
  /\ owner \in [Handles -> Clients \cup {Nobody}]
  /\ readfds \in Seq(Handles \cup {Listener, Invalid})
  /\ tempfds \subseteq Handles \cup {Listener}
  /\ pc \in {"select", "walk", "send", "exit"}
  /\ i \in Nat \ {0}
  /\ bytesLen \in 0..(BufLen - 1)

\* Lines 17-34: server_sock is the first to be watched.
Init ==
  /\ TcpInit
  /\ conn = [c \in Clients |-> "none"]
  /\ owner = [h \in Handles |-> Nobody]
  /\ readfds = <<Listener>>
  /\ tempfds = {}
  /\ pc = "select" /\ i = 1 /\ bytesLen = 0

-----------------------------------------------------------------------------
(* Sets of sockets, and what select sees.                                  *)

\* Variant: room for one socket less than there is.
FdSetShort(h, fds) ==
  IF h \in Range(fds) \/ Len(fds) >= FdSetSize - 1 THEN fds ELSE Append(fds, h)

\* FD_SET adds a socket that is not there yet, as long as there is room.
FdSet(h, fds) ==
  IF h \in Range(fds) \/ Len(fds) >= FdSetSize THEN fds ELSE Append(fds, h)

\* Variant: FD_CLR removes nothing.
FdClrNot(h, fds) == fds

FirstAt(h, fds) == CHOOSE k \in 1..Len(fds) : fds[k] = h /\ \A j \in 1..(k - 1) : fds[j] # h

\* FD_CLR moves the sockets behind h down by one.
FdClr(h, fds) == IF h \in Range(fds) THEN RemoveAt(fds, FirstAt(h, fds)) ELSE fds

IsSocket(h) == h = Listener \/ h \in {k \in Handles : owner[k] # Nobody}

Pending == {c \in Clients : conn[c] = "none" /\ peer[c] # "away"}

\* recv has something to return: bytes, the end of the stream, an error.
Readable(c) == Unread(c) > 0 \/ peer[c] \in {"fin", "rst"}

\* A call of accept or recv on this socket returns at once.
Ready(h) == IF h = Listener THEN Pending # {}
            ELSE owner[h] \in Clients /\ Readable(owner[h])

-----------------------------------------------------------------------------
(* The select loop: lines 36-56.                                           *)

\* Variant: the socket is tested against readfds, as if all of it were ready.
SelectAll ==
  /\ pc = "select"
  /\ \A h \in Range(readfds) : IsSocket(h)
  /\ \E h \in Range(readfds) : Ready(h)
  /\ tempfds' = Range(readfds)
  /\ pc' = "walk"
  /\ UNCHANGED <<tcpVars, conn, owner, readfds, i, bytesLen>>

\* select returns with the sockets of the copy that are ready; a timeout only
\* starts it again.
Select ==
  /\ pc = "select"
  /\ \A h \in Range(readfds) : IsSocket(h)
  /\ \E h \in Range(readfds) : Ready(h)
  /\ tempfds' = {h \in Range(readfds) : Ready(h)}
  /\ pc' = "walk"
  /\ UNCHANGED <<tcpVars, conn, owner, readfds, i, bytesLen>>

\* A value that is no socket, or no longer one, makes select fail: the loop
\* ends, and with the process all connections.
SelectFails ==
  /\ pc = "select"
  /\ \E h \in Range(readfds) : ~IsSocket(h)
  /\ pc' = "exit"
  /\ conn' = [c \in Clients |-> IF conn[c] = "open" THEN "aborted" ELSE conn[c]]
  /\ owner' = [h \in Handles |-> Nobody]
  /\ UNCHANGED <<tcpVars, readfds, tempfds, i, bytesLen>>

-----------------------------------------------------------------------------
(* The walk through readfds: lines 58-109.                                 *)

AtSocket == pc = "walk" /\ i <= Len(readfds)

Skip ==
  /\ AtSocket /\ readfds[i] \notin tempfds
  /\ i' = i + 1
  /\ UNCHANGED <<tcpVars, conn, owner, readfds, tempfds, pc, bytesLen>>

\* accept, FD_SET.  For a connection that is already reset accept returns
\* INVALID_SOCKET, which is added like any other value.
AcceptClient(c) ==
  /\ AtSocket /\ readfds[i] \in tempfds /\ readfds[i] = Listener
  /\ c \in Pending
  /\ IF peer[c] = "rst"
     THEN /\ conn' = [conn EXCEPT ![c] = "invalid"]
          /\ readfds' = FdSet(Invalid, readfds)
          /\ UNCHANGED owner
     ELSE \E h \in {h \in Handles : owner[h] = Nobody} :
            /\ conn' = [conn EXCEPT ![c] = "open"]
            /\ owner' = [owner EXCEPT ![h] = c]
            /\ readfds' = FdSet(h, readfds)
  /\ i' = i + 1
  /\ UNCHANGED <<tcpVars, tempfds, pc, bytesLen>>

\* The client whose socket the walk has reached; nobody's before recv has
\* something to return.
AtReadable(c) ==
  /\ AtSocket /\ readfds[i] \in tempfds \ {Listener}
  /\ c = owner[readfds[i]]
  /\ Readable(c)

\* recv returns 0 or SOCKET_ERROR: closesocket and FD_CLR.  The socket that
\* moved into the gap is passed over until the next select.
RecvEnd(c) ==
  /\ AtReadable(c)
  /\ peer[c] = "rst" \/ Unread(c) = 0
  /\ conn' = [conn EXCEPT ![c] = "closed"]
  /\ owner' = [owner EXCEPT ![readfds[i]] = Nobody]
  /\ readfds' = FdClr(readfds[i], readfds)
  /\ i' = i + 1
  /\ UNCHANGED <<tcpVars, tempfds, pc, bytesLen>>

RecvMax == BufLen - 1

\* recv returns up to BUF_LEN-1 bytes: buf[bytes_len] is the terminator's.
RecvData(c) ==
  /\ AtReadable(c)
  /\ peer[c] # "rst"
  /\ \E n \in 1..RecvMax :
       /\ n <= Unread(c)
       /\ read' = [read EXCEPT ![c] = @ + n]
       /\ bytesLen' = n
  /\ pc' = "send"
  /\ UNCHANGED <<peer, sent, wire, delivered, conn, owner, readfds, tempfds, i>>

\* Variant: the last byte is not sent.
EchoedShort(c) == Chunk(read[c] - bytesLen + 1, bytesLen - 1)

Echoed(c) == Chunk(read[c] - bytesLen + 1, bytesLen)

\* send waits while a client that does not read has not left and can take no more.
SendBlocks(c) ==
  c \in Deaf /\ peer[c] = "open" /\ Len(wire[c]) + bytesLen > Window

\* send; on a connection that has been reset it fails, which nobody looks at.
SendBack(c) ==
  /\ pc = "send" /\ c = owner[readfds[i]] /\ ~SendBlocks(c)
  /\ IF peer[c] = "rst" THEN UNCHANGED <<wire, delivered>>
     ELSE /\ wire' = [wire EXCEPT ![c] = @ \o Echoed(c)]
          /\ delivered' = [delivered EXCEPT ![c] = Len(wire'[c])]
  /\ pc' = "walk" /\ i' = i + 1 /\ bytesLen' = 0
  /\ UNCHANGED <<peer, sent, read, conn, owner, readfds, tempfds>>

\* The end of the walk, and of the scope of its variables.
WalkDone ==
  /\ pc = "walk" /\ i > Len(readfds)
  /\ pc' = "select" /\ i' = 1 /\ tempfds' = {}
  /\ UNCHANGED <<tcpVars, conn, owner, readfds, bytesLen>>

Server ==
  \/ Select \/ SelectFails \/ Skip \/ WalkDone
  \/ \E c \in Clients : AcceptClient(c) \/ RecvEnd(c) \/ RecvData(c) \/ SendBack(c)

Peer(c) == PeerStep(c) /\ UNCHANGED srvVars

Next == Server \/ \E c \in Clients : Peer(c)

\* The server's thread is scheduled; clients are free to do nothing.
Fairness == WF_vars(Server)

Spec == Init /\ [][Next]_vars /\ Fairness
-----------------------------------------------------------------------------
(* What must hold.                                                         *)

TypeOK == TcpTypeOK /\ SelectTypeOK

\* The only thread never blocks in accept or recv: whatever is in tempfds
\* when the walk reaches it is still ready, even where readfds has changed
\* since select and socket values have been used again.
NeverBlocks ==
  AtSocket /\ readfds[i] \in tempfds => Ready(readfds[i])

\* accept has returned INVALID_SOCKET, for a connection reset in the backlog.
AcceptFailed == \E c \in Clients : conn[c] = "invalid" /\ peer[c] = "rst"

\* readfds holds server_sock first, and behind it only sockets that are open,
\* each once; or the INVALID_SOCKET that line 72 adds unlooked at, and then
\* accept has failed.  That alone ends the server (line 54): no closed socket
\* is ever left for select to stumble over.
WatchesOpenSockets ==
  /\ pc # "exit" =>
       /\ readfds # << >> /\ Head(readfds) = Listener
       /\ \A k \in 2..Len(readfds) :
            \/ readfds[k] \in Handles /\ owner[readfds[k]] # Nobody
            \/ readfds[k] = Invalid /\ AcceptFailed
  /\ pc = "exit" => AcceptFailed
  /\ \A j, k \in 1..Len(readfds) : readfds[j] = readfds[k] => j = k

Watched(c) == \E h \in Range(readfds) \cap Handles : owner[h] = c

\* The comment of line 72: an accepted socket is watched from then on, whatever
\* the walk does to readfds; unless FD_SETSIZE sockets were watched already
\* when it was accepted, which FD_SET does not tell.
ForgetsOnlyWhenFull ==
  [][\A c \in Clients :
       (conn'[c] = "open" /\ ~Watched(c)') =>
         \/ conn[c] = "open" /\ ~Watched(c)
         \/ conn[c] = "none" /\ Len(readfds) = FdSetSize]_vars

\* The thread is in a send that a client keeps from returning (line 108).
StuckInSend == pc = "send" /\ SendBlocks(owner[readfds[i]])

\* What may keep the server from a client: that accept has failed, that the
\* thread is stuck, and that the client's is none of the sockets watched.
Excused(c) == AcceptFailed \/ StuckInSend \/ (conn[c] = "open" /\ ~Watched(c))

\* The server is an echo service for every client, in each step and, unless
\* excused, in what it gets done: every echo catches up, every connection whose
\* client has closed it is closed.
Service == INSTANCE EchoService WITH
  Served   <- Clients \ Resetters,
  echoed   <- [c \in Clients |-> SubSeq(wire[c], 1, delivered[c])],
  left     <- [c \in Clients |-> peer[c] \in {"fin", "rst"}],
  released <- [c \in Clients |-> conn[c] = "closed"]

ImplementsEchoService ==
  /\ Service!Init /\ [][Service!Next]_(Service!vars)
  /\ \A c \in Clients \ Resetters : ([]<>Excused(c)) \/ Service!Fair(c)
-----------------------------------------------------------------------------
(* Why it holds: an inductive invariant.                                   *)

\* Every socket value stands for one open connection.
OwnerInv ==
  /\ \A h \in Handles : owner[h] # Nobody => conn[owner[h]] = "open"
  /\ \A h, k \in Handles : owner[h] = owner[k] /\ owner[h] # Nobody => h = k

ReadfdsInv ==
  /\ Len(readfds) >= 1 /\ Len(readfds) <= FdSetSize /\ readfds[1] = Listener
  /\ \A j, k \in 1..Len(readfds) : readfds[j] = readfds[k] => j = k
  /\ pc # "exit" =>
       \A k \in 1..Len(readfds) : readfds[k] \in Handles => owner[readfds[k]] # Nobody
  /\ \A k \in 1..Len(readfds) : readfds[k] = Invalid => AcceptFailed
  /\ pc = "exit" => AcceptFailed

\* accept comes first in a walk, so that a socket value it hands out cannot be
\* one that select has seen.
WalkInv ==
  /\ pc = "select" => i = 1
  /\ pc = "walk" /\ i = 1 => \A h \in tempfds \cap Handles : owner[h] # Nobody
  /\ pc = "walk" =>
       \A k \in i..Len(readfds) : readfds[k] \in tempfds => Ready(readfds[k])
  /\ pc = "send" =>
       /\ i <= Len(readfds) /\ readfds[i] \in Handles
       /\ \A k \in (i + 1)..Len(readfds) : readfds[k] \in tempfds => Ready(readfds[k])

\* What has been received of c's bytes and not been sent back.
Behind(c) == IF pc = "send" /\ owner[readfds[i]] = c THEN bytesLen ELSE 0

StreamInv ==
  \A c \in Clients :
    /\ wire[c] = Chunk(1, Len(wire[c])) /\ delivered[c] = Len(wire[c])
    /\ Len(wire[c]) <= read[c] /\ read[c] <= sent[c]
    /\ peer[c] = "rst" \/ read[c] = Len(wire[c]) + Behind(c)

IInv == TypeOK /\ OwnerInv /\ ReadfdsInv /\ WalkInv /\ StreamInv
=============================================================================
