----------------------------- MODULE IocpEcho -----------------------------
(***************************************************************************)
(* 02_final/ch23_IOCP-server.c: an echo server whose main thread accepts   *)
(* connections and posts the first overlapped receive, and whose worker    *)
(* threads share one completion port.                                      *)
(*                                                                         *)
(* Every step that another thread or the kernel can observe is an action   *)
(* of its own: the dequeue, the load of the connection's socket from its   *)
(* PER_HANDLE_DATA record, each socket call, each release of memory.  The  *)
(* record malloc'ed for connection c is named by c, and the value of type  *)
(* SOCKET stored in it too.  PER_IO_DATA blocks are members of Ios.        *)
(***************************************************************************)
EXTENDS TcpPeer

CONSTANTS
  Workers,     \* the threads started for dwNumberOfProcessors
  Ios,         \* bound: the PER_IO_DATA blocks malloc can hand out
  BufLen,      \* BUF_LEN
  NoSock       \* INVALID_SOCKET, or no socket yet

ASSUME IocpAssumption ==
  /\ BufLen \in Nat \ {0}
  /\ NoSock \notin Clients

VARIABLES
  conn,        \* conn[c]: the server's socket for client c
  key,         \* key[c]: the PER_HANDLE_DATA record of connection c
  assoc,       \* the sockets associated with the completion port
  io,          \* io[i]: the PER_IO_DATA block i
  port,        \* the completion packets queued at the port, oldest first
  main,        \* main thread: where it is and whose connection it serves
  wk           \* wk[w]: worker w and its local variables

srvVars == <<conn, key, assoc, io, port, main, wk>>
vars == <<tcpVars, srvVars>>

IoState == {"free", "posted", "queued", "held", "lost"}
MainPc == {"accept", "register", "recv"}
WorkerPc == {"wait", "load", "close", "free", "send", "recv", "freeio"}

\* n is what the OVERLAPPED reports once the operation has completed; lo is
\* the number of the first byte in buf, and once the block has been handed
\* to WSASend its place in the connection's outgoing stream.
IoRec ==
  [st : IoState, mode : {"READ", "WRITE"}, client : Clients \cup {NoSock},
   lo : Nat, n : 0..BufLen]

WorkerRec ==
  [pc : WorkerPc, io : Ios \cup {NoSock}, key : Clients \cup {NoSock},
   n : 0..BufLen, sock : Clients \cup {NoSock}]

IocpTypeOK ==
  /\ conn \in [Clients -> {"none", "open", "invalid", "closed"}]
  /\ key \in [Clients -> {"none", "live", "freed"}]
  /\ assoc \subseteq Clients
  /\ io \in [Ios -> IoRec]
  /\ port \in Seq(Ios)
  /\ main \in [pc : MainPc, client : Clients \cup {NoSock}]
  /\ wk \in [Workers -> WorkerRec]

FreshIo == [st |-> "free", mode |-> "READ", client |-> NoSock, lo |-> 0, n |-> 0]

IdleWorker == [pc |-> "wait", io |-> NoSock, key |-> NoSock, n |-> 0, sock |-> NoSock]

Init ==
  /\ TcpInit
  /\ conn = [c \in Clients |-> "none"]
  /\ key = [c \in Clients |-> "none"]
  /\ assoc = {}
  /\ io = [i \in Ios |-> FreshIo]
  /\ port = << >>
  /\ main = [pc |-> "accept", client |-> NoSock]
  /\ wk = [w \in Workers |-> IdleWorker]

-----------------------------------------------------------------------------
(* Overlapped calls.                                                       *)

\* WSASend and WSARecv fail at once, queueing nothing, on a connection that
\* was reset; nobody looks at their result.
CallFails(c) == conn[c] # "open" \/ peer[c] = "rst"

\* malloc; which of the free blocks it returns makes no difference.
CanMalloc == \E i \in Ios : io[i].st = "free"
Malloc == CHOOSE i \in Ios : io[i].st = "free"

\* A block as malloc, memset and lines 155-157 (93-95) leave it, handed to
\* WSARecv for connection c.
RecvBlock(c) ==
  [st |-> IF CallFails(c) THEN "lost" ELSE "posted",
   mode |-> "READ", client |-> c, lo |-> 0, n |-> 0]

\* Variant: rwMode is left at READ.
SendBlockRead(c, n) ==
  [st |-> IF CallFails(c) THEN "lost" ELSE "posted",
   mode |-> "READ", client |-> c, lo |-> Len(wire[c]) + 1, n |-> n]

\* The same block reused for the echo: rwMode and wsabuf.len are set, the
\* buffer keeps the bytes.
SendBlock(c, n) ==
  [st |-> IF CallFails(c) THEN "lost" ELSE "posted",
   mode |-> "WRITE", client |-> c, lo |-> Len(wire[c]) + 1, n |-> n]

\* The blocks whose WSASend on c has not completed yet.
PendingSends(c) ==
  {i \in Ios : io[i].st = "posted" /\ io[i].mode = "WRITE" /\ io[i].client = c}

\* The kernel queues a packet for block i that reports n bytes.
Complete(i, b) ==
  /\ io' = [io EXCEPT ![i] = b]
  /\ port' = Append(port, i)

\* A receive completes with what has arrived, at most BUF_LEN bytes; with 0
\* bytes at the end of the stream, and also, as a failed completion, after a
\* reset (GetQueuedCompletionStatus's own result is not looked at).
CompleteRead(i) ==
  LET c == io[i].client IN
  /\ io[i].st = "posted" /\ io[i].mode = "READ"
  /\ c \in assoc
  /\ \/ /\ ~CallFails(c)
        /\ \E n \in 1..BufLen :
             /\ n <= Unread(c)
             /\ Complete(i, [io[i] EXCEPT !.st = "queued", !.lo = read[c] + 1, !.n = n])
             /\ read' = [read EXCEPT ![c] = @ + n]
     \/ /\ CallFails(c) \/ (peer[c] = "fin" /\ Unread(c) = 0)
        /\ Complete(i, [io[i] EXCEPT !.st = "queued"])
        /\ UNCHANGED read
  /\ UNCHANGED <<peer, sent, wire, delivered, conn, key, assoc, main, wk>>

\* Sends of one socket complete in the order of the calls.  After a reset,
\* or once closesocket has cancelled them, they complete without effect.
CompleteWrite(i) ==
  LET c == io[i].client IN
  /\ i \in PendingSends(c)
  /\ \A j \in PendingSends(c) : io[i].lo <= io[j].lo
  /\ Complete(i, [io[i] EXCEPT !.st = "queued"])
  /\ delivered' = [delivered EXCEPT ![c] = IF CallFails(c) THEN @ ELSE @ + io[i].n]
  /\ UNCHANGED <<peer, sent, read, wire, conn, key, assoc, main, wk>>

-----------------------------------------------------------------------------
(* The main thread: lines 67-103.                                          *)

\* accept; it returns INVALID_SOCKET for a connection that is already reset,
\* and the loop goes on with that value.
Accept(c) ==
  /\ main.pc = "accept"
  /\ conn[c] = "none" /\ peer[c] # "away"
  /\ conn' = [conn EXCEPT ![c] = IF peer[c] = "rst" THEN "invalid" ELSE "open"]
  /\ main' = [pc |-> "register", client |-> c]
  /\ UNCHANGED <<tcpVars, key, assoc, io, port, wk>>

\* Variant: the socket is never associated with the port.
RegisterUnassociated ==
  /\ main.pc = "register"
  /\ key' = [key EXCEPT ![main.client] = "live"]
  /\ main' = [main EXCEPT !.pc = "recv"]
  /\ UNCHANGED <<tcpVars, conn, assoc, io, port, wk>>

\* malloc and fill comp_key, associate the socket with the port.
Register ==
  /\ main.pc = "register"
  /\ key' = [key EXCEPT ![main.client] = "live"]
  /\ assoc' = IF conn[main.client] = "open" THEN assoc \cup {main.client} ELSE assoc
  /\ main' = [main EXCEPT !.pc = "recv"]
  /\ UNCHANGED <<tcpVars, conn, io, port, wk>>

FirstRecv ==
  /\ main.pc = "recv"
  /\ CanMalloc
  /\ io' = [io EXCEPT ![Malloc] = RecvBlock(main.client)]
  /\ main' = [pc |-> "accept", client |-> NoSock]
  /\ UNCHANGED <<tcpVars, conn, key, assoc, port, wk>>

-----------------------------------------------------------------------------
(* A worker thread: the loop of EchoThreadMain, lines 117-170.             *)

\* GetQueuedCompletionStatus returns the byte count, the key given to
\* CreateIoCompletionPort for the socket, and the block.
Dequeue(w) ==
  /\ wk[w].pc = "wait"
  /\ port # << >>
  /\ port' = Tail(port)
  /\ io' = [io EXCEPT ![Head(port)].st = "held"]
  /\ wk' = [wk EXCEPT ![w] = [pc |-> "load", io |-> Head(port), sock |-> NoSock,
                              key |-> io[Head(port)].client, n |-> io[Head(port)].n]]
  /\ UNCHANGED <<tcpVars, conn, key, assoc, main>>

\* Variant: the end of the stream frees without closesocket.
BranchNoClose(mode, n) ==
  CASE mode = "WRITE"          -> "freeio"
    [] mode = "READ" /\ n = 0  -> "free"
    [] OTHER                   -> "send"

\* The branch a packet takes: rwMode is tested first, then the byte count.
Branch(mode, n) ==
  CASE mode = "WRITE"          -> "freeio"
    [] mode = "READ" /\ n = 0  -> "close"
    [] OTHER                   -> "send"

\* client_sock = comp_key->client_sock (line 128), before rwMode is tested.
\* Reading a record that has been freed yields any value.
LoadKey(w) ==
  /\ wk[w].pc = "load"
  /\ \E s \in Clients \cup {NoSock} :
       /\ key[wk[w].key] = "live" => s = wk[w].key
       /\ wk' = [wk EXCEPT ![w].sock = s,
                           ![w].pc = Branch(io[wk[w].io].mode, wk[w].n)]
  /\ UNCHANGED <<tcpVars, conn, key, assoc, io, port, main>>

CloseSock(w) ==
  /\ wk[w].pc = "close"
  /\ conn' = [conn EXCEPT ![wk[w].sock] = "closed"]
  /\ wk' = [wk EXCEPT ![w].pc = "free"]
  /\ UNCHANGED <<tcpVars, key, assoc, io, port, main>>

\* Variant: without the continue.
FreeBothFallThrough(w) ==
  /\ wk[w].pc = "free"
  /\ key' = [key EXCEPT ![wk[w].key] = "freed"]
  /\ io' = [io EXCEPT ![wk[w].io] = FreshIo]
  /\ wk' = [wk EXCEPT ![w].pc = "send"]
  /\ UNCHANGED <<tcpVars, conn, assoc, port, main>>

\* free(comp_key), free(io_data), continue.
FreeBoth(w) ==
  /\ wk[w].pc = "free"
  /\ key' = [key EXCEPT ![wk[w].key] = "freed"]
  /\ io' = [io EXCEPT ![wk[w].io] = FreshIo]
  /\ wk' = [wk EXCEPT ![w] = IdleWorker]
  /\ UNCHANGED <<tcpVars, conn, assoc, port, main>>

\* Variant: wsabuf.len keeps BUF_LEN, so the whole buffer goes out.
WholeBuffer(w) == Chunk(io[wk[w].io].lo, BufLen)

\* The bytes WSASend takes: wsabuf.len was set to bytes_len.
Received(w) == Chunk(io[wk[w].io].lo, wk[w].n)

\* wsabuf.len = bytes_len, rwMode = WRITE, WSASend.
SendBack(w) ==
  LET c == wk[w].sock IN
  /\ wk[w].pc = "send"
  /\ io' = [io EXCEPT ![wk[w].io] = SendBlock(c, wk[w].n)]
  /\ wire' = IF CallFails(c) THEN wire
             ELSE [wire EXCEPT ![c] = @ \o Received(w)]
  /\ wk' = [wk EXCEPT ![w] = [pc |-> "recv", io |-> NoSock, sock |-> c, key |-> NoSock, n |-> 0]]
  /\ UNCHANGED <<peer, sent, read, delivered, conn, key, assoc, port, main>>

\* malloc next_io_data and post the next receive of the connection.
RecvNext(w) ==
  /\ wk[w].pc = "recv"
  /\ CanMalloc
  /\ io' = [io EXCEPT ![Malloc] = RecvBlock(wk[w].sock)]
  /\ wk' = [wk EXCEPT ![w] = IdleWorker]
  /\ UNCHANGED <<tcpVars, conn, key, assoc, port, main>>

\* Variant: the WRITE branch frees comp_key as the READ branch does.
FreeIoAndKey(w) ==
  /\ wk[w].pc = "freeio"
  /\ io' = [io EXCEPT ![wk[w].io] = FreshIo]
  /\ key' = [key EXCEPT ![wk[w].key] = "freed"]
  /\ wk' = [wk EXCEPT ![w] = IdleWorker]
  /\ UNCHANGED <<tcpVars, conn, assoc, port, main>>

\* The WRITE branch: free(io_data).
FreeIo(w) ==
  /\ wk[w].pc = "freeio"
  /\ io' = [io EXCEPT ![wk[w].io] = FreshIo]
  /\ wk' = [wk EXCEPT ![w] = IdleWorker]
  /\ UNCHANGED <<tcpVars, conn, key, assoc, port, main>>

Worker(w) ==
  \/ Dequeue(w) \/ LoadKey(w) \/ CloseSock(w) \/ FreeBoth(w)
  \/ SendBack(w) \/ RecvNext(w) \/ FreeIo(w)

MainThread == (\E c \in Clients : Accept(c)) \/ Register \/ FirstRecv

Kernel(i) == CompleteRead(i) \/ CompleteWrite(i)

Peer(c) == PeerStep(c) /\ UNCHANGED srvVars

Next ==
  \/ MainThread
  \/ \E w \in Workers : Worker(w)
  \/ \E i \in Ios : Kernel(i)
  \/ \E c \in Clients : Peer(c)

\* Every thread is scheduled and the kernel completes what can complete;
\* clients are free to do nothing.
Fairness ==
  /\ WF_vars(MainThread)
  /\ \A c \in Clients : WF_vars(Accept(c))
  /\ \A w \in Workers : WF_vars(Worker(w))
  /\ \A i \in Ios : WF_vars(Kernel(i))

Spec == Init /\ [][Next]_vars /\ Fairness
-----------------------------------------------------------------------------
(* What must hold.                                                         *)

\* Every variable keeps its type.
TypeOK == TcpTypeOK /\ IocpTypeOK

\* Whatever worker handles which packet, the bytes of a connection are handed
\* to WSASend exactly as they were received: none twice, none skipped, none
\* overtaken; and no more is delivered than was handed over.
EchoInOrder ==
  \A c \in Clients :
    /\ wire[c] = Chunk(1, Len(wire[c]))
    /\ Len(wire[c]) <= read[c]
    /\ delivered[c] <= Len(wire[c])

\* Who may receive on connection c or close it: the main thread before its
\* first WSARecv, a block on its way from WSARecv to the READ branch, a
\* worker between WSASend and WSARecv.
Readers(c) ==
  {<<"main", t>> : t \in {t \in {main} : t.pc # "accept" /\ t.client = c}}
  \cup {<<"io", i>> : i \in {i \in Ios : /\ io[i].mode = "READ" /\ io[i].client = c
                                       /\ io[i].st \in {"posted", "queued", "held"}}}
  \cup {<<"wk", w>> : w \in {w \in Workers : wk[w].pc = "recv" /\ wk[w].sock = c}}

\* There is never more than one: this is what keeps the workers from
\* receiving one connection's bytes out of order or closing it twice.
OneReader == \A c \in Clients : \A x, y \in Readers(c) : x = y

\* The READ branch works on a connection that is open and whose record is
\* live, up to its own closesocket and free (lines 130-165).
ReadBranchOwnsConn ==
  \A w \in Workers :
    /\ wk[w].pc \in {"send", "recv", "close"} =>
         /\ wk[w].sock \in Clients
         /\ conn[wk[w].sock] = "open"
         /\ key[wk[w].sock] = "live"
    /\ wk[w].pc = "free" => conn[wk[w].key] = "closed" /\ key[wk[w].key] = "live"

\* A PER_IO_DATA block is in one place at a time: with the kernel, in one
\* packet of the port, or with one worker; a worker drops none that it took
\* from the port without giving it back to the kernel or to free.
BlockInOnePlace ==
  \A i \in Ios :
    LET packets == {k \in 1..Len(port) : port[k] = i}
        holders == {w \in Workers : wk[w].pc \notin {"wait", "recv"} /\ wk[w].io = i}
    IN /\ \A x, y \in packets : x = y
       /\ \A x, y \in holders : x = y
       /\ (packets # {}) <=> (io[i].st = "queued")
       /\ (holders # {}) <=> (io[i].st = "held")

\* A block is leaked, and a connection with it, only where the peer reset the
\* connection before WSASend or WSARecv was called.
LeakOnlyAfterReset ==
  \A i \in Ios : io[i].st = "lost" => peer[io[i].client] = "rst"

\* What GetQueuedCompletionStatus hands to a worker as the state of a completed
\* operation (lines 119 and 120) is valid until the worker has used it: comp_key is
\* a live record when the socket is loaded from it (line 128), for a send too,
\* whatever another worker does between the dequeue and the load.
KeyOutlivesCompletions ==
  \A w \in Workers : wk[w].pc = "load" => key[wk[w].key] = "live"

\* A connection whose client closed gracefully is closed, and all the memory
\* it took is freed.
ReleasedAfterFin ==
  \A c \in Clients \ Resetters :
    (peer[c] = "fin") ~> /\ conn[c] = "closed" /\ key[c] = "freed"
                        /\ \A i \in Ios : io[i].st # "free" => io[i].client # c

\* The server is an echo service: a delivered byte is an echoed one, a client
\* has left when it closed or lost its end, and closesocket releases it.
Service == INSTANCE EchoService WITH
  Served   <- Clients \ (Resetters \cup Impatient),
  echoed   <- [c \in Clients |-> SubSeq(wire[c], 1, delivered[c])],
  left     <- [c \in Clients |-> peer[c] \in {"fin", "rst"}],
  released <- [c \in Clients |-> conn[c] = "closed"]

ImplementsEchoService == Service!Spec
-----------------------------------------------------------------------------
(* Why it holds: an inductive invariant.  The right to receive on a        *)
(* connection is a token; it travels main -> posted block -> packet ->     *)
(* worker -> posted block ... and carries the count of bytes received.     *)

Active(i) == io[i].mode = "READ" /\ io[i].st \in {"posted", "queued", "held"}
Sending(i) == io[i].mode = "WRITE" /\ io[i].st = "posted"
Holds(w) == wk[w].pc \in {"load", "close", "free", "send", "freeio"}

MainInv ==
  /\ main.pc = "accept" <=> main.client = NoSock
  /\ main.pc # "accept" => conn[main.client] \in {"open", "invalid"}
  /\ main.pc = "register" => key[main.client] = "none"
  /\ main.pc = "recv" => key[main.client] = "live"

ConnInv ==
  \A c \in Clients :
    /\ conn[c] = "none" => key[c] = "none" /\ read[c] = 0 /\ wire[c] = << >>
    /\ conn[c] # "none" => peer[c] # "away"
    /\ conn[c] = "invalid" => peer[c] = "rst"
    /\ read[c] <= sent[c]

WorkerOK(w) ==
  LET i == wk[w].io IN
  /\ Holds(w) => /\ i \in Ios /\ io[i].st = "held"
                 /\ wk[w].key = io[i].client /\ wk[w].n = io[i].n
  /\ wk[w].pc \in {"close", "free", "send"} =>
       io[i].mode = "READ" /\ wk[w].sock = wk[w].key
  /\ wk[w].pc = "freeio" => io[i].mode = "WRITE"
  /\ wk[w].pc = "send" => wk[w].n > 0
  /\ wk[w].pc \in {"close", "free"} => wk[w].n = 0
  /\ (wk[w].pc \in {"load", "close", "send"} /\ io[i].mode = "READ") =>
       conn[wk[w].key] = "open" /\ key[wk[w].key] = "live"
  /\ wk[w].pc = "free" => conn[wk[w].key] = "closed" /\ key[wk[w].key] = "live"
  /\ wk[w].pc = "recv" => /\ wk[w].sock \in Clients
                          /\ conn[wk[w].sock] = "open" /\ key[wk[w].sock] = "live"

WorkerInv == \A w \in Workers : WorkerOK(w)

HolderInv ==
  \A v, w \in Workers : Holds(v) /\ Holds(w) /\ wk[v].io = wk[w].io => v = w

BlockOK(i) ==
  /\ io[i].st # "free" => io[i].client \in Clients /\ conn[io[i].client] # "none"
  /\ (io[i].st \in {"posted", "queued"} /\ io[i].mode = "READ") =>
       conn[io[i].client] = "open" /\ key[io[i].client] = "live"
  /\ (Active(i) /\ io[i].st # "posted" /\ io[i].n = 0) =>
       peer[io[i].client] \in {"fin", "rst"}
  /\ io[i].st = "lost" => peer[io[i].client] = "rst"

BlockInv == \A i \in Ios : BlockOK(i)

ReaderInv ==
  /\ \A i, j \in Ios : Active(i) /\ Active(j) /\ io[i].client = io[j].client => i = j
  /\ \A i \in Ios : Active(i) => io[i].client # main.client
  /\ \A i \in Ios, w \in Workers :
       Active(i) /\ wk[w].pc = "recv" => io[i].client # wk[w].sock
  /\ \A w \in Workers : wk[w].pc = "recv" => wk[w].sock # main.client
  /\ \A v, w \in Workers :
       wk[v].pc = "recv" /\ wk[w].pc = "recv" /\ wk[v].sock = wk[w].sock => v = w

PortInv ==
  /\ \A k \in 1..Len(port) : io[port[k]].st = "queued"
  /\ \A k, l \in 1..Len(port) : port[k] = port[l] => k = l
  /\ \A i \in Ios : io[i].st = "queued" => \E k \in 1..Len(port) : port[k] = i

\* What has been received is what has been sent back plus what the token
\* carries.
StreamInv ==
  /\ \A c \in Clients : wire[c] = Chunk(1, Len(wire[c])) /\ Len(wire[c]) <= read[c]
  /\ \A i \in Ios : Active(i) =>
       /\ read[io[i].client] = Len(wire[io[i].client]) + io[i].n
       /\ io[i].n > 0 => io[i].lo = Len(wire[io[i].client]) + 1
       /\ io[i].st = "posted" => io[i].n = 0
  /\ main.pc # "accept" => read[main.client] = Len(wire[main.client])
  /\ \A w \in Workers : wk[w].pc = "recv" =>
       read[wk[w].sock] = Len(wire[wk[w].sock]) \/ peer[wk[w].sock] = "rst"

\* The sends in flight are disjoint stretches of the stream, none of them
\* delivered.
SendInv ==
  /\ \A c \in Clients : delivered[c] <= Len(wire[c])
  /\ \A i \in Ios : Sending(i) =>
       /\ io[i].n > 0 /\ delivered[io[i].client] < io[i].lo
       /\ io[i].lo + io[i].n <= Len(wire[io[i].client]) + 1
  /\ \A i, j \in Ios :
       Sending(i) /\ Sending(j) /\ io[i].client = io[j].client /\ i # j =>
         io[i].lo + io[i].n <= io[j].lo \/ io[j].lo + io[j].n <= io[i].lo

IInv ==
  /\ TypeOK /\ MainInv /\ ConnInv /\ WorkerInv /\ HolderInv /\ BlockInv
  /\ ReaderInv /\ PortInv /\ StreamInv /\ SendInv
=============================================================================
