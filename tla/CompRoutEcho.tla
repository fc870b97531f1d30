--------------------------- MODULE CompRoutEcho ---------------------------
(***************************************************************************)
(* 02_final/ch23_OIO-CompRout-server.c: one thread that accepts without    *)
(* blocking and runs completion routines while it sleeps in SleepEx.  Each *)
(* connection has one OVERLAPPED and one PER_IO_DATA for all of its life;  *)
(* the pair, and the connection, are named after the client.               *)
(***************************************************************************)
EXTENDS TcpPeer

CONSTANTS
  BufLen,      \* BUF_LEN
  NoSock       \* no socket yet

ASSUME CompRoutAssumption == BufLen \in Nat \ {0} /\ NoSock \notin Clients

VARIABLES
  conn,        \* conn[c]: the server's socket for client c
  block,       \* block[c]: the pair malloc'ed for c and what it is used for
  apcs,        \* the completion routines queued to the thread, oldest first
  pc,          \* "sleep", "accept", "recv" or "exit"
  cur          \* client_sock of main

srvVars == <<conn, block, apcs, pc, cur>>
vars == <<tcpVars, srvVars>>

\* st: with the kernel ("posted"), in a queued routine ("queued"), handed to
\* a call that failed at once ("lost").  n bytes from byte lo on are in buf,
\* len is wsaBuf.len.
Block ==
  [st : {"none", "posted", "queued", "lost", "freed"}, op : {"read", "write"},
   lo : Nat, n : 0..BufLen, len : 0..BufLen]

CompRoutTypeOK ==
  /\ conn \in [Clients -> {"none", "open", "closed"}]
  /\ block \in [Clients -> Block]
  /\ apcs \in Seq(Clients)
  /\ pc \in {"sleep", "accept", "recv", "exit"}
  /\ cur \in Clients \cup {NoSock}

\* Lines 24-49.
Init ==
  /\ TcpInit
  /\ conn = [c \in Clients |-> "none"]
  /\ block = [c \in Clients |-> [st |-> "none", op |-> "read", lo |-> 0, n |-> 0, len |-> BufLen]]
  /\ apcs = << >>
  /\ pc = "sleep" /\ cur = NoSock

-----------------------------------------------------------------------------
(* Overlapped calls and their completion.                                  *)

\* WSARecv or WSASend: on a connection that was reset it fails at once, and
\* no routine will run; nobody looks at the result.
Post(c, op) == [block[c] EXCEPT !.st = IF peer[c] = "rst" THEN "lost" ELSE "posted", !.op = op]

\* The routine is queued with n bytes transferred.
Queue(c, b) ==
  /\ block' = [block EXCEPT ![c] = b]
  /\ apcs' = Append(apcs, c)

CompleteRead(c) ==
  /\ block[c].st = "posted" /\ block[c].op = "read"
  /\ \/ /\ peer[c] # "rst"
        /\ \E n \in 1..block[c].len :
             /\ n <= Unread(c)
             /\ Queue(c, [block[c] EXCEPT !.st = "queued", !.lo = read[c] + 1, !.n = n])
             /\ read' = [read EXCEPT ![c] = @ + n]
     \/ /\ peer[c] = "rst" \/ (peer[c] = "fin" /\ Unread(c) = 0)
        /\ Queue(c, [block[c] EXCEPT !.st = "queued", !.n = 0])
        /\ UNCHANGED read
  /\ UNCHANGED <<peer, sent, wire, delivered, conn, pc, cur>>

CompleteWrite(c) ==
  /\ block[c].st = "posted" /\ block[c].op = "write"
  /\ Queue(c, [block[c] EXCEPT !.st = "queued"])
  /\ delivered' = [delivered EXCEPT ![c] = IF peer[c] = "rst" THEN @ ELSE Len(wire[c])]
  /\ UNCHANGED <<peer, sent, read, wire, conn, pc, cur>>

-----------------------------------------------------------------------------
(* The completion routines.                                                *)

\* The oldest routine of the queue runs, while the thread sleeps.
Run(c, op) ==
  /\ pc = "sleep" /\ apcs # << >>
  /\ c = Head(apcs) /\ block[c].op = op
  /\ apcs' = Tail(apcs)

\* Variant: the routine goes on after closesocket.
ReadEndGoesOn(c) ==
  /\ Run(c, "read") /\ block[c].n = 0
  /\ conn' = [conn EXCEPT ![c] = "closed"]
  /\ block' = [block EXCEPT ![c] = Post(c, "read")]
  /\ UNCHANGED <<tcpVars, pc, cur>>

\* read_completion_routine with 0 bytes: closesocket, and both blocks freed.
ReadEnd(c) ==
  /\ Run(c, "read") /\ block[c].n = 0
  /\ conn' = [conn EXCEPT ![c] = "closed"]
  /\ block' = [block EXCEPT ![c].st = "freed"]
  /\ UNCHANGED <<tcpVars, pc, cur>>

\* What WSASend is given: len was set to szRecvBytes.
Received(c) == Chunk(block[c].lo, block[c].n)

\* Variant: the next receive is posted along with the send, on the same pair.
ReadDataAhead(c) ==
  /\ Run(c, "read") /\ block[c].n > 0
  /\ block' = [block EXCEPT ![c] = [Post(c, "read") EXCEPT !.len = block[c].n]]
  /\ wire' = IF peer[c] = "rst" THEN wire ELSE [wire EXCEPT ![c] = @ \o Received(c)]
  /\ UNCHANGED <<peer, sent, read, delivered, conn, pc, cur>>

\* read_completion_routine with data: the same pair is used for WSASend.
ReadData(c) ==
  /\ Run(c, "read") /\ block[c].n > 0
  /\ block' = [block EXCEPT ![c] = [Post(c, "write") EXCEPT !.len = block[c].n]]
  /\ wire' = IF peer[c] = "rst" THEN wire ELSE [wire EXCEPT ![c] = @ \o Received(c)]
  /\ UNCHANGED <<peer, sent, read, delivered, conn, pc, cur>>

\* write_completion_routine: len is restored, the next WSARecv posted.
WriteDone(c) ==
  /\ Run(c, "write")
  /\ block' = [block EXCEPT ![c] = [Post(c, "read") EXCEPT !.len = BufLen]]
  /\ UNCHANGED <<tcpVars, conn, pc, cur>>

-----------------------------------------------------------------------------
(* The main loop: lines 51-86.                                             *)

\* SleepEx returns once no routine is left to run.
Wake ==
  /\ pc = "sleep" /\ apcs = << >>
  /\ pc' = "accept"
  /\ UNCHANGED <<tcpVars, conn, block, apcs, cur>>

Pending == {c \in Clients : conn[c] = "none" /\ peer[c] # "away"}

\* Variant: every failure of accept ends the program, WSAEWOULDBLOCK too.
AcceptNoneExit ==
  /\ pc = "accept" /\ Pending = {}
  /\ pc' = "exit"
  /\ UNCHANGED <<tcpVars, conn, block, apcs, cur>>

AcceptNone ==
  /\ pc = "accept" /\ Pending = {}
  /\ pc' = "sleep"
  /\ UNCHANGED <<tcpVars, conn, block, apcs, cur>>

AcceptClient(c) ==
  /\ pc = "accept" /\ c \in Pending /\ peer[c] # "rst"
  /\ conn' = [conn EXCEPT ![c] = "open"]
  /\ pc' = "recv" /\ cur' = c
  /\ UNCHANGED <<tcpVars, block, apcs>>

\* accept fails with another error than WSAEWOULDBLOCK for a connection that
\* was reset while it waited: error_handling ends the process.
AcceptFails(c) ==
  /\ pc = "accept" /\ c \in Pending /\ peer[c] = "rst"
  /\ pc' = "exit"
  /\ UNCHANGED <<tcpVars, conn, block, apcs, cur>>

\* The pair is allocated and the first WSARecv posted.
FirstRecv ==
  /\ pc = "recv"
  /\ block' = [block EXCEPT ![cur] = Post(cur, "read")]
  /\ pc' = "sleep" /\ cur' = NoSock
  /\ UNCHANGED <<tcpVars, conn, apcs>>

Server ==
  \/ Wake \/ AcceptNone \/ FirstRecv
  \/ \E c \in Clients : \/ AcceptClient(c) \/ AcceptFails(c)
                        \/ ReadEnd(c) \/ ReadData(c) \/ WriteDone(c)

Kernel(c) == pc # "exit" /\ (CompleteRead(c) \/ CompleteWrite(c))

Peer(c) == PeerStep(c) /\ UNCHANGED srvVars

Next == Server \/ \E c \in Clients : Kernel(c) \/ Peer(c)

\* The thread is scheduled and the kernel completes what can complete.
Fairness == WF_vars(Server) /\ \A c \in Clients : WF_vars(Kernel(c))

Spec == Init /\ [][Next]_vars /\ Fairness
-----------------------------------------------------------------------------
(* What must hold.                                                         *)

TypeOK == TcpTypeOK /\ CompRoutTypeOK

\* The buffer of a connection is not written by a receive before what it
\* holds has been delivered: one operation at a time is all that keeps the
\* one buffer from being overwritten under WSASend.
BufferNotReused ==
  \A c \in Clients :
    block[c].st = "posted" /\ block[c].op = "read" =>
      peer[c] = "rst" \/ (read[c] = Len(wire[c]) /\ delivered[c] = Len(wire[c]))

\* A queued routine finds the pair it was given, once, and its socket open.
RoutinesFindTheirBlock ==
  /\ \A k \in 1..Len(apcs) : block[apcs[k]].st = "queued" /\ conn[apcs[k]] = "open"
  /\ \A j, k \in 1..Len(apcs) : apcs[j] = apcs[k] => j = k

\* What ends the server (line 64), and the only thing that may: a connection
\* was reset before it was accepted.
ResetInBacklog == \E c \in Clients : peer[c] = "rst" /\ conn[c] = "none"

\* The server is an echo service for every client, in each step and, unless a
\* connection was reset before it was accepted, in what it gets done: the one
\* accept per SleepEx keeps no client waiting for ever, and every connection
\* whose client has closed it is closed and its pair freed.
Service == INSTANCE EchoService WITH
  Served   <- Clients \ Resetters,
  echoed   <- [c \in Clients |-> SubSeq(wire[c], 1, delivered[c])],
  left     <- [c \in Clients |-> peer[c] \in {"fin", "rst"}],
  released <- [c \in Clients |-> conn[c] = "closed" /\ block[c].st = "freed"]

ImplementsEchoService ==
  /\ Service!Init /\ [][Service!Next]_(Service!vars)
  /\ ([]<>ResetInBacklog) \/ Service!Fairness
-----------------------------------------------------------------------------
(* Why it holds: an inductive invariant.  What a connection's pair is used *)
(* for says how far its echo is behind what has been received.             *)

MainInv == pc = "recv" => cur \in Clients /\ conn[cur] = "open" /\ block[cur].st = "none"

ConnOK(c) ==
  /\ conn[c] = "none" => block[c].st = "none"
  /\ block[c].st \in {"posted", "queued"} => conn[c] = "open"

ApcInv ==
  /\ \A k \in 1..Len(apcs) : block[apcs[k]].st = "queued"
  /\ \A j, k \in 1..Len(apcs) : apcs[j] = apcs[k] => j = k

StreamOK(c) ==
  /\ wire[c] = Chunk(1, Len(wire[c]))
  /\ delivered[c] <= Len(wire[c]) /\ Len(wire[c]) <= read[c] /\ read[c] <= sent[c]

PairOK(c) ==
  LET b == block[c] IN
  /\ b.st = "none" => read[c] = 0
  /\ b.st = "posted" /\ b.op = "read" =>
       peer[c] = "rst" \/ (read[c] = Len(wire[c]) /\ delivered[c] = Len(wire[c]))
  /\ b.st = "queued" /\ b.op = "read" =>
       IF b.n = 0 THEN peer[c] \in {"fin", "rst"}
       ELSE b.lo = Len(wire[c]) + 1 /\ read[c] = Len(wire[c]) + b.n
  /\ b.st \in {"posted", "queued"} /\ b.op = "write" => read[c] = Len(wire[c])
  /\ b.st = "queued" /\ b.op = "write" => delivered[c] = Len(wire[c]) \/ peer[c] = "rst"

IInv ==
  /\ TypeOK /\ MainInv /\ ApcInv
  /\ \A c \in Clients : ConnOK(c) /\ StreamOK(c) /\ PairOK(c)
=============================================================================
