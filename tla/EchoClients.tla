---------------------------- MODULE EchoClients ----------------------------
(***************************************************************************)
(* The four echo clients, 01_midterm/ch04_tcp-client.c and, of 02_final,   *)
(* ch12_IOM-select-client.c, ch21_asyncNoti-WSAEvent-client.c and          *)
(* ch23_echo-client.c; the variable program says which one all clients     *)
(* run.  ch04 meets the server of its chapter, which serves one client     *)
(* after the other; the others meet any server that keeps the promises of  *)
(* EchoService.  A server may be stopped.                                  *)
(*                                                                         *)
(* Byte k of a client is the number k, and 0 is NUL, as in TcpPeer.        *)
(***************************************************************************)
EXTENDS Integers, Sequences

CONSTANTS
  Clients,     \* the clients, one connection each
  Killable,    \* those that may be stopped while they wait
  Lens,        \* the lengths of the lines their users type
  MaxSent,     \* bound: how many bytes a client sends
  BufLen,      \* BUF_LEN of the client
  SrvMax       \* the most a server's recv takes: its BUF_LEN - 1

ASSUME EchoClientsAssumption ==
  /\ Killable \subseteq Clients
  /\ BufLen \in Nat \ {0, 1} /\ SrvMax \in Nat \ {0} /\ MaxSent \in Nat
  /\ Lens \subseteq Nat \ {0}

VARIABLES
  program,     \* "ch04", "ch12", "ch21" or "ch23"
  cl,          \* cl[c]: where client c is
  total,       \* total[c]: recv_total, len of recv_n, buf_len
  sum,         \* sum[c]: recv_sum, len - left of recv_n, bytes_len
  buf,         \* buf[c]: buf
  shown,       \* shown[c]: the message it printed last
  sent,        \* sent[c]: how many bytes it has sent
  rcvd,        \* rcvd[c]: how many of them it has received back
  echoed,      \* echoed[c]: how many of them its server has sent back
  held,        \* held[c]: how many more are in its server's buf
  srv,         \* srv[c]: the server's end of the connection
  link,        \* link[c]: what the client sees of that end
  stopped      \* the server was stopped

clientVars == <<cl, total, sum, buf, shown, sent, rcvd>>
serverVars == <<echoed, held, srv, link, stopped>>
echoVars == <<program, clientVars, serverVars>>

Idx == 0..BufLen
Programs == {"ch04", "ch12", "ch21", "ch23"}

\* "wild": the client has written outside buf, and may do anything.
EchoTypeOK ==
  /\ program \in Programs
  /\ cl \in [Clients -> {"away", "ask", "wait", "done", "wild"}]
  /\ total \in [Clients -> Nat] /\ sum \in [Clients -> Nat]
  /\ buf \in [Clients -> [Idx -> 0..MaxSent]]
  /\ shown \in [Clients -> Seq(1..MaxSent)]
  /\ sent \in [Clients -> 0..MaxSent] /\ rcvd \in [Clients -> 0..MaxSent]
  /\ echoed \in [Clients -> 0..MaxSent] /\ held \in [Clients -> 0..SrvMax]
  /\ srv \in [Clients -> {"none", "open", "closed"}]
  /\ link \in [Clients -> {"up", "fin", "rst"}]
  /\ stopped \in BOOLEAN

Zeros == [c \in Clients |-> 0]

EchoInit ==
  /\ program \in Programs
  /\ cl = [c \in Clients |-> "away"]
  /\ total = Zeros /\ sum = Zeros
  /\ buf = [c \in Clients |-> [j \in Idx |-> 0]]
  /\ shown = [c \in Clients |-> << >>]
  /\ sent = Zeros /\ rcvd = Zeros /\ echoed = Zeros /\ held = Zeros
  /\ srv = [c \in Clients |-> "none"]
  /\ link = [c \in Clients |-> "up"]
  /\ stopped = FALSE

-----------------------------------------------------------------------------
(* What is in buf.                                                         *)

Bytes(lo, hi) == [k \in 1..(hi - lo + 1) |-> lo + k - 1]

\* The string printf prints: what stands before the first NUL.
Text(b) ==
  LET n == CHOOSE n \in Idx : b[n] = 0 /\ \A j \in 0..(n - 1) : b[j] # 0
  IN [k \in 1..n |-> b[k - 1]]

\* The line the user types, as fgets or scanf leave it in buf.
Typed(c, n) ==
  [j \in Idx |-> IF j < n THEN sent[c] + j + 1
                 ELSE IF j = n \/ program = "ch12" THEN 0 ELSE buf[c][j]]

\* recv of m bytes to buf[at], then a NUL at each of the places of nul.
Received(c, at, m, nul) ==
  [j \in Idx |-> IF j \in nul THEN 0
                 ELSE IF at <= j /\ j < at + m THEN rcvd[c] + (j - at) + 1 ELSE buf[c][j]]

-----------------------------------------------------------------------------
(* The clients.                                                            *)

Connect(c) ==
  /\ cl[c] = "away" /\ ~stopped
  /\ cl' = [cl EXCEPT ![c] = "ask"]
  /\ UNCHANGED <<program, total, sum, buf, shown, sent, rcvd, serverVars>>

\* ch04's scanf("%s") is not told how long buf is.
Overlong(n) == program = "ch04" /\ n >= BufLen

\* The user's line, for which ch12's buf has one more place, and send.  After a
\* reset send fails: ch04 and ch12 leave the loop, ch21 and ch23 do not look.
Ask(c) ==
  /\ cl[c] = "ask"
  /\ \E n \in Lens :
       /\ program \in {"ch21", "ch23"} => n < BufLen
       /\ program = "ch12" => n <= BufLen
       /\ sent[c] + n <= MaxSent
       /\ buf' = [buf EXCEPT ![c] = Typed(c, n)]
       /\ total' = [total EXCEPT ![c] = n] /\ sum' = [sum EXCEPT ![c] = 0]
       /\ sent' = [sent EXCEPT ![c] = @ + n]
       /\ cl' = [cl EXCEPT ![c] = IF Overlong(n) THEN "wild"
                                  ELSE IF link[c] = "rst" /\ program \in {"ch04", "ch12"}
                                  THEN "done" ELSE "wait"]
  /\ UNCHANGED <<program, shown, rcvd, serverVars>>

\* Variant: the loop waits for one byte more than was sent.
WholeLong(c, s) == s > total[c]

\* As much has come back as was sent.
Whole(c, s) == s >= total[c]

\* Variant: every piece is received to the start of buf.
PlaceFirst(c) == 0

Place(c) == sum[c]

\* ch04: a NUL behind the piece's length, counted from the start of buf, and
\* one behind what has been accumulated; what buf holds then is printed.
Ch04Piece(c, m) ==
  LET s == sum[c] + m
      b == Received(c, Place(c), m, {m, s})
  IN /\ m <= BufLen - 1
     /\ buf' = [buf EXCEPT ![c] = b] /\ sum' = [sum EXCEPT ![c] = s]
     /\ shown' = [shown EXCEPT ![c] = Text(b)]
     /\ cl' = [cl EXCEPT ![c] = IF Whole(c, s) THEN "ask" ELSE "wait"]

\* ch12 and ch23: a NUL behind the message, and print, once it is whole.
Piece(c, m) ==
  LET s == sum[c] + m
      b == Received(c, Place(c), m, IF Whole(c, s) THEN {total[c]} ELSE {})
  IN /\ buf' = [buf EXCEPT ![c] = b] /\ sum' = [sum EXCEPT ![c] = s]
     /\ IF Whole(c, s)
        THEN shown' = [shown EXCEPT ![c] = Text(b)] /\ cl' = [cl EXCEPT ![c] = "ask"]
        ELSE UNCHANGED <<shown, cl>>

\* recv_n asks for what is left.
Ch12Piece(c, m) == m <= total[c] - sum[c] /\ Piece(c, m)

Ch23Piece(c, m) == m <= BufLen - 1 /\ Piece(c, m)

\* ch21 receives once.
Ch21Piece(c, m) ==
  LET b == Received(c, 0, m, {m})
  IN /\ m <= BufLen - 1
     /\ buf' = [buf EXCEPT ![c] = b] /\ sum' = [sum EXCEPT ![c] = m]
     /\ shown' = [shown EXCEPT ![c] = Text(b)]
     /\ cl' = [cl EXCEPT ![c] = "ask"]

RecvData(c) ==
  /\ cl[c] = "wait" /\ link[c] # "rst"
  /\ \E m \in 1..(echoed[c] - rcvd[c]) :
       /\ \/ program = "ch04" /\ Ch04Piece(c, m)
          \/ program = "ch12" /\ Ch12Piece(c, m)
          \/ program = "ch21" /\ Ch21Piece(c, m)
          \/ program = "ch23" /\ Ch23Piece(c, m)
       /\ rcvd' = [rcvd EXCEPT ![c] = @ + m]
  /\ UNCHANGED <<program, total, sent, serverVars>>

\* recv returns 0.  ch04 clears flag and leaves both loops.  recv_n returns what
\* it has: ch12 leaves its loop for 0 and prints anything else.  ch21 prints an
\* empty string.  ch23 adds 0 and asks again, for ever, which is no step.
RecvEnd(c) ==
  /\ cl[c] = "wait" /\ link[c] = "fin" /\ rcvd[c] = echoed[c]
  /\ \/ /\ program = "ch04" \/ (program = "ch12" /\ sum[c] = 0)
        /\ cl' = [cl EXCEPT ![c] = "done"]
        /\ UNCHANGED <<buf, shown>>
     \/ /\ program = "ch21" \/ (program = "ch12" /\ sum[c] > 0)
        /\ LET b == Received(c, 0, 0, {IF program = "ch21" THEN 0 ELSE sum[c]}) IN
           /\ buf' = [buf EXCEPT ![c] = b]
           /\ shown' = [shown EXCEPT ![c] = Text(b)]
        /\ cl' = [cl EXCEPT ![c] = "ask"]
  /\ UNCHANGED <<program, total, sum, sent, rcvd, serverVars>>

\* recv returns -1.  Only recv_n looks; ch04 and ch21 write to buf[-1]; ch23
\* subtracts 1 and asks again, for ever.
RecvFails(c) ==
  /\ cl[c] = "wait" /\ link[c] = "rst" /\ program # "ch23"
  /\ cl' = [cl EXCEPT ![c] = IF program = "ch12" THEN "done" ELSE "wild"]
  /\ UNCHANGED <<program, total, sum, buf, shown, sent, rcvd, serverVars>>

\* The user ends the client where it asks; a client may be stopped elsewhere, and
\* one that has left its buffer may end at any moment.
Leave(c) ==
  /\ cl[c] \in {"ask", "wild"} \/ (cl[c] = "wait" /\ c \in Killable)
  /\ cl' = [cl EXCEPT ![c] = "done"]
  /\ UNCHANGED <<program, total, sum, buf, shown, sent, rcvd, serverVars>>

Recv(c) == RecvData(c) \/ RecvEnd(c) \/ RecvFails(c)

Client(c) == Connect(c) \/ Ask(c) \/ Recv(c) \/ Leave(c)

-----------------------------------------------------------------------------
(* The server.                                                             *)

\* ch04's accepts when it has no client, the others at any time.
Accept(c) ==
  /\ srv[c] = "none" /\ cl[c] # "away" /\ ~stopped
  /\ program = "ch04" => \A d \in Clients : srv[d] # "open"
  /\ srv' = [srv EXCEPT ![c] = "open"]
  /\ UNCHANGED <<program, clientVars, echoed, held, link, stopped>>

SrvRecv(c) ==
  /\ srv[c] = "open" /\ held[c] = 0
  /\ \E n \in 1..SrvMax : n <= sent[c] - echoed[c] /\ held' = [held EXCEPT ![c] = n]
  /\ UNCHANGED <<program, clientVars, echoed, srv, link, stopped>>

\* Variant: the terminator is sent too.
EchoLenLong(c) == held[c] + 1

EchoLen(c) == held[c]

SrvSend(c) ==
  /\ srv[c] = "open" /\ held[c] > 0
  /\ echoed' = [echoed EXCEPT ![c] = @ + EchoLen(c)]
  /\ held' = [held EXCEPT ![c] = 0]
  /\ UNCHANGED <<program, clientVars, srv, link, stopped>>

\* Variant: break is missing.
AfterEndNot == "open"

\* What becomes of the connection after recv's 0 or error, or send's error.
AfterEnd == "closed"

\* The client is gone: recv returns 0 or, for a connection left with bytes
\* under way, an error; or send fails.
SrvEnd(c) ==
  /\ srv[c] = "open" /\ cl[c] = "done"
  /\ srv' = [srv EXCEPT ![c] = AfterEnd]
  /\ UNCHANGED <<program, clientVars, echoed, held, link, stopped>>

\* The server is stopped: each client sees the end of the stream or a reset,
\* one that was not accepted a reset.
ServerStops ==
  /\ ~stopped /\ stopped' = TRUE
  /\ link' \in [Clients -> {"fin", "rst"}]
  /\ \A c \in Clients : srv[c] = "none" => link'[c] = "rst"
  /\ srv' = [c \in Clients |-> "closed"]
  /\ UNCHANGED <<program, clientVars, echoed, held>>

\* What was sent to a server that is gone is answered with a reset.
Refused(c) ==
  /\ link[c] = "fin" /\ cl[c] = "wait"
  /\ link' = [link EXCEPT ![c] = "rst"]
  /\ UNCHANGED <<program, clientVars, echoed, held, srv, stopped>>

Server(c) == SrvRecv(c) \/ SrvSend(c) \/ SrvEnd(c)

EchoNext ==
  \/ \E c \in Clients : Client(c) \/ Accept(c) \/ Server(c) \/ Refused(c)
  \/ ServerStops

\* Clients and server are scheduled; users, and whoever stops a program, are free.
EchoFairness ==
  \A c \in Clients : WF_echoVars(Recv(c)) /\ WF_echoVars(Accept(c)) /\ WF_echoVars(Server(c))

EchoSpec == EchoInit /\ [][EchoNext]_echoVars /\ EchoFairness
-----------------------------------------------------------------------------
(* What must hold.                                                         *)

Message(c) == Bytes(sent[c] - total[c] + 1, sent[c])

\* However the transport cut the echo, what ch12 and ch23 print is the message
\* they sent; only a server that ends in the middle makes ch12 print less of it.
\* What ch21 prints are the next bytes of the conversation, none left out.
PrintsTheEcho ==
  \A c \in Clients : cl[c] = "ask" /\ sent[c] > 0 =>
    CASE program = "ch23" -> shown[c] = Message(c)
      [] program = "ch12" -> shown[c] = Bytes(sent[c] - total[c] + 1, rcvd[c])
                             /\ (rcvd[c] = sent[c] \/ link[c] # "up")
      [] program = "ch21" -> shown[c] = Bytes(rcvd[c] - Len(shown[c]) + 1, rcvd[c])
      [] OTHER            -> TRUE

\* The comments of ch04-client lines 69-72 and 91: it receives in a loop because
\* the echo may come in pieces, and then prints what has been accumulated.
PrintsAccumulated ==
  \A c \in Clients : program = "ch04" /\ cl[c] = "ask" /\ sent[c] > 0 => shown[c] = Message(c)

\* No client receives more than it asked for, and what comes fits its buffer.  It
\* writes outside in two cases only: ch04 and ch21 to buf[-1] after a reset, and
\* ch04 when the user's word is as long as buf or longer (line 52, scanf("%s")).
BufferRespected ==
  \A c \in Clients :
    /\ cl[c] \in {"ask", "wait"} =>
         sum[c] <= (IF program = "ch21" THEN BufLen - 1 ELSE total[c]) /\ total[c] \in Idx
    /\ cl[c] = "wild" =>
         \/ link[c] = "rst" /\ program \in {"ch04", "ch21"}
         \/ Overlong(total[c])

\* A client whose server has taken its connection does not wait for ever, in
\* step with the server or not, and not even for one that was stopped; but for
\* ch23, which then does not leave the loop of lines 48-53.  Nothing is said of
\* ch04 and ch21 after a reset, when recv's -1 has made them write to buf[-1]
\* (ch04's loop of lines 78-95 would then go on for ever, were that harmless),
\* nor of ch04 once it has taken a word too long for buf.
RoundEnds ==
  \A c \in Clients :
    (cl[c] = "wait" /\ srv[c] # "none") ~> (cl[c] # "wait" \/ (stopped /\ program = "ch23"))

\* A client that left does not keep the server from the next one.
LeaverReleased ==
  \A c \in Clients : (cl[c] = "done" /\ srv[c] = "open") ~> (srv[c] = "closed")
-----------------------------------------------------------------------------
(* Why it holds: an inductive invariant.                                   *)

\* Bytes go from the client to the server's buf, from there back, and then to
\* the client, whose last message are the last bytes it sent; a client that has
\* not connected has sent none.
Counted(c) ==
  /\ rcvd[c] <= echoed[c] /\ echoed[c] + held[c] <= sent[c] /\ total[c] <= sent[c]
  /\ cl[c] = "away" => sent[c] = 0 /\ sum[c] = 0

\* The end is seen of a server that was stopped, and a stopped one sends nothing.
EndInv(c) ==
  /\ link[c] # "up" => stopped
  /\ stopped => srv[c] = "closed"

\* The server is gone, and all that came from it was received.
Over(c) == link[c] # "up" /\ rcvd[c] = echoed[c]

\* What the client has accumulated begins where its message begins, unless ch12
\* has gone on after a server's end.
InStep(c) ==
  program # "ch21" =>
    /\ cl[c] = "ask" =>
         /\ rcvd[c] - sum[c] = sent[c] - total[c]
         /\ sum[c] = total[c] \/ (program = "ch12" /\ Over(c))
    /\ cl[c] = "wait" =>
         \/ rcvd[c] - sum[c] = sent[c] - total[c]
         \/ program = "ch12" /\ Over(c) /\ sum[c] = 0

\* What ch12 and ch23 have accumulated are the bytes received last.
Accumulated(c) ==
  program \in {"ch12", "ch23"} /\ cl[c] = "wait" =>
    \A j \in 0..(sum[c] - 1) : buf[c][j] = rcvd[c] - sum[c] + j + 1

EchoIInv ==
  /\ EchoTypeOK /\ PrintsTheEcho /\ BufferRespected
  /\ \A c \in Clients : Counted(c) /\ EndInv(c) /\ InStep(c) /\ Accumulated(c)
=============================================================================
