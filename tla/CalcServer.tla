---------------------------- MODULE CalcServer ----------------------------
(***************************************************************************)
(* The two calculators: 01_midterm/ch05_tcp-cal-server.c, which serves one *)
(* client after the other, and 02_final/ch19_beginthreadex-server.c, which *)
(* gives each client a thread; with their clients.  The variable program   *)
(* says which pair is running.  A request is one byte with the number of   *)
(* operands, the operands, and one byte with the operator; a reply is one  *)
(* int.  The transport cuts both into pieces as it likes.                  *)
(*                                                                         *)
(* Byte p of a client's k-th request is [req |-> k, pos |-> p], and the    *)
(* result of that request is the number k; 0 is any other value.           *)
(*                                                                         *)
(* Neither program compares a number of operands with its BUF_LEN.  What   *)
(* follows where bytes are written behind a buf is in the variable process *)
(* for a server, and in SendRequest for a client.                          *)
(***************************************************************************)
EXTENDS Integers, Sequences, FiniteSets

CONSTANTS
  Clients,       \* the clients that may connect
  Quitters,      \* those that may be stopped at any moment
  Counts,        \* Counts[c]: the numbers of operands client c may ask for
  MaxRequests,   \* bound: MaxRequests[c] is how many requests client c makes
  IntSize,       \* sizeof(int)
  CharMax,       \* CHAR_MAX, for a signed char
  BufLen         \* BufLen[p]: BUF_LEN of program p, the same in its client

ASSUME CalcAssumption ==
  /\ Quitters \subseteq Clients
  /\ Counts \in [Clients -> SUBSET (1..(2 * CharMax + 1))]
  /\ MaxRequests \in [Clients -> Nat]
  /\ IntSize \in Nat \ {0} /\ CharMax \in Nat \ {0}
  /\ BufLen \in [{"ch05", "ch19"} -> Nat]

\* 4 * 127 + 1 bytes are the most a char asks for; ch05 has room for 1000 (its
\* line 10), ch19 for 120 (its line 12).
ASSUME BufAssumption == IntSize * CharMax + 1 <= BufLen["ch05"]

VARIABLES
  program,     \* "ch05" or "ch19"
  process,     \* the server: "up", "ended", or "wild" once a buf was overrun
  cl,          \* cl[c]: where client c is
  counts,      \* counts[c]: the number of operands of each of its requests
  got,         \* got[c]: the results it has printed
  part,        \* part[c]: the bytes it has received of the next reply
  up, down,    \* up[c], down[c]: the bytes under way to and from the server
  srv,         \* srv[c]: where the server is in its conversation with c
  flag,        \* flag[c]: the server's flag
  head,        \* head[c]: the byte read into operand_count
  cnt,         \* cnt[c]: operand_count
  buf          \* buf[c]: buf[0..recv_sum-1]

runVars == <<program, process>>
clientVars == <<cl, counts, got, part>>
serverVars == <<srv, flag, head, cnt, buf>>
vars == <<runVars, clientVars, serverVars, up, down>>

Char == (-CharMax - 1)..CharMax
Byte == [req : Nat \ {0}, pos : Nat]
NoByte == [req |-> 0, pos |-> 0]

TypeOK ==
  /\ program \in {"ch05", "ch19"} /\ process \in {"up", "ended", "wild"}
  /\ cl \in [Clients -> {"away", "ask", "wait", "gone"}]
  /\ counts \in [Clients -> Seq(Nat \ {0})]
  /\ got \in [Clients -> Seq(Nat)] /\ part \in [Clients -> Seq(Nat)]
  /\ up \in [Clients -> Seq(Byte)]
  /\ down \in [Clients -> Seq(Nat)]
  /\ srv \in [Clients -> {"none", "count", "body", "reply", "closed"}]
  /\ flag \in [Clients -> BOOLEAN]
  /\ head \in [Clients -> Byte \cup {NoByte}]
  /\ cnt \in [Clients -> Char]
  /\ buf \in [Clients -> Seq(Byte)]
  /\ \A c \in Clients : Len(counts[c]) <= MaxRequests[c] /\ Len(got[c]) <= Len(counts[c])

Init ==
  /\ program \in {"ch05", "ch19"} /\ process = "up"
  /\ cl = [c \in Clients |-> "away"]
  /\ counts = [c \in Clients |-> << >>]
  /\ got = [c \in Clients |-> << >>] /\ part = [c \in Clients |-> << >>]
  /\ up = [c \in Clients |-> << >>] /\ down = [c \in Clients |-> << >>]
  /\ srv = [c \in Clients |-> "none"]
  /\ flag = [c \in Clients |-> TRUE]
  /\ head = [c \in Clients |-> NoByte]
  /\ cnt = [c \in Clients |-> 0]
  /\ buf = [c \in Clients |-> << >>]

\* A number stored in a signed char, at most twice as large as fits.
AsChar(n) == IF n <= CharMax THEN n ELSE n - 2 * (CharMax + 1)

\* Variant: every byte one place too early in buf.
MessageFromEarly(k, n, p) == [j \in 1..(IntSize * n + 2 - p) |-> [req |-> k, pos |-> j - 2 + p]]

\* The bytes of a request from byte p on.
MessageFrom(k, n, p) == [j \in 1..(IntSize * n + 2 - p) |-> [req |-> k, pos |-> j - 1 + p]]

-----------------------------------------------------------------------------
(* The clients: ch05-client lines 52-111, ch19-client lines 37-82.         *)

Connect(c) ==
  /\ cl[c] = "away"
  /\ cl' = [cl EXCEPT ![c] = "ask"]
  /\ UNCHANGED <<runVars, counts, got, part, serverVars, up, down>>

\* A request of n operands does not fit in a client's buf.
TooLong(n) == IntSize * n + 2 > BufLen[program]

\* One send for the whole request.  A request that is too long is written
\* behind the client's own buf: the client goes on and sends it, or is gone.
SendRequest(c) ==
  /\ cl[c] = "ask" /\ Len(counts[c]) < MaxRequests[c]
  /\ \E n \in Counts[c] :
       /\ counts' = [counts EXCEPT ![c] = Append(@, n)]
       /\ \/ /\ up' = [up EXCEPT ![c] = @ \o MessageFrom(Len(counts[c]) + 1, n, 0)]
             /\ cl' = [cl EXCEPT ![c] = "wait"]
          \/ TooLong(n) /\ cl' = [cl EXCEPT ![c] = "gone"] /\ UNCHANGED up
  /\ UNCHANGED <<runVars, got, part, serverVars, down>>

\* The value of an int put together from bytes of results.
ResultOf(bytes) == IF \A j, k \in 1..IntSize : bytes[j] = bytes[k] THEN bytes[1] ELSE 0

\* One round of the loop that receives a reply.  ch19 asks for the missing
\* bytes, ch05 for as many as buf holds.  While the server is up recv never
\* returns 0: it closes a connection only when its client has gone.
RecvReply(c) ==
  /\ cl[c] = "wait" /\ down[c] # << >>
  /\ \E m \in 1..Len(down[c]) :
       /\ program = "ch19" => m <= IntSize - Len(part[c])
       /\ down' = [down EXCEPT ![c] = SubSeq(@, m + 1, Len(@))]
       /\ LET all == part[c] \o SubSeq(down[c], 1, m) IN
          IF Len(all) < IntSize
          THEN part' = [part EXCEPT ![c] = all] /\ UNCHANGED <<cl, got>>
          ELSE /\ part' = [part EXCEPT ![c] = << >>]
               /\ got' = [got EXCEPT ![c] = Append(@, ResultOf(all))]
               /\ cl' = [cl EXCEPT ![c] = "ask"]
  /\ UNCHANGED <<runVars, counts, serverVars, up>>

\* The user stops the client, the only way its loop ends; bytes that have not
\* reached the server may be lost.
Quit(c) ==
  /\ c \in Quitters /\ cl[c] \in {"ask", "wait"}
  /\ cl' = [cl EXCEPT ![c] = "gone"]
  /\ \E m \in 0..Len(up[c]) : up' = [up EXCEPT ![c] = SubSeq(@, 1, m)]
  /\ UNCHANGED <<runVars, counts, got, part, serverVars, down>>

\* recv fails because the server's process is no longer there: the client ends.
ServerLost(c) ==
  /\ process # "up" /\ cl[c] = "wait"
  /\ cl' = [cl EXCEPT ![c] = "gone"]
  /\ UNCHANGED <<runVars, counts, got, part, serverVars, up, down>>

Client(c) == Connect(c) \/ SendRequest(c) \/ RecvReply(c) \/ Quit(c) \/ ServerLost(c)

-----------------------------------------------------------------------------
(* The servers: ch05-server lines 59-149, ch19-server lines 34-104.        *)

Serving(c) == srv[c] \in {"count", "body", "reply"}

\* ch05 accepts when it has no client, ch19 at any time.
AcceptClient(c) ==
  /\ process = "up"
  /\ srv[c] = "none" /\ cl[c] # "away"
  /\ program = "ch05" => \A d \in Clients : ~Serving(d)
  /\ srv' = [srv EXCEPT ![c] = "count"]
  /\ UNCHANGED <<runVars, clientVars, flag, head, cnt, buf, up, down>>

\* accept may fail for a client that left while it was in the backlog: ch05
\* ends, for everybody; ch19 does not look, and its thread finds nothing to
\* receive.
AcceptFails(c) ==
  /\ program = "ch05" /\ process = "up"
  /\ srv[c] = "none" /\ cl[c] = "gone" /\ \A d \in Clients : ~Serving(d)
  /\ process' = "ended"
  /\ UNCHANGED <<program, clientVars, serverVars, up, down>>

\* recv of operand_count.  A byte that is not the first of a request can have
\* any value.
RecvCount(c) ==
  /\ srv[c] = "count" /\ up[c] # << >>
  /\ LET b == Head(up[c]) IN
     /\ head' = [head EXCEPT ![c] = b]
     /\ \E v \in Char :
          /\ b.pos = 0 => v = AsChar(counts[c][b.req])
          /\ cnt' = [cnt EXCEPT ![c] = v]
  /\ up' = [up EXCEPT ![c] = Tail(@)]
  /\ buf' = [buf EXCEPT ![c] = << >>]
  /\ srv' = [srv EXCEPT ![c] = "body"]
  /\ UNCHANGED <<runVars, clientVars, flag, down>>

Close(c) == srv' = [srv EXCEPT ![c] = "closed"]

\* Variant: ch05 tries again where it should leave the loop.
RecvCountEndRetry(c) ==
  /\ srv[c] = "count" /\ up[c] = << >> /\ cl[c] = "gone"
  /\ IF program = "ch05" THEN UNCHANGED serverVars
     ELSE /\ head' = [head EXCEPT ![c] = NoByte]
          /\ \E v \in Char : cnt' = [cnt EXCEPT ![c] = v]
          /\ buf' = [buf EXCEPT ![c] = << >>]
          /\ srv' = [srv EXCEPT ![c] = "body"]
          /\ UNCHANGED flag
  /\ UNCHANGED <<runVars, clientVars, up, down>>

\* No more request: ch05 leaves the loop; ch19 does not look, and goes on
\* with whatever operand_count holds.
RecvCountEnd(c) ==
  /\ srv[c] = "count" /\ up[c] = << >> /\ cl[c] = "gone"
  /\ IF program = "ch05" THEN Close(c) /\ UNCHANGED <<head, cnt, buf>>
     ELSE /\ head' = [head EXCEPT ![c] = NoByte]
          /\ \E v \in Char : cnt' = [cnt EXCEPT ![c] = v]
          /\ buf' = [buf EXCEPT ![c] = << >>]
          /\ srv' = [srv EXCEPT ![c] = "body"]
  /\ UNCHANGED <<runVars, clientVars, flag, up, down>>

\* Variants for the mutation runs: the operator's byte is forgotten; the count's
\* own byte is counted again.
RecvTotalShort(c) == cnt[c] * IntSize

RecvTotalLong(c) == cnt[c] * IntSize + 2

RecvTotal(c) == cnt[c] * IntSize + 1

\* recv can return m more bytes of the request.
BodyCut(c, m) ==
  /\ srv[c] = "body" /\ Len(buf[c]) < RecvTotal(c)
  /\ m \in 1..Len(up[c]) /\ m <= RecvTotal(c) - Len(buf[c])

\* One round of the loop that receives the rest of the request.
RecvBody(c) ==
  /\ \E m \in 1..Len(up[c]) :
       /\ BodyCut(c, m) /\ Len(buf[c]) + m <= BufLen[program]
       /\ buf' = [buf EXCEPT ![c] = @ \o SubSeq(up[c], 1, m)]
       /\ up' = [up EXCEPT ![c] = SubSeq(@, m + 1, Len(@))]
  /\ UNCHANGED <<runVars, clientVars, srv, flag, head, cnt, down>>

\* The bytes do not fit in buf, which recv is not told: it writes behind it, in
\* the stack of a thread of the one process that serves everybody.  What the
\* threads hold is not followed any further.
Overrun(c) ==
  /\ \E m \in 1..Len(up[c]) : BodyCut(c, m) /\ Len(buf[c]) + m > BufLen[program]
  /\ process' = "wild"
  /\ srv' = [d \in Clients |-> "none"]
  /\ head' = [d \in Clients |-> NoByte] /\ cnt' = [d \in Clients |-> 0]
  /\ buf' = [d \in Clients |-> << >>]
  /\ UNCHANGED <<program, clientVars, flag, up, down>>

\* recv fails or returns 0.  ch05 clears flag and goes on to the calculation
\* all the same, ch19 skips it and leaves.
RecvBodyEnd(c) ==
  /\ srv[c] = "body" /\ Len(buf[c]) < RecvTotal(c) /\ up[c] = << >> /\ cl[c] = "gone"
  /\ flag' = [flag EXCEPT ![c] = FALSE]
  /\ IF program = "ch05" THEN srv' = [srv EXCEPT ![c] = "reply"] ELSE Close(c)
  /\ UNCHANGED <<runVars, clientVars, head, cnt, buf, up, down>>

BodyDone(c) ==
  /\ srv[c] = "body" /\ Len(buf[c]) >= RecvTotal(c)
  /\ srv' = [srv EXCEPT ![c] = "reply"]
  /\ UNCHANGED <<runVars, clientVars, flag, head, cnt, buf, up, down>>

\* All of the request whose first byte was read is in buf.
WholeMessage(c) ==
  head[c] # NoByte /\ head[c].pos = 0 /\ buf[c] = MessageFrom(head[c].req, counts[c][head[c].req], 1)

\* What calculate returns: it reads operand_count operands and the operator
\* from buf.
Result(c) == IF WholeMessage(c) THEN head[c].req ELSE 0

\* send, and back to the loop's test.  On a connection the client has left
\* ch05's send may fail, which ends the loop as flag does.
Reply(c) ==
  /\ srv[c] = "reply"
  /\ down' = IF cl[c] = "gone" THEN down
             ELSE [down EXCEPT ![c] = @ \o [j \in 1..IntSize |-> Result(c)]]
  /\ \/ flag[c] /\ srv' = [srv EXCEPT ![c] = "count"]
     \/ (~flag[c] \/ (program = "ch05" /\ cl[c] = "gone")) /\ Close(c)
  /\ UNCHANGED <<runVars, clientVars, flag, head, cnt, buf, up>>

Server(c) ==
  /\ process = "up"
  /\ \/ RecvCount(c) \/ RecvCountEnd(c)
     \/ RecvBody(c) \/ Overrun(c) \/ RecvBodyEnd(c) \/ BodyDone(c) \/ Reply(c)

\* What an overrun server sends, if it still does: a value that is nobody's
\* result, to any client.
WildReply(c) ==
  /\ process = "wild" /\ cl[c] = "wait" /\ down[c] = << >>
  /\ down' = [down EXCEPT ![c] = [j \in 1..IntSize |-> 0]]
  /\ UNCHANGED <<runVars, clientVars, serverVars, up>>

Next ==
  \E c \in Clients :
    Client(c) \/ AcceptClient(c) \/ AcceptFails(c) \/ Server(c) \/ WildReply(c)

\* Every thread of the server is scheduled, and a waiting client receives.
Fairness ==
  \A c \in Clients :
    WF_vars(AcceptClient(c)) /\ WF_vars(Server(c)) /\ WF_vars(RecvReply(c))

Spec == Init /\ [][Next]_vars /\ Fairness
-----------------------------------------------------------------------------
(* What must hold.                                                         *)

\* One of client c's first k requests has more operands than a char counts, or
\* more than fit in its buf: from 128 in ch05 (from 250 for the second reason),
\* from 30 in ch19.
Oversized(c, k) == \E j \in 1..k : counts[c][j] > CharMax \/ TooLong(counts[c][j])

\* The k-th result a client prints is the result of its k-th request, however
\* the transport cut the bytes and whatever the others asked for: only an
\* oversized request of its own makes it wrong.  In ch19 anybody's may, because
\* it overruns the buf of a thread (line 76); no bytes that any client sends
\* overrun ch05's.
RepliesMatchRequests ==
  /\ process = "wild" => program = "ch19" /\ \E c \in Clients : Oversized(c, Len(counts[c]))
  /\ \A c \in Clients : \A k \in 1..Len(got[c]) :
       got[c][k] = k \/ Oversized(c, k) \/ process = "wild"

\* A client that stays and has made no oversized request gets its answers: from
\* ch05 once it is served, from ch19 until somebody's oversized request has
\* overrun the buf of a thread.
EveryRequestAnswered ==
  \A c \in Clients \ Quitters :
    (cl[c] = "wait" /\ (srv[c] # "none" \/ program = "ch19")) ~>
      (cl[c] = "ask" \/ Oversized(c, Len(counts[c])) \/ process = "wild")

\* ch05: a client that left does not keep the server from the next one.
LeaverReleased ==
  \A c \in Clients :
    (cl[c] = "gone" /\ Serving(c) /\ program = "ch05") ~> (srv[c] = "closed")
-----------------------------------------------------------------------------
(* Why it holds: an inductive invariant.                                   *)

\* The bytes of the reply to a client's k-th request.
ReplyTo(k) == [j \in 1..IntSize |-> k]

\* A client asks again only when it has the reply.
TurnOK(c) ==
  /\ cl[c] \in {"away", "ask"} => Len(got[c]) = Len(counts[c])
  /\ cl[c] = "wait" => Len(counts[c]) = Len(got[c]) + 1
  /\ cl[c] # "gone" => flag[c]

\* Nothing is under way between c and the server.
Quiet(c) == up[c] = << >> /\ down[c] = << >> /\ part[c] = << >>

\* Where the bytes of the k-th request and of its reply are, k the last: all of
\* it under way; its count read, the rest in buf and under way; answered, and
\* what is not received yet under way.
RequestUnread(c, k) ==
  /\ srv[c] \in {"none", "count"} /\ up[c] = MessageFrom(k, counts[c][k], 0)
  /\ down[c] = << >> /\ part[c] = << >>

RequestCut(c, k) ==
  /\ srv[c] \in {"body", "reply"} /\ head[c] = [req |-> k, pos |-> 0] /\ cnt[c] = counts[c][k]
  /\ buf[c] \o up[c] = MessageFrom(k, counts[c][k], 1)
  /\ srv[c] = "reply" => up[c] = << >>
  /\ down[c] = << >> /\ part[c] = << >>

ReplyCut(c, k) ==
  /\ srv[c] = "count" /\ up[c] = << >>
  /\ part[c] \o down[c] = ReplyTo(k)

\* The bytes under way to the server begin a request and are not more than that
\* request has left.
UpOK(c, k) ==
  /\ srv[c] \in {"none", "count"} =>
       \/ up[c] = << >>
       \/ Head(up[c]) = [req |-> k, pos |-> 0] /\ Len(up[c]) <= IntSize * counts[c][k] + 2
  /\ srv[c] = "body" =>
       \/ up[c] = << >>
       \/ k > 0 /\ cnt[c] = counts[c][k] /\ Len(buf[c]) + Len(up[c]) <= RecvTotal(c)
  /\ srv[c] = "reply" => up[c] = << >>

\* Client and server are in step until a request is oversized.
StepOK(c) ==
  LET k == Len(counts[c]) IN
  ~Oversized(c, k) =>
    /\ cl[c] \in {"away", "ask"} => Quiet(c) /\ srv[c] \in {"none", "count"}
    /\ cl[c] = "wait" => RequestUnread(c, k) \/ RequestCut(c, k) \/ ReplyCut(c, k)
    /\ cl[c] = "gone" => UpOK(c, k)

IInv ==
  /\ TypeOK /\ RepliesMatchRequests
  /\ \A c \in Clients : TurnOK(c) /\ (process # "wild" => StepOK(c))
=============================================================================
