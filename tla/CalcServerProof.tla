-------------------------- MODULE CalcServerProof --------------------------
(***************************************************************************)
(* Proofs about CalcServer, for any number of clients and requests, any    *)
(* size of an int and any range of a char.                                 *)
(***************************************************************************)
EXTENDS CalcServer, SequenceTheorems, TLAPS

-----------------------------------------------------------------------------
(* Requests and replies as sequences of bytes.                             *)

LEMMA Constants ==
  /\ IntSize \in Nat \ {0} /\ CharMax \in Nat \ {0} /\ 0 \in Char
  /\ Counts \in [Clients -> SUBSET (Nat \ {0})]
  /\ MaxRequests \in [Clients -> Nat]
  /\ BufLen["ch05"] \in Nat /\ BufLen["ch19"] \in Nat
  BY CalcAssumption DEF Char

\* A product grows with its first factor.
LEMMA TimesGrows ==
  ASSUME NEW a \in Int, NEW b \in Int, NEW x \in Nat, a <= b
  PROVE  a * x <= b * x /\ a * x \in Int /\ b * x \in Int
  OBVIOUS

\* A request begins with its count; the rest is the operands and the operator.
LEMMA RequestBytes ==
  ASSUME NEW k \in Nat \ {0}, NEW n \in Nat \ {0}
  PROVE  /\ MessageFrom(k, n, 0) \in Seq(Byte) /\ MessageFrom(k, n, 0) # << >>
         /\ Head(MessageFrom(k, n, 0)) = [req |-> k, pos |-> 0]
         /\ Tail(MessageFrom(k, n, 0)) = MessageFrom(k, n, 1)
         /\ MessageFrom(k, n, 1) \in Seq(Byte) /\ Len(MessageFrom(k, n, 1)) = n * IntSize + 1
         /\ n * IntSize \in Nat
<1>1. n * IntSize \in Nat /\ IntSize * n = n * IntSize
  BY Constants
<1> DEFINE b == n * IntSize
           u == [j \in 1..(b + 2) |-> [req |-> k, pos |-> j - 1 + 0]]
           v == [j \in 1..(b + 1) |-> [req |-> k, pos |-> j - 1 + 1]]
<1>2. MessageFrom(k, n, 0) = u /\ MessageFrom(k, n, 1) = v
  <2>1. IntSize * n + 2 - 0 = b + 2 /\ IntSize * n + 2 - 1 = b + 1
    BY <1>1
  <2> HIDE DEF b
  <2> QED
    BY <2>1 DEF MessageFrom
<1> HIDE DEF b
<1>3. b \in Nat
  BY <1>1 DEF b
<1>4. /\ u \in Seq(Byte) /\ Len(u) = b + 2 /\ u # << >> /\ Head(u) = [req |-> k, pos |-> 0]
      /\ v \in Seq(Byte) /\ Len(v) = b + 1
      /\ \A j \in 1..(b + 1) : u[j + 1] = v[j]
  <2>1. /\ \A j \in 1..(b + 2) : [req |-> k, pos |-> j - 1 + 0] \in Byte
        /\ \A j \in 1..(b + 1) : [req |-> k, pos |-> j - 1 + 1] \in Byte
    BY <1>3 DEF Byte
  <2>2. u \in Seq(Byte) /\ Len(u) = b + 2 /\ v \in Seq(Byte) /\ Len(v) = b + 1
    BY <1>3, <2>1
  <2>3. u[1] = [req |-> k, pos |-> 0] /\ \A j \in 1..(b + 1) : u[j + 1] = v[j]
    BY <1>3
  <2>4. u # << >> /\ Head(u) = u[1]
    <3> HIDE DEF u
    <3> QED
      BY <1>3, <2>2
  <2> QED
    BY <2>2, <2>3, <2>4
<1> HIDE DEF u, v
<1>5. Tail(u) = v
  <2>1. Tail(u) \in Seq(Byte) /\ Len(Tail(u)) = b + 1 /\ \A j \in 1..(b + 1) : Tail(u)[j] = u[j + 1]
    BY <1>3, <1>4
  <2> QED
    BY <1>4, <2>1, SeqEqual
<1> QED
  BY <1>1, <1>2, <1>4, <1>5 DEF b

\* Lengths when m bytes go from one place to the next, or are lost.
LEMMA Lengths ==
  ASSUME NEW a \in Nat, NEW b \in Nat, NEW m \in 0..a, NEW t \in Int
  PROVE  (b + m) + (a - m) = b + a /\ (b + a <= t => b + m <= t)
  OBVIOUS

LEMMA ReplyBytes ==
  ASSUME NEW k \in Nat
  PROVE  ReplyTo(k) \in Seq(Nat) /\ Len(ReplyTo(k)) = IntSize /\ \A j \in 1..IntSize : ReplyTo(k)[j] = k
  BY Constants DEF ReplyTo

\* What recv takes of a stream and what it leaves are the stream.
LEMMA Cut ==
  ASSUME NEW S, NEW s \in Seq(S), NEW m \in 0..Len(s)
  PROVE  /\ SubSeq(s, 1, m) \in Seq(S) /\ Len(SubSeq(s, 1, m)) = m
         /\ SubSeq(s, m + 1, Len(s)) \in Seq(S) /\ Len(SubSeq(s, m + 1, Len(s))) = Len(s) - m
         /\ SubSeq(s, 1, m) \o SubSeq(s, m + 1, Len(s)) = s
<1>1. Len(s) \in Nat /\ \A j \in 1..Len(s) : s[j] \in S
  OBVIOUS
<1>2. SubSeq(s, 1, m) \in Seq(S) /\ Len(SubSeq(s, 1, m)) = m
  BY <1>1, SubSeqProperties
<1>3. SubSeq(s, m + 1, Len(s)) \in Seq(S) /\ Len(SubSeq(s, m + 1, Len(s))) = Len(s) - m
  BY <1>1, SubSeqProperties
<1>4. SubSeq(s, 1, m) \o SubSeq(s, m + 1, Len(s)) = SubSeq(s, 1, Len(s))
  <2>1. 1 \in 1..(Len(s) + 1) /\ m \in (1 - 1)..Len(s) /\ Len(s) \in m..Len(s)
    BY <1>1
  <2> QED
    BY <2>1, ConcatAdjacentSubSeq
<1> QED
  BY <1>2, <1>3, <1>4, SubSeqFull

\* Bytes that go from one place to the next stay in order.
LEMMA CutMoves ==
  ASSUME NEW S, NEW b \in Seq(S), NEW s \in Seq(S), NEW m \in 0..Len(s)
  PROVE  LET took == b \o SubSeq(s, 1, m) IN
         /\ took \in Seq(S) /\ Len(took) = Len(b) + m
         /\ took \o SubSeq(s, m + 1, Len(s)) = b \o s
<1>1. \A x, y \in Seq(S) : (b \o x) \o y = b \o (x \o y)
  OBVIOUS
<1>2. \A x \in Seq(S) : b \o x \in Seq(S) /\ Len(b \o x) = Len(b) + Len(x)
  OBVIOUS
<1> DEFINE x == SubSeq(s, 1, m)
           y == SubSeq(s, m + 1, Len(s))
<1>3. x \in Seq(S) /\ Len(x) = m /\ y \in Seq(S) /\ x \o y = s
  BY Cut
<1> HIDE DEF x, y
<1>4. (b \o x) \o y = b \o s /\ b \o x \in Seq(S) /\ Len(b \o x) = Len(b) + m
  BY <1>1, <1>2, <1>3
<1> QED
  BY <1>4 DEF x, y

-----------------------------------------------------------------------------
(* One client at a time.                                                   *)

\* What the invariant says of one client.
AnswersOK(c) == \A k \in 1..Len(got[c]) : got[c][k] = k \/ Oversized(c, k) \/ process = "wild"

ClientOK(c) == TurnOK(c) /\ (process # "wild" => StepOK(c)) /\ AnswersOK(c)

\* Most steps do not overrun the server, nor does it recover.
SameRun == program' = program /\ (process' = "wild" <=> process = "wild")

\* A step that is not client d's leaves all of d's conversation alone.
Untouched(d) ==
  /\ cl'[d] = cl[d] /\ counts'[d] = counts[d] /\ got'[d] = got[d] /\ part'[d] = part[d]
  /\ up'[d] = up[d] /\ down'[d] = down[d] /\ srv'[d] = srv[d] /\ flag'[d] = flag[d]
  /\ head'[d] = head[d] /\ cnt'[d] = cnt[d] /\ buf'[d] = buf[d]

LEMMA OversizedKept ==
  ASSUME NEW d, program' = program, counts'[d] = counts[d]
  PROVE  \A k : Oversized(d, k)' = Oversized(d, k)
  BY DEF Oversized, TooLong

LEMMA UntouchedKeeps ==
  ASSUME NEW d, SameRun, ClientOK(d), Untouched(d) PROVE ClientOK(d)'
<1>1. \A k : Oversized(d, k)' = Oversized(d, k)
  BY OversizedKept DEF Untouched, SameRun
<1>2. TurnOK(d)' /\ AnswersOK(d)'
  BY <1>1 DEF Untouched, SameRun, ClientOK, TurnOK, AnswersOK
<1>3. /\ Quiet(d)' = Quiet(d)
      /\ \A k : /\ RequestUnread(d, k)' = RequestUnread(d, k)
                /\ RequestCut(d, k)' = RequestCut(d, k)
                /\ ReplyCut(d, k)' = ReplyCut(d, k)
                /\ UpOK(d, k)' = UpOK(d, k)
  BY DEF Untouched, Quiet, RequestUnread, RequestCut, ReplyCut, UpOK, RecvTotal
<1>4. process' # "wild" => StepOK(d)'
  BY <1>1, <1>3 DEF Untouched, SameRun, ClientOK, StepOK
<1> QED
  BY <1>2, <1>4 DEF ClientOK

\* A step of client c, or of the server with c, keeps the invariant if it keeps
\* the types and what is said of c.
LEMMA OneClientStep ==
  ASSUME IInv, NEW c \in Clients, SameRun, TypeOK', ClientOK(c)',
         Oversized(c, Len(counts[c])) => Oversized(c, Len(counts[c]))',
         \A d \in Clients : d # c => Untouched(d)
  PROVE  IInv'
<1>1. \A d \in Clients : ClientOK(d)'
  <2> TAKE d \in Clients
  <2>1. CASE d # c
    <3>1. ClientOK(d)
      BY DEF IInv, ClientOK, AnswersOK, RepliesMatchRequests
    <3> QED
      BY <2>1, <3>1, UntouchedKeeps
  <2> QED
    BY <2>1
<1>2. ASSUME process' = "wild"
      PROVE  program' = "ch19" /\ \E d \in Clients : Oversized(d, Len(counts[d]))'
  <2>1. program = "ch19" /\ program' = program
    BY <1>2 DEF SameRun, IInv, RepliesMatchRequests
  <2>2. PICK d \in Clients : Oversized(d, Len(counts[d]))
    BY <1>2 DEF SameRun, IInv, RepliesMatchRequests
  <2>3. CASE d # c
    <3>1. counts'[d] = counts[d]
      BY <2>3 DEF Untouched
    <3> QED
      BY <2>1, <2>2, <3>1, OversizedKept
  <2> QED
    BY <2>1, <2>2, <2>3
<1> QED
  BY <1>1, <1>2 DEF IInv, ClientOK, AnswersOK, RepliesMatchRequests

-----------------------------------------------------------------------------
(* The clients' actions.                                                   *)

LEMMA InitIInv == Init => IInv
<1> SUFFICES ASSUME Init PROVE IInv
  OBVIOUS
<1> USE Constants DEF Init
<1>1. TypeOK
  BY DEF TypeOK
<1>2. RepliesMatchRequests
  BY DEF RepliesMatchRequests
<1>3. \A c \in Clients : TurnOK(c) /\ StepOK(c)
  BY DEF TurnOK, StepOK, Quiet
<1> QED
  BY <1>1, <1>2, <1>3 DEF IInv

LEMMA ConnectKeeps == ASSUME IInv, NEW c \in Clients, Connect(c) PROVE IInv'
<1>1. TypeOK' /\ SameRun
  BY DEF IInv, TypeOK, Connect, serverVars, runVars, SameRun
<1>2. \A d \in Clients : d # c => Untouched(d)
  BY DEF IInv, TypeOK, Connect, serverVars, Untouched
<1>3. /\ cl[c] = "away" /\ cl'[c] = "ask"
      /\ UNCHANGED <<runVars, counts, got, part, serverVars, up, down>>
  BY DEF IInv, TypeOK, Connect
<1>4. \A k : Oversized(c, k)' = Oversized(c, k)
  BY <1>3, OversizedKept DEF runVars
<1>5. ClientOK(c)'
  <2>1. TurnOK(c)' /\ AnswersOK(c)'
    BY <1>3, <1>4 DEF IInv, TurnOK, AnswersOK, RepliesMatchRequests, serverVars, runVars
  <2>2. process' # "wild" => StepOK(c)'
    BY <1>3, <1>4 DEF IInv, StepOK, Quiet, serverVars, runVars
  <2> QED
    BY <2>1, <2>2 DEF ClientOK
<1> QED
  BY <1>1, <1>2, <1>3, <1>4, <1>5, OneClientStep

\* A request more does not make an oversized one disappear.
LEMMA OversizedGrows ==
  ASSUME NEW c, program' = program, NEW k \in Nat \ {0},
         \A j \in 1..(k - 1) : counts'[c][j] = counts[c][j]
  PROVE  \A m \in 0..(k - 1) : Oversized(c, m) => Oversized(c, m)' /\ Oversized(c, k)'
<1> SUFFICES ASSUME NEW m \in 0..(k - 1), Oversized(c, m)
             PROVE  Oversized(c, m)' /\ Oversized(c, k)'
  OBVIOUS
<1>1. PICK j \in 1..m : counts[c][j] > CharMax \/ TooLong(counts[c][j])
  BY DEF Oversized
<1>2. j \in 1..(k - 1) /\ j \in 1..k
  OBVIOUS
<1>3. (counts[c][j] > CharMax \/ TooLong(counts[c][j]))'
  <2>1. counts'[c][j] = counts[c][j]
    BY <1>2
  <2> QED
    BY <1>1, <2>1 DEF TooLong
<1>4. Oversized(c, m)'
  BY <1>3 DEF Oversized
<1>5. Oversized(c, k)'
  BY <1>2, <1>3 DEF Oversized
<1> QED
  BY <1>4, <1>5

LEMMA SendRequestKeeps == ASSUME IInv, NEW c \in Clients, SendRequest(c) PROVE IInv'
<1>0. Len(counts[c]) \in Nat
  BY DEF IInv, TypeOK
<1> PICK k \in Nat \ {0} : k = Len(counts[c]) + 1
  BY <1>0
<1>1. PICK n \in Counts[c] :
        /\ counts' = [counts EXCEPT ![c] = Append(@, n)]
        /\ \/ /\ up' = [up EXCEPT ![c] = @ \o MessageFrom(k, n, 0)]
              /\ cl' = [cl EXCEPT ![c] = "wait"]
           \/ TooLong(n) /\ cl' = [cl EXCEPT ![c] = "gone"] /\ UNCHANGED up
  BY DEF SendRequest
<1>2. /\ cl[c] = "ask" /\ Len(counts[c]) < MaxRequests[c]
      /\ UNCHANGED <<runVars, got, part, serverVars, down>>
  BY DEF SendRequest
<1>3. /\ n \in Nat \ {0} /\ counts[c] \in Seq(Nat \ {0}) /\ k \in Nat \ {0} /\ up[c] \in Seq(Byte)
      /\ MaxRequests[c] \in Nat /\ Len(got[c]) = Len(counts[c])
  <2>1. Counts[c] \subseteq Nat \ {0} /\ MaxRequests[c] \in Nat
    BY Constants
  <2>2. counts[c] \in Seq(Nat \ {0}) /\ up[c] \in Seq(Byte)
    BY DEF IInv, TypeOK
  <2>3. Len(got[c]) = Len(counts[c])
    BY <1>2 DEF IInv, TurnOK
  <2> QED
    BY <2>1, <2>2, <2>3
<1>4. /\ counts'[c] = Append(counts[c], n) /\ counts'[c] \in Seq(Nat \ {0}) /\ Len(counts'[c]) = k
      /\ counts'[c][k] = n /\ \A j \in 1..(k - 1) : counts'[c][j] = counts[c][j]
  BY <1>1, <1>3 DEF IInv, TypeOK
<1>5. MessageFrom(k, n, 0) \in Seq(Byte) /\ up[c] \o MessageFrom(k, n, 0) \in Seq(Byte)
  <2>1. MessageFrom(k, n, 0) \in Seq(Byte)
    BY <1>3, RequestBytes
  <2> QED
    BY <1>3, <2>1
<1>6. TypeOK' /\ SameRun
  <2>1. counts' \in [Clients -> Seq(Nat \ {0})] /\ up' \in [Clients -> Seq(Byte)]
        /\ cl' \in [Clients -> {"away", "ask", "wait", "gone"}]
    BY <1>1, <1>4, <1>5 DEF IInv, TypeOK
  <2>2. \A d \in Clients : Len(counts'[d]) <= MaxRequests[d] /\ Len(got'[d]) <= Len(counts'[d])
    <3> TAKE d \in Clients
    <3>1. CASE d = c
      <4>1. k <= MaxRequests[c] /\ Len(got'[c]) <= k
        BY <1>0, <1>2, <1>3
      <4> QED
        BY <1>4, <3>1, <4>1
    <3>2. CASE d # c
      BY <1>1, <1>2, <3>2 DEF IInv, TypeOK
    <3> QED
      BY <3>1, <3>2
  <2> QED
    BY <1>2, <2>1, <2>2 DEF IInv, TypeOK, serverVars, runVars, SameRun
<1>7. \A d \in Clients : d # c => Untouched(d)
  BY <1>1, <1>2 DEF IInv, TypeOK, serverVars, Untouched
<1>8. \A m \in 0..(k - 1) : Oversized(c, m) => Oversized(c, m)' /\ Oversized(c, k)'
  BY <1>2, <1>4, OversizedGrows DEF runVars
<1>9. ClientOK(c)'
  <2>1. cl'[c] \in {"wait", "gone"} /\ Len(counts'[c]) = Len(got'[c]) + 1
    BY <1>1, <1>2, <1>3, <1>4 DEF IInv, TypeOK
  <2>2. TurnOK(c)'
    BY <1>2, <2>1 DEF IInv, TurnOK, serverVars
  <2>3. AnswersOK(c)'
    BY <1>2, <1>3, <1>8 DEF IInv, AnswersOK, RepliesMatchRequests, runVars
  <2>4. ASSUME process' # "wild", ~Oversized(c, k)' PROVE cl'[c] = "wait" /\ RequestUnread(c, k)'
    <3>1. ~Oversized(c, k - 1) /\ k - 1 = Len(counts[c])
      BY <1>3, <1>8, <2>4
    <3>2. Quiet(c) /\ srv[c] \in {"none", "count"}
      BY <1>2, <2>4, <3>1 DEF IInv, StepOK, runVars
    <3>3. ~TooLong(n)
      <4>1. k \in 1..k
        OBVIOUS
      <4> QED
        BY <1>2, <1>4, <2>4, <4>1 DEF Oversized, TooLong, runVars
    <3>4. cl'[c] = "wait" /\ up'[c] = MessageFrom(k, n, 0)
      BY <1>1, <1>5, <3>2, <3>3, ConcatEmptySeq DEF Quiet, IInv, TypeOK
    <3> QED
      BY <1>2, <1>4, <3>2, <3>4 DEF RequestUnread, Quiet, serverVars
  <2>5. process' # "wild" => StepOK(c)'
    BY <1>4, <2>1, <2>4 DEF StepOK
  <2> QED
    BY <2>2, <2>3, <2>5 DEF ClientOK
<1>10. Oversized(c, Len(counts[c])) => Oversized(c, Len(counts[c]))'
  <2>1. k - 1 \in 0..(k - 1) /\ Len(counts[c]) = k - 1
    BY <1>0
  <2> QED
    BY <1>4, <1>8, <2>1
<1> QED
  BY <1>6, <1>7, <1>9, <1>10, OneClientStep

\* Where a client and the server are in step, what is under way to the server
\* belongs to the last request.
LEMMA InStepUp ==
  ASSUME IInv, NEW c \in Clients, NEW k, k = Len(counts[c]), cl[c] # "gone",
         process # "wild", ~Oversized(c, k)
  PROVE  UpOK(c, k)
<1>1. CASE cl[c] # "wait"
  <2>1. Quiet(c) /\ srv[c] \in {"none", "count"}
    BY <1>1 DEF IInv, TypeOK, StepOK
  <2> QED
    BY <2>1 DEF Quiet, UpOK
<1>2. CASE cl[c] = "wait"
  <2>1. k \in Nat \ {0} /\ counts[c][k] \in Nat \ {0}
    <3>1. k \in Nat \ {0} /\ counts[c] \in Seq(Nat \ {0})
      BY <1>2 DEF IInv, TypeOK, TurnOK
    <3>2. k \in 1..Len(counts[c])
      BY <3>1
    <3> QED
      BY <3>1, <3>2, ElementOfSeq
  <2> PICK n \in Nat \ {0} : n = counts[c][k]
    BY <2>1
  <2>2. /\ Head(MessageFrom(k, n, 0)) = [req |-> k, pos |-> 0]
        /\ MessageFrom(k, n, 0) \in Seq(Byte) /\ MessageFrom(k, n, 0) # << >>
        /\ Tail(MessageFrom(k, n, 0)) = MessageFrom(k, n, 1)
        /\ Len(MessageFrom(k, n, 1)) = n * IntSize + 1 /\ n * IntSize \in Nat
    BY <2>1, RequestBytes
  <2>3. Len(MessageFrom(k, n, 0)) = n * IntSize + 2
    <3> PICK t \in Nat : t = n * IntSize
      BY <2>2
    <3> PICK u \in Seq(Byte) : u = MessageFrom(k, n, 0)
      BY <2>2
    <3>1. u # << >> /\ Len(Tail(u)) = t + 1
      BY <2>2
    <3>2. Len(u) = t + 2
      BY ONLY <3>1, u \in Seq(Byte), t \in Nat
    <3> QED
      BY <3>2
  <2> PICK t \in Nat : t = n * IntSize
    BY <2>2
  <2>4. IntSize * n = t
    BY Constants
  <2>5. CASE RequestUnread(c, k)
    <3>1. srv[c] \in {"none", "count"} /\ up[c] = MessageFrom(k, n, 0)
      BY <2>5 DEF RequestUnread
    <3>2. Len(up[c]) <= IntSize * counts[c][k] + 2
      <4>1. Len(up[c]) = t + 2
        BY <2>3, <3>1
      <4> QED
        BY <2>4, <4>1
    <3> QED
      BY <2>2, <3>1, <3>2 DEF UpOK
  <2>6. CASE RequestCut(c, k)
    <3>1. /\ cnt[c] = n /\ srv[c] \in {"body", "reply"} /\ (srv[c] = "reply" => up[c] = << >>)
          /\ buf[c] \o up[c] = MessageFrom(k, n, 1)
      BY <2>6 DEF RequestCut
    <3>2. Len(buf[c]) + Len(up[c]) = Len(MessageFrom(k, n, 1))
      BY <3>1, ConcatProperties DEF IInv, TypeOK
    <3>3. RecvTotal(c) = t + 1 /\ Len(buf[c]) + Len(up[c]) = t + 1
      BY <2>2, <3>1, <3>2 DEF RecvTotal
    <3>4. Len(buf[c]) + Len(up[c]) <= RecvTotal(c)
      <4>1. t + 1 <= t + 1
        OBVIOUS
      <4> QED
        BY <3>3, <4>1, Zenon
    <3>5. k > 0 /\ cnt[c] = counts[c][k]
      BY <2>1, <3>1
    <3>6. srv[c] \notin {"none", "count"}
      BY <3>1
    <3>7. srv[c] = "reply" => up[c] = << >>
      BY <3>1
    <3> QED
      BY <3>4, <3>5, <3>6, <3>7, Zenon DEF UpOK
  <2>7. CASE ReplyCut(c, k)
    BY <2>7 DEF ReplyCut, UpOK
  <2> QED
    BY <1>2, <2>5, <2>6, <2>7 DEF IInv, StepOK
<1> QED
  BY <1>1, <1>2

LEMMA QuitKeeps == ASSUME IInv, NEW c \in Clients, Quit(c) PROVE IInv'
<1>1. PICK m \in 0..Len(up[c]) : up' = [up EXCEPT ![c] = SubSeq(@, 1, m)]
  BY DEF Quit
<1>2. /\ cl[c] # "gone" /\ cl' = [cl EXCEPT ![c] = "gone"]
      /\ UNCHANGED <<runVars, counts, got, part, serverVars, down>>
  BY DEF Quit
<1>3. up[c] \in Seq(Byte) /\ SubSeq(up[c], 1, m) \in Seq(Byte) /\ Len(SubSeq(up[c], 1, m)) = m
  <2>1. up[c] \in Seq(Byte)
    BY DEF IInv, TypeOK
  <2> QED
    BY <2>1, Cut
<1>4. TypeOK' /\ SameRun
  BY <1>1, <1>2, <1>3 DEF IInv, TypeOK, serverVars, runVars, SameRun
<1>5. \A d \in Clients : d # c => Untouched(d)
  BY <1>1, <1>2 DEF IInv, TypeOK, serverVars, Untouched
<1>6. cl'[c] = "gone" /\ up'[c] = SubSeq(up[c], 1, m)
  BY <1>1, <1>2 DEF IInv, TypeOK
<1>7. \A k : Oversized(c, k)' = Oversized(c, k)
  BY <1>2, OversizedKept DEF runVars
<1> PICK k : k = Len(counts[c])
  OBVIOUS
<1>8. ASSUME process # "wild", ~Oversized(c, k) PROVE UpOK(c, k)'
  <2>1. UpOK(c, k)
    BY <1>2, <1>8, InStepUp
  <2>2. m = 0 => up'[c] = << >>
    BY <1>3, <1>6
  <2>3. m # 0 => up[c] # << >> /\ Head(up'[c]) = Head(up[c]) /\ Len(up'[c]) <= Len(up[c])
    BY <1>3, <1>6
  <2>4. /\ UNCHANGED <<srv, counts, cnt, buf>> /\ (up[c] = << >> => up'[c] = << >>)
        /\ RecvTotal(c)' = RecvTotal(c)
    BY <1>2, <1>3, <2>2, <2>3 DEF serverVars, RecvTotal
  <2>5. ASSUME srv[c] \in {"none", "count"}, up'[c] # << >>
        PROVE  Head(up'[c]) = [req |-> k, pos |-> 0] /\ Len(up'[c]) <= IntSize * counts[c][k] + 2
    <3>1. m # 0 /\ Head(up[c]) = [req |-> k, pos |-> 0] /\ Len(up[c]) <= IntSize * counts[c][k] + 2
      BY <2>1, <2>2, <2>3, <2>5 DEF UpOK
    <3> PICK t : t = IntSize * counts[c][k]
      OBVIOUS
    <3>2. k \in Nat \ {0} /\ counts[c][k] \in Nat
      <4>1. Head(up[c]) \in Byte
        BY <1>3, <2>3, <3>1
      <4>2. k \in Nat \ {0}
        BY <3>1, <4>1 DEF Byte
      <4> QED
        BY <4>2, ElementOfSeq DEF IInv, TypeOK
    <3>3. t \in Nat
      BY <3>2, Constants
    <3>4. Len(up'[c]) <= t + 2
      BY <1>3, <1>6, <2>3, <3>1, <3>3
    <3> QED
      BY <2>3, <3>1, <3>4
  <2>6. ASSUME srv[c] = "body", up'[c] # << >>
        PROVE  k > 0 /\ cnt[c] = counts[c][k] /\ Len(buf[c]) + Len(up'[c]) <= RecvTotal(c)
    <3>1. m # 0 /\ k > 0 /\ cnt[c] = counts[c][k] /\ Len(buf[c]) + Len(up[c]) <= RecvTotal(c)
      BY <2>1, <2>2, <2>3, <2>6 DEF UpOK
    <3>2. RecvTotal(c) \in Int
      BY Constants DEF RecvTotal, IInv, TypeOK, Char
    <3>3. Len(buf[c]) \in Nat
      BY DEF IInv, TypeOK
    <3> PICK a \in Nat, b \in Nat, t \in Int : a = Len(up[c]) /\ b = Len(buf[c]) /\ t = RecvTotal(c)
      BY <1>3, <3>2, <3>3
    <3>4. m \in 0..a /\ Len(up'[c]) = m
      BY <1>3, <1>6
    <3>5. b + a <= t
      BY <3>1, Zenon
    <3>6. b + m <= t
      BY <3>4, <3>5, Lengths, Zenon
    <3>7. Len(buf[c]) + Len(up'[c]) <= RecvTotal(c)
      BY <3>4, <3>6, Zenon
    <3> QED
      BY <3>1, <3>7
  <2> QED
    BY <2>1, <2>4, <2>5, <2>6 DEF UpOK
<1>9. ClientOK(c)'
  <2>1. TurnOK(c)' /\ AnswersOK(c)'
    BY <1>2, <1>6, <1>7 DEF IInv, TurnOK, AnswersOK, RepliesMatchRequests, runVars
  <2>2. process' # "wild" => StepOK(c)'
    BY <1>2, <1>6, <1>7, <1>8 DEF StepOK, runVars
  <2> QED
    BY <2>1, <2>2 DEF ClientOK
<1> QED
  BY <1>2, <1>4, <1>5, <1>7, <1>9, OneClientStep

LEMMA ServerLostKeeps == ASSUME IInv, NEW c \in Clients, ServerLost(c) PROVE IInv'
<1>1. /\ cl[c] # "gone" /\ cl' = [cl EXCEPT ![c] = "gone"]
      /\ UNCHANGED <<runVars, counts, got, part, serverVars, up, down>>
  BY DEF ServerLost
<1>2. TypeOK' /\ SameRun
  BY <1>1 DEF IInv, TypeOK, serverVars, runVars, SameRun
<1>3. \A d \in Clients : d # c => Untouched(d)
  BY <1>1 DEF IInv, TypeOK, serverVars, Untouched
<1>4. cl'[c] = "gone"
  BY <1>1 DEF IInv, TypeOK
<1>5. \A k : Oversized(c, k)' = Oversized(c, k)
  BY <1>1, OversizedKept DEF runVars
<1> PICK k : k = Len(counts[c])
  OBVIOUS
<1>6. process # "wild" /\ ~Oversized(c, k) => UpOK(c, k)'
  BY <1>1, InStepUp DEF UpOK, RecvTotal, serverVars
<1>7. ClientOK(c)'
  <2>1. TurnOK(c)' /\ AnswersOK(c)'
    BY <1>1, <1>4, <1>5 DEF IInv, TurnOK, AnswersOK, RepliesMatchRequests, runVars
  <2>2. process' # "wild" => StepOK(c)'
    BY <1>1, <1>4, <1>5, <1>6 DEF StepOK, runVars
  <2> QED
    BY <2>1, <2>2 DEF ClientOK
<1> QED
  BY <1>1, <1>2, <1>3, <1>5, <1>7, OneClientStep

-----------------------------------------------------------------------------
(* The server's actions.                                                   *)

\* The last request of a waiting client; one that is not too wide has a number
\* of operands that operand_count holds.
LEMMA LastRequest ==
  ASSUME IInv, NEW c \in Clients, cl[c] = "wait", NEW k, k = Len(counts[c])
  PROVE  /\ k \in Nat \ {0} /\ counts[c][k] \in Nat \ {0} /\ k = Len(got[c]) + 1
         /\ ~Oversized(c, k) => AsChar(counts[c][k]) = counts[c][k]
<1>1. k \in Nat \ {0} /\ counts[c] \in Seq(Nat \ {0}) /\ k = Len(got[c]) + 1
  BY DEF IInv, TypeOK, TurnOK
<1>2. counts[c][k] \in Nat \ {0}
  <2>1. k \in 1..Len(counts[c])
    BY <1>1
  <2> QED
    BY <1>1, <2>1, ElementOfSeq
<1>3. ~Oversized(c, k) => counts[c][k] <= CharMax
  BY <1>1, <1>2, Constants DEF Oversized
<1> QED
  BY <1>1, <1>2, <1>3 DEF AsChar

\* What a step of the server with c has to keep.
LEMMA ServerStep ==
  ASSUME IInv, NEW c \in Clients, TypeOK', UNCHANGED <<runVars, clientVars>>,
         \A d \in Clients : d # c => Untouched(d),
         flag'[c] = flag[c] \/ cl[c] = "gone",
         NEW k, k = Len(counts[c]),
         cl[c] \in {"away", "ask"} /\ ~Oversized(c, k) => Quiet(c)' /\ srv'[c] \in {"none", "count"},
         cl[c] = "wait" /\ ~Oversized(c, k) =>
           RequestUnread(c, k)' \/ RequestCut(c, k)' \/ ReplyCut(c, k)',
         cl[c] = "gone" /\ ~Oversized(c, k) => UpOK(c, k)'
  PROVE  IInv'
<1>1. cl' = cl /\ counts' = counts /\ got' = got /\ program' = program /\ process' = process
  BY DEF clientVars, runVars
<1>2. \A j : Oversized(c, j)' = Oversized(c, j)
  BY <1>1, OversizedKept
<1>3. TurnOK(c)'
  BY <1>1 DEF IInv, TurnOK
<1>4. AnswersOK(c)'
  BY <1>1, <1>2 DEF IInv, AnswersOK, RepliesMatchRequests
<1>5. StepOK(c)'
  BY <1>1, <1>2 DEF StepOK
<1> QED
  BY <1>1, <1>2, <1>3, <1>4, <1>5, OneClientStep DEF ClientOK, SameRun

LEMMA AcceptClientKeeps ==
  ASSUME IInv, NEW c \in Clients, process = "up", AcceptClient(c) PROVE IInv'
<1>1. TypeOK'
  BY DEF IInv, TypeOK, AcceptClient, clientVars, runVars
<1>2. \A d \in Clients : d # c => Untouched(d)
  BY DEF IInv, TypeOK, AcceptClient, clientVars, Untouched
<1>3. /\ srv[c] = "none" /\ srv'[c] = "count"
      /\ UNCHANGED <<runVars, clientVars, flag, head, cnt, buf, up, down>>
  BY DEF IInv, TypeOK, AcceptClient
<1> PICK k : k = Len(counts[c])
  OBVIOUS
<1>4. cl[c] \in {"away", "ask"} /\ ~Oversized(c, k) => Quiet(c)'
  BY <1>3 DEF IInv, StepOK, Quiet, clientVars
<1>5. cl[c] = "wait" /\ ~Oversized(c, k) => RequestUnread(c, k)'
  <2> SUFFICES ASSUME cl[c] = "wait", ~Oversized(c, k) PROVE RequestUnread(c, k)'
    OBVIOUS
  <2>1. RequestUnread(c, k)
    BY <1>3 DEF IInv, StepOK, RequestCut, ReplyCut
  <2> QED
    BY <1>3, <2>1 DEF RequestUnread, clientVars
<1>6. UNCHANGED <<runVars, clientVars>> /\ flag'[c] = flag[c] /\ srv'[c] = "count"
  BY <1>3
<1>7. cl[c] = "gone" /\ ~Oversized(c, k) => UpOK(c, k)'
  BY <1>3 DEF IInv, StepOK, UpOK, clientVars
<1> QED
  BY <1>1, <1>2, <1>4, <1>5, <1>6, <1>7, ServerStep

\* ch05 ends: nothing changes in what was said of anybody.
LEMMA AcceptFailsKeeps ==
  ASSUME IInv, NEW c \in Clients, AcceptFails(c) PROVE IInv'
<1>1. /\ process = "up" /\ process' = "ended" /\ UNCHANGED <<program, clientVars, serverVars, up, down>>
  BY DEF AcceptFails
<1>2. TypeOK' /\ SameRun
  BY <1>1 DEF IInv, TypeOK, clientVars, serverVars, SameRun
<1>3. \A d \in Clients : Untouched(d)
  BY <1>1 DEF Untouched, clientVars, serverVars
<1>4. ClientOK(c)
  BY DEF IInv, ClientOK, AnswersOK, RepliesMatchRequests
<1>5. ClientOK(c)' /\ (Oversized(c, Len(counts[c])) => Oversized(c, Len(counts[c]))')
  BY <1>1, <1>2, <1>3, <1>4, UntouchedKeeps, OversizedKept DEF clientVars
<1> QED
  BY <1>2, <1>3, <1>5, OneClientStep

LEMMA RecvCountKeeps ==
  ASSUME IInv, NEW c \in Clients, process = "up", RecvCount(c) PROVE IInv'
<1>1. PICK v \in Char :
        /\ Head(up[c]).pos = 0 => v = AsChar(counts[c][Head(up[c]).req])
        /\ cnt' = [cnt EXCEPT ![c] = v]
  BY DEF RecvCount
<1>2. /\ srv[c] = "count" /\ up[c] # << >>
      /\ head' = [head EXCEPT ![c] = Head(up[c])] /\ up' = [up EXCEPT ![c] = Tail(@)]
      /\ buf' = [buf EXCEPT ![c] = << >>] /\ srv' = [srv EXCEPT ![c] = "body"]
      /\ UNCHANGED <<runVars, clientVars, flag, down>>
  BY DEF RecvCount
<1>3. up[c] \in Seq(Byte) /\ Head(up[c]) \in Byte /\ Tail(up[c]) \in Seq(Byte)
  <2>1. up[c] \in Seq(Byte)
    BY DEF IInv, TypeOK
  <2> QED
    BY <1>2, <2>1
<1>4. TypeOK'
  <2>1. /\ head' \in [Clients -> Byte \cup {NoByte}] /\ cnt' \in [Clients -> Char]
        /\ up' \in [Clients -> Seq(Byte)] /\ buf' \in [Clients -> Seq(Byte)]
    <3>1. << >> \in Seq(Byte)
      OBVIOUS
    <3> QED
      BY <1>1, <1>2, <1>3, <3>1 DEF IInv, TypeOK
  <2> QED
    BY <1>2, <2>1 DEF IInv, TypeOK, clientVars, runVars
<1>5. \A d \in Clients : d # c => Untouched(d)
  BY <1>1, <1>2 DEF IInv, TypeOK, clientVars, Untouched
<1>6. /\ head'[c] = Head(up[c]) /\ cnt'[c] = v /\ up'[c] = Tail(up[c])
      /\ buf'[c] = << >> /\ srv'[c] = "body"
  BY <1>1, <1>2 DEF IInv, TypeOK
<1> PICK k : k = Len(counts[c])
  OBVIOUS
<1>7. cl[c] \in {"away", "ask"} => Oversized(c, k)
  BY <1>2 DEF IInv, StepOK, Quiet
<1>8. cl[c] = "wait" /\ ~Oversized(c, k) => RequestCut(c, k)'
  <2> SUFFICES ASSUME cl[c] = "wait", ~Oversized(c, k) PROVE RequestCut(c, k)'
    OBVIOUS
  <2>1. RequestUnread(c, k)
    BY <1>2 DEF IInv, StepOK, RequestCut, ReplyCut
  <2>2. k \in Nat \ {0} /\ counts[c][k] \in Nat \ {0} /\ AsChar(counts[c][k]) = counts[c][k]
    BY LastRequest
  <2> PICK n \in Nat \ {0} : n = counts[c][k]
    BY <2>2
  <2>3. /\ Head(up[c]) = [req |-> k, pos |-> 0] /\ Tail(up[c]) = MessageFrom(k, n, 1)
        /\ MessageFrom(k, n, 1) \in Seq(Byte)
    <3>1. up[c] = MessageFrom(k, n, 0)
      BY <2>1 DEF RequestUnread
    <3>2. k \in Nat \ {0} /\ n \in Nat \ {0}
      BY <2>2
    <3> QED
      BY ONLY <3>1, <3>2, RequestBytes
  <2>4. v = n
    BY <1>1, <2>2, <2>3
  <2>5. buf'[c] \o up'[c] = MessageFrom(k, n, 1)
    BY <1>6, <2>3, ConcatEmptySeq
  <2>6. counts'[c][k] = n /\ down'[c] = << >> /\ part'[c] = << >>
    BY <1>2, <2>1 DEF RequestUnread, clientVars
  <2> QED
    BY <1>6, <2>3, <2>4, <2>5, <2>6 DEF RequestCut
<1>9. UNCHANGED <<runVars, clientVars>> /\ flag'[c] = flag[c]
  BY <1>2
<1>10. ASSUME cl[c] = "gone", ~Oversized(c, k) PROVE UpOK(c, k)'
  <2>1. Head(up[c]) = [req |-> k, pos |-> 0] /\ Len(up[c]) <= IntSize * counts[c][k] + 2
    BY <1>2, <1>10 DEF IInv, StepOK, UpOK
  <2>2. k \in Nat \ {0} /\ counts[c][k] \in Nat \ {0} /\ k \in 1..k
    <3>1. k \in Nat \ {0}
      BY <1>3, <2>1 DEF Byte
    <3> QED
      BY <3>1, ElementOfSeq DEF IInv, TypeOK
  <2> PICK n \in Nat \ {0} : n = counts[c][k]
    BY <2>2
  <2>3. v = n
    <3>1. n <= CharMax
      BY <1>10, <2>2, Constants DEF Oversized
    <3> QED
      BY <1>1, <2>1, <3>1 DEF AsChar
  <2> PICK t \in Nat : t = IntSize * n
    BY Constants
  <2>4. n * IntSize = t
    BY Constants
  <2>5. Len(Tail(up[c])) = Len(up[c]) - 1 /\ Len(up[c]) \in Nat
    BY <1>2, <1>3
  <2>6. RecvTotal(c)' = t + 1
    BY <1>6, <2>3, <2>4 DEF RecvTotal
  <2>7. Len(buf'[c]) + Len(up'[c]) <= RecvTotal(c)'
    BY <1>6, <2>1, <2>5, <2>6
  <2>8. counts'[c][k] = n
    BY <1>2 DEF clientVars
  <2> QED
    BY <1>6, <2>2, <2>3, <2>7, <2>8 DEF UpOK
<1> QED
  BY <1>4, <1>5, <1>7, <1>8, <1>9, <1>10, ServerStep

\* Steps the server takes only for a client that has gone.
LEMMA RecvCountEndKeeps ==
  ASSUME IInv, NEW c \in Clients, process = "up", RecvCountEnd(c) PROVE IInv'
<1>1. /\ cl[c] = "gone" /\ up[c] = << >> /\ UNCHANGED <<runVars, clientVars, flag, up, down>>
      /\ \/ srv' = [srv EXCEPT ![c] = "closed"] /\ UNCHANGED <<head, cnt, buf>>
         \/ /\ head' = [head EXCEPT ![c] = NoByte]
            /\ \E v \in Char : cnt' = [cnt EXCEPT ![c] = v]
            /\ buf' = [buf EXCEPT ![c] = << >>]
            /\ srv' = [srv EXCEPT ![c] = "body"]
  BY DEF RecvCountEnd, Close
<1>2. TypeOK'
  <2>1. << >> \in Seq(Byte)
    OBVIOUS
  <2>2. /\ srv' \in [Clients -> {"none", "count", "body", "reply", "closed"}]
        /\ head' \in [Clients -> Byte \cup {NoByte}] /\ cnt' \in [Clients -> Char]
        /\ buf' \in [Clients -> Seq(Byte)]
    <3>1. srv' \in [Clients -> {"none", "count", "body", "reply", "closed"}]
      BY <1>1 DEF IInv, TypeOK
    <3>2. head' \in [Clients -> Byte \cup {NoByte}]
      BY <1>1 DEF IInv, TypeOK
    <3>3. cnt' \in [Clients -> Char]
      BY <1>1 DEF IInv, TypeOK
    <3>4. buf' \in [Clients -> Seq(Byte)]
      BY <1>1, <2>1 DEF IInv, TypeOK
    <3> QED
      BY <3>1, <3>2, <3>3, <3>4
  <2> QED
    BY <1>1, <2>2 DEF IInv, TypeOK, clientVars, runVars
<1>3. \A d \in Clients : d # c => Untouched(d)
  BY <1>1 DEF IInv, TypeOK, clientVars, Untouched
<1>4. \A k : UpOK(c, k)'
  BY <1>1 DEF UpOK
<1> QED
  BY <1>1, <1>2, <1>3, <1>4, ServerStep

LEMMA RecvBodyEndKeeps ==
  ASSUME IInv, NEW c \in Clients, process = "up", RecvBodyEnd(c) PROVE IInv'
<1>1. /\ cl[c] = "gone" /\ up[c] = << >>
      /\ UNCHANGED <<runVars, clientVars, head, cnt, buf, up, down>>
      /\ flag' = [flag EXCEPT ![c] = FALSE]
      /\ srv' = [srv EXCEPT ![c] = "reply"] \/ srv' = [srv EXCEPT ![c] = "closed"]
  BY DEF RecvBodyEnd, Close
<1>2. TypeOK'
  BY <1>1 DEF IInv, TypeOK, clientVars, runVars
<1>3. \A d \in Clients : d # c => Untouched(d)
  BY <1>1 DEF IInv, TypeOK, clientVars, Untouched
<1>4. \A k : UpOK(c, k)'
  BY <1>1 DEF UpOK
<1> QED
  BY <1>1, <1>2, <1>3, <1>4, ServerStep

LEMMA RecvBodyKeeps ==
  ASSUME IInv, NEW c \in Clients, process = "up", RecvBody(c) PROVE IInv'
<1>1. PICK m \in 1..Len(up[c]) :
        /\ buf' = [buf EXCEPT ![c] = @ \o SubSeq(up[c], 1, m)]
        /\ up' = [up EXCEPT ![c] = SubSeq(@, m + 1, Len(@))]
  BY DEF RecvBody
<1>2. srv[c] = "body" /\ UNCHANGED <<runVars, clientVars, srv, flag, head, cnt, down>>
  BY DEF RecvBody, BodyCut
<1>3. up[c] \in Seq(Byte) /\ buf[c] \in Seq(Byte) /\ m \in 0..Len(up[c])
  BY DEF IInv, TypeOK
<1>4. /\ buf'[c] = buf[c] \o SubSeq(up[c], 1, m) /\ up'[c] = SubSeq(up[c], m + 1, Len(up[c]))
      /\ buf'[c] \in Seq(Byte) /\ up'[c] \in Seq(Byte)
      /\ buf'[c] \o up'[c] = buf[c] \o up[c]
      /\ up[c] # << >> /\ Len(buf'[c]) + Len(up'[c]) = Len(buf[c]) + Len(up[c])
  <2>1. /\ buf'[c] = buf[c] \o SubSeq(up[c], 1, m)
        /\ up'[c] = SubSeq(up[c], m + 1, Len(up[c]))
    BY <1>1 DEF IInv, TypeOK
  <2> PICK took, rest : took = buf[c] \o SubSeq(up[c], 1, m) /\ rest = SubSeq(up[c], m + 1, Len(up[c]))
    OBVIOUS
  <2>2. took \in Seq(Byte) /\ took \o rest = buf[c] \o up[c]
    BY <1>3, CutMoves
  <2>3. up'[c] \in Seq(Byte)
    BY <1>3, <2>1, Cut
  <2>4. Len(took) + Len(rest) = Len(buf[c]) + Len(up[c])
    <3>1. Len(took) = Len(buf[c]) + m
      BY <1>3, CutMoves
    <3>2. Len(rest) = Len(up[c]) - m
      BY <1>3, Cut
    <3> PICK a \in Nat, b \in Nat : a = Len(up[c]) /\ b = Len(buf[c])
      BY <1>3
    <3>3. m \in 0..a /\ 0 \in Int
      BY <1>3
    <3>4. (b + m) + (a - m) = b + a
      BY <3>3, Lengths
    <3> QED
      BY <3>1, <3>2, <3>4, Zenon
  <2>5. up[c] # << >>
    BY <1>3
  <2> QED
    BY <2>1, <2>2, <2>3, <2>4, <2>5
<1>5. TypeOK'
  BY <1>1, <1>2, <1>4 DEF IInv, TypeOK, clientVars, runVars
<1>6. \A d \in Clients : d # c => Untouched(d)
  BY <1>1, <1>2 DEF IInv, TypeOK, clientVars, Untouched
<1> PICK k : k = Len(counts[c])
  OBVIOUS
<1>7. cl[c] \in {"away", "ask"} => Oversized(c, k)
  BY <1>2 DEF IInv, StepOK
<1>8. cl[c] = "wait" /\ ~Oversized(c, k) => RequestCut(c, k)'
  <2> SUFFICES ASSUME cl[c] = "wait", ~Oversized(c, k) PROVE RequestCut(c, k)'
    OBVIOUS
  <2>1. RequestCut(c, k)
    BY <1>2 DEF IInv, StepOK, RequestUnread, ReplyCut
  <2> QED
    BY <1>2, <1>4, <2>1 DEF RequestCut, clientVars
<1>9. cl[c] = "gone" /\ ~Oversized(c, k) => UpOK(c, k)'
  <2> SUFFICES ASSUME cl[c] = "gone", ~Oversized(c, k) PROVE UpOK(c, k)'
    OBVIOUS
  <2>1. k > 0 /\ cnt[c] = counts[c][k] /\ Len(buf[c]) + Len(up[c]) <= RecvTotal(c)
    BY <1>2, <1>4 DEF IInv, StepOK, UpOK
  <2> QED
    BY <1>2, <1>4, <2>1 DEF UpOK, RecvTotal, clientVars
<1> QED
  BY <1>2, <1>5, <1>6, <1>7, <1>8, <1>9, ServerStep

\* A buf is overrun only by an oversized request, and never ch05's: the count of
\* a request that is not oversized leaves room for all of it.
LEMMA OverrunKeeps ==
  ASSUME IInv, NEW c \in Clients, process = "up", Overrun(c) PROVE IInv'
<1>1. PICK m \in 1..Len(up[c]) : BodyCut(c, m) /\ Len(buf[c]) + m > BufLen[program]
  BY DEF Overrun
<1>2. /\ process' = "wild" /\ UNCHANGED <<program, clientVars, flag, up, down>>
      /\ srv' = [d \in Clients |-> "none"] /\ head' = [d \in Clients |-> NoByte]
      /\ cnt' = [d \in Clients |-> 0] /\ buf' = [d \in Clients |-> << >>]
  BY DEF Overrun
<1>3. TypeOK'
  <2>1. << >> \in Seq(Byte) /\ 0 \in Char
    BY Constants
  <2> QED
    BY <1>2, <2>1 DEF IInv, TypeOK, clientVars
<1>4. /\ srv[c] = "body" /\ up[c] # << >> /\ program \in {"ch05", "ch19"} /\ cnt[c] \in Char
      /\ Len(buf[c]) \in Nat /\ BufLen[program] \in Nat
  BY <1>1, Constants DEF BodyCut, IInv, TypeOK
<1> PICK t \in Int : t = cnt[c] * IntSize
  BY <1>4, Constants DEF Char
<1>5. t + 1 > BufLen[program]
  <2>1. RecvTotal(c) = t + 1
    BY DEF RecvTotal
  <2> QED
    BY <1>1, <1>4, <2>1 DEF BodyCut
<1>6. program = "ch19"
  <2>1. cnt[c] \in Int /\ cnt[c] <= CharMax /\ CharMax \in Int /\ IntSize \in Nat
    BY <1>4, Constants DEF Char
  <2> PICK u \in Int : u = CharMax * IntSize
    BY <2>1
  <2>2. t <= u
    BY <2>1, TimesGrows
  <2>3. IntSize * CharMax = u
    BY <2>1
  <2>4. u + 1 <= BufLen["ch05"]
    BY <2>3, BufAssumption
  <2> QED
    BY <1>4, <1>5, <2>2, <2>4
<1> PICK k : k = Len(counts[c])
  OBVIOUS
<1>7. Oversized(c, k)
  <2> SUFFICES ASSUME ~Oversized(c, k) PROVE FALSE
    OBVIOUS
  <2>1. UpOK(c, k)
    <3>1. CASE cl[c] = "gone"
      BY <3>1 DEF IInv, StepOK
    <3>2. CASE cl[c] # "gone"
      BY <3>2, InStepUp
    <3> QED
      BY <3>1, <3>2
  <2>2. k > 0 /\ cnt[c] = counts[c][k]
    BY <1>4, <2>1 DEF UpOK
  <2>3. k \in 1..k /\ counts[c][k] \in Nat
    <3>1. k \in Nat /\ counts[c] \in Seq(Nat \ {0})
      BY DEF IInv, TypeOK
    <3>2. k \in 1..Len(counts[c])
      BY <2>2, <3>1
    <3> QED
      BY <3>1, <3>2, ElementOfSeq
  <2>4. ~TooLong(counts[c][k])
    BY <2>3 DEF Oversized
  <2>5. IntSize * counts[c][k] = t
    BY <2>2, <2>3, Constants
  <2> QED
    BY <1>4, <1>5, <2>4, <2>5 DEF TooLong
<1>8. Oversized(c, k)' /\ counts' = counts /\ got' = got
  BY <1>2, <1>7, OversizedKept DEF clientVars
<1>9. RepliesMatchRequests'
  BY <1>2, <1>6, <1>8 DEF RepliesMatchRequests
<1>10. \A d \in Clients : TurnOK(d)'
  BY <1>2 DEF IInv, TurnOK, clientVars
<1> QED
  BY <1>2, <1>3, <1>9, <1>10 DEF IInv

LEMMA BodyDoneKeeps ==
  ASSUME IInv, NEW c \in Clients, process = "up", BodyDone(c) PROVE IInv'
<1>1. /\ srv[c] = "body" /\ Len(buf[c]) >= cnt[c] * IntSize + 1
      /\ srv' = [srv EXCEPT ![c] = "reply"]
      /\ UNCHANGED <<runVars, clientVars, flag, head, cnt, buf, up, down>>
  BY DEF BodyDone, RecvTotal
<1>2. TypeOK'
  BY <1>1 DEF IInv, TypeOK, clientVars, runVars
<1>3. \A d \in Clients : d # c => Untouched(d)
  BY <1>1 DEF IInv, TypeOK, clientVars, Untouched
<1> PICK k : k = Len(counts[c])
  OBVIOUS
<1>4. cl[c] \in {"away", "ask"} => Oversized(c, k)
  BY <1>1 DEF IInv, StepOK
<1>5. cl[c] = "wait" /\ ~Oversized(c, k) => RequestCut(c, k)'
  <2> SUFFICES ASSUME cl[c] = "wait", ~Oversized(c, k) PROVE RequestCut(c, k)'
    OBVIOUS
  <2>1. RequestCut(c, k)
    BY <1>1 DEF IInv, StepOK, RequestUnread, ReplyCut
  <2>2. k \in Nat \ {0} /\ counts[c][k] \in Nat \ {0}
    BY LastRequest
  <2> PICK t : t = cnt[c] * IntSize
    OBVIOUS
  <2>3. t \in Nat /\ Len(buf[c] \o up[c]) = t + 1
    BY <2>1, <2>2, RequestBytes DEF RequestCut
  <2>4. Len(buf[c]) >= t + 1
    BY <1>1
  <2>5. up[c] = << >>
    BY <2>3, <2>4 DEF IInv, TypeOK
  <2>6. srv'[c] = "reply"
    BY <1>1 DEF IInv, TypeOK
  <2> QED
    BY <1>1, <2>1, <2>5, <2>6 DEF RequestCut, clientVars
<1>6. cl[c] = "gone" /\ ~Oversized(c, k) => UpOK(c, k)'
  <2> SUFFICES ASSUME cl[c] = "gone", ~Oversized(c, k) PROVE UpOK(c, k)'
    OBVIOUS
  <2>1. UpOK(c, k)
    BY DEF IInv, StepOK
  <2> PICK t \in Int : t = RecvTotal(c)
    BY Constants DEF RecvTotal, IInv, TypeOK, Char
  <2>2. Len(buf[c]) >= t /\ (up[c] # << >> => Len(buf[c]) + Len(up[c]) <= t)
    BY <1>1, <2>1 DEF UpOK, RecvTotal
  <2>3. up[c] = << >>
    BY <2>2 DEF IInv, TypeOK
  <2> QED
    BY <1>1, <2>3 DEF UpOK
<1> QED
  BY <1>1, <1>2, <1>3, <1>4, <1>5, <1>6, ServerStep

\* The answer to the last request of a client in step is its number.
LEMMA ReplyKeeps ==
  ASSUME IInv, NEW c \in Clients, process = "up", Reply(c) PROVE IInv'
<1>1. /\ srv[c] = "reply" /\ UNCHANGED <<runVars, clientVars, flag, head, cnt, buf, up>>
      /\ down' = IF cl[c] = "gone" THEN down
                 ELSE [down EXCEPT ![c] = @ \o [j \in 1..IntSize |-> Result(c)]]
      /\ \/ flag[c] /\ srv' = [srv EXCEPT ![c] = "count"]
         \/ (~flag[c] \/ cl[c] = "gone") /\ srv' = [srv EXCEPT ![c] = "closed"]
  BY DEF Reply, Close
<1>2. Result(c) \in Nat
  BY DEF IInv, TypeOK, Result, Byte, NoByte
<1> PICK r \in Nat : r = Result(c)
  BY <1>2
<1>3. down' = IF cl[c] = "gone" THEN down ELSE [down EXCEPT ![c] = @ \o ReplyTo(r)]
  BY <1>1 DEF ReplyTo
<1>4. TypeOK'
  <2>1. down[c] \o ReplyTo(r) \in Seq(Nat)
    BY ReplyBytes DEF IInv, TypeOK
  <2>2. down' \in [Clients -> Seq(Nat)]
    BY <1>3, <2>1 DEF IInv, TypeOK
  <2>3. srv' \in [Clients -> {"none", "count", "body", "reply", "closed"}]
    BY <1>1 DEF IInv, TypeOK
  <2> QED
    BY <1>1, <2>2, <2>3 DEF IInv, TypeOK, clientVars, runVars
<1>5. \A d \in Clients : d # c => Untouched(d)
  BY <1>1, <1>3 DEF IInv, TypeOK, clientVars, Untouched
<1> PICK k : k = Len(counts[c])
  OBVIOUS
<1>6. cl[c] \in {"away", "ask"} => Oversized(c, k)
  BY <1>1 DEF IInv, StepOK
<1>7. cl[c] = "wait" /\ ~Oversized(c, k) => ReplyCut(c, k)'
  <2> SUFFICES ASSUME cl[c] = "wait", ~Oversized(c, k) PROVE ReplyCut(c, k)'
    OBVIOUS
  <2>1. RequestCut(c, k)
    BY <1>1 DEF IInv, StepOK, RequestUnread, ReplyCut
  <2>2. k \in Nat \ {0} /\ counts[c][k] \in Nat \ {0}
    BY LastRequest
  <2>3. up[c] = << >> /\ buf[c] = MessageFrom(k, counts[c][k], 1)
    <3>1. up[c] = << >> /\ buf[c] \in Seq(Byte)
      BY <1>1, <2>1 DEF RequestCut, IInv, TypeOK
    <3> QED
      BY <2>1, <3>1, ConcatEmptySeq DEF RequestCut
  <2>4. head[c] = [req |-> k, pos |-> 0]
    BY <2>1 DEF RequestCut
  <2>5. r = k
    BY <2>2, <2>3, <2>4 DEF Result, WholeMessage, NoByte
  <2>6. down[c] = << >> /\ part[c] = << >>
    BY <2>1 DEF RequestCut
  <2>7. down'[c] = ReplyTo(k)
    <3>1. down'[c] = down[c] \o ReplyTo(k)
      BY <1>3, <2>5 DEF IInv, TypeOK
    <3> QED
      BY <2>2, <2>6, <3>1, ReplyBytes, ConcatEmptySeq
  <2>8. part'[c] \o down'[c] = ReplyTo(k)
    BY <1>1, <2>2, <2>6, <2>7, ReplyBytes, ConcatEmptySeq DEF clientVars
  <2>9. srv'[c] = "count"
    BY <1>1 DEF IInv, TypeOK, TurnOK
  <2> QED
    BY <1>1, <2>3, <2>8, <2>9 DEF ReplyCut
<1>8. cl[c] = "gone" /\ ~Oversized(c, k) => UpOK(c, k)'
  BY <1>1 DEF IInv, StepOK, UpOK
<1> QED
  BY <1>1, <1>4, <1>5, <1>6, <1>7, <1>8, ServerStep

\* What an overrun server sends is no matter of the invariant.
LEMMA WildReplyKeeps ==
  ASSUME IInv, NEW c \in Clients, WildReply(c) PROVE IInv'
<1>1. /\ process = "wild" /\ UNCHANGED <<runVars, clientVars, serverVars, up>>
      /\ down' = [down EXCEPT ![c] = ReplyTo(0)]
  BY DEF WildReply, ReplyTo
<1>2. TypeOK' /\ SameRun
  <2>1. ReplyTo(0) \in Seq(Nat)
    BY ReplyBytes
  <2>2. down' \in [Clients -> Seq(Nat)]
    BY <1>1, <2>1 DEF IInv, TypeOK
  <2> QED
    BY <1>1, <2>2 DEF IInv, TypeOK, SameRun, runVars, clientVars, serverVars
<1>3. \A d \in Clients : d # c => Untouched(d)
  BY <1>1 DEF IInv, TypeOK, clientVars, serverVars, Untouched
<1>4. ClientOK(c)'
  BY <1>1 DEF IInv, ClientOK, TurnOK, AnswersOK, clientVars, serverVars, runVars
<1>5. Oversized(c, Len(counts[c])) => Oversized(c, Len(counts[c]))'
  BY <1>1, OversizedKept DEF clientVars, runVars
<1> QED
  BY <1>2, <1>3, <1>4, <1>5, OneClientStep

-----------------------------------------------------------------------------
(* The client takes the reply.                                             *)

LEMMA RecvReplyKeeps == ASSUME IInv, NEW c \in Clients, RecvReply(c) PROVE IInv'
<1>1. PICK m \in 1..Len(down[c]) :
        /\ down' = [down EXCEPT ![c] = SubSeq(@, m + 1, Len(@))]
        /\ LET all == part[c] \o SubSeq(down[c], 1, m) IN
             IF Len(all) < IntSize
             THEN part' = [part EXCEPT ![c] = all] /\ UNCHANGED <<cl, got>>
             ELSE /\ part' = [part EXCEPT ![c] = << >>]
                  /\ got' = [got EXCEPT ![c] = Append(@, ResultOf(all))]
                  /\ cl' = [cl EXCEPT ![c] = "ask"]
  BY DEF RecvReply
<1>2. cl[c] = "wait" /\ down[c] # << >> /\ UNCHANGED <<runVars, counts, serverVars, up>>
  BY DEF RecvReply
<1>3. /\ part[c] \in Seq(Nat) /\ down[c] \in Seq(Nat) /\ m \in 0..Len(down[c])
      /\ got[c] \in Seq(Nat) /\ Len(counts[c]) = Len(got[c]) + 1 /\ flag[c]
  BY <1>2 DEF IInv, TypeOK, TurnOK
<1> PICK all, rest : all = part[c] \o SubSeq(down[c], 1, m) /\ rest = SubSeq(down[c], m + 1, Len(down[c]))
  OBVIOUS
<1>4. /\ all \in Seq(Nat) /\ rest \in Seq(Nat) /\ all \o rest = part[c] \o down[c]
      /\ down'[c] = rest
  <2>1. all \in Seq(Nat) /\ all \o rest = part[c] \o down[c]
    BY <1>3, CutMoves
  <2>2. rest \in Seq(Nat)
    BY <1>3, Cut
  <2>3. down'[c] = rest
    BY <1>1 DEF IInv, TypeOK
  <2> QED
    BY <2>1, <2>2, <2>3
<1> PICK k : k = Len(counts[c])
  OBVIOUS
<1>5. k \in Nat \ {0} /\ k = Len(got[c]) + 1
  BY <1>2, LastRequest
<1>6. process # "wild" /\ ~Oversized(c, k) => srv[c] = "count" /\ up[c] = << >> /\ all \o rest = ReplyTo(k)
  BY <1>2, <1>4 DEF IInv, StepOK, RequestUnread, RequestCut, ReplyCut
<1>7. /\ \A j : Oversized(c, j)' = Oversized(c, j)
      /\ SameRun /\ process' = process /\ (Oversized(c, k) => Oversized(c, Len(counts[c]))')
  BY <1>2, OversizedKept DEF runVars, SameRun
<1>8. CASE Len(all) < IntSize
  <2>1. part' = [part EXCEPT ![c] = all] /\ UNCHANGED <<cl, got>>
    BY <1>1, <1>8
  <2>2. TypeOK'
    BY <1>1, <1>2, <1>4, <2>1 DEF IInv, TypeOK, serverVars, runVars
  <2>3. \A d \in Clients : d # c => Untouched(d)
    BY <1>1, <1>2, <2>1 DEF IInv, TypeOK, serverVars, Untouched
  <2>4. TurnOK(c)'
    BY <1>2, <2>1 DEF IInv, TurnOK, serverVars
  <2>5. AnswersOK(c)'
    BY <1>7, <2>1 DEF IInv, AnswersOK, RepliesMatchRequests
  <2>6. part'[c] = all /\ cl'[c] = "wait" /\ Len(counts'[c]) = k
    BY <1>2, <2>1 DEF IInv, TypeOK
  <2>7. process # "wild" /\ ~Oversized(c, k) => ReplyCut(c, k)'
    BY <1>2, <1>4, <1>6, <2>6 DEF ReplyCut, serverVars
  <2>8. process' # "wild" => StepOK(c)'
    BY <1>7, <2>6, <2>7 DEF StepOK
  <2> QED
    BY <1>7, <2>2, <2>3, <2>4, <2>5, <2>8, OneClientStep DEF ClientOK
<1>9. CASE ~(Len(all) < IntSize)
  <2>1. /\ part' = [part EXCEPT ![c] = << >>] /\ cl' = [cl EXCEPT ![c] = "ask"]
        /\ got' = [got EXCEPT ![c] = Append(@, ResultOf(all))]
    BY <1>1, <1>9
  <2>2. ResultOf(all) \in Nat
    BY ONLY <1>4, <1>9, Constants DEF ResultOf
  <2>3. process # "wild" /\ ~Oversized(c, k) => rest = << >> /\ ResultOf(all) = k
    <3> SUFFICES ASSUME process # "wild", ~Oversized(c, k) PROVE rest = << >> /\ ResultOf(all) = k
      OBVIOUS
    <3>1. all \o rest = ReplyTo(k) /\ Len(all \o rest) = IntSize
      BY <1>5, <1>6, ReplyBytes
    <3>2. rest = << >>
      <4>1. Len(all \o rest) = Len(all) + Len(rest) /\ Len(all) \in Nat /\ Len(rest) \in Nat
        BY <1>4, ConcatProperties
      <4> PICK i, j : i = Len(all) /\ j = Len(rest)
        OBVIOUS
      <4>2. i \in Nat /\ j \in Nat /\ ~(i < IntSize) /\ i + j = IntSize
        BY <1>9, <3>1, <4>1
      <4>3. j = 0
        <5>1. IntSize \in Nat
          BY Constants
        <5> QED
          BY ONLY <4>2, <5>1
      <4> QED
        BY <1>4, <4>3, EmptySeq
    <3>3. all = ReplyTo(k)
      BY <1>4, <3>1, <3>2, ConcatEmptySeq
    <3>4. 1 \in 1..IntSize
      BY Constants
    <3>5. \A j \in 1..IntSize : all[j] = k
      BY <1>5, <3>3, ReplyBytes
    <3>6. ResultOf(all) = k
      BY <3>4, <3>5 DEF ResultOf
    <3> QED
      BY <3>2, <3>6
  <2> PICK r \in Nat : r = ResultOf(all)
    BY <2>2
  <2>4. /\ got'[c] = Append(got[c], r) /\ got'[c] \in Seq(Nat) /\ Len(got'[c]) = k
        /\ cl'[c] = "ask" /\ part'[c] = << >>
    BY <1>3, <1>5, <2>1 DEF IInv, TypeOK
  <2>5. TypeOK'
    <3>1. << >> \in Seq(Nat)
      OBVIOUS
    <3>2. /\ part' \in [Clients -> Seq(Nat)] /\ got' \in [Clients -> Seq(Nat)]
          /\ cl' \in [Clients -> {"away", "ask", "wait", "gone"}]
          /\ down' \in [Clients -> Seq(Nat)]
      BY <1>1, <1>4, <2>1, <2>4, <3>1 DEF IInv, TypeOK
    <3>3. \A d \in Clients : Len(counts'[d]) <= MaxRequests[d] /\ Len(got'[d]) <= Len(counts'[d])
      <4> TAKE d \in Clients
      <4>1. CASE d = c
        <5>1. Len(counts'[c]) = k /\ Len(counts'[c]) <= MaxRequests[c] /\ Len(got'[c]) = k
          BY <1>2, <2>4 DEF IInv, TypeOK
        <5>2. k <= k
          BY <1>5
        <5> QED
          BY <4>1, <5>1, <5>2
      <4>2. CASE d # c
        BY <1>2, <2>1, <4>2 DEF IInv, TypeOK
      <4> QED
        BY <4>1, <4>2
    <3> QED
      BY <1>2, <3>2, <3>3 DEF IInv, TypeOK, serverVars, runVars
  <2>6. \A d \in Clients : d # c => Untouched(d)
    BY <1>1, <1>2, <2>1 DEF IInv, TypeOK, serverVars, Untouched
  <2>7. TurnOK(c)'
    BY <1>2, <1>3, <2>4 DEF TurnOK, serverVars
  <2>8. AnswersOK(c)'
    <3>1. \A j \in 1..(k - 1) : got'[c][j] = got[c][j]
      BY <1>3, <1>5, <2>4
    <3>2. got'[c][k] = r
      BY <1>3, <1>5, <2>4
    <3> QED
      BY <1>5, <1>7, <2>3, <2>4, <3>1, <3>2 DEF IInv, AnswersOK, RepliesMatchRequests
  <2>9. process' # "wild" => StepOK(c)'
    BY <1>2, <1>4, <1>6, <1>7, <2>3, <2>4 DEF StepOK, Quiet, serverVars
  <2> QED
    BY <1>7, <2>5, <2>6, <2>7, <2>8, <2>9, OneClientStep DEF ClientOK
<1> QED
  BY <1>8, <1>9

-----------------------------------------------------------------------------
(* The theorems.                                                           *)

LEMMA NextKeeps == ASSUME IInv, [Next]_vars PROVE IInv'
<1>1. CASE UNCHANGED vars
  BY <1>1 DEF vars, runVars, clientVars, serverVars, IInv, TypeOK, RepliesMatchRequests, Oversized, TooLong,
              TurnOK, StepOK, Quiet, RequestUnread, RequestCut, ReplyCut, UpOK, RecvTotal
<1>2. CASE Next
  <2>1. PICK c \in Clients :
          Client(c) \/ AcceptClient(c) \/ AcceptFails(c) \/ Server(c) \/ WildReply(c)
    BY <1>2 DEF Next
  <2>2. CASE Client(c)
    BY <2>2, ConnectKeeps, SendRequestKeeps, RecvReplyKeeps, QuitKeeps, ServerLostKeeps DEF Client
  <2>3. CASE AcceptClient(c) \/ AcceptFails(c) \/ WildReply(c)
    BY <2>3, AcceptClientKeeps, AcceptFailsKeeps, WildReplyKeeps DEF AcceptClient
  <2>4. CASE Server(c)
    BY <2>4, RecvCountKeeps, RecvCountEndKeeps, RecvBodyKeeps, OverrunKeeps, RecvBodyEndKeeps,
       BodyDoneKeeps, ReplyKeeps DEF Server
  <2> QED
    BY <2>1, <2>2, <2>3, <2>4
<1> QED
  BY <1>1, <1>2

\* The inductive invariant of CalcServer: where the bytes of a waiting client's
\* request or of its reply are, and that they fit in the server's buf, as long as
\* no request of that client is oversized and the server has not been overrun.
THEOREM Invariance == Spec => []IInv
<1>1. IInv /\ [Next]_vars => IInv'
  BY NextKeeps
<1> QED
  BY InitIInv, <1>1, PTL DEF Spec

\* Every variable of both calculators keeps its type, and no client prints more
\* results than it has sent requests (ch05-client lines 52-111, ch19-client
\* lines 37-82).
THEOREM TypeCorrect == Spec => []TypeOK
<1>1. IInv => TypeOK
  BY DEF IInv
<1> QED
  BY Invariance, <1>1, PTL

\* However recv cuts the bytes (ch05-server lines 85-126, ch19-server lines
\* 67-88) and however the threads interleave, the k-th result a client prints is
\* that of its k-th request, until it has made an oversized one or, in ch19,
\* somebody's has overrun the buf of a thread; ch05's is never overrun.
THEOREM RepliesAreRight == Spec => []RepliesMatchRequests
<1>1. IInv => RepliesMatchRequests
  BY DEF IInv
<1> QED
  BY Invariance, <1>1, PTL
=============================================================================
