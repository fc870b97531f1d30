---------------------------- MODULE ClientsProof ----------------------------
(***************************************************************************)
(* Proofs about OneWay and EchoClients, for any number of clients, any     *)
(* sizes of the buffers, any files and lines.                              *)
(***************************************************************************)
EXTENDS EchoClients, OneWay, SequenceTheorems, WellFoundedInduction, TLAPS

\* A set of numbers has a least one: fgets stops at the first place it may stop
\* at, printf at the first NUL.
LEMMA Least ==
  ASSUME NEW S, S \subseteq Nat, S # {}
  PROVE  \E m \in S : \A k \in S : m <= k
<1> DEFINE R == {ss \in Nat \X Nat : ss[1] < ss[2]}
<1>1. IsWellFoundedOn(R, Nat)
  BY NatLessThanWellFounded DEF OpToRel
<1> HIDE DEF R
<1>2. PICK m \in S : \A y \in S : ~(<<y, m>> \in R)
  BY <1>1, WFMin
<1>3. \A k \in S : m <= k
  <2>1. \A k \in S : k \in Nat /\ m \in Nat /\ ~(k < m)
    BY <1>2 DEF R
  <2> QED
    BY <2>1
<1> QED
  BY <1>3

-----------------------------------------------------------------------------
(* One way: what is read of a file.                                        *)

LEMMA SizeIsNat ==
  ASSUME TransferTypeOK
  PROVE  Size \in Nat /\ Len(file) \in Nat /\ (pair = "ch14" => Size = Len(file)) /\ pos \in 0..Size
<1>1. file \in Seq({"c", "n"})
  BY OneWayAssumption DEF TransferTypeOK
<1>2. Rounds * BufSize \in Nat
  BY OneWayAssumption
<1> QED
  BY <1>1, <1>2 DEF Size, TransferTypeOK

\* What is handed over at once is not more than there is.
LEMMA PartBound ==
  ASSUME TransferTypeOK
  PROVE  /\ Part \in 0..(Size - pos) /\ pos + Part \in pos..Size
         /\ pair \notin {"ch02", "ch07"} \/ Part < BufSize => pos + Part = Size
  BY SizeIsNat, OneWayAssumption DEF Part

LEMMA TakesSome == Takes \in Nat \ {0}
  BY OneWayAssumption DEF Takes

\* fgets stops, and has then read one character at least, if there is one.
LEMMA StopBound ==
  ASSUME TransferTypeOK, pair = "ch14"
  PROVE  /\ Stop \in pos..Len(file) /\ Stop <= pos + Takes
         /\ pos < Len(file) => Stop > pos
<1> PICK n : n = Len(file)
  OBVIOUS
<1>1. n \in Nat /\ pos \in 0..n
  BY SizeIsNat
<1> DEFINE Here(e) == \/ e = n \/ e = pos + Takes \/ (e > pos /\ file[e] = "n")
           P(e) == /\ Here(e)
                   /\ \A k \in (pos + 1)..(e - 1) : file[k] # "n"
                   /\ e <= pos + Takes
           S == {e \in pos..n : Here(e)}
<1>2. \E e \in pos..n : P(e)
  <2>1. S \subseteq Nat /\ n \in S
    BY <1>1
  <2>2. PICK e \in S : \A k \in S : e <= k
    <3> HIDE DEF S
    <3> QED
      BY <2>1, Least
  <2>3. e \in pos..n /\ Here(e)
    BY <2>2
  <2>4. e <= pos + Takes
    <3>1. CASE pos + Takes \in pos..n
      <4>1. pos + Takes \in S
        BY <3>1
      <4> QED
        BY <2>2, <4>1
    <3>2. CASE pos + Takes \notin pos..n
      BY <1>1, <2>3, <3>2, TakesSome
    <3> QED
      BY <3>1, <3>2
  <2>5. \A k \in (pos + 1)..(e - 1) : file[k] # "n"
    <3> SUFFICES ASSUME NEW k \in (pos + 1)..(e - 1), file[k] = "n" PROVE FALSE
      OBVIOUS
    <3>1. k \in S
      BY <1>1, <2>3
    <3> QED
      BY <1>1, <2>2, <2>3, <3>1
  <2> QED
    BY <2>3, <2>4, <2>5
<1>3. Stop = CHOOSE e \in pos..n : P(e)
  BY DEF Stop
<1>4. Stop \in pos..n /\ P(Stop)
  <2> HIDE DEF P
  <2> QED
    BY <1>2, <1>3
<1> QED
  BY <1>1, <1>4, TakesSome

-----------------------------------------------------------------------------
(* One way: the inductive invariant.                                       *)

LEMMA TransferInitIInv == TransferInit => TransferIInv
<1> SUFFICES ASSUME TransferInit PROVE TransferIInv
  OBVIOUS
<1> USE DEF TransferInit
<1>1. Size \in Nat
  <2>1. Rounds * BufSize \in Nat /\ file \in Seq({"c", "n"})
    BY OneWayAssumption
  <2> QED
    BY <2>1 DEF Size
<1>2. TransferTypeOK
  BY <1>1 DEF TransferTypeOK
<1> QED
  BY <1>1, <1>2 DEF TransferIInv, EndMeansAll, BuffersSuffice, SenderInv, AckInv, MessageInv, LineInv

\* Nothing changes what is sent.
LEMMA SizeStays == ASSUME pair' = pair, file' = file PROVE Size' = Size /\ Sendable(file)' = Sendable(file)
  BY DEF Size, Sendable

LEMMA SendPartKeeps == ASSUME TransferIInv, SendPart PROVE TransferIInv'
<1> USE DEF TransferIInv
<1>1. /\ snd = "send" /\ pair # "ch14" /\ pos' = pos + Part
      /\ UNCHANGED <<pair, file, inBuf, conn, rcv, got, ack, net>>
  BY DEF SendPart
<1>2. Size \in Nat /\ pos \in 0..Size /\ pos' \in pos..Size /\ Size' = Size
  BY <1>1, SizeIsNat, PartBound, SizeStays
<1>3. /\ snd' \in {"send", "shut", "close"} /\ (snd' # "send" => pos' = Size)
      /\ snd' = "shut" => pair = "ch07"
  <2>1. CASE pair = "ch07"
    <3>1. snd' = IF Part < BufSize THEN "shut" ELSE "send"
      BY <2>1 DEF SendPart
    <3> QED
      BY <1>1, <2>1, <3>1, PartBound
  <2>2. CASE pair = "ch02"
    <3>1. snd' = IF pos' < Size THEN "send" ELSE "close"
      BY <2>2 DEF SendPart
    <3> QED
      BY <1>2, <3>1
  <2>3. CASE pair \notin {"ch02", "ch07"}
    <3>1. snd' = "close"
      BY <2>3 DEF SendPart
    <3> QED
      BY <1>1, <2>3, <3>1, PartBound
  <2> QED
    BY <2>1, <2>2, <2>3
<1>4. TransferTypeOK'
  BY <1>1, <1>2, <1>3 DEF TransferTypeOK
<1>5. EndMeansAll' /\ BuffersSuffice' /\ AckInv' /\ MessageInv' /\ LineInv'
  BY <1>1, <1>2, <1>3, SizeStays DEF EndMeansAll, BuffersSuffice, AckInv, MessageInv, LineInv
<1>6. SenderInv'
  BY <1>1, <1>2, <1>3 DEF SenderInv
<1> QED
  BY <1>4, <1>5, <1>6

\* The steps that only end something.
LEMMA EndsKeep ==
  ASSUME TransferIInv, Shutdown \/ RecvAck \/ Close \/ Post \/ Thank \/ KillSender \/ KillReceiver
  PROVE  TransferIInv'
<1> USE DEF TransferIInv, Gone
<1>1. UNCHANGED <<pair, file, pos, inBuf, got, net>>
  BY DEF Shutdown, RecvAck, Close, Post, Thank, KillSender, KillReceiver
<1>2. Size' = Size
  BY <1>1, SizeStays
<1>3. TransferTypeOK'
  BY <1>1, <1>2 DEF TransferTypeOK, Shutdown, SendEnd, RecvAck, Close, Post, Thank, KillSender, KillReceiver
<1>4. EndMeansAll'
  BY <1>1, <1>2 DEF TransferTypeOK, EndMeansAll, AckInv, Shutdown, RecvAck, Close, Post, Thank, KillSender, KillReceiver
<1>5. BuffersSuffice'
  BY <1>1, <1>2 DEF BuffersSuffice, AckInv, Shutdown, RecvAck, Close, Post, Thank, KillSender, KillReceiver
<1>6. SenderInv'
  BY <1>1, <1>2 DEF SenderInv, Shutdown, SendEnd, RecvAck, Close, Post, Thank, KillSender, KillReceiver
<1>7. AckInv'
  BY <1>1, <1>2 DEF AckInv, EndMeansAll, Shutdown, RecvAck, Close, Post, Thank, KillSender, KillReceiver
<1>8. MessageInv' /\ LineInv'
  BY <1>1, SizeStays DEF MessageInv, LineInv, Shutdown, RecvAck, Close, Post, Thank, KillSender, KillReceiver
<1> QED
  BY <1>3, <1>4, <1>5, <1>6, <1>7, <1>8

LEMMA ReceiveDataKeeps == ASSUME TransferIInv, ReceiveData PROVE TransferIInv'
<1> USE DEF TransferIInv
<1>1. PICK m \in 1..(pos - got) :
        /\ m <= BufSize \/ pair = "ch02"
        /\ got' = got + m
        /\ rcv' \in CASE pair = "ch01" /\ m = BufSize -> {"wild"}
                      [] pair = "ch22e"              -> Printed(got')
                      [] pair = "ch22r"              -> {"done"}
                      [] OTHER                       -> {rcv}
  BY DEF ReceiveData
<1>2. /\ pair # "ch14" /\ rcv \in {"recv", "pend"}
      /\ UNCHANGED <<pair, file, snd, pos, inBuf, conn, ack, net>>
  BY DEF ReceiveData
<1>3. Size' = Size /\ Size \in Nat /\ pos \in 0..Size /\ got \in 0..pos
  BY <1>2, SizeStays, SizeIsNat DEF TransferTypeOK
<1>4. got' \in (got + 1)..pos /\ got # Size
  BY <1>1, <1>3
<1>5. /\ rcv' = "wild" => \/ pair = "ch01" /\ got' >= BufSize
                          \/ pair = "ch22e" /\ got' < Size
      /\ rcv' = "done" => pair \in {"ch22e", "ch22r"}
      /\ rcv' \in {"recv", "pend", "wild", "done"}
      /\ rcv' \in {"recv", "pend"} => pair \notin {"ch22e", "ch22r"}
  <2>1. CASE pair = "ch01" /\ m = BufSize
    BY <1>1, <1>3, <2>1, OneWayAssumption
  <2>2. CASE pair = "ch22e"
    BY <1>1, <1>3, <1>4, <2>2 DEF Printed
  <2>3. CASE pair = "ch22r"
    BY <1>1, <2>3
  <2>4. CASE ~(pair = "ch01" /\ m = BufSize) /\ pair \notin {"ch22e", "ch22r"}
    BY <1>1, <1>2, <2>4
  <2> QED
    BY <2>1, <2>2, <2>3, <2>4
<1>6. TransferTypeOK'
  BY <1>2, <1>3, <1>4, <1>5 DEF TransferTypeOK, Gone
<1>7. EndMeansAll' /\ BuffersSuffice'
  BY <1>2, <1>3, <1>4, <1>5 DEF EndMeansAll, BuffersSuffice
<1>8. SenderInv' /\ AckInv' /\ MessageInv' /\ LineInv'
  BY <1>2, <1>3, <1>4, <1>5, SizeStays DEF SenderInv, AckInv, MessageInv, LineInv
<1> QED
  BY <1>6, <1>7, <1>8

\* What ch22's Event server prints is less than its message if it leaves buf.
LEMMA PrintedEnds ==
  ASSUME NEW n, NEW w \in Printed(n), n <= Size, n \in Nat, Size \in Nat
  PROVE  w \in {"done", "wild"} /\ (w = "wild" => n < Size)
  BY DEF Printed

LEMMA ReceiveEndKeeps == ASSUME TransferIInv, ReceiveEnd PROVE TransferIInv'
<1> USE DEF TransferIInv
<1>1. /\ pair # "ch14" /\ conn = "fin" /\ got = pos
      /\ UNCHANGED <<pair, file, snd, pos, inBuf, conn, got, ack, net>>
  BY DEF ReceiveEnd
<1>2. Size' = Size /\ Size \in Nat /\ pos \in 0..Size
  BY <1>1, SizeStays, SizeIsNat
<1>3. snd # "killed" => got = Size
  BY <1>1 DEF SenderInv
<1>4. /\ rcv' \in {"thank", "done", "wild"}
      /\ rcv' = "thank" => pair = "ch07"
      /\ rcv' = "wild" => pair = "ch22e" /\ got < Size
  <2>1. CASE pair = "ch07"
    BY <2>1 DEF ReceiveEnd
  <2>2. CASE pair = "ch22e"
    BY <1>1, <1>2, <2>2, PrintedEnds DEF ReceiveEnd
  <2>3. CASE pair \notin {"ch07", "ch22e"}
    BY <2>3 DEF ReceiveEnd
  <2> QED
    BY <2>1, <2>2, <2>3
<1>5. TransferTypeOK'
  BY <1>1, <1>2, <1>4 DEF TransferTypeOK, Gone
<1>6. EndMeansAll' /\ BuffersSuffice'
  BY <1>1, <1>2, <1>3, <1>4 DEF EndMeansAll, BuffersSuffice
<1>7. SenderInv' /\ AckInv' /\ MessageInv' /\ LineInv'
  BY <1>1, <1>2, <1>3, <1>4, SizeStays DEF SenderInv, AckInv, MessageInv, LineInv
<1> QED
  BY <1>5, <1>6, <1>7

LEMMA ReceiveFailsKeeps == ASSUME TransferIInv, ReceiveFails PROVE TransferIInv'
<1> USE DEF TransferIInv
<1>1. /\ conn = "rst" /\ pair # "ch14"
      /\ UNCHANGED <<pair, file, snd, pos, inBuf, conn, got, ack, net>>
  BY DEF ReceiveFails
<1>2. Size' = Size /\ Size \in Nat /\ pos \in 0..Size /\ got \in 0..pos
  BY <1>1, SizeStays, SizeIsNat DEF TransferTypeOK
<1>3. snd = "killed"
  BY <1>1 DEF SenderInv
<1>4. /\ rcv' \in {"exit", "wild", "done", "stuck"}
      /\ rcv' = "wild" => pair = "ch07" \/ (pair = "ch22e" /\ got < Size)
      /\ rcv' = "done" => pair = "ch22e"
  <2>1. CASE pair = "ch22e" /\ rcv = "pend" /\ rcv' \in Printed(got)
    <3>1. got \in Nat /\ got <= Size
      BY <1>2
    <3> QED
      BY <1>2, <2>1, <3>1, PrintedEnds
  <2>2. CASE ~(pair = "ch22e" /\ rcv = "pend" /\ rcv' \in Printed(got))
    BY <2>2 DEF ReceiveFails
  <2> QED
    BY <2>1, <2>2
<1>5. TransferTypeOK'
  BY <1>1, <1>2, <1>4 DEF TransferTypeOK, Gone
<1>6. EndMeansAll' /\ BuffersSuffice'
  BY <1>1, <1>2, <1>3, <1>4 DEF EndMeansAll, BuffersSuffice
<1>7. SenderInv' /\ AckInv' /\ MessageInv' /\ LineInv'
  BY <1>1, <1>2, <1>3, <1>4, SizeStays DEF SenderInv, AckInv, MessageInv, LineInv
<1> QED
  BY <1>5, <1>6, <1>7

\* What ch14 has in buf when it has sent a line, and where it reads on.
LEMMA LineSent ==
  ASSUME TransferIInv, SendLine
  PROVE  /\ inBuf' \in (0..Len(file)) \X (0..Len(file)) /\ pos' \in 0..Len(file)
         /\ inBuf' # inBuf => inBuf'[1] = IF inBuf[2] = Len(file) THEN 1 ELSE inBuf[2] + 1
         /\ \/ inBuf' = <<0, 0>> /\ pos' = 0 /\ file = << >>
            \/ LineOK(inBuf') /\ (pos' = inBuf'[2] \/ (pos' = 0 /\ inBuf'[2] = Len(file)))
<1> USE DEF TransferIInv
<1> PICK n, stop : n = Len(file) /\ stop = Stop
  OBVIOUS
<1>1. /\ pair = "ch14"
      /\ inBuf' = (IF pos = n THEN inBuf ELSE <<pos + 1, stop>>)
      /\ pos' = IF stop = n /\ stop < pos + Takes /\ (pos = stop \/ file[stop] # "n") THEN 0 ELSE stop
  BY DEF SendLine, Start
<1>2. n \in Nat /\ pos \in 0..n /\ stop \in pos..n /\ stop <= pos + Takes /\ (pos < n => stop > pos)
  BY <1>1, SizeIsNat, StopBound
<1>3. /\ inBuf \in (0..n) \X (0..n)
      /\ \/ inBuf = <<0, 0>> /\ pos = 0
         \/ LineOK(inBuf) /\ (pos = inBuf[2] \/ (pos = 0 /\ inBuf[2] = n))
  BY <1>1, SizeIsNat DEF TransferTypeOK, LineInv
<1>4. CASE pos = n
  <2>1. inBuf' = inBuf /\ stop = n /\ pos' = 0
    BY <1>1, <1>2, <1>4, TakesSome
  <2>2. CASE inBuf = <<0, 0>> /\ pos = 0
    <3>1. file = << >>
      <4>1. file \in Seq({"c", "n"}) /\ Len(file) = 0
        BY <1>4, <2>2, OneWayAssumption DEF TransferTypeOK
      <4> QED
        BY <4>1, EmptySeq
    <3> QED
      BY <1>2, <1>3, <2>1, <2>2, <3>1
  <2>3. CASE LineOK(inBuf)
    <3>1. inBuf[2] = n
      BY <1>2, <1>3, <1>4, <2>3 DEF LineOK
    <3> QED
      BY <1>2, <1>3, <2>1, <2>3, <3>1
  <2> QED
    BY <1>3, <2>2, <2>3
<1>5. CASE pos # n
  <2>1. inBuf' = <<pos + 1, stop>> /\ stop \in (pos + 1)..n
    BY <1>1, <1>2, <1>5
  <2>2. LineOK(inBuf') /\ inBuf' \in (0..n) \X (0..n)
    BY <1>2, <2>1, TakesSome DEF LineOK
  <2>3. pos' \in 0..n /\ (pos' = stop \/ (pos' = 0 /\ stop = n))
    BY <1>1, <1>2
  <2>4. pos + 1 = IF inBuf[2] = n THEN 1 ELSE inBuf[2] + 1
    BY <1>2, <1>3, <1>5
  <2> QED
    BY <2>1, <2>2, <2>3, <2>4
<1> QED
  BY <1>4, <1>5

LEMMA SendLineKeeps == ASSUME TransferIInv, SendLine PROVE TransferIInv'
<1> USE DEF TransferIInv
<1>1. /\ pair = "ch14" /\ net' = net \cup {inBuf'}
      /\ UNCHANGED <<pair, file, snd, conn, rcv, got, ack>>
  BY DEF SendLine
<1>2. Size' = Size /\ Size = Len(file) /\ Len(file) \in Nat
  BY <1>1, SizeStays, SizeIsNat
<1>3. TransferTypeOK'
  BY <1>1, <1>2, LineSent DEF TransferTypeOK
<1>4. EndMeansAll' /\ BuffersSuffice' /\ SenderInv' /\ AckInv' /\ MessageInv'
  BY <1>1, <1>2, SizeStays DEF EndMeansAll, BuffersSuffice, SenderInv, AckInv, MessageInv
<1>5. LineInv'
  <2>1. \A d \in net : LineOK(d)' = LineOK(d)
    BY DEF LineOK, Takes
  <2>2. LineOK(inBuf)' = LineOK(inBuf')
    BY DEF LineOK, Takes
  <2> QED
    BY <1>1, <2>1, <2>2, LineSent DEF LineInv
<1> QED
  BY <1>3, <1>4, <1>5

LEMMA NetKeeps == ASSUME TransferIInv, RecvFrom \/ Lose PROVE TransferIInv'
<1> USE DEF TransferIInv
<1>1. net' \subseteq net /\ UNCHANGED <<pair, file, snd, pos, inBuf, conn, got, ack>>
  BY DEF RecvFrom, Lose
<1>2. Size' = Size
  BY <1>1, SizeStays
<1>3. rcv' = rcv \/ (pair = "ch14" /\ rcv' \in {"recv", "done"} /\ (file # << >> => rcv' = "recv"))
  <2>1. CASE Lose
    BY <2>1 DEF Lose
  <2>2. CASE RecvFrom
    <3>1. PICK d \in net :
            IF d[1] = 0 THEN rcv' \in {"recv", "done"}
            ELSE rcv' = IF d[2] - d[1] + 1 > BufSize - 1 THEN "done" ELSE "recv"
      BY <2>2 DEF RecvFrom
    <3>2. pair = "ch14"
      BY <2>2 DEF RecvFrom
    <3>3. LineOK(d) \/ (d[1] = 0 /\ file = << >>)
      BY <3>2 DEF LineInv
    <3>4. d[1] \in Int /\ d[2] \in Int /\ BufSize \in Int
      BY OneWayAssumption, SizeIsNat DEF TransferTypeOK
    <3>5. CASE d[1] = 0
      BY <3>1, <3>2, <3>3, <3>5 DEF LineOK
    <3>6. CASE d[1] # 0
      <4>1. ~(d[2] - d[1] + 1 > BufSize - 1)
        BY <3>3, <3>4, <3>6 DEF LineOK, Takes
      <4> QED
        BY <3>1, <3>2, <3>6, <4>1
    <3> QED
      BY <3>5, <3>6
  <2> QED
    BY <2>1, <2>2
<1>4. TransferTypeOK'
  BY <1>1, <1>2, <1>3 DEF TransferTypeOK, Gone
<1>5. EndMeansAll' /\ BuffersSuffice' /\ SenderInv' /\ AckInv' /\ MessageInv'
  BY <1>1, <1>2, <1>3, SizeStays DEF EndMeansAll, BuffersSuffice, SenderInv, AckInv, MessageInv
<1>6. LineInv'
  BY <1>1 DEF LineInv, LineOK, Takes
<1> QED
  BY <1>4, <1>5, <1>6

LEMMA TransferNextKeeps == ASSUME TransferIInv, [TransferNext]_transferVars PROVE TransferIInv'
<1>1. CASE UNCHANGED transferVars
  BY <1>1 DEF transferVars, TransferIInv, TransferTypeOK, EndMeansAll, BuffersSuffice, SenderInv, AckInv,
              MessageInv, Sendable, LineInv, LineOK, Takes, Size, Gone
<1>2. CASE TransferNext
  BY <1>2, SendPartKeeps, EndsKeep, ReceiveDataKeeps, ReceiveEndKeeps, ReceiveFailsKeeps, SendLineKeeps,
     NetKeeps DEF TransferNext, Sender, Receiver
<1> QED
  BY <1>1, <1>2

-----------------------------------------------------------------------------
(* One way: the theorems.                                                  *)

\* The inductive invariant of OneWay: what the ends know of each other, and what
\* of the file is in ch14's buf and in its datagrams.
THEOREM TransferInvariance == TransferSpec => []TransferIInv
<1>1. TransferIInv /\ [TransferNext]_transferVars => TransferIInv'
  BY TransferNextKeeps
<1> QED
  BY TransferInitIInv, <1>1, PTL DEF TransferSpec

\* No sender reads beyond its file, and no receiver gets more than was sent.
THEOREM TransferTypeCorrect == TransferSpec => []TransferTypeOK
<1>1. TransferIInv => TransferTypeOK
  BY DEF TransferIInv
<1> QED
  BY TransferInvariance, <1>1, PTL

\* A receiver of ch01, ch02 or ch07 that sees the end of the stream has all of
\* it, unless the sender was stopped, and ch07's server has the acknowledgment
\* (ch07_shutdown-server lines 48-49) only when the client has the whole file.
THEOREM EndIsTheEnd == TransferSpec => []EndMeansAll
<1>1. TransferIInv => EndMeansAll
  BY DEF TransferIInv
<1> QED
  BY TransferInvariance, <1>1, PTL

\* A receiver leaves its buffer only where ch01 fills it (ch01_tcp-server line
\* 71), where ch07's server was stopped (ch07_shutdown-client line 37) and where
\* ch22's Event server prints less than its message (ch22_OIO-Event-server lines
\* 83 and 88), and ch07's server only when it prints what is not the whole
\* acknowledgment (line 50); no line of ch14 is too long for its receivers.
THEOREM BuffersAreRespected == TransferSpec => []BuffersSuffice
<1>1. TransferIInv => BuffersSuffice
  BY DEF TransferIInv
<1> QED
  BY TransferInvariance, <1>1, PTL

\* ch14 (ch14_broadcast-sendto lines 55-70) sends the file line by line, without
\* leaving anything out, and starts again behind the last character.
THEOREM EveryLineIsSent == TransferSpec => NothingSkipped
<1>1. TransferIInv /\ [TransferNext]_transferVars =>
        [inBuf' # inBuf => inBuf'[1] = IF inBuf[2] = Len(file) THEN 1 ELSE inBuf[2] + 1]_transferVars
  <2> SUFFICES ASSUME TransferIInv, TransferNext, inBuf' # inBuf
               PROVE  inBuf'[1] = IF inBuf[2] = Len(file) THEN 1 ELSE inBuf[2] + 1
    BY DEF transferVars
  <2>1. SendLine
    BY DEF TransferNext, Sender, Receiver, SendPart, Shutdown, RecvAck, Close, Post, ReceiveData,
           ReceiveEnd, ReceiveFails, Thank, RecvFrom, Lose, KillSender, KillReceiver
  <2> QED
    BY <2>1, LineSent
<1> QED
  BY TransferInvariance, <1>1, PTL DEF TransferSpec, NothingSkipped

-----------------------------------------------------------------------------
(* Echo clients: what is in buf.                                           *)

LEMMA Places ==
  /\ BufLen \in Nat \ {0, 1} /\ SrvMax \in Nat \ {0} /\ MaxSent \in Nat
  /\ Idx = 0..BufLen /\ Lens \subseteq Nat \ {0}
  BY EchoClientsAssumption DEF Idx

\* printf stops at the first NUL, where there is one.
LEMMA TextStops ==
  ASSUME NEW b \in [Idx -> 0..MaxSent], NEW z \in Idx, b[z] = 0
  PROVE  \E n \in 0..z : /\ b[n] = 0 /\ \A j \in 0..(n - 1) : b[j] # 0
                        /\ Text(b) = [k \in 1..n |-> b[k - 1]]
<1> DEFINE S == {n \in Idx : b[n] = 0}
           P(n) == b[n] = 0 /\ \A j \in 0..(n - 1) : b[j] # 0
<1>1. S \subseteq Nat /\ z \in S
  BY Places
<1>2. PICK n \in S : \A k \in S : n <= k
  <2> HIDE DEF S
  <2> QED
    BY <1>1, Least
<1>3. n \in Idx /\ n \in 0..z /\ P(n)
  BY <1>1, <1>2, Places
<1>4. \A k \in Idx : P(k) => k = n
  BY <1>3, Places
<1>5. (CHOOSE k \in Idx : P(k)) = n
  <2> HIDE DEF P
  <2> QED
    BY <1>3, <1>4
<1>6. Text(b) = [k \in 1..n |-> b[k - 1]]
  BY <1>5 DEF Text
<1> QED
  BY <1>3, <1>6

LEMMA TextType ==
  ASSUME NEW b \in [Idx -> 0..MaxSent], NEW z \in Idx, b[z] = 0
  PROVE  Text(b) \in Seq(1..MaxSent)
<1>1. PICK n \in 0..z : /\ \A j \in 0..(n - 1) : b[j] # 0
                       /\ Text(b) = [k \in 1..n |-> b[k - 1]]
  BY TextStops
<1>2. n \in Nat /\ \A k \in 1..n : b[k - 1] \in 1..MaxSent
  BY <1>1, Places
<1> QED
  BY <1>1, <1>2

\* The bytes lo + 1 to lo + z and a NUL are at the start of b.
Holds(b, lo, z) == b[z] = 0 /\ \A j \in 0..(z - 1) : b[j] = lo + j + 1

\* They are what is printed.
LEMMA TextIs ==
  ASSUME NEW b \in [Idx -> 0..MaxSent], NEW z \in Nat, z \in Idx, NEW lo \in Nat, Holds(b, lo, z)
  PROVE  Text(b) = Bytes(lo + 1, lo + z) /\ Len(Text(b)) = z
<1> USE DEF Holds
<1>1. PICK n \in 0..z : b[n] = 0 /\ Text(b) = [k \in 1..n |-> b[k - 1]]
  BY TextStops
<1>2. n = z
  BY <1>1, Places
<1>3. Text(b) = [k \in 1..z |-> lo + k]
  BY <1>1, <1>2, Places
<1>4. Bytes(lo + 1, lo + z) = [k \in 1..z |-> lo + k]
  <2>1. z \in Nat /\ (lo + z) - (lo + 1) + 1 = z
    BY Places
  <2>2. Bytes(lo + 1, lo + z) = [k \in 1..z |-> (lo + 1) + k - 1]
    BY <2>1 DEF Bytes
  <2>3. \A k \in 1..z : (lo + 1) + k - 1 = lo + k
    OBVIOUS
  <2> QED
    BY <2>2, <2>3
<1>5. z \in Nat
  BY Places
<1> QED
  BY <1>3, <1>4, <1>5

\* What recv of m bytes leaves in buf.
LEMMA ReceivedIs ==
  ASSUME EchoTypeOK, NEW c \in Clients, NEW at \in Nat, NEW m \in Nat, rcvd[c] + m <= MaxSent, NEW nul
  PROVE  /\ Received(c, at, m, nul) \in [Idx -> 0..MaxSent]
         /\ \A j \in Idx \cap nul : Received(c, at, m, nul)[j] = 0
         /\ \A j \in Idx \ nul : Received(c, at, m, nul)[j] =
               IF at <= j /\ j < at + m THEN rcvd[c] + (j - at) + 1 ELSE buf[c][j]
<1>1. \A j \in Idx : /\ j \in Nat /\ buf[c][j] \in 0..MaxSent
                     /\ at <= j /\ j < at + m => rcvd[c] + (j - at) + 1 \in 0..MaxSent
  <2>1. buf[c] \in [Idx -> 0..MaxSent] /\ rcvd[c] \in 0..MaxSent
    BY DEF EchoTypeOK
  <2> PICK q : q = rcvd[c]
    OBVIOUS
  <2>2. q \in Nat /\ q + m <= MaxSent /\ MaxSent \in Nat /\ at \in Nat /\ m \in Nat
    BY <2>1, Places
  <2>3. \A j \in Idx : j \in Nat
    BY Places
  <2>4. \A j \in Nat : at <= j /\ j < at + m => q + (j - at) + 1 \in 0..MaxSent
    BY ONLY <2>2
  <2> QED
    BY <2>1, <2>3, <2>4
<1>2. 0 \in 0..MaxSent
  BY Places
<1> QED
  BY <1>1, <1>2 DEF Received

-----------------------------------------------------------------------------
(* Echo clients: one client at a time.                                     *)

\* What the properties say of one client.
ShownOK(c) ==
  cl[c] = "ask" /\ sent[c] > 0 =>
    /\ program = "ch23" => shown[c] = Message(c)
    /\ program = "ch12" => /\ shown[c] = Bytes(sent[c] - total[c] + 1, rcvd[c])
                           /\ rcvd[c] = sent[c] \/ link[c] # "up"
    /\ program = "ch21" => shown[c] = Bytes(rcvd[c] - Len(shown[c]) + 1, rcvd[c])

BufferOK(c) ==
  /\ cl[c] \in {"ask", "wait"} =>
       sum[c] <= (IF program = "ch21" THEN BufLen - 1 ELSE total[c]) /\ total[c] \in Idx
  /\ cl[c] = "wild" =>
       \/ link[c] = "rst" /\ program \in {"ch04", "ch21"}
       \/ Overlong(total[c])

EchoOK(c) ==
  /\ ShownOK(c) /\ BufferOK(c)
  /\ Counted(c) /\ EndInv(c) /\ InStep(c) /\ Accumulated(c)

LEMMA EchoParts ==
  ASSUME EchoTypeOK
  PROVE  EchoIInv <=> \A c \in Clients : EchoOK(c)
<1>1. PrintsTheEcho <=> \A c \in Clients : ShownOK(c)
  BY DEF EchoTypeOK, Programs, PrintsTheEcho, ShownOK
<1>2. BufferRespected <=> \A c \in Clients : BufferOK(c)
  BY DEF BufferRespected, BufferOK, Overlong
<1> QED
  BY <1>1, <1>2 DEF EchoIInv, EchoOK

\* A step that is not client d's, nor of the server with d.
Aside(d) ==
  /\ cl'[d] = cl[d] /\ total'[d] = total[d] /\ sum'[d] = sum[d] /\ buf'[d] = buf[d]
  /\ shown'[d] = shown[d] /\ sent'[d] = sent[d] /\ rcvd'[d] = rcvd[d]
  /\ echoed'[d] = echoed[d] /\ held'[d] = held[d] /\ srv'[d] = srv[d] /\ link'[d] = link[d]

LEMMA AsideKeeps ==
  ASSUME NEW d, EchoOK(d), Aside(d), program' = program, stopped' = stopped
  PROVE  EchoOK(d)'
<1>1. ShownOK(d)' /\ BufferOK(d)' /\ Counted(d)' /\ EndInv(d)'
  BY DEF EchoOK, Aside, ShownOK, Message, BufferOK, Overlong, Counted, EndInv
<1>2. InStep(d)' /\ Accumulated(d)'
  BY DEF EchoOK, Aside, InStep, Over, Accumulated
<1> QED
  BY <1>1, <1>2 DEF EchoOK

LEMMA OneEchoStep ==
  ASSUME EchoIInv, EchoTypeOK', NEW c \in Clients, EchoOK(c)', program' = program, stopped' = stopped,
         \A d \in Clients : d # c => Aside(d)
  PROVE  EchoIInv'
<1>1. \A d \in Clients : EchoOK(d)
  BY EchoParts DEF EchoIInv
<1>2. \A d \in Clients : EchoOK(d)'
  BY <1>1, AsideKeeps
<1>3. PrintsTheEcho'
  BY <1>2 DEF EchoOK, EchoTypeOK, Programs, PrintsTheEcho, ShownOK
<1>4. BufferRespected'
  BY <1>2 DEF EchoOK, BufferRespected, BufferOK, Overlong
<1> QED
  BY <1>2, <1>3, <1>4 DEF EchoIInv, EchoOK

-----------------------------------------------------------------------------
(* Echo clients: the clients' actions.                                     *)

LEMMA EchoInitIInv == EchoInit => EchoIInv
<1> SUFFICES ASSUME EchoInit PROVE EchoIInv
  OBVIOUS
<1>1. EchoTypeOK
  <2>1. << >> \in Seq(1..MaxSent) /\ 0 \in 0..MaxSent /\ 0 \in 0..SrvMax /\ 0 \in Idx
    BY Places
  <2>2. /\ Zeros \in [Clients -> Idx] /\ Zeros \in [Clients -> Nat]
        /\ Zeros \in [Clients -> 0..MaxSent] /\ Zeros \in [Clients -> 0..SrvMax]
    BY <2>1 DEF Zeros
  <2>3. [j \in Idx |-> 0] \in [Idx -> 0..MaxSent]
    BY <2>1
  <2>4. buf \in [Clients -> [Idx -> 0..MaxSent]] /\ shown \in [Clients -> Seq(1..MaxSent)]
    BY <2>1, <2>3 DEF EchoInit
  <2>5. /\ program \in Programs /\ stopped \in BOOLEAN
        /\ cl \in [Clients -> {"away", "ask", "wait", "done", "wild"}]
        /\ srv \in [Clients -> {"none", "open", "closed"}] /\ link \in [Clients -> {"up", "fin", "rst"}]
    BY DEF EchoInit
  <2> QED
    BY <2>2, <2>4, <2>5 DEF EchoInit, EchoTypeOK
<1>2. \A c \in Clients : EchoOK(c)
  <2> TAKE c \in Clients
  <2>1. /\ cl[c] = "away" /\ sent[c] = 0 /\ total[c] = 0 /\ sum[c] = 0 /\ rcvd[c] = 0
        /\ echoed[c] = 0 /\ held[c] = 0 /\ link[c] = "up" /\ ~stopped
    BY DEF EchoInit, Zeros
  <2> QED
    BY <2>1 DEF EchoOK, ShownOK, BufferOK, Counted, EndInv, InStep, Accumulated
<1> QED
  BY <1>1, <1>2, EchoParts

LEMMA EchoConnectKeeps == ASSUME EchoIInv, NEW c \in Clients, Connect(c) PROVE EchoIInv'
<1>1. EchoTypeOK /\ EchoOK(c)
  BY EchoParts DEF EchoIInv
<1>2. cl[c] = "away" /\ cl'[c] = "ask" /\ UNCHANGED <<program, total, sum, buf, shown, sent, rcvd, serverVars>>
  BY <1>1 DEF Connect, EchoTypeOK
<1>3. EchoTypeOK'
  BY <1>1 DEF Connect, EchoTypeOK, serverVars
<1>4. EchoOK(c)'
  <2>1. sent[c] = 0 /\ total[c] = 0 /\ sum[c] = 0 /\ rcvd[c] = 0
    <3>1. /\ rcvd[c] \in Nat /\ echoed[c] \in Nat /\ held[c] \in Nat /\ total[c] \in Nat
      BY <1>1, Places DEF EchoTypeOK
    <3> QED
      BY <1>1, <1>2, <3>1 DEF EchoOK, Counted
  <2>2. ShownOK(c)' /\ BufferOK(c)'
    BY <1>1, <1>2, <2>1, Places DEF ShownOK, BufferOK, EchoTypeOK
  <2>3. Counted(c)' /\ EndInv(c)' /\ InStep(c)' /\ Accumulated(c)'
    BY <1>1, <1>2, <2>1 DEF EchoOK, Counted, EndInv, InStep, Accumulated, serverVars
  <2> QED
    BY <2>2, <2>3 DEF EchoOK
<1>5. \A d \in Clients : d # c => Aside(d)
  BY <1>1 DEF Connect, Aside, EchoTypeOK, serverVars
<1>6. program' = program /\ stopped' = stopped
  BY <1>2 DEF serverVars
<1> QED
  BY <1>3, <1>4, <1>5, <1>6, OneEchoStep

LEMMA AskKeeps == ASSUME EchoIInv, NEW c \in Clients, Ask(c) PROVE EchoIInv'
<1>1. EchoTypeOK /\ EchoOK(c)
  BY EchoParts DEF EchoIInv
<1>2. PICK n \in Lens :
        /\ sent[c] + n <= MaxSent
        /\ buf' = [buf EXCEPT ![c] = Typed(c, n)]
        /\ total' = [total EXCEPT ![c] = n] /\ sum' = [sum EXCEPT ![c] = 0]
        /\ sent' = [sent EXCEPT ![c] = @ + n]
        /\ cl' = [cl EXCEPT ![c] = IF Overlong(n) THEN "wild"
                                   ELSE IF link[c] = "rst" /\ program \in {"ch04", "ch12"}
                                   THEN "done" ELSE "wait"]
        /\ program \in {"ch21", "ch23"} => n < BufLen
        /\ program = "ch12" => n <= BufLen
  BY DEF Ask
<1>3. cl[c] = "ask" /\ UNCHANGED <<program, shown, rcvd, serverVars>>
  BY DEF Ask
<1>4. /\ n \in Nat \ {0} /\ Typed(c, n) \in [Idx -> 0..MaxSent]
      /\ ~Overlong(n) => n \in Idx
  <2>1. n \in Nat \ {0} /\ (~Overlong(n) => n \in Idx)
    BY <1>1, <1>2, Places DEF Overlong, EchoTypeOK, Programs
  <2>2. \A j \in Idx : /\ buf[c][j] \in 0..MaxSent
                       /\ j < n => sent[c] + j + 1 \in 0..MaxSent
    <3>1. buf[c] \in [Idx -> 0..MaxSent] /\ sent[c] \in 0..MaxSent
      BY <1>1 DEF EchoTypeOK
    <3> PICK w : w = sent[c]
      OBVIOUS
    <3>2. w \in Nat /\ MaxSent \in Nat /\ n \in Nat /\ w + n <= MaxSent
      BY <1>2, <2>1, <3>1, Places
    <3>3. \A j \in Idx : j \in Nat
      BY Places
    <3>4. \A j \in Nat : j < n => w + j + 1 \in 0..MaxSent
      BY ONLY <3>2
    <3> QED
      BY <3>1, <3>3, <3>4
  <2>3. 0 \in 0..MaxSent
    BY Places
  <2> QED
    BY <2>1, <2>2, <2>3 DEF Typed
<1>5. EchoTypeOK'
  <2>1. sent[c] + n \in 0..MaxSent
    <3>1. sent[c] \in Nat /\ n \in Nat /\ MaxSent \in Nat
      BY <1>1, <1>4, Places DEF EchoTypeOK
    <3> QED
      BY <1>2, <3>1
  <2>2. /\ cl' \in [Clients -> {"away", "ask", "wait", "done", "wild"}]
        /\ total' \in [Clients -> Nat] /\ sum' \in [Clients -> Nat]
        /\ buf' \in [Clients -> [Idx -> 0..MaxSent]] /\ sent' \in [Clients -> 0..MaxSent]
    BY <1>1, <1>2, <1>4, <2>1 DEF EchoTypeOK
  <2> QED
    BY <1>1, <1>3, <2>2 DEF EchoTypeOK, serverVars
<1>6. /\ total'[c] = n /\ sum'[c] = 0 /\ sent'[c] = sent[c] + n /\ cl'[c] \in {"done", "wait", "wild"}
      /\ cl'[c] = "wild" <=> Overlong(n)
      /\ rcvd[c] \in Nat /\ sent[c] \in Nat /\ total[c] \in Nat /\ sum[c] \in Nat
      /\ echoed[c] \in Nat /\ held[c] \in Nat
  BY <1>1, <1>2, <1>3, Places DEF EchoTypeOK
<1>7. EchoOK(c)'
  <2>1. ShownOK(c)' /\ EndInv(c)' /\ Accumulated(c)'
    BY <1>1, <1>3, <1>6 DEF ShownOK, EchoOK, EndInv, Accumulated, serverVars
  <2>2. BufferOK(c)'
    BY <1>3, <1>4, <1>6, Places DEF BufferOK, Overlong
  <2>3. Counted(c)'
    BY <1>1, <1>3, <1>4, <1>6 DEF EchoOK, Counted, serverVars
  <2>4. InStep(c)'
    BY <1>1, <1>3, <1>4, <1>6 DEF EchoOK, InStep, Over, serverVars
  <2> QED
    BY <2>1, <2>2, <2>3, <2>4 DEF EchoOK
<1>8. \A d \in Clients : d # c => Aside(d)
  BY <1>1, <1>2, <1>3 DEF Aside, EchoTypeOK, serverVars
<1>9. program' = program /\ stopped' = stopped
  BY <1>3 DEF serverVars
<1> QED
  BY <1>5, <1>7, <1>8, <1>9, OneEchoStep

LEMMA LeaveKeeps == ASSUME EchoIInv, NEW c \in Clients, Leave(c) \/ RecvFails(c) PROVE EchoIInv'
<1>1. EchoTypeOK /\ EchoOK(c)
  BY EchoParts DEF EchoIInv
<1>2. /\ cl'[c] \in {"done", "wild"}
      /\ cl'[c] = "wild" => link[c] = "rst" /\ program \in {"ch04", "ch21"}
      /\ UNCHANGED <<program, total, sum, buf, shown, sent, rcvd, serverVars>>
  BY <1>1 DEF Leave, RecvFails, EchoTypeOK, Programs
<1>3. EchoTypeOK'
  BY <1>1 DEF Leave, RecvFails, EchoTypeOK, serverVars
<1>4. EchoOK(c)'
  BY <1>1, <1>2 DEF EchoOK, ShownOK, BufferOK, Counted, EndInv, InStep, Accumulated, serverVars
<1>5. \A d \in Clients : d # c => Aside(d)
  BY <1>1 DEF Leave, RecvFails, Aside, EchoTypeOK, serverVars
<1>6. program' = program /\ stopped' = stopped
  BY <1>2 DEF serverVars
<1> QED
  BY <1>3, <1>4, <1>5, <1>6, OneEchoStep

\* What every recv of a client does: some of what its server sent back arrives.
LEMMA RecvDataDoes ==
  ASSUME EchoIInv, NEW c \in Clients, RecvData(c)
  PROVE  \E m \in Nat \ {0}, r \in 0..MaxSent :
           /\ \/ program = "ch04" /\ Ch04Piece(c, m)
              \/ program = "ch12" /\ Ch12Piece(c, m)
              \/ program = "ch21" /\ Ch21Piece(c, m)
              \/ program = "ch23" /\ Ch23Piece(c, m)
           /\ rcvd' = [rcvd EXCEPT ![c] = r] /\ r = rcvd[c] + m
           /\ r <= echoed[c] /\ echoed[c] <= sent[c]
<1>1. EchoTypeOK /\ EchoOK(c)
  BY EchoParts DEF EchoIInv
<1>2. PICK m \in 1..(echoed[c] - rcvd[c]) :
        /\ \/ program = "ch04" /\ Ch04Piece(c, m)
           \/ program = "ch12" /\ Ch12Piece(c, m)
           \/ program = "ch21" /\ Ch21Piece(c, m)
           \/ program = "ch23" /\ Ch23Piece(c, m)
        /\ rcvd' = [rcvd EXCEPT ![c] = @ + m]
  BY DEF RecvData
<1>3. /\ rcvd[c] \in Nat /\ echoed[c] \in Nat /\ held[c] \in Nat /\ sent[c] \in 0..MaxSent
      /\ echoed[c] + held[c] <= sent[c]
  BY <1>1, Places DEF EchoTypeOK, EchoOK, Counted
<1>4. m \in Nat \ {0} /\ rcvd[c] + m <= echoed[c] /\ echoed[c] <= sent[c] /\ rcvd[c] + m \in 0..MaxSent
  BY <1>2, <1>3, Places
<1>5. rcvd' = [rcvd EXCEPT ![c] = rcvd[c] + m]
  BY <1>1, <1>2 DEF EchoTypeOK
<1> QED
  BY <1>2, <1>4, <1>5

\* What a recv assigns.
Receives(c, b, s, r, t, w) ==
  /\ buf' = [buf EXCEPT ![c] = b] /\ sum' = [sum EXCEPT ![c] = s] /\ rcvd' = [rcvd EXCEPT ![c] = r]
  /\ shown' = [shown EXCEPT ![c] = t] /\ cl' = [cl EXCEPT ![c] = w]
  /\ UNCHANGED <<program, total, sent, serverVars>>

\* It keeps the types if what is printed has one.
LEMMA RecvTypes ==
  ASSUME EchoTypeOK, NEW c \in Clients, NEW b \in [Idx -> 0..MaxSent], NEW s \in Nat, NEW r \in 0..MaxSent,
         NEW t \in Seq(1..MaxSent), NEW w \in {"ask", "wait"}, Receives(c, b, s, r, t, w)
  PROVE  /\ EchoTypeOK' /\ \A d \in Clients : d # c => Aside(d)
         /\ buf'[c] = b /\ sum'[c] = s /\ rcvd'[c] = r /\ shown'[c] = t /\ cl'[c] = w
<1>1. /\ buf' \in [Clients -> [Idx -> 0..MaxSent]] /\ sum' \in [Clients -> Nat]
      /\ rcvd' \in [Clients -> 0..MaxSent] /\ shown' \in [Clients -> Seq(1..MaxSent)]
      /\ cl' \in [Clients -> {"away", "ask", "wait", "done", "wild"}]
      /\ buf'[c] = b /\ sum'[c] = s /\ rcvd'[c] = r /\ shown'[c] = t /\ cl'[c] = w
  BY DEF Receives, EchoTypeOK
<1>2. EchoTypeOK'
  BY <1>1 DEF Receives, EchoTypeOK, serverVars
<1>3. \A d \in Clients : d # c => Aside(d)
  BY DEF Receives, Aside, EchoTypeOK, serverVars
<1> QED
  BY <1>1, <1>2, <1>3

\* In step, a client never receives more than its message.
LEMMA StaysInStep ==
  ASSUME EchoIInv, NEW c \in Clients, cl[c] = "wait", program # "ch21",
         NEW m \in Nat \ {0}, NEW r, r = rcvd[c] + m, r <= echoed[c], echoed[c] <= sent[c],
         NEW s, s = sum[c] + m, NEW lo, lo = sent[c] - total[c]
  PROVE  /\ lo \in Nat /\ rcvd[c] - sum[c] = lo /\ r - s = lo
         /\ s \in Nat /\ sum[c] \in Nat /\ total[c] \in 0..BufLen /\ s <= total[c]
         /\ s >= total[c] => s = total[c] /\ r = sent[c]
<1>1. EchoTypeOK /\ EchoOK(c)
  BY EchoParts DEF EchoIInv
<1> PICK q, u, t, w, e : q = rcvd[c] /\ u = sum[c] /\ t = total[c] /\ w = sent[c] /\ e = echoed[c]
  OBVIOUS
<1>2. q \in Nat /\ u \in Nat /\ w \in Nat /\ e \in Nat /\ t \in 0..BufLen /\ t <= w
  BY <1>1, Places DEF EchoTypeOK, EchoOK, Counted, BufferOK
<1>3. r = q + m /\ r <= e /\ e <= w /\ s = u + m /\ lo = w - t
  OBVIOUS
<1>4. q # e
  BY <1>2, <1>3
<1>5. q - u = w - t
  BY <1>1, <1>4 DEF EchoOK, InStep, Over
<1>6. BufLen \in Nat
  BY Places
<1>7. /\ lo \in Nat /\ q - u = lo /\ r - s = lo /\ s \in Nat /\ s <= t
      /\ s >= t => s = t /\ r = w
  BY ONLY <1>2, <1>3, <1>5, <1>6, m \in Nat \ {0}
<1> QED
  BY <1>2, <1>7

LEMMA Ch04PieceKeeps ==
  ASSUME EchoIInv, NEW c \in Clients, RecvData(c), program = "ch04",
         NEW m \in Nat \ {0}, Ch04Piece(c, m),
         NEW r \in 0..MaxSent, rcvd' = [rcvd EXCEPT ![c] = r], r = rcvd[c] + m,
         r <= echoed[c], echoed[c] <= sent[c]
  PROVE  EchoIInv'
<1>1. EchoTypeOK /\ EchoOK(c)
  BY EchoParts DEF EchoIInv
<1>2. cl[c] = "wait" /\ UNCHANGED <<program, total, sent, serverVars>>
  BY DEF RecvData
<1> PICK s, lo : s = sum[c] + m /\ lo = sent[c] - total[c]
  OBVIOUS
<1>3. /\ lo \in Nat /\ r - s = lo /\ s \in Nat /\ sum[c] \in Nat
      /\ total[c] \in 0..BufLen /\ s <= total[c] /\ (s >= total[c] => s = total[c])
  BY <1>2, StaysInStep
<1> PICK b : b = Received(c, sum[c], m, {m, s})
  OBVIOUS
<1>4. /\ m <= BufLen - 1 /\ buf' = [buf EXCEPT ![c] = b] /\ sum' = [sum EXCEPT ![c] = s]
      /\ shown' = [shown EXCEPT ![c] = Text(b)]
      /\ cl' = [cl EXCEPT ![c] = IF s >= total[c] THEN "ask" ELSE "wait"]
  BY DEF Ch04Piece, Whole, Place
<1>5. m \in Idx /\ b \in [Idx -> 0..MaxSent] /\ b[m] = 0
  <2>1. m \in Idx
    BY <1>4, Places
  <2>2. rcvd[c] + m <= MaxSent
    BY Places
  <2> QED
    BY <1>1, <1>3, <2>1, <2>2, ReceivedIs
<1> PICK w \in {"ask", "wait"} : w = IF s >= total[c] THEN "ask" ELSE "wait"
  OBVIOUS
<1>6. /\ EchoTypeOK' /\ \A d \in Clients : d # c => Aside(d)
      /\ sum'[c] = s /\ rcvd'[c] = r /\ cl'[c] = w
  <2>1. Text(b) \in Seq(1..MaxSent)
    BY <1>5, TextType
  <2> PICK t \in Seq(1..MaxSent) : t = Text(b)
    BY <2>1
  <2>2. Receives(c, b, s, r, t, w)
    BY <1>2, <1>4 DEF Receives
  <2>3. s \in Nat /\ b \in [Idx -> 0..MaxSent]
    BY <1>3, <1>5
  <2> QED
    BY ONLY <1>1, <2>2, <2>3, c \in Clients, r \in 0..MaxSent, t \in Seq(1..MaxSent),
            w \in {"ask", "wait"}, RecvTypes
<1>7. cl'[c] = IF s >= total[c] THEN "ask" ELSE "wait"
  BY <1>6
<1>8. EchoOK(c)'
  <2>1. ShownOK(c)' /\ EndInv(c)' /\ Accumulated(c)'
    BY <1>1, <1>2 DEF EchoOK, ShownOK, EndInv, Accumulated, serverVars
  <2>2. BufferOK(c)'
    BY <1>2, <1>3, <1>6, <1>7, Places DEF BufferOK
  <2>3. Counted(c)'
    BY <1>1, <1>2, <1>7 DEF EchoOK, Counted, serverVars
  <2>4. InStep(c)'
    <3>1. cl'[c] = "ask" => s = total[c]
      BY <1>3, <1>7
    <3>2. r - s = sent[c] - total[c]
      BY <1>3
    <3> QED
      BY <1>2, <1>6, <3>1, <3>2 DEF InStep
  <2> QED
    BY <2>1, <2>2, <2>3, <2>4 DEF EchoOK
<1>9. program' = program /\ stopped' = stopped
  BY <1>2 DEF serverVars
<1> QED
  BY <1>6, <1>8, <1>9, OneEchoStep

\* ch12 and ch23: what has been accumulated stays a part of the message without
\* a gap, and is the message when the NUL comes behind it.
LEMMA PieceKeeps ==
  ASSUME EchoIInv, NEW c \in Clients, RecvData(c), program \in {"ch12", "ch23"},
         NEW m \in Nat \ {0}, Piece(c, m),
         NEW r \in 0..MaxSent, rcvd' = [rcvd EXCEPT ![c] = r], r = rcvd[c] + m,
         r <= echoed[c], echoed[c] <= sent[c]
  PROVE  EchoIInv'
<1>1. EchoTypeOK /\ EchoOK(c)
  BY EchoParts DEF EchoIInv
<1>2. cl[c] = "wait" /\ UNCHANGED <<program, total, sent, serverVars>>
  BY DEF RecvData
<1> PICK s, lo, u, n : s = sum[c] + m /\ lo = sent[c] - total[c] /\ u = sum[c] /\ n = total[c]
  OBVIOUS
<1>3. /\ lo \in Nat /\ rcvd[c] - u = lo /\ r - s = lo /\ s \in Nat /\ u \in Nat
      /\ n \in Idx /\ n \in Nat /\ s <= n
      /\ s >= n => s = n /\ r = sent[c]
  BY <1>2, StaysInStep, Places
<1> PICK nul : nul = IF s >= n THEN {n} ELSE {}
  OBVIOUS
<1> PICK b : b = Received(c, u, m, nul)
  OBVIOUS
<1>4. /\ buf' = [buf EXCEPT ![c] = b] /\ sum' = [sum EXCEPT ![c] = s]
      /\ IF s >= n
         THEN shown' = [shown EXCEPT ![c] = Text(b)] /\ cl' = [cl EXCEPT ![c] = "ask"]
         ELSE UNCHANGED <<shown, cl>>
  BY DEF Piece, Whole, Place
<1>5. /\ b \in [Idx -> 0..MaxSent]
      /\ s >= n => b[n] = 0
      /\ \A j \in Idx \ nul : b[j] = IF u <= j /\ j < u + m THEN rcvd[c] + (j - u) + 1 ELSE buf[c][j]
  <2>1. rcvd[c] + m <= MaxSent
    BY Places
  <2> QED
    BY <1>1, <1>3, <2>1, ReceivedIs
<1>6. \A j \in 0..(s - 1) : b[j] = lo + j + 1
  <2> TAKE j \in 0..(s - 1)
  <2> PICK q : q = rcvd[c]
    OBVIOUS
  <2>1. q \in Nat /\ q - u = lo /\ s = u + m /\ j \in Nat /\ j < n /\ j < u + m
    <3>1. q \in Nat
      BY <1>1, Places DEF EchoTypeOK
    <3>2. q - u = lo /\ s = u + m
      BY <1>3
    <3>3. j \in Nat /\ j < s /\ s <= n
      BY <1>3
    <3> QED
      BY <1>3, <3>1, <3>2, <3>3
  <2>2. j \in Idx \ nul
    <3>1. j \in Idx
      BY <1>3, <2>1, Places
    <3>2. j # n /\ nul \subseteq {n}
      BY <1>3, <2>1
    <3> QED
      BY <3>1, <3>2
  <2>3. b[j] = IF u <= j /\ j < u + m THEN q + (j - u) + 1 ELSE buf[c][j]
    BY <1>5, <2>2
  <2>4. CASE j < u
    <3>1. buf[c][j] = q - u + j + 1
      BY <1>1, <1>2, <1>3, <2>1, <2>4 DEF EchoOK, Accumulated
    <3> QED
      BY <1>3, <2>1, <2>3, <2>4, <3>1
  <2>5. CASE u <= j
    BY <1>3, <2>1, <2>3, <2>5
  <2> QED
    BY <1>3, <2>1, <2>4, <2>5
<1>7. Counted(c)' /\ EndInv(c)'
  <2>1. rcvd'[c] = r /\ cl'[c] # "away"
    BY <1>1, <1>2, <1>4 DEF EchoTypeOK
  <2> QED
    BY <1>1, <1>2, <2>1 DEF EchoOK, Counted, EndInv, serverVars
<1>8. program' = program /\ stopped' = stopped /\ total'[c] = n /\ sent'[c] = sent[c] /\ sent[c] - n = lo
  BY <1>2 DEF serverVars
<1>9. CASE s >= n
  <2>1. Text(b) = Bytes(lo + 1, lo + n) /\ Text(b) \in Seq(1..MaxSent)
    <3>1. b[n] = 0 /\ Holds(b, lo, n)
      BY <1>3, <1>5, <1>6, <1>9 DEF Holds
    <3>2. lo \in Nat /\ n \in Nat /\ n \in Idx /\ b \in [Idx -> 0..MaxSent]
      BY <1>3, <1>5
    <3>3. Text(b) = Bytes(lo + 1, lo + n)
      BY ONLY <3>1, <3>2, TextIs, Zenon
    <3> QED
      BY <3>1, <3>2, <3>3, TextType
  <2> PICK t \in Seq(1..MaxSent) : t = Text(b)
    BY <2>1
  <2>2. Receives(c, b, s, r, t, "ask")
    BY <1>2, <1>4, <1>9 DEF Receives
  <2>3. /\ EchoTypeOK' /\ \A d \in Clients : d # c => Aside(d)
        /\ sum'[c] = s /\ rcvd'[c] = r /\ shown'[c] = t /\ cl'[c] = "ask"
    <3>1. s \in Nat /\ b \in [Idx -> 0..MaxSent]
      BY <1>3, <1>5
    <3> QED
      BY ONLY <1>1, <2>2, <3>1, c \in Clients, r \in 0..MaxSent, t \in Seq(1..MaxSent), RecvTypes
  <2>4. s = n /\ r = sent[c] /\ lo + n = sent[c] /\ sent[c] \in Nat
    <3>1. s = n /\ r = sent[c] /\ r - s = lo
      BY <1>3, <1>9
    <3>2. r \in Nat /\ n \in Nat
      BY <1>3, Places
    <3>3. lo + n = r
      BY ONLY <3>1, <3>2
    <3> QED
      BY <3>1, <3>2, <3>3
  <2>5. ShownOK(c)'
    <3>1. Bytes(lo + 1, lo + n) = Bytes(sent'[c] - total'[c] + 1, sent'[c])
      BY <1>8, <2>4
    <3> QED
      BY <1>8, <2>1, <2>3, <2>4, <3>1 DEF ShownOK, Message
  <2>6. BufferOK(c)'
    BY <1>3, <1>8, <2>3 DEF BufferOK
  <2>7. InStep(c)' /\ Accumulated(c)'
    BY <1>3, <1>8, <2>3, <2>4 DEF InStep, Accumulated
  <2> QED
    BY <1>7, <1>8, <2>3, <2>5, <2>6, <2>7, OneEchoStep DEF EchoOK
<1>10. CASE ~(s >= n)
  <2> PICK t \in Seq(1..MaxSent) : t = shown[c]
    BY <1>1 DEF EchoTypeOK
  <2>1. Receives(c, b, s, r, t, "wait")
    BY <1>1, <1>2, <1>4, <1>10 DEF Receives, EchoTypeOK
  <2>2. /\ EchoTypeOK' /\ \A d \in Clients : d # c => Aside(d)
        /\ buf'[c] = b /\ sum'[c] = s /\ rcvd'[c] = r /\ cl'[c] = "wait"
    <3>1. s \in Nat /\ b \in [Idx -> 0..MaxSent]
      BY <1>3, <1>5
    <3> QED
      BY ONLY <1>1, <2>1, <3>1, c \in Clients, r \in 0..MaxSent, t \in Seq(1..MaxSent), RecvTypes
  <2>3. ShownOK(c)' /\ BufferOK(c)'
    BY <1>3, <1>8, <2>2 DEF ShownOK, BufferOK
  <2>4. InStep(c)'
    BY <1>3, <1>8, <2>2 DEF InStep
  <2>5. Accumulated(c)'
    BY <1>3, <1>6, <2>2 DEF Accumulated
  <2> QED
    BY <1>7, <1>8, <2>2, <2>3, <2>4, <2>5, OneEchoStep DEF EchoOK
<1> QED
  BY <1>9, <1>10

LEMMA Ch21PieceKeeps ==
  ASSUME EchoIInv, NEW c \in Clients, RecvData(c), program = "ch21",
         NEW m \in Nat \ {0}, Ch21Piece(c, m),
         NEW r \in 0..MaxSent, rcvd' = [rcvd EXCEPT ![c] = r], r = rcvd[c] + m,
         r <= echoed[c], echoed[c] <= sent[c]
  PROVE  EchoIInv'
<1>1. EchoTypeOK /\ EchoOK(c)
  BY EchoParts DEF EchoIInv
<1>2. cl[c] = "wait" /\ UNCHANGED <<program, total, sent, serverVars>>
  BY DEF RecvData
<1> PICK b : b = Received(c, 0, m, {m})
  OBVIOUS
<1>3. /\ m <= BufLen - 1 /\ buf' = [buf EXCEPT ![c] = b] /\ sum' = [sum EXCEPT ![c] = m]
      /\ shown' = [shown EXCEPT ![c] = Text(b)] /\ cl' = [cl EXCEPT ![c] = "ask"]
  BY DEF Ch21Piece
<1>4. m \in Idx /\ rcvd[c] \in Nat
  BY <1>1, <1>3, Places DEF EchoTypeOK
<1>5. b \in [Idx -> 0..MaxSent] /\ b[m] = 0 /\ \A j \in 0..(m - 1) : b[j] = rcvd[c] + j + 1
  <2>1. rcvd[c] + m <= MaxSent
    OBVIOUS
  <2>2. /\ b \in [Idx -> 0..MaxSent] /\ b[m] = 0
        /\ \A j \in Idx \ {m} : b[j] = IF 0 <= j /\ j < 0 + m THEN rcvd[c] + (j - 0) + 1 ELSE buf[c][j]
    BY <1>1, <1>4, <2>1, ReceivedIs
  <2>3. \A j \in 0..(m - 1) : j \in Idx \ {m} /\ 0 <= j /\ j < 0 + m /\ rcvd[c] + (j - 0) + 1 = rcvd[c] + j + 1
    BY <1>3, <1>4, Places
  <2> QED
    BY <2>2, <2>3
<1>6. Text(b) \in Seq(1..MaxSent)
  BY <1>4, <1>5, TextType
<1> PICK t \in Seq(1..MaxSent) : t = Text(b)
  BY <1>6
<1>7. /\ EchoTypeOK' /\ \A d \in Clients : d # c => Aside(d)
      /\ sum'[c] = m /\ rcvd'[c] = r /\ shown'[c] = t /\ cl'[c] = "ask"
  <2>1. Receives(c, b, m, r, t, "ask")
    BY <1>2, <1>3 DEF Receives
  <2> QED
    BY <1>1, <1>5, <2>1, RecvTypes
<1>8. Text(b) = Bytes(rcvd[c] + 1, rcvd[c] + m) /\ Len(Text(b)) = m
  <2>1. Holds(b, rcvd[c], m)
    BY <1>5 DEF Holds
  <2> QED
    BY <1>4, <1>5, <2>1, TextIs
<1>9. EchoOK(c)'
  <2>1. ShownOK(c)'
    <3>1. r - m + 1 = rcvd[c] + 1
      BY <1>4
    <3>2. shown'[c] = Bytes(rcvd'[c] - Len(shown'[c]) + 1, rcvd'[c])
      BY <1>7, <1>8, <3>1
    <3> QED
      BY <1>2, <3>2 DEF ShownOK
  <2>2. BufferOK(c)'
    BY <1>1, <1>2, <1>3, <1>7 DEF EchoOK, EchoTypeOK, BufferOK
  <2>3. Counted(c)' /\ EndInv(c)' /\ InStep(c)' /\ Accumulated(c)'
    BY <1>1, <1>2, <1>7 DEF EchoOK, Counted, EndInv, InStep, Accumulated, serverVars
  <2> QED
    BY <2>1, <2>2, <2>3 DEF EchoOK
<1> QED
  BY <1>2, <1>7, <1>9, OneEchoStep DEF serverVars

LEMMA RecvDataKeeps == ASSUME EchoIInv, NEW c \in Clients, RecvData(c) PROVE EchoIInv'
<1>1. PICK m \in Nat \ {0}, r \in 0..MaxSent :
        /\ \/ program = "ch04" /\ Ch04Piece(c, m)
           \/ program = "ch12" /\ Ch12Piece(c, m)
           \/ program = "ch21" /\ Ch21Piece(c, m)
           \/ program = "ch23" /\ Ch23Piece(c, m)
        /\ rcvd' = [rcvd EXCEPT ![c] = r] /\ r = rcvd[c] + m
        /\ r <= echoed[c] /\ echoed[c] <= sent[c]
  BY RecvDataDoes
<1>2. CASE program = "ch04" /\ Ch04Piece(c, m)
  BY <1>1, <1>2, Ch04PieceKeeps
<1>3. CASE program \in {"ch12", "ch23"} /\ Piece(c, m)
  BY <1>1, <1>3, PieceKeeps
<1>4. CASE program = "ch21" /\ Ch21Piece(c, m)
  BY <1>1, <1>4, Ch21PieceKeeps
<1> QED
  BY <1>1, <1>2, <1>3, <1>4 DEF Ch12Piece, Ch23Piece

\* recv returns 0: ch12 prints what it has of its message, ch21 nothing.
LEMMA RecvEndKeeps == ASSUME EchoIInv, NEW c \in Clients, RecvEnd(c) PROVE EchoIInv'
<1>1. EchoTypeOK /\ EchoOK(c)
  BY EchoParts DEF EchoIInv
<1>2. /\ cl[c] = "wait" /\ link[c] = "fin" /\ rcvd[c] = echoed[c]
      /\ UNCHANGED <<program, total, sum, sent, rcvd, serverVars>>
  BY DEF RecvEnd
<1>3. program' = program /\ stopped' = stopped
  BY <1>2 DEF serverVars
<1>4. CASE program = "ch04" \/ (program = "ch12" /\ sum[c] = 0)
  <2>1. cl' = [cl EXCEPT ![c] = "done"] /\ UNCHANGED <<buf, shown>>
    BY <1>4 DEF RecvEnd
  <2>2. EchoTypeOK' /\ \A d \in Clients : d # c => Aside(d)
    BY <1>1, <1>2, <2>1 DEF EchoTypeOK, Aside, serverVars
  <2>3. cl'[c] = "done"
    BY <1>1, <2>1 DEF EchoTypeOK
  <2>4. EchoOK(c)'
    BY <1>1, <1>2, <2>3 DEF EchoOK, ShownOK, BufferOK, Counted, EndInv, InStep, Accumulated, serverVars
  <2> QED
    BY <1>3, <2>2, <2>4, OneEchoStep
<1>5. CASE program = "ch21" \/ (program = "ch12" /\ sum[c] > 0)
  <2> PICK z, lo : z = (IF program = "ch21" THEN 0 ELSE sum[c]) /\ lo = rcvd[c] - z
    OBVIOUS
  <2> PICK b : b = Received(c, 0, 0, {z})
    OBVIOUS
  <2>1. /\ buf' = [buf EXCEPT ![c] = b] /\ shown' = [shown EXCEPT ![c] = Text(b)]
        /\ cl' = [cl EXCEPT ![c] = "ask"]
    BY <1>5 DEF RecvEnd
  <2>2. /\ rcvd[c] \in 0..MaxSent /\ sent[c] \in Nat /\ sum[c] \in Nat /\ total[c] \in 0..BufLen
        /\ total[c] <= sent[c] /\ rcvd[c] <= sent[c]
    <3>1. /\ rcvd[c] \in 0..MaxSent /\ echoed[c] \in Nat /\ held[c] \in Nat /\ sent[c] \in Nat
          /\ sum[c] \in Nat /\ total[c] \in 0..BufLen
      BY <1>1, <1>2, Places DEF EchoTypeOK, EchoOK, BufferOK
    <3> QED
      BY <1>1, <3>1 DEF EchoOK, Counted
  <2>3. program = "ch12" => rcvd[c] - sum[c] = sent[c] - total[c]
    BY <1>1, <1>2, <1>5, <2>2 DEF EchoOK, InStep
  <2>4. lo \in Nat /\ z \in Nat /\ z \in Idx /\ lo + z = rcvd[c]
    <3>1. CASE program = "ch21"
      BY <2>2, <3>1, Places
    <3>2. CASE program = "ch12"
      <4> PICK q, u, w, t : q = rcvd[c] /\ u = sum[c] /\ w = sent[c] /\ t = total[c]
        OBVIOUS
      <4>1. /\ q \in Nat /\ u \in Nat /\ w \in Nat /\ t \in Nat /\ BufLen \in Nat
            /\ t <= BufLen /\ t <= w /\ q <= w /\ q - u = w - t
        BY <2>2, <2>3, <3>2, Places
      <4>2. z = u /\ lo = q - z
        BY <3>2
      <4>3. lo \in Nat /\ z \in Nat /\ z \in 0..BufLen /\ lo + z = q
        BY ONLY <4>1, <4>2
      <4> QED
        BY <4>3, Places
    <3> QED
      BY <1>5, <3>1, <3>2
  <2>5. /\ b \in [Idx -> 0..MaxSent] /\ b[z] = 0
        /\ \A j \in Idx \ {z} : b[j] = IF 0 <= j /\ j < 0 + 0 THEN rcvd[c] + (j - 0) + 1 ELSE buf[c][j]
    <3>1. rcvd[c] + 0 <= MaxSent
      BY <2>2, Places
    <3> QED
      BY <1>1, <2>4, <3>1, ReceivedIs
  <2>6. Holds(b, lo, z)
    <3>1. CASE program = "ch21"
      BY <2>5, <3>1 DEF Holds
    <3>2. CASE program = "ch12"
      <4>1. \A j \in 0..(z - 1) : j \in Idx \ {z} /\ ~(0 <= j /\ j < 0 + 0)
        BY <2>4, Places
      <4>2. \A j \in 0..(z - 1) : buf[c][j] = lo + j + 1
        BY <1>1, <1>2, <3>2 DEF EchoOK, Accumulated
      <4> QED
        BY <2>5, <4>1, <4>2 DEF Holds
    <3> QED
      BY <1>5, <3>1, <3>2
  <2>7. Text(b) = Bytes(lo + 1, lo + z) /\ Len(Text(b)) = z /\ Text(b) \in Seq(1..MaxSent)
    BY <2>4, <2>5, <2>6, TextIs, TextType
  <2>8. EchoTypeOK' /\ \A d \in Clients : d # c => Aside(d)
    BY <1>1, <1>2, <2>1, <2>5, <2>7 DEF EchoTypeOK, Aside, serverVars
  <2>9. cl'[c] = "ask" /\ shown'[c] = Text(b)
    BY <1>1, <2>1 DEF EchoTypeOK
  <2>10. EchoOK(c)'
    <3>1. Counted(c)' /\ EndInv(c)' /\ Accumulated(c)'
      BY <1>1, <1>2, <2>9 DEF EchoOK, Counted, EndInv, Accumulated, serverVars
    <3>2. BufferOK(c)'
      BY <1>1, <1>2, <2>9 DEF EchoOK, BufferOK
    <3>3. InStep(c)'
      BY <1>2, <1>5, <2>3, <2>9 DEF InStep, Over, serverVars
    <3>4. CASE program = "ch21"
      BY <1>2, <2>2, <2>4, <2>7, <2>9, <3>1, <3>2, <3>3, <3>4 DEF EchoOK, ShownOK
    <3>5. CASE program = "ch12"
      <4>1. lo = sent[c] - total[c]
        BY <2>3, <3>5
      <4>2. shown'[c] = Bytes(sent'[c] - total'[c] + 1, rcvd'[c]) /\ link'[c] # "up"
        BY <1>2, <2>4, <2>7, <2>9, <4>1 DEF serverVars
      <4> QED
        BY <1>2, <3>1, <3>2, <3>3, <3>5, <4>2 DEF EchoOK, ShownOK
    <3> QED
      BY <1>5, <3>4, <3>5
  <2> QED
    BY <1>3, <2>8, <2>10, OneEchoStep
<1> QED
  BY <1>4, <1>5 DEF RecvEnd

-----------------------------------------------------------------------------
(* Echo clients: the server.                                               *)

\* The server's steps with one client leave everything of the client alone.
LEMMA ServerKeeps ==
  ASSUME EchoIInv, NEW c \in Clients, Accept(c) \/ SrvRecv(c) \/ SrvSend(c) \/ SrvEnd(c) \/ Refused(c)
  PROVE  EchoIInv'
<1>1. EchoTypeOK /\ EchoOK(c)
  BY EchoParts DEF EchoIInv
<1>2. UNCHANGED <<program, clientVars, stopped>>
  BY DEF Accept, SrvRecv, SrvSend, SrvEnd, Refused
<1>3. /\ rcvd[c] \in Nat /\ echoed[c] \in Nat /\ held[c] \in 0..SrvMax /\ sent[c] \in 0..MaxSent
      /\ rcvd[c] <= echoed[c] /\ echoed[c] + held[c] <= sent[c]
  BY <1>1, Places DEF EchoTypeOK, EchoOK, Counted
<1>4. /\ srv[c] = "open" => ~stopped /\ link[c] = "up"
      /\ ~stopped => link[c] = "up"
  BY <1>1 DEF EchoOK, EndInv
<1>5. \A d \in Clients : d # c => Aside(d)
  BY <1>1, <1>2 DEF Accept, SrvRecv, SrvSend, SrvEnd, Refused, Aside, clientVars, EchoTypeOK
<1>6. \/ /\ UNCHANGED <<echoed, held, link>> /\ srv' \in [Clients -> {"none", "open", "closed"}]
         /\ stopped => srv'[c] = "closed"
      \/ /\ link[c] = "up" /\ UNCHANGED <<srv, link>>
         /\ echoed' \in [Clients -> 0..MaxSent] /\ held' \in [Clients -> 0..SrvMax]
         /\ echoed'[c] >= echoed[c] /\ echoed'[c] + held'[c] <= sent[c]
      \/ /\ UNCHANGED <<echoed, held, srv>> /\ link[c] = "fin" /\ link'[c] = "rst"
         /\ link' \in [Clients -> {"up", "fin", "rst"}]
  <2>1. CASE Accept(c)
    BY <1>1, <1>4, <2>1 DEF Accept, EchoTypeOK
  <2>2. CASE SrvRecv(c)
    <3>1. PICK n \in 1..SrvMax : n <= sent[c] - echoed[c] /\ held' = [held EXCEPT ![c] = n]
      BY <2>2 DEF SrvRecv
    <3>2. held' \in [Clients -> 0..SrvMax] /\ held'[c] = n
      BY <1>1, <3>1, Places DEF EchoTypeOK
    <3>3. UNCHANGED <<echoed, srv, link>> /\ srv[c] = "open"
      BY <2>2 DEF SrvRecv
    <3> QED
      BY <1>1, <1>3, <1>4, <3>1, <3>2, <3>3 DEF EchoTypeOK
  <2>3. CASE SrvSend(c)
    <3>1. /\ echoed' = [echoed EXCEPT ![c] = @ + held[c]] /\ held' = [held EXCEPT ![c] = 0]
          /\ UNCHANGED <<srv, link>> /\ srv[c] = "open"
      BY <2>3 DEF SrvSend, EchoLen
    <3>2. echoed[c] + held[c] \in 0..MaxSent /\ echoed[c] + held[c] >= echoed[c] /\ 0 \in 0..SrvMax
      BY <1>3, Places
    <3>3. /\ echoed'[c] = echoed[c] + held[c] /\ held'[c] = 0
          /\ echoed' \in [Clients -> 0..MaxSent] /\ held' \in [Clients -> 0..SrvMax]
      BY <1>1, <3>1, <3>2 DEF EchoTypeOK
    <3> QED
      BY <1>3, <1>4, <3>1, <3>2, <3>3
  <2>4. CASE SrvEnd(c)
    BY <1>1, <2>4 DEF SrvEnd, AfterEnd, EchoTypeOK
  <2>5. CASE Refused(c)
    BY <1>1, <2>5 DEF Refused, EchoTypeOK
  <2> QED
    BY <2>1, <2>2, <2>3, <2>4, <2>5
<1>7. EchoTypeOK'
  BY <1>1, <1>2, <1>6 DEF EchoTypeOK, clientVars
<1>8. EchoOK(c)'
  <2>1. /\ UNCHANGED <<program, cl, total, sum, buf, shown, sent, rcvd, stopped>>
    BY <1>2 DEF clientVars
  <2>2. echoed'[c] \in Nat /\ held'[c] \in Nat
    BY <1>7, Places DEF EchoTypeOK
  <2>3. Counted(c)'
    BY <1>1, <1>3, <1>6, <2>1, <2>2 DEF EchoOK, Counted
  <2>4. EndInv(c)'
    BY <1>1, <1>6, <2>1 DEF EchoOK, EndInv
  <2>5. /\ link[c] # "up" => link'[c] # "up" /\ echoed'[c] = echoed[c]
        /\ link[c] = "rst" => link'[c] = "rst"
    BY <1>6
  <2>6. Over(c) => Over(c)'
    BY <2>1, <2>5 DEF Over
  <2>7. InStep(c)' /\ Accumulated(c)'
    BY <1>1, <2>1, <2>6 DEF EchoOK, InStep, Accumulated
  <2>8. ShownOK(c)' /\ BufferOK(c)'
    BY <1>1, <2>1, <2>5 DEF EchoOK, ShownOK, Message, BufferOK, Overlong
  <2> QED
    BY <2>3, <2>4, <2>7, <2>8 DEF EchoOK
<1> QED
  BY <1>2, <1>5, <1>7, <1>8, OneEchoStep

\* Whatever the clients see of a server that is stopped, they saw nothing before.
LEMMA ServerStopsKeeps == ASSUME EchoIInv, ServerStops PROVE EchoIInv'
<1>1. EchoTypeOK /\ \A c \in Clients : EchoOK(c)
  BY EchoParts DEF EchoIInv
<1>2. /\ ~stopped /\ stopped' = TRUE /\ link' \in [Clients -> {"fin", "rst"}]
      /\ srv' = [c \in Clients |-> "closed"] /\ UNCHANGED <<program, clientVars, echoed, held>>
  BY DEF ServerStops
<1>3. EchoTypeOK'
  BY <1>1, <1>2 DEF EchoTypeOK, clientVars
<1>4. \A c \in Clients : EchoOK(c)'
  <2> TAKE c \in Clients
  <2>1. EchoOK(c) /\ link[c] = "up" /\ link'[c] # "up" /\ srv'[c] = "closed"
    BY <1>1, <1>2 DEF EchoOK, EndInv
  <2>2. UNCHANGED <<program, cl, total, sum, buf, shown, sent, rcvd, echoed, held>>
    BY <1>2 DEF clientVars
  <2>3. InStep(c)' /\ Accumulated(c)'
    BY <2>1, <2>2 DEF EchoOK, InStep, Over, Accumulated
  <2>4. ShownOK(c)' /\ BufferOK(c)'
    BY <2>1, <2>2 DEF EchoOK, ShownOK, Message, BufferOK, Overlong
  <2>5. Counted(c)' /\ EndInv(c)'
    BY <1>2, <2>1, <2>2 DEF EchoOK, Counted, EndInv
  <2> QED
    BY <2>3, <2>4, <2>5 DEF EchoOK
<1>5. PrintsTheEcho'
  BY <1>3, <1>4 DEF EchoOK, EchoTypeOK, Programs, PrintsTheEcho, ShownOK
<1>6. BufferRespected'
  BY <1>4 DEF EchoOK, BufferRespected, BufferOK, Overlong
<1> QED
  BY <1>3, <1>4, <1>5, <1>6 DEF EchoIInv, EchoOK

LEMMA EchoNextKeeps == ASSUME EchoIInv, [EchoNext]_echoVars PROVE EchoIInv'
<1>1. CASE UNCHANGED echoVars
  <2>1. UNCHANGED <<program, cl, total, sum, buf, shown, sent, rcvd, echoed, held, srv, link, stopped>>
    BY <1>1 DEF echoVars, clientVars, serverVars
  <2> QED
    BY <2>1 DEF EchoIInv, EchoTypeOK, PrintsTheEcho, Message, BufferRespected, Overlong, Counted, EndInv,
                InStep, Over, Accumulated
<1>2. CASE EchoNext
  <2>1. CASE ServerStops
    BY <2>1, ServerStopsKeeps
  <2>2. CASE ~ServerStops
    <3>1. PICK c \in Clients : Client(c) \/ Accept(c) \/ Server(c) \/ Refused(c)
      BY <1>2, <2>2 DEF EchoNext
    <3>2. CASE Client(c)
      BY <3>2, EchoConnectKeeps, AskKeeps, LeaveKeeps, RecvDataKeeps, RecvEndKeeps DEF Client, Recv
    <3>3. CASE Accept(c) \/ Server(c) \/ Refused(c)
      BY <3>3, ServerKeeps DEF Server
    <3> QED
      BY <3>1, <3>2, <3>3
  <2> QED
    BY <2>1, <2>2
<1> QED
  BY <1>1, <1>2

-----------------------------------------------------------------------------
(* Echo clients: the theorems.                                             *)

\* The inductive invariant of EchoClients: how far a client is out of step with
\* its server, and what it has accumulated.
THEOREM EchoInvariance == EchoSpec => []EchoIInv
<1>1. EchoIInv /\ [EchoNext]_echoVars => EchoIInv'
  BY EchoNextKeeps
<1> QED
  BY EchoInitIInv, <1>1, PTL DEF EchoSpec

\* Every variable of the four clients keeps its type: none receives more than it
\* has sent, and none prints a string that has no end.
THEOREM EchoTypeCorrect == EchoSpec => []EchoTypeOK
<1>1. EchoIInv => EchoTypeOK
  BY DEF EchoIInv
<1> QED
  BY EchoInvariance, <1>1, PTL

\* What ch12 and ch23 print is the message they sent, however the echo was cut
\* (recv_n, ch12-client lines 74-91, and ch23-client lines 46-55); what ch21
\* prints are the next bytes of the conversation (ch21-client lines 46-49).
THEOREM EchoIsPrinted == EchoSpec => []PrintsTheEcho
<1>1. EchoIInv => PrintsTheEcho
  BY DEF EchoIInv
<1> QED
  BY EchoInvariance, <1>1, PTL

\* No client receives beyond what it asked for; only a reset (ch04-client lines
\* 86-91, ch21-client line 48) or a word too long for ch04's scanf (line 52) can
\* make one write outside its buffer.
THEOREM BuffersHold == EchoSpec => []BufferRespected
<1>1. EchoIInv => BufferRespected
  BY DEF EchoIInv
<1> QED
  BY EchoInvariance, <1>1, PTL
=============================================================================
