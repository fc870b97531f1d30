------------------------------- MODULE OneWay -------------------------------
(***************************************************************************)
(* The programs that send data one way; the variable pair says which:      *)
(*   "ch01"  01_midterm/ch01_tcp-server.c and whoever sends to it,         *)
(*   "ch02"  01_midterm/ch02_tcp-client.c to ch02_tcp-server.c,            *)
(*   "ch07"  01_midterm/ch07_shutdown-server.c, a file, to                 *)
(*           ch07_shutdown-client.c, which acknowledges it,                *)
(*   "ch14"  02_final/ch14_{broadcast,multicast}-sendto.c, a file over and *)
(*           over, one datagram each line, to the two -recvfrom.c,         *)
(*   "ch22e", "ch22r"  02_final/ch22_OIO-Event-client.c to                 *)
(*           ch22_OIO-Event-server.c and to ch22_OIO-CompRout-server.c.    *)
(* Both ends are connected (the datagram sockets open), and a TCP end may  *)
(* be stopped at any time.                                                 *)
(***************************************************************************)
EXTENDS Integers, Sequences

CONSTANTS
  BufSize,     \* BUF_LEN of sender and receiver, but for ch02's server
  Rounds,      \* how often ch02_tcp-client.c sends its buffer: 5
  Files        \* what there is to send: sequences of "c", a character, and "n", '\n'

ASSUME OneWayAssumption ==
  BufSize \in Nat \ {0, 1} /\ Rounds \in Nat /\ Files \subseteq Seq({"c", "n"})

VARIABLES
  pair,        \* the pair of programs that runs
  file,        \* what is sent
  snd,         \* where the sender is
  pos,         \* the sender's place in the file: for TCP, how much it has sent
  inBuf,       \* ch14: <<a, z>>, bytes a to z of the file are in buf
  conn,        \* what the receiver sees of the sender's end
  rcv,         \* where the receiver is
  got,         \* how much of the stream it has received
  ack,         \* ch07: the acknowledgment
  net          \* ch14: the datagrams under way

transferVars == <<pair, file, snd, pos, inBuf, conn, rcv, got, ack, net>>

Pairs == {"ch01", "ch02", "ch07", "ch14", "ch22e", "ch22r"}
Size == IF pair = "ch02" THEN Rounds * BufSize ELSE Len(file)

\* "wild": buf was left, by a write, by fwrite or by printf; "exit":
\* error_handling; "stuck": an alertable wait with nothing queued.
Gone == {"done", "wild", "exit", "killed"}

TransferTypeOK ==
  /\ pair \in Pairs /\ file \in Files
  /\ snd \in {"send", "shut", "ack", "close", "done", "wild", "killed"}
  /\ pos \in 0..Size /\ inBuf \in (0..Size) \X (0..Size)
  /\ conn \in {"up", "fin", "rst"}
  /\ rcv \in {"recv", "pend", "thank", "stuck"} \cup Gone
  /\ got \in 0..pos \/ pair = "ch14"
  /\ ack \in {"none", "sent", "seen"}
  /\ net \subseteq (0..Size) \X (0..Size)

\* ch22's client sends "Network is Computer!" and its NUL, which fit buf.
Sendable(f) == pair \in {"ch22e", "ch22r"} => Len(f) \in 1..(BufSize - 1)

TransferInit ==
  /\ pair \in Pairs /\ file \in Files /\ Sendable(file)
  /\ snd = "send" /\ pos = 0 /\ inBuf = <<0, 0>>
  /\ conn = "up" /\ rcv = "recv" /\ got = 0 /\ ack = "none" /\ net = {}

-----------------------------------------------------------------------------
(* The senders of a stream.                                                *)

\* Variant: the last part of the file is padded to BUF_LEN.
PartPadded == BufSize

\* Variant: break comes before the last part is sent.
PartCut == IF Size - pos < BufSize THEN 0 ELSE BufSize

\* What fread returns, or how much the other senders hand over at once.
Part ==
  IF pair \in {"ch02", "ch07"} /\ BufSize <= Size - pos THEN BufSize ELSE Size - pos

SendPart ==
  /\ snd = "send" /\ pair # "ch14"
  /\ pos' = pos + Part
  /\ snd' = CASE pair = "ch07" -> IF Part < BufSize THEN "shut" ELSE "send"
              [] pair = "ch02" -> IF pos' < Size THEN "send" ELSE "close"
              [] OTHER         -> "close"
  /\ UNCHANGED <<pair, file, inBuf, conn, rcv, got, ack, net>>

\* Variant: without shutdown.
NoEnd == "up"

SendEnd == "fin"

Shutdown ==
  /\ snd = "shut"
  /\ conn' = SendEnd /\ snd' = "ack"
  /\ UNCHANGED <<pair, file, pos, inBuf, rcv, got, ack, net>>

\* The one recv of ch07's server, and printf("%s") of buf.  The acknowledgment
\* ends with a NUL; when only a part of it has come, or recv has returned 0 or
\* -1, behind it in buf are the bytes of the file, or what buf held before.
RecvAck ==
  /\ snd = "ack"
  /\ \/ ack = "sent" /\ ack' = "seen" /\ snd' = "done"
     \/ /\ ack = "sent" \/ rcv \in Gone
        /\ snd' \in {"done", "wild"} /\ UNCHANGED ack
  /\ UNCHANGED <<pair, file, pos, inBuf, conn, rcv, got, net>>

Close ==
  /\ snd = "close"
  /\ conn' = "fin" /\ snd' = "done"
  /\ UNCHANGED <<pair, file, pos, inBuf, rcv, got, ack, net>>

-----------------------------------------------------------------------------
(* The senders of datagrams.                                               *)

\* Variant: BUF_LEN characters.
TakesFull == BufSize

\* How many characters fgets takes at most.
Takes == BufSize - 1

\* Where fgets stops: behind a '\n', at its limit or at the end of the file.
Stop ==
  CHOOSE e \in pos..Len(file) :
    /\ \/ e = Len(file) \/ e = pos + Takes \/ (e > pos /\ file[e] = "n")
    /\ \A k \in (pos + 1)..(e - 1) : file[k] # "n"
    /\ e <= pos + Takes

\* Variant: fseek to the second character.
StartLate == IF file = << >> THEN 0 ELSE 1

Start == 0

\* fgets, sendto, and fseek if the end of the file was seen.  At the end of the
\* file fgets leaves buf as it is, and what is there is sent once more.
SendLine ==
  /\ pair = "ch14" /\ snd = "send"
  /\ inBuf' = (IF pos = Len(file) THEN inBuf ELSE <<pos + 1, Stop>>)
  /\ net' = net \cup {inBuf'}
  /\ pos' = IF Stop = Len(file) /\ Stop < pos + Takes /\ (pos = Stop \/ file[Stop] # "n")
            THEN Start ELSE Stop
  /\ UNCHANGED <<pair, file, snd, conn, rcv, got, ack>>

-----------------------------------------------------------------------------
(* The receivers of a stream.                                              *)

\* Overlapped: nothing is there yet, WSARecv is pending.
Post ==
  /\ pair \in {"ch22e", "ch22r"} /\ rcv = "recv" /\ conn = "up" /\ got = pos
  /\ rcv' = "pend"
  /\ UNCHANGED <<pair, file, snd, pos, inBuf, conn, got, ack, net>>

\* ch22's Event server prints n bytes of the message, which only the last ends,
\* from a buf that was never initialised.
Printed(n) == IF n = Size THEN {"done"} ELSE {"done", "wild"}

\* ch01 puts its NUL outside buf when buf is full; ch22 receives once, the
\* completion routine to a buf that is global, and so zeroed, and prints it.  The
\* buf of ch02's server has room for all its client sends.
ReceiveData ==
  /\ pair # "ch14" /\ rcv \in {"recv", "pend"} /\ conn # "rst"
  /\ \E m \in 1..(pos - got) :
       /\ m <= BufSize \/ pair = "ch02"
       /\ got' = got + m
       /\ rcv' \in CASE pair = "ch01" /\ m = BufSize -> {"wild"}
                     [] pair = "ch22e"              -> Printed(got')
                     [] pair = "ch22r"              -> {"done"}
                     [] OTHER                       -> {rcv}
  /\ UNCHANGED <<pair, file, snd, pos, inBuf, conn, ack, net>>

ReceiveEnd ==
  /\ pair # "ch14" /\ rcv \in {"recv", "pend"} /\ conn = "fin" /\ got = pos
  /\ rcv' \in CASE pair = "ch07"  -> {"thank"}
                [] pair = "ch22e" -> Printed(got)
                [] OTHER          -> {"done"}
  /\ UNCHANGED <<pair, file, snd, pos, inBuf, conn, got, ack, net>>

\* ch07 passes -1 to fwrite as a size.  ch02 prints and asks again, for ever,
\* which is no step.  ch22: an error of WSARecv itself, or of what was pending,
\* after which the Event server prints all the same.
ReceiveFails ==
  /\ conn = "rst"
  /\ \/ pair = "ch01"  /\ rcv = "recv" /\ rcv' = "exit"
     \/ pair = "ch07"  /\ rcv = "recv" /\ rcv' = "wild"
     \/ pair = "ch22e" /\ rcv = "recv" /\ rcv' = "exit"
     \/ pair = "ch22e" /\ rcv = "pend" /\ rcv' \in Printed(got)
     \/ pair = "ch22r" /\ rcv = "recv" /\ rcv' = "stuck"
     \/ pair = "ch22r" /\ rcv = "pend" /\ rcv' = "exit"
  /\ UNCHANGED <<pair, file, snd, pos, inBuf, conn, got, ack, net>>

Thank ==
  /\ rcv = "thank"
  /\ ack' = "sent" /\ rcv' = "done"
  /\ UNCHANGED <<pair, file, snd, pos, inBuf, conn, got, net>>

-----------------------------------------------------------------------------
(* The receivers of datagrams, and the network between.                    *)

\* One that is longer than recvfrom was told is an error and ends the loop; the
\* uninitialised buf that is sent of an empty file has any length.
RecvFrom ==
  /\ pair = "ch14" /\ rcv = "recv"
  /\ \E d \in net :
       /\ net' \in {net, net \ {d}}
       /\ IF d[1] = 0 THEN rcv' \in {"recv", "done"}
          ELSE rcv' = IF d[2] - d[1] + 1 > BufSize - 1 THEN "done" ELSE "recv"
  /\ UNCHANGED <<pair, file, snd, pos, inBuf, conn, got, ack>>

Lose ==
  /\ \E d \in net : net' = net \ {d}
  /\ UNCHANGED <<pair, file, snd, pos, inBuf, conn, rcv, got, ack>>

-----------------------------------------------------------------------------
KillSender ==
  /\ pair # "ch14" /\ snd \notin {"done", "wild", "killed"}
  /\ snd' = "killed" /\ conn' \in {"fin", "rst"}
  /\ UNCHANGED <<pair, file, pos, inBuf, rcv, got, ack, net>>

KillReceiver ==
  /\ pair # "ch14" /\ rcv \notin Gone
  /\ rcv' = "killed"
  /\ UNCHANGED <<pair, file, snd, pos, inBuf, conn, got, ack, net>>

Sender == SendPart \/ Shutdown \/ RecvAck \/ Close \/ SendLine

Receiver == Post \/ ReceiveData \/ ReceiveEnd \/ ReceiveFails \/ Thank \/ RecvFrom

TransferNext == Sender \/ Receiver \/ Lose \/ KillSender \/ KillReceiver

\* Both ends are scheduled.
TransferFairness == WF_transferVars(Sender) /\ WF_transferVars(Receiver)

TransferSpec == TransferInit /\ [][TransferNext]_transferVars /\ TransferFairness
-----------------------------------------------------------------------------
(* What must hold.                                                         *)

\* A receiver that leaves its loop at the end of the stream has all that was to
\* be sent, unless the sender was stopped; and when ch07's server has the
\* acknowledgment of lines 48-49, its client has the whole file.
EndMeansAll ==
  /\ pair \in {"ch01", "ch02", "ch07"} /\ rcv \in {"thank", "done"} /\ snd # "killed" =>
       got = Size
  /\ ack = "seen" => got = Size

\* A receiver leaves its buffer in three cases only: ch01 when a recv fills it
\* (line 71), ch07 when the server was stopped (line 37), and ch22's Event server,
\* which prints an uninitialised buf, when it has not the whole message (lines 83
\* and 88).  ch07's server prints what a recv has left in buf (line 50): a string
\* with an end if all of the acknowledgment has come.  No datagram of ch14 is
\* longer than what its receivers take, so that they stay in their loop, unless
\* the file is empty: line 51 of ch14_broadcast-sendto.c does not notice, and
\* sends and prints an uninitialised buf.
BuffersSuffice ==
  /\ rcv = "wild" => \/ pair = "ch01" /\ got >= BufSize
                     \/ pair = "ch07" /\ snd = "killed"
                     \/ pair = "ch22e" /\ got < Size
  /\ snd = "wild" => pair = "ch07" /\ ack # "seen"
  /\ pair = "ch14" /\ file # << >> => rcv = "recv"

\* Line by line, whatever their lengths, ch14 reads on where it stopped, and
\* starts again when it has sent the last character.  That it may send its last
\* line a second time before it does, which leaves inBuf alone, is no violation.
NothingSkipped ==
  [][inBuf' # inBuf => inBuf'[1] = IF inBuf[2] = Len(file) THEN 1 ELSE inBuf[2] + 1]_transferVars

\* No two ends wait for each other: sender and receiver end, whichever of them
\* is stopped, but for ch02's server after a reset and for ch22's completion
\* routine when WSARecv has failed at once (line 75).  ch14 comes round again.
TransferEnds ==
  /\ pair # "ch14" =>
       /\ <>(snd \in {"done", "wild", "killed"})
       /\ <>(rcv \in Gone \/ (conn = "rst" /\ (pair = "ch02" \/ rcv = "stuck")))
  /\ pair = "ch14" /\ file # << >> => []<>(inBuf[1] = 1)
-----------------------------------------------------------------------------
(* Why it holds: an inductive invariant.                                   *)

\* A sender's end is seen when it has sent everything, or was stopped; a reset
\* only when it was stopped.
SenderInv ==
  /\ pair # "ch14" /\ snd \notin {"send", "killed"} => pos = Size
  /\ conn # "up" => snd \in {"ack", "done", "wild", "killed"}
  /\ conn = "rst" => snd = "killed"

\* Only ch07's client thanks, when it has the file, and it is thanks that arrive.
AckInv ==
  /\ pair # "ch07" => ack = "none" /\ rcv # "thank" /\ snd \notin {"shut", "ack"}
  /\ ack = "sent" /\ snd # "killed" => got = Size
  /\ ack = "seen" => snd = "done"

\* ch22's server receives once.
MessageInv ==
  pair \in {"ch22e", "ch22r"} => Sendable(file) /\ (rcv \in {"recv", "pend"} => got = 0)

\* The bytes d[1] to d[2] of the file are at most as many as fgets takes.
LineOK(d) == 1 <= d[1] /\ d[1] <= d[2] /\ d[2] - d[1] + 1 <= Takes

\* Before ch14 has read anything its buf is <<0, 0>>; afterwards it holds the
\* bytes before the place in the file, or the last ones.
LineInv ==
  pair = "ch14" =>
    /\ \/ inBuf = <<0, 0>> /\ pos = 0
       \/ LineOK(inBuf) /\ (pos = inBuf[2] \/ (pos = 0 /\ inBuf[2] = Len(file)))
    /\ \A d \in net : LineOK(d) \/ (d[1] = 0 /\ file = << >>)

TransferIInv ==
  /\ TransferTypeOK /\ EndMeansAll /\ BuffersSuffice
  /\ SenderInv /\ AckInv /\ MessageInv /\ LineInv
=============================================================================
