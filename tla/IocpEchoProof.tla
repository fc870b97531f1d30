--------------------------- MODULE IocpEchoProof ---------------------------
(***************************************************************************)
(* IocpEcho for any number of clients, workers and blocks, any BUF_LEN and *)
(* any number of bytes: the inductive invariant, and what it implies.      *)
(***************************************************************************)
EXTENDS IocpEcho, TcpPeerProof

LEMMA InitIInv == Init => IInv
<1> SUFFICES ASSUME Init PROVE IInv
  OBVIOUS
<1> USE DEF Init, TcpInit
<1>1. TypeOK
  BY IocpAssumption DEF TypeOK, TcpTypeOK, IocpTypeOK, PeerState, FreshIo, IdleWorker, IoRec, WorkerRec, IoState, MainPc, WorkerPc
<1>2. MainInv /\ ConnInv
  BY DEF MainInv, ConnInv
<1>3. WorkerInv /\ HolderInv
  BY DEF WorkerInv, WorkerOK, HolderInv, Holds, IdleWorker
<1>4. BlockInv /\ ReaderInv
  BY DEF BlockInv, BlockOK, ReaderInv, Active, FreshIo, IdleWorker
<1>5. PortInv
  BY DEF PortInv, FreshIo
<1>6. StreamInv
  BY DEF StreamInv, Chunk, Active, FreshIo, IdleWorker
<1>7. SendInv
  BY DEF SendInv, Sending, FreshIo
<1> QED
  BY <1>1, <1>2, <1>3, <1>4, <1>5, <1>6, <1>7 DEF IInv

LEMMA AcceptKeeps ==
  ASSUME IInv, NEW c \in Clients, Accept(c) PROVE IInv'
<1> USE IocpAssumption DEF IInv, Accept, tcpVars
<1>1. TypeOK'
  BY DEF TypeOK, TcpTypeOK, IocpTypeOK, MainPc
<1> USE DEF TypeOK, TcpTypeOK, IocpTypeOK, MainPc
<1>2. MainInv' /\ ConnInv'
  BY DEF MainInv, ConnInv, PeerState
<1>3. WorkerInv' /\ HolderInv'
  BY DEF WorkerInv, WorkerOK, HolderInv, Holds, WorkerRec, BlockInv, BlockOK, Active
<1>4. BlockInv'
  BY DEF BlockInv, BlockOK, Active
<1>5. ReaderInv'
  <2>1. \A i \in Ios : Active(i) => io[i].client # c
    BY DEF BlockInv, BlockOK, Active
  <2>2. \A w \in Workers : wk[w].pc = "recv" => wk[w].sock # c
    BY DEF WorkerInv, WorkerOK
  <2> QED
    BY <2>1, <2>2 DEF ReaderInv, Active
<1>6. PortInv'
  BY DEF PortInv
<1>7. StreamInv'
  BY DEF StreamInv, ConnInv, Active
<1>8. SendInv'
  BY DEF SendInv, Sending
<1> QED
  BY <1>1, <1>2, <1>3, <1>4, <1>5, <1>6, <1>7, <1>8

LEMMA RegisterKeeps ==
  ASSUME IInv, Register PROVE IInv'
<1> USE IocpAssumption DEF IInv, Register, tcpVars, TypeOK, TcpTypeOK, IocpTypeOK, MainPc
<1>1. main.client \in Clients /\ main'.client = main.client /\ main'.pc = "recv"
  BY DEF MainInv
<1>2. TypeOK'
  BY <1>1
<1>3. MainInv' /\ ConnInv'
  BY <1>1 DEF MainInv, ConnInv
<1>4. WorkerInv' /\ HolderInv'
  BY <1>1 DEF MainInv, WorkerInv, WorkerOK, HolderInv, Holds
<1>5. BlockInv'
  BY <1>1 DEF MainInv, BlockInv, BlockOK, Active
<1>6. ReaderInv'
  BY <1>1 DEF ReaderInv, Active
<1>7. PortInv' /\ SendInv'
  BY DEF PortInv, SendInv, Sending
<1>8. StreamInv'
  BY <1>1 DEF StreamInv, Active
<1> QED
  BY <1>2, <1>3, <1>4, <1>5, <1>6, <1>7, <1>8

\* malloc hands out a block nobody uses.
LEMMA MallocIsFree ==
  ASSUME CanMalloc PROVE Malloc \in Ios /\ io[Malloc].st = "free"
  BY DEF CanMalloc, Malloc

\* A step that writes a block no worker holds and moves no worker keeps what
\* the workers rely on.
LEMMA HoldersUntouched ==
  ASSUME IInv, NEW i \in Ios, NEW b, io' = [io EXCEPT ![i] = b], io[i].st # "held",
         UNCHANGED <<wk, conn, key>>
  PROVE  WorkerInv' /\ HolderInv'
<1> USE DEF IInv, TypeOK, IocpTypeOK
<1>1. \A w \in Workers : Holds(w) => wk[w].io \in Ios /\ io'[wk[w].io] = io[wk[w].io]
  BY DEF WorkerInv, WorkerOK
<1>2. \A w \in Workers : Holds(w)' <=> Holds(w)
  BY DEF Holds
<1>3. WorkerInv'
  BY <1>1, <1>2 DEF WorkerInv, WorkerOK, Holds
<1>4. HolderInv'
  BY <1>2 DEF HolderInv
<1> QED
  BY <1>3, <1>4

\* The same for a block that is in no packet, when the port does not change.
LEMMA PortUntouched ==
  ASSUME IInv, NEW i \in Ios, NEW b, io' = [io EXCEPT ![i] = b],
         io[i].st # "queued", b.st # "queued", UNCHANGED port
  PROVE  PortInv'
<1> USE DEF IInv, TypeOK, IocpTypeOK
<1>1. \A k \in 1..Len(port) : port[k] \in Ios /\ port[k] # i
  BY DEF PortInv
<1>2. \A j \in Ios : io'[j].st = "queued" => io[j].st = "queued"
  OBVIOUS
<1> QED
  BY <1>1, <1>2 DEF PortInv

\* A completion: a block with the kernel becomes the port's last packet.
LEMMA PortAppend ==
  ASSUME IInv, NEW i \in Ios, NEW b, io' = [io EXCEPT ![i] = b],
         io[i].st = "posted", b.st = "queued", port' = Append(port, i)
  PROVE  PortInv'
<1> USE DEF IInv, TypeOK, IocpTypeOK
<1>1. \A k \in 1..Len(port) : port[k] \in Ios /\ port[k] # i
  BY DEF PortInv
<1>2. /\ Len(port') = Len(port) + 1 /\ port'[Len(port) + 1] = i
      /\ \A k \in 1..Len(port) : port'[k] = port[k]
  OBVIOUS
<1>3. \A k \in 1..Len(port') : k \in 1..Len(port) \/ k = Len(port) + 1
  BY <1>2
<1>4. \A k \in 1..Len(port') : io'[port'[k]].st = "queued"
  BY <1>1, <1>2, <1>3 DEF PortInv
<1>5. \A k, l \in 1..Len(port') : port'[k] = port'[l] => k = l
  BY <1>1, <1>2, <1>3 DEF PortInv
<1>6. ASSUME NEW j \in Ios, io'[j].st = "queued"
      PROVE  \E k \in 1..Len(port') : port'[k] = j
  <2>1. CASE j = i
    BY <1>2, <2>1
  <2>2. CASE j # i
    <3>1. PICK k \in 1..Len(port) : port[k] = j
      BY <1>6, <2>2 DEF PortInv
    <3> QED
      BY <3>1, <1>2
  <2> QED
    BY <2>1, <2>2
<1> QED
  BY <1>4, <1>5, <1>6 DEF PortInv

\* Nothing becomes a reader that was not one.
LEMMA ReadersShrink ==
  ASSUME IInv, main' = main,
         \A j \in Ios : (Active(j)' => Active(j)) /\ io'[j].client = io[j].client,
         \A v \in Workers : wk'[v].pc = "recv" => wk[v] = wk'[v]
  PROVE  ReaderInv'
<1>1. \A i, j \in Ios : Active(i)' /\ Active(j)' /\ io'[i].client = io'[j].client => i = j
  BY DEF IInv, ReaderInv
<1>2. \A i \in Ios : Active(i)' => io'[i].client # main'.client
  BY DEF IInv, ReaderInv
<1>3. \A i \in Ios, w \in Workers : Active(i)' /\ wk'[w].pc = "recv" => io'[i].client # wk'[w].sock
  BY DEF IInv, ReaderInv
<1>4. \A w \in Workers : wk'[w].pc = "recv" => wk'[w].sock # main'.client
  BY DEF IInv, ReaderInv
<1>5. \A v, w \in Workers :
       wk'[v].pc = "recv" /\ wk'[w].pc = "recv" /\ wk'[v].sock = wk'[w].sock => v = w
  BY DEF IInv, ReaderInv
<1> QED
  BY <1>1, <1>2, <1>3, <1>4, <1>5 DEF ReaderInv

\* ... and no bytes move.
LEMMA StreamsUntouched ==
  ASSUME IInv, UNCHANGED <<read, wire, peer, main>>,
         \A j \in Ios :
           /\ Active(j)' => Active(j)
           /\ io'[j].client = io[j].client
           /\ io'[j].n = io[j].n /\ io'[j].lo = io[j].lo
           /\ io'[j].st = "posted" => io[j].st = "posted",
         \A v \in Workers : wk'[v].pc = "recv" => wk[v] = wk'[v]
  PROVE  StreamInv'
<1>1. \A i \in Ios : Active(i)' =>
       /\ read'[io'[i].client] = Len(wire'[io'[i].client]) + io'[i].n
       /\ io'[i].n > 0 => io'[i].lo = Len(wire'[io'[i].client]) + 1
       /\ io'[i].st = "posted" => io'[i].n = 0
  <2> SUFFICES ASSUME NEW i \in Ios, Active(i)'
               PROVE  /\ read'[io'[i].client] = Len(wire'[io'[i].client]) + io'[i].n
                      /\ io'[i].n > 0 => io'[i].lo = Len(wire'[io'[i].client]) + 1
                      /\ io'[i].st = "posted" => io'[i].n = 0
    OBVIOUS
  <2>1. /\ Active(i) /\ io'[i].client = io[i].client /\ io'[i].n = io[i].n /\ io'[i].lo = io[i].lo
        /\ io'[i].st = "posted" => io[i].st = "posted"
    OBVIOUS
  <2>2. /\ read[io[i].client] = Len(wire[io[i].client]) + io[i].n
        /\ io[i].n > 0 => io[i].lo = Len(wire[io[i].client]) + 1
        /\ io[i].st = "posted" => io[i].n = 0
    BY <2>1 DEF IInv, StreamInv
  <2> QED
    BY <2>1, <2>2
<1>2. \A w \in Workers : wk'[w].pc = "recv" =>
       read'[wk'[w].sock] = Len(wire'[wk'[w].sock]) \/ peer'[wk'[w].sock] = "rst"
  BY DEF IInv, StreamInv
<1>3. \A c \in Clients : wire'[c] = Chunk(1, Len(wire'[c])) /\ Len(wire'[c]) <= read'[c]
  BY DEF IInv, StreamInv
<1>4. main'.pc # "accept" => read'[main'.client] = Len(wire'[main'.client])
  BY DEF IInv, StreamInv
<1> QED
  BY <1>1, <1>2, <1>3, <1>4 DEF StreamInv

\* ... and blocks only move on.
LEMMA BlockUntouched ==
  ASSUME IInv, NEW i \in Ios, UNCHANGED <<peer, conn, key>>,
         io[i].st = "queued", io'[i].st = "held", io'[i].client = io[i].client,
         io'[i].mode = io[i].mode, io'[i].n = io[i].n,
         \A j \in Ios : j # i => io'[j] = io[j]
  PROVE  BlockInv'
<1> USE DEF IInv
<1>1. ASSUME NEW j \in Ios, j # i PROVE BlockOK(j)'
  BY <1>1 DEF BlockInv, BlockOK, Active
<1>2. BlockOK(i) /\ i \in Ios
  BY DEF BlockInv
<1>3. BlockOK(i)'
  BY <1>2 DEF BlockOK, Active
<1> QED
  BY <1>1, <1>3 DEF BlockInv

LEMMA FirstRecvKeeps ==
  ASSUME IInv, FirstRecv PROVE IInv'
<1> DEFINE c == main.client
           i == Malloc
<1> USE IocpAssumption DEF IInv, FirstRecv, tcpVars, TypeOK, TcpTypeOK, IocpTypeOK, MainPc
<1>1. c \in Clients /\ key[c] = "live" /\ conn[c] \in {"open", "invalid"}
  BY DEF MainInv
<1>2. i \in Ios /\ io[i].st = "free"
  BY MallocIsFree
<1>3. /\ io' = [io EXCEPT ![i] = RecvBlock(c)]
      /\ RecvBlock(c) \in IoRec
      /\ RecvBlock(c).st = "posted" \/ RecvBlock(c).st = "lost"
      /\ RecvBlock(c).st = "posted" => conn[c] = "open"
      /\ RecvBlock(c).st = "lost" => conn[c] # "open" \/ peer[c] = "rst"
      /\ RecvBlock(c).mode = "READ" /\ RecvBlock(c).client = c /\ RecvBlock(c).n = 0
  BY <1>1 DEF RecvBlock, CallFails, IoRec, IoState
<1> HIDE DEF c, i
<1>4. TypeOK'
  <2>1. io' \in [Ios -> IoRec]
    BY <1>2, <1>3
  <2>2. main' \in [pc : MainPc, client : Clients \cup {NoSock}]
    OBVIOUS
  <2> QED
    BY <2>1, <2>2
<1>5. MainInv' /\ ConnInv'
  BY DEF MainInv, ConnInv
<1>6. WorkerInv' /\ HolderInv'
  <2>1. io[i].st # "held" /\ UNCHANGED <<wk, conn, key>>
    BY <1>2
  <2> HIDE DEF FirstRecv
  <2> QED
    BY <1>2, <1>3, <2>1, HoldersUntouched
<1>7. BlockInv'
  BY <1>1, <1>2, <1>3 DEF BlockInv, BlockOK, Active, ConnInv
<1>8. ReaderInv'
  <2>1. \A j \in Ios : Active(j) => io[j].client # c
    BY DEF ReaderInv, c
  <2>2. \A w \in Workers : wk[w].pc = "recv" => wk[w].sock # c /\ wk[w].sock \in Clients
    BY DEF ReaderInv, WorkerInv, WorkerOK, c
  <2>3. \A j \in Ios : Active(j)' => io'[j].client = c \/ (Active(j) /\ io'[j] = io[j])
    BY <1>2, <1>3 DEF Active
  <2>4. \A j \in Ios : Active(j)' /\ io'[j].client = c => j = i
    BY <1>2, <1>3, <2>1 DEF Active
  <2>5. \A j, k \in Ios : Active(j)' /\ Active(k)' /\ io'[j].client = io'[k].client => j = k
    BY <2>3, <2>4 DEF ReaderInv
  <2>6. \A j \in Ios : Active(j)' => io'[j].client # main'.client
    BY <1>1, <2>3 DEF BlockInv, BlockOK, Active
  <2>7. \A j \in Ios, w \in Workers : Active(j)' /\ wk'[w].pc = "recv" => io'[j].client # wk'[w].sock
    BY <2>2, <2>3 DEF ReaderInv
  <2> QED
    BY <2>2, <2>5, <2>6, <2>7 DEF ReaderInv
<1>9. PortInv'
  BY <1>2, <1>3, PortUntouched
<1>10. StreamInv'
  BY <1>1, <1>2, <1>3 DEF StreamInv, Active, c
<1>11. SendInv'
  <2>1. \A j \in Ios : Sending(j)' => Sending(j) /\ io'[j] = io[j]
    BY <1>2, <1>3 DEF Sending
  <2>2. UNCHANGED <<wire, delivered>> /\ SendInv
    OBVIOUS
  <2> HIDE DEF IInv, FirstRecv, TypeOK, TcpTypeOK, IocpTypeOK
  <2> QED
    BY <2>1, <2>2 DEF SendInv
<1> QED
  BY <1>4, <1>5, <1>6, <1>7, <1>8, <1>9, <1>10, <1>11

LEMMA CompleteReadKeeps ==
  ASSUME IInv, NEW i \in Ios, CompleteRead(i) PROVE IInv'
<1> DEFINE c == io[i].client
<1> USE IocpAssumption DEF IInv, TypeOK, TcpTypeOK, IocpTypeOK
<1>1. c \in Clients /\ io[i].st = "posted" /\ io[i].mode = "READ" /\ io[i].n = 0
  BY DEF CompleteRead, StreamInv, Active, BlockInv, BlockOK
<1>2. PICK b \in IoRec :
        /\ io' = [io EXCEPT ![i] = b]
        /\ b.st = "queued" /\ b.mode = "READ" /\ b.client = c
        /\ read' = [read EXCEPT ![c] = @ + b.n]
        /\ b.n > 0 => b.lo = read[c] + 1 /\ b.n <= sent[c] - read[c]
        /\ b.n = 0 => peer[c] \in {"fin", "rst"}
  <2> DEFINE Got(n) == [io[i] EXCEPT !.st = "queued", !.lo = read[c] + 1, !.n = n]
             Eof == [io[i] EXCEPT !.st = "queued"]
  <2>1. ASSUME NEW n \in 1..BufLen,
               n <= Unread(c), Complete(i, Got(n)), read' = [read EXCEPT ![c] = @ + n]
        PROVE  \E b \in IoRec :
                 /\ io' = [io EXCEPT ![i] = b]
                 /\ b.st = "queued" /\ b.mode = "READ" /\ b.client = c
                 /\ read' = [read EXCEPT ![c] = @ + b.n]
                 /\ b.n > 0 => b.lo = read[c] + 1 /\ b.n <= sent[c] - read[c]
                 /\ b.n = 0 => peer[c] \in {"fin", "rst"}
    <3>1. Got(n) \in IoRec /\ io' = [io EXCEPT ![i] = Got(n)]
      <4>1. io[i] \in IoRec /\ read[c] + 1 \in Nat /\ n \in 0..BufLen
        BY <1>1
      <4>2. Got(n) \in IoRec
        BY <4>1 DEF IoRec, IoState
      <4> QED
        BY <2>1, <4>2 DEF Complete
    <3>2. /\ Got(n).n = n /\ Got(n).lo = read[c] + 1 /\ Got(n).mode = "READ"
          /\ Got(n).client = c /\ Got(n).st = "queued"
      BY <1>1 DEF IoRec
    <3>3. n <= sent[c] - read[c] /\ n > 0 /\ read' = [read EXCEPT ![c] = @ + Got(n).n]
      BY <2>1, <3>2 DEF Unread
    <3>4. Got(n) \in IoRec
      BY <3>1
    <3> HIDE DEF Got
    <3> WITNESS Got(n) \in IoRec
    <3> QED
      BY <3>1, <3>2, <3>3
  <2>2. ASSUME CallFails(c) \/ (peer[c] = "fin" /\ Unread(c) = 0), Complete(i, Eof), UNCHANGED read
        PROVE  \E b \in IoRec :
                 /\ io' = [io EXCEPT ![i] = b]
                 /\ b.st = "queued" /\ b.mode = "READ" /\ b.client = c
                 /\ read' = [read EXCEPT ![c] = @ + b.n]
                 /\ b.n > 0 => b.lo = read[c] + 1 /\ b.n <= sent[c] - read[c]
                 /\ b.n = 0 => peer[c] \in {"fin", "rst"}
    <3>1. Eof \in IoRec /\ io' = [io EXCEPT ![i] = Eof]
      <4>1. io[i] \in IoRec /\ io' = [io EXCEPT ![i] = Eof]
        BY <1>1, <2>2 DEF Complete
      <4> QED
        BY <4>1 DEF IoRec, IoState
    <3>2. Eof.n = 0 /\ Eof.mode = "READ" /\ Eof.client = c /\ Eof.st = "queued"
      BY <1>1 DEF IoRec
    <3>3. read' = [read EXCEPT ![c] = @ + Eof.n]
      BY <1>1, <2>2, <3>2
    <3>4. Eof \in IoRec
      BY <3>1
    <3>5. conn[c] = "open"
      BY <1>1 DEF BlockInv, BlockOK
    <3>6. peer[c] \in {"fin", "rst"}
      BY <2>2, <3>5 DEF CallFails
    <3> HIDE DEF Eof
    <3> WITNESS Eof \in IoRec
    <3> QED
      BY <3>1, <3>2, <3>3, <3>6
  <2> QED
    BY <2>1, <2>2 DEF CompleteRead
<1>3. /\ port' = Append(port, i)
      /\ UNCHANGED <<peer, sent, wire, delivered, conn, key, assoc, main, wk>>
  BY DEF CompleteRead, Complete
<1> HIDE DEF c
<1>4. TypeOK'
  <2>1. io' \in [Ios -> IoRec] /\ port' \in Seq(Ios)
    BY <1>2, <1>3
  <2>2. b.n \in Nat
    BY DEF IoRec
  <2>3. read' \in [Clients -> Nat]
    <3>1. read[c] + b.n \in Nat
      BY <1>1, <2>2
    <3>2. read' = [read EXCEPT ![c] = read[c] + b.n]
      BY <1>2
    <3> QED
      BY <3>1, <3>2
  <2> QED
    BY <1>3, <2>1, <2>3
<1>5. MainInv' /\ ConnInv'
  <2>1. \A d \in Clients : read[d] <= sent[d] => read'[d] <= sent'[d]
    <3>1. b.n \in Nat /\ read[c] \in Nat /\ sent[c] \in Nat
      BY <1>1, <1>2 DEF IoRec
    <3>2. /\ sent' = sent /\ read'[c] = read[c] + b.n
          /\ \A d \in Clients : d # c => read'[d] = read[d]
      BY <1>1, <1>2, <1>3
    <3> QED
      BY <1>2, <3>1, <3>2
  <2>2. /\ conn[c] = "open"
        /\ \A d \in Clients : d # c => read'[d] = read[d]
    BY <1>1, <1>2 DEF BlockInv, BlockOK, c
  <2> QED
    BY <1>3, <2>1, <2>2 DEF MainInv, ConnInv, StreamInv
<1>6. WorkerInv' /\ HolderInv'
  BY <1>1, <1>2, <1>3, HoldersUntouched
<1>7. BlockInv'
  <2>1. ASSUME NEW j \in Ios, j # i PROVE BlockOK(j)'
    BY <1>1, <1>2, <1>3, <2>1 DEF BlockInv, BlockOK, Active
  <2>2. BlockOK(i)'
    <3>1. io'[i] = b /\ c \in Clients /\ conn'[c] = "open" /\ key'[c] = "live" /\ peer' = peer
      BY <1>1, <1>2, <1>3 DEF BlockInv, BlockOK, c
    <3> QED
      BY <1>2, <3>1 DEF BlockOK
  <2> QED
    BY <2>1, <2>2 DEF BlockInv
<1>8. ReaderInv'
  BY <1>1, <1>2, <1>3 DEF ReaderInv, Active, c
<1>9. PortInv'
  BY <1>1, <1>2, <1>3, PortAppend
<1>10. StreamInv'
  <2>1. /\ io'[i] = b /\ \A j \in Ios : j # i => io'[j] = io[j]
        /\ read'[c] = read[c] + b.n /\ \A d \in Clients : d # c => read'[d] = read[d]
        /\ b.n \in Nat /\ read[c] \in Nat /\ Len(wire[c]) \in Nat
        /\ read[c] = Len(wire[c]) + 0
    BY <1>1, <1>2 DEF StreamInv, Active, IoRec, c
  <2>2. /\ \A j \in Ios : j # i /\ Active(j) => io[j].client # c
        /\ main.client # c
        /\ \A v \in Workers : wk[v].pc = "recv" => wk[v].sock # c /\ wk[v].sock \in Clients
    BY <1>1 DEF ReaderInv, Active, WorkerInv, WorkerOK, c
  <2>3. \A d \in Clients : wire'[d] = Chunk(1, Len(wire'[d])) /\ Len(wire'[d]) <= read'[d]
    <3> SUFFICES ASSUME NEW d \in Clients
                 PROVE  wire'[d] = Chunk(1, Len(wire'[d])) /\ Len(wire'[d]) <= read'[d]
      OBVIOUS
    <3>1. wire'[d] = wire[d] /\ wire[d] = Chunk(1, Len(wire[d])) /\ Len(wire[d]) <= read[d]
      BY <1>3 DEF StreamInv
    <3>2. CASE d = c
      BY <2>1, <3>1, <3>2
    <3>3. CASE d # c
      BY <2>1, <3>1, <3>3
    <3> QED
      BY <3>2, <3>3
  <2>4. ASSUME NEW j \in Ios, Active(j)'
        PROVE  /\ read'[io'[j].client] = Len(wire'[io'[j].client]) + io'[j].n
               /\ io'[j].n > 0 => io'[j].lo = Len(wire'[io'[j].client]) + 1
               /\ io'[j].st = "posted" => io'[j].n = 0
    <3>1. CASE j = i
      BY <1>2, <1>3, <2>1, <3>1
    <3>2. CASE j # i
      <4>1. Active(j) /\ io'[j] = io[j] /\ io[j].client # c /\ io[j].client \in Clients
        BY <2>1, <2>2, <2>4, <3>2 DEF Active, BlockInv, BlockOK
      <4>2. read'[io[j].client] = read[io[j].client] /\ wire' = wire
        BY <1>3, <2>1, <4>1
      <4>3. StreamInv
        OBVIOUS
      <4> HIDE DEF IInv, TypeOK, TcpTypeOK, IocpTypeOK
      <4> QED
        BY <4>1, <4>2, <4>3 DEF StreamInv
    <3> QED
      BY <3>1, <3>2
  <2>5. main'.pc # "accept" => read'[main'.client] = Len(wire'[main'.client])
    BY <1>3, <2>1, <2>2 DEF StreamInv, MainInv
  <2>6. \A v \in Workers : wk'[v].pc = "recv" =>
          read'[wk'[v].sock] = Len(wire'[wk'[v].sock]) \/ peer'[wk'[v].sock] = "rst"
    BY <1>3, <2>1, <2>2 DEF StreamInv
  <2> QED
    BY <2>3, <2>4, <2>5, <2>6 DEF StreamInv
<1>11. SendInv'
  BY <1>1, <1>2, <1>3 DEF SendInv, Sending
<1> QED
  BY <1>4, <1>5, <1>6, <1>7, <1>8, <1>9, <1>10, <1>11

LEMMA CompleteWriteKeeps ==
  ASSUME IInv, NEW i \in Ios, CompleteWrite(i) PROVE IInv'
<1> DEFINE c == io[i].client
<1> USE IocpAssumption DEF IInv, TypeOK, TcpTypeOK, IocpTypeOK
<1>1. c \in Clients /\ io[i].st = "posted" /\ io[i].mode = "WRITE"
  BY DEF CompleteWrite, PendingSends, BlockInv, BlockOK, Active
<1>2. PICK b \in IoRec :
        /\ io' = [io EXCEPT ![i] = b] /\ port' = Append(port, i)
        /\ b = [io[i] EXCEPT !.st = "queued"]
  BY <1>1 DEF CompleteWrite, Complete, IoRec, IoState
<1>3. PICK n \in Nat :
        /\ delivered' = [delivered EXCEPT ![c] = @ + n]
        /\ n = 0 \/ n = io[i].n
  <2>1. delivered' = [delivered EXCEPT ![c] = IF CallFails(c) THEN @ ELSE @ + io[i].n]
    BY DEF CompleteWrite
  <2>2. io[i].n \in Nat
    BY DEF IoRec
  <2>3. CASE CallFails(c)
    <3>1. delivered[c] \in Nat /\ delivered[c] + 0 = delivered[c]
      BY <1>1
    <3>2. delivered' = [delivered EXCEPT ![c] = delivered[c]]
      BY <2>1, <2>3
    <3>3. delivered' = [delivered EXCEPT ![c] = delivered[c] + 0]
      BY <3>1, <3>2
    <3> QED
      BY <3>3
  <2>4. CASE ~CallFails(c)
    BY <1>1, <2>1, <2>2, <2>4
  <2> QED
    BY <2>3, <2>4
<1>4. /\ UNCHANGED <<peer, sent, read, wire, conn, key, assoc, main, wk>>
      /\ \A j \in Ios : Sending(j) /\ io[j].client = c => io[i].lo <= io[j].lo
  BY DEF CompleteWrite, PendingSends, Sending
<1> HIDE DEF c
<1>5. TypeOK'
  BY <1>1, <1>2, <1>3, <1>4
<1>6. MainInv' /\ ConnInv'
  BY <1>4 DEF MainInv, ConnInv
<1>7. WorkerInv' /\ HolderInv'
  BY <1>1, <1>2, <1>4, HoldersUntouched
<1>8. BlockInv'
  BY <1>1, <1>2, <1>4 DEF BlockInv, BlockOK, Active, c, IoRec
<1>9. ReaderInv'
  <2>1. \A j \in Ios : Active(j)' => Active(j) /\ io'[j] = io[j]
    BY <1>1, <1>2 DEF Active, IoRec
  <2> QED
    BY <1>4, <2>1 DEF ReaderInv
<1>10. PortInv'
  <2>1. b.st = "queued"
    BY <1>2 DEF IoRec
  <2> QED
    BY <1>1, <1>2, <2>1, PortAppend
<1>11. StreamInv'
  BY <1>1, <1>2, <1>4 DEF StreamInv, Active, IoRec
<1>12. SendInv'
  <2>1. \A j \in Ios : Sending(j)' => Sending(j) /\ io'[j] = io[j] /\ j # i
    BY <1>1, <1>2 DEF Sending, IoRec
  <2>2. Sending(i) /\ io[i].n \in Nat /\ io[i].lo \in Nat
    <3>1. io[i] \in IoRec
      OBVIOUS
    <3>2. io[i].n \in Nat /\ io[i].lo \in Nat
      BY <3>1 DEF IoRec
    <3> QED
      BY <1>1, <3>2 DEF Sending
  <2>3. \A d \in Clients : delivered'[d] <= Len(wire'[d])
    BY <1>1, <1>3, <1>4, <2>2 DEF SendInv, c
  <2>4. ASSUME NEW j \in Ios, Sending(j)' PROVE delivered'[io'[j].client] < io'[j].lo
    <3>1. Sending(j) /\ io'[j] = io[j] /\ j # i /\ io[j].client \in Clients
      BY <2>1, <2>4 DEF BlockInv, BlockOK, Active, Sending
    <3>2. io[j].n \in Nat /\ io[j].lo \in Nat
      BY DEF IoRec
    <3>3. CASE io[j].client # c
      BY <1>1, <1>3, <3>1, <3>3 DEF SendInv
    <3>4. CASE io[j].client = c
      <4>1. io[i].lo <= io[j].lo /\ io[j].n > 0 /\ delivered[c] < io[i].lo /\ delivered[c] < io[j].lo
        BY <1>4, <2>2, <3>1, <3>4 DEF SendInv, c
      <4>2. io[i].lo + io[i].n <= io[j].lo \/ io[j].lo + io[j].n <= io[i].lo
        BY <2>2, <3>1, <3>4 DEF SendInv, c
      <4>3. delivered'[c] = delivered[c] + n /\ delivered[c] \in Nat
        BY <1>1, <1>3
      <4> QED
        BY <1>3, <2>2, <3>1, <3>2, <3>4, <4>1, <4>2, <4>3
    <3> QED
      BY <3>3, <3>4
  <2> QED
    BY <1>4, <2>1, <2>3, <2>4 DEF SendInv
<1> QED
  BY <1>5, <1>6, <1>7, <1>8, <1>9, <1>10, <1>11, <1>12

LEMMA DequeueKeeps ==
  ASSUME IInv, NEW w \in Workers, Dequeue(w) PROVE IInv'
<1> DEFINE i == Head(port)
           c == io[i].client
<1> USE IocpAssumption DEF IInv, TypeOK, TcpTypeOK, IocpTypeOK
<1>1. /\ port # << >> /\ Len(port) > 0 /\ port' = Tail(port) /\ i = port[1] /\ i \in Ios
      /\ UNCHANGED <<tcpVars, conn, key, assoc, main>>
  BY DEF Dequeue
<1>2. io[i].st = "queued" /\ c \in Clients
  BY <1>1 DEF PortInv, BlockInv, BlockOK, Active
<1>3. /\ io' \in [Ios -> IoRec]
      /\ io'[i].st = "held" /\ io'[i].mode = io[i].mode /\ io'[i].client = c
      /\ io'[i].lo = io[i].lo /\ io'[i].n = io[i].n
      /\ \A j \in Ios : j # i => io'[j] = io[j]
  BY <1>1, <1>2 DEF Dequeue, IoRec, IoState
<1>4. /\ wk' = [wk EXCEPT ![w] = [pc |-> "load", io |-> i, sock |-> NoSock, key |-> c, n |-> io[i].n]]
      /\ wk[w].pc = "wait"
  BY DEF Dequeue
<1>5. /\ \A v \in Workers : Holds(v) => wk[v].io \in Ios /\ wk[v].io # i
      /\ ~Holds(w) /\ Holds(w)'
      /\ \A v \in Workers : v # w => wk'[v] = wk[v] /\ (Holds(v)' <=> Holds(v))
      /\ wk'[w].pc = "load" /\ wk'[w].io = i /\ wk'[w].key = c /\ wk'[w].n = io[i].n
  BY <1>2, <1>4 DEF WorkerInv, WorkerOK, Holds
<1> HIDE DEF i, c
<1>6. wk' \in [Workers -> WorkerRec]
  BY <1>1, <1>2, <1>4 DEF WorkerRec, WorkerPc, IoRec
<1>7. TypeOK'
  BY <1>1, <1>3, <1>6 DEF tcpVars
<1>8. MainInv' /\ ConnInv'
  BY <1>1 DEF MainInv, ConnInv, tcpVars
<1>9. WorkerInv'
  <2>1. ASSUME NEW v \in Workers, v # w, Holds(v)
        PROVE  wk'[v] = wk[v] /\ io'[wk[v].io] = io[wk[v].io]
    BY <1>3, <1>5, <2>1
  <2>2. io[i].mode = "READ" => conn[c] = "open" /\ key[c] = "live"
    BY <1>1, <1>2 DEF BlockInv, BlockOK, Active, c
  <2>3. WorkerOK(w)'
    BY <1>1, <1>3, <1>5, <2>2 DEF WorkerOK
  <2>4. ASSUME NEW v \in Workers, v # w PROVE WorkerOK(v)'
    BY <1>1, <1>5, <2>1, <2>4 DEF WorkerInv, WorkerOK, Holds
  <2> QED
    BY <2>3, <2>4 DEF WorkerInv
<1>10. HolderInv'
  BY <1>5 DEF HolderInv
<1>11. BlockInv'
  <2>1. UNCHANGED <<peer, conn, key>>
    BY <1>1 DEF tcpVars
  <2>2. \A j \in Ios : j # i => io'[j] = io[j]
    BY <1>3
  <2> QED
    <3>1. /\ io[i].st = "queued" /\ io'[i].st = "held" /\ io'[i].client = io[i].client
          /\ io'[i].mode = io[i].mode /\ io'[i].n = io[i].n
      BY <1>2, <1>3 DEF c
    <3> QED
      BY <1>1, <2>1, <2>2, <3>1, BlockUntouched
<1>12. ReaderInv'
  <2>1. \A j \in Ios : (Active(j)' => Active(j)) /\ io'[j].client = io[j].client
    BY <1>2, <1>3 DEF Active, c
  <2>2. \A v \in Workers : wk'[v].pc = "recv" => wk[v] = wk'[v]
    BY <1>5
  <2> QED
    BY <1>1, <2>1, <2>2, ReadersShrink
<1>13. PortInv'
  <2>1. /\ Len(port') = Len(port) - 1
        /\ \A k \in 1..Len(port') : port'[k] = port[k + 1] /\ k + 1 \in 1..Len(port)
        /\ \A k \in 1..Len(port) : k # 1 => k - 1 \in 1..Len(port') /\ port'[k - 1] = port[k]
    BY <1>1
  <2>2. \A k \in 1..Len(port) : port[k] \in Ios
    OBVIOUS
  <2>3. \A k \in 1..Len(port') : port'[k] # i /\ port'[k] \in Ios
    BY <1>1, <2>1, <2>2 DEF PortInv
  <2>4. \A k \in 1..Len(port') : io'[port'[k]].st = "queued"
    BY <1>3, <2>1, <2>3 DEF PortInv
  <2>5. \A k, l \in 1..Len(port') : port'[k] = port'[l] => k = l
    <3> SUFFICES ASSUME NEW k \in 1..Len(port'), NEW l \in 1..Len(port'), port'[k] = port'[l]
                 PROVE  k = l
      OBVIOUS
    <3>1. k + 1 = l + 1
      BY <2>1 DEF PortInv
    <3> QED
      BY <3>1
  <2>6. ASSUME NEW j \in Ios, io'[j].st = "queued"
        PROVE  \E k \in 1..Len(port') : port'[k] = j
    <3>1. j # i /\ io[j].st = "queued"
      BY <1>3, <2>6
    <3>2. PICK k \in 1..Len(port) : port[k] = j
      BY <3>1 DEF PortInv
    <3> QED
      BY <1>1, <2>1, <3>1, <3>2
  <2> QED
    BY <2>4, <2>5, <2>6 DEF PortInv
<1>14. StreamInv'
  <2>1. \A j \in Ios : /\ Active(j)' => Active(j)
                       /\ io'[j].client = io[j].client /\ io'[j].n = io[j].n /\ io'[j].lo = io[j].lo
                       /\ io'[j].st = "posted" => io[j].st = "posted"
    BY <1>2, <1>3 DEF Active, c
  <2>2. \A v \in Workers : wk'[v].pc = "recv" => wk[v] = wk'[v]
    BY <1>5
  <2>3. UNCHANGED <<read, wire, peer, main>>
    BY <1>1 DEF tcpVars
  <2> QED
    BY <2>1, <2>2, <2>3, StreamsUntouched
<1>15. SendInv'
  <2>1. \A j \in Ios : Sending(j)' => Sending(j) /\ io'[j] = io[j]
    BY <1>3 DEF Sending
  <2> QED
    BY <1>1, <2>1 DEF SendInv, tcpVars
<1> QED
  BY <1>7, <1>8, <1>9, <1>10, <1>11, <1>12, <1>13, <1>14, <1>15

LEMMA LoadKeyKeeps ==
  ASSUME IInv, NEW w \in Workers, LoadKey(w) PROVE IInv'
<1> USE IocpAssumption DEF IInv, TypeOK, TcpTypeOK, IocpTypeOK
<1>1. /\ wk[w].pc = "load" /\ wk[w].io \in Ios
      /\ UNCHANGED <<tcpVars, conn, key, assoc, io, port, main>>
  BY DEF LoadKey, WorkerInv, WorkerOK, Holds
<1>2. PICK s \in Clients \cup {NoSock} :
        /\ key[wk[w].key] = "live" => s = wk[w].key
        /\ wk' = [wk EXCEPT ![w].sock = s, ![w].pc = Branch(io[wk[w].io].mode, wk[w].n)]
  BY DEF LoadKey
<1>3. /\ wk'[w].io = wk[w].io /\ wk'[w].key = wk[w].key /\ wk'[w].n = wk[w].n /\ wk'[w].sock = s
      /\ wk'[w].pc = Branch(io[wk[w].io].mode, wk[w].n)
      /\ wk'[w] = [wk[w] EXCEPT !.sock = s, !.pc = Branch(io[wk[w].io].mode, wk[w].n)]
      /\ \A v \in Workers : v # w => wk'[v] = wk[v]
  BY <1>2 DEF WorkerRec
<1>4. /\ wk'[w].pc \in {"freeio", "close", "send"}
      /\ wk'[w].pc = "freeio" => io[wk[w].io].mode = "WRITE"
      /\ wk'[w].pc \in {"close", "send"} => io[wk[w].io].mode = "READ"
      /\ wk'[w].pc = "send" => wk[w].n > 0
      /\ wk'[w].pc = "close" => wk[w].n = 0
  BY <1>1, <1>3 DEF Branch, IoRec, WorkerRec
<1>5. wk' \in [Workers -> WorkerRec]
  <2>1. wk'[w] \in WorkerRec
    BY <1>2, <1>3, <1>4 DEF WorkerRec, WorkerPc
  <2> QED
    BY <1>2, <1>3, <2>1
<1>6. TypeOK'
  BY <1>1, <1>5 DEF tcpVars
<1>7. MainInv' /\ ConnInv' /\ BlockInv' /\ PortInv' /\ SendInv'
  BY <1>1 DEF MainInv, ConnInv, BlockInv, BlockOK, Active, PortInv, SendInv, Sending, tcpVars
<1>8. WorkerInv'
  BY <1>1, <1>2, <1>3, <1>4 DEF WorkerInv, WorkerOK, Holds
<1>9. HolderInv'
  <2>1. \A v \in Workers : (Holds(v)' <=> Holds(v)) /\ wk'[v].io = wk[v].io
    BY <1>1, <1>3, <1>4 DEF Holds
  <2> QED
    BY <2>1 DEF HolderInv
<1>10. ReaderInv' /\ StreamInv'
  <2>1. \A v \in Workers : wk'[v].pc = "recv" => wk[v] = wk'[v]
    BY <1>3, <1>4
  <2>2. UNCHANGED <<read, wire, peer, main, io>>
    BY <1>1 DEF tcpVars
  <2>3. \A j \in Ios : Active(j)' <=> Active(j)
    BY <2>2 DEF Active
  <2> QED
    BY <2>1, <2>2, <2>3, ReadersShrink, StreamsUntouched
<1> QED
  BY <1>6, <1>7, <1>8, <1>9, <1>10

\* The READ branch: its block is the only reader of its connection, so no
\* other worker, block or the main thread is about to use it.
LEMMA ReadBranchAlone ==
  ASSUME IInv, NEW w \in Workers, wk[w].pc \in {"close", "free", "send"}
  PROVE  LET c == wk[w].key IN
         /\ c \in Clients /\ wk[w].io \in Ios /\ io[wk[w].io].client = c
         /\ wk[w].sock = c /\ Active(wk[w].io) /\ io[wk[w].io].st = "held"
         /\ main.client # c
         /\ \A v \in Workers : wk[v].pc = "recv" => wk[v].sock # c
         /\ \A v \in Workers :
              (wk[v].pc \in {"load", "close", "free", "send"} /\ wk[v].key = c
                /\ io[wk[v].io].mode = "READ") => v = w
         /\ \A j \in Ios : Active(j) /\ io[j].client = c => j = wk[w].io
<1> USE DEF IInv, TypeOK, IocpTypeOK
<1>1. /\ Holds(w) /\ wk[w].io \in Ios /\ io[wk[w].io].st = "held" /\ io[wk[w].io].mode = "READ"
      /\ wk[w].key = io[wk[w].io].client /\ wk[w].sock = wk[w].key
  BY DEF WorkerInv, WorkerOK, Holds
<1>2. Active(wk[w].io) /\ wk[w].key \in Clients
  BY <1>1 DEF Active, BlockInv, BlockOK
<1>3. ASSUME NEW v \in Workers, wk[v].pc \in {"load", "close", "free", "send"},
             wk[v].key = wk[w].key, io[wk[v].io].mode = "READ"
      PROVE  v = w
  <2>1. Holds(v) /\ wk[v].io \in Ios /\ io[wk[v].io].st = "held" /\ wk[v].key = io[wk[v].io].client
    BY <1>3 DEF WorkerInv, WorkerOK, Holds
  <2>2. Active(wk[v].io)
    BY <1>3, <2>1 DEF Active
  <2>3. wk[v].io = wk[w].io
    BY <1>1, <1>2, <1>3, <2>1, <2>2 DEF ReaderInv
  <2> QED
    BY <1>1, <2>1, <2>3 DEF HolderInv
<1> QED
  BY <1>1, <1>2, <1>3 DEF ReaderInv

LEMMA CloseSockKeeps ==
  ASSUME IInv, NEW w \in Workers, CloseSock(w) PROVE IInv'
<1> DEFINE c == wk[w].key
<1> USE IocpAssumption DEF IInv, TypeOK, TcpTypeOK, IocpTypeOK
<1>1. /\ wk[w].pc = "close" /\ wk[w].sock = c /\ c \in Clients /\ main.client # c
      /\ wk[w].io \in Ios /\ io[wk[w].io].client = c /\ Active(wk[w].io) /\ io[wk[w].io].st = "held"
      /\ \A v \in Workers : wk[v].pc = "recv" => wk[v].sock # c
      /\ \A v \in Workers : (wk[v].pc \in {"load", "close", "free", "send"} /\ wk[v].key = c
                              /\ io[wk[v].io].mode = "READ") => v = w
      /\ \A j \in Ios : Active(j) /\ io[j].client = c => j = wk[w].io
  BY ReadBranchAlone DEF CloseSock
<1>2. conn[c] = "open" /\ key[c] = "live" /\ io[wk[w].io].mode = "READ"
  BY <1>1 DEF WorkerInv, WorkerOK
<1>3. /\ conn' = [conn EXCEPT ![c] = "closed"]
      /\ UNCHANGED <<tcpVars, key, assoc, io, port, main>>
      /\ wk' = [wk EXCEPT ![w].pc = "free"]
  BY <1>1 DEF CloseSock
<1>4. /\ wk'[w].io = wk[w].io /\ wk'[w].key = c /\ wk'[w].n = wk[w].n /\ wk'[w].sock = c
      /\ wk'[w].pc = "free"
      /\ \A v \in Workers : v # w => wk'[v] = wk[v]
      /\ wk' \in [Workers -> WorkerRec]
  <2>1. wk[w] \in WorkerRec
    OBVIOUS
  <2>2. [wk[w] EXCEPT !.pc = "free"] \in WorkerRec
    BY <2>1 DEF WorkerRec, WorkerPc
  <2>3. wk'[w] = [wk[w] EXCEPT !.pc = "free"] /\ \A v \in Workers : v # w => wk'[v] = wk[v]
    BY <1>3
  <2>4. wk' \in [Workers -> WorkerRec]
    BY <1>3, <2>2
  <2> QED
    BY <1>1, <2>1, <2>3, <2>4 DEF WorkerRec
<1>5. \A v \in Workers : (Holds(v)' <=> Holds(v)) /\ wk'[v].io = wk[v].io
  BY <1>1, <1>4 DEF Holds
<1> HIDE DEF c
<1>6. TypeOK'
  BY <1>3, <1>4 DEF tcpVars
<1>7. MainInv' /\ ConnInv'
  BY <1>1, <1>2, <1>3 DEF MainInv, ConnInv, tcpVars
<1>8. PortInv' /\ SendInv' /\ HolderInv'
  BY <1>3, <1>5 DEF PortInv, SendInv, Sending, HolderInv, tcpVars
<1>9. BlockInv'
  BY <1>1, <1>2, <1>3 DEF BlockInv, BlockOK, Active, tcpVars
<1>10. ReaderInv' /\ StreamInv'
  <2>1. \A v \in Workers : wk'[v].pc = "recv" => wk[v] = wk'[v]
    BY <1>4
  <2>2. UNCHANGED <<read, wire, peer, main, io>>
    BY <1>3 DEF tcpVars
  <2>3. \A j \in Ios : Active(j)' <=> Active(j)
    BY <2>2 DEF Active
  <2> QED
    BY <2>1, <2>2, <2>3, ReadersShrink, StreamsUntouched
<1>11. WorkerInv'
  <2>1. ASSUME NEW v \in Workers, v # w, wk[v].pc \in {"load", "close", "send", "free"}, io[wk[v].io].mode = "READ"
        PROVE  conn'[wk[v].key] = conn[wk[v].key]
    BY <1>1, <1>3, <2>1 DEF WorkerRec
  <2>2. \A v \in Workers : wk[v].pc = "recv" => conn'[wk[v].sock] = conn[wk[v].sock]
    BY <1>1, <1>3
  <2>3. \A v \in Workers : wk[v].pc = "free" => io[wk[v].io].mode = "READ"
    BY DEF WorkerInv, WorkerOK
  <2> QED
    BY <1>1, <1>2, <1>3, <1>4, <1>5, <2>1, <2>2, <2>3 DEF WorkerInv, WorkerOK
<1> QED
  BY <1>6, <1>7, <1>8, <1>9, <1>10, <1>11

\* A worker that is done with its block frees it and goes back to waiting.
LEMMA BlockFreed ==
  ASSUME IInv, NEW w \in Workers, wk[w].pc \in {"free", "freeio"},
         io' = [io EXCEPT ![wk[w].io] = FreshIo], wk' = [wk EXCEPT ![w] = IdleWorker],
         UNCHANGED <<tcpVars, conn, assoc, port, main>>
  PROVE  /\ io' \in [Ios -> IoRec] /\ wk' \in [Workers -> WorkerRec]
         /\ wk[w].io \in Ios /\ io[wk[w].io].st = "held" /\ wk[w].key = io[wk[w].io].client
         /\ \A j \in Ios : j # wk[w].io => io'[j] = io[j]
         /\ io'[wk[w].io].st = "free"
         /\ \A v \in Workers : v # w => wk'[v] = wk[v] /\ (Holds(v) => io'[wk[v].io] = io[wk[v].io])
         /\ wk'[w].pc = "wait"
         /\ HolderInv' /\ ReaderInv' /\ PortInv' /\ StreamInv' /\ SendInv'
<1> USE DEF IInv, TypeOK, IocpTypeOK, TcpTypeOK
<1> DEFINE i == wk[w].io
<1>1. Holds(w) /\ i \in Ios /\ io[i].st = "held" /\ wk[w].key = io[i].client
  BY DEF WorkerInv, WorkerOK, Holds
<1>2. FreshIo \in IoRec /\ IdleWorker \in WorkerRec /\ FreshIo.st = "free" /\ IdleWorker.pc = "wait"
  BY IocpAssumption DEF FreshIo, IdleWorker, IoRec, WorkerRec, IoState, WorkerPc
<1>3. /\ io' \in [Ios -> IoRec] /\ wk' \in [Workers -> WorkerRec]
      /\ io'[i].st = "free" /\ wk'[w].pc = "wait"
      /\ \A j \in Ios : j # i => io'[j] = io[j]
      /\ \A v \in Workers : v # w => wk'[v] = wk[v]
  BY <1>1, <1>2
<1>4. \A v \in Workers : v # w /\ Holds(v) => wk[v].io \in Ios /\ wk[v].io # i /\ io'[wk[v].io] = io[wk[v].io]
  BY <1>1, <1>3 DEF HolderInv, WorkerInv, WorkerOK
<1>5. HolderInv'
  BY <1>3 DEF HolderInv, Holds
<1>6. /\ \A j \in Ios : Active(j)' => Active(j) /\ io'[j] = io[j]
      /\ \A v \in Workers : wk'[v].pc = "recv" => wk[v] = wk'[v]
      /\ UNCHANGED <<read, wire, delivered, peer, main>>
  BY <1>3 DEF Active, tcpVars
<1>7. ReaderInv'
  BY <1>6 DEF ReaderInv
<1>8. PortInv'
  BY <1>1, <1>2, PortUntouched
<1>9. StreamInv'
  BY <1>6 DEF StreamInv
<1>10. SendInv'
  <2>1. \A j \in Ios : Sending(j)' => Sending(j) /\ io'[j] = io[j]
    BY <1>3 DEF Sending
  <2> QED
    <3>1. UNCHANGED <<wire, delivered>>
      BY <1>6
    <3>2. SendInv
      OBVIOUS
    <3> HIDE DEF IInv, TypeOK, IocpTypeOK, TcpTypeOK
    <3> QED
      BY <2>1, <3>1, <3>2 DEF SendInv
<1> QED
  BY <1>1, <1>3, <1>4, <1>5, <1>7, <1>8, <1>9, <1>10

LEMMA FreeBothKeeps ==
  ASSUME IInv, NEW w \in Workers, FreeBoth(w) PROVE IInv'
<1> DEFINE c == wk[w].key
<1> USE IocpAssumption DEF IInv, TypeOK, TcpTypeOK, IocpTypeOK
<1>1. /\ wk[w].pc = "free" /\ wk[w].sock = c /\ c \in Clients /\ main.client # c
      /\ wk[w].io \in Ios /\ io[wk[w].io].client = c /\ Active(wk[w].io) /\ io[wk[w].io].st = "held"
      /\ \A v \in Workers : wk[v].pc = "recv" => wk[v].sock # c
      /\ \A v \in Workers : (wk[v].pc \in {"load", "close", "free", "send"} /\ wk[v].key = c
                              /\ io[wk[v].io].mode = "READ") => v = w
      /\ \A j \in Ios : Active(j) /\ io[j].client = c => j = wk[w].io
  BY ReadBranchAlone DEF FreeBoth
<1>2. conn[c] = "closed"
  BY <1>1 DEF WorkerInv, WorkerOK
<1>3. /\ key' = [key EXCEPT ![c] = "freed"]
      /\ io' = [io EXCEPT ![wk[w].io] = FreshIo] /\ wk' = [wk EXCEPT ![w] = IdleWorker]
      /\ UNCHANGED <<tcpVars, conn, assoc, port, main>>
  BY DEF FreeBoth
<1>4. /\ io' \in [Ios -> IoRec] /\ wk' \in [Workers -> WorkerRec]
      /\ \A j \in Ios : j # wk[w].io => io'[j] = io[j]
      /\ io'[wk[w].io].st = "free" /\ wk'[w].pc = "wait"
      /\ \A v \in Workers : v # w => wk'[v] = wk[v] /\ (Holds(v) => io'[wk[v].io] = io[wk[v].io])
      /\ HolderInv' /\ ReaderInv' /\ PortInv' /\ StreamInv' /\ SendInv'
  <2> HIDE DEF c
  <2> QED
    BY <1>1, <1>3, BlockFreed
<1> HIDE DEF c
<1>5. TypeOK'
  BY <1>3, <1>4 DEF tcpVars
<1>6. MainInv' /\ ConnInv'
  BY <1>1, <1>2, <1>3 DEF MainInv, ConnInv, tcpVars
<1>7. BlockInv'
  <2>1. UNCHANGED <<peer, conn>>
    BY <1>3 DEF tcpVars
  <2>2. \A j \in Ios : j # wk[w].io /\ io[j].st \in {"posted", "queued"} /\ io[j].mode = "READ" =>
          key'[io[j].client] = key[io[j].client]
    BY <1>1, <1>3 DEF Active
  <2>3. ASSUME NEW j \in Ios, j # wk[w].io PROVE BlockOK(j)'
    BY <1>4, <2>1, <2>2, <2>3 DEF BlockInv, BlockOK, Active
  <2>4. ASSUME NEW j \in Ios, j = wk[w].io PROVE BlockOK(j)'
    BY <1>4, <2>4 DEF BlockOK, Active
  <2> QED
    BY <2>3, <2>4 DEF BlockInv
<1>8. WorkerInv'
  <2>1. ASSUME NEW v \in Workers, v # w PROVE WorkerOK(v)'
    <3>1. /\ wk'[v] = wk[v] /\ (Holds(v)' <=> Holds(v)) /\ (Holds(v) => io'[wk[v].io] = io[wk[v].io])
          /\ conn' = conn /\ WorkerOK(v)
      BY <1>3, <1>4, <2>1 DEF Holds, WorkerInv
    <3>2. wk[v].pc \in {"load", "close", "send", "free"} /\ io[wk[v].io].mode = "READ" =>
            key'[wk[v].key] = key[wk[v].key]
      BY <1>1, <1>3, <2>1
    <3>3. wk[v].pc = "recv" => key'[wk[v].sock] = key[wk[v].sock]
      BY <1>1, <1>3
    <3> QED
      BY <3>1, <3>2, <3>3 DEF WorkerOK, Holds
  <2>2. WorkerOK(w)'
    BY <1>4 DEF WorkerOK, Holds
  <2> QED
    BY <2>1, <2>2 DEF WorkerInv
<1> QED
  BY <1>4, <1>5, <1>6, <1>7, <1>8

LEMMA FreeIoKeeps ==
  ASSUME IInv, NEW w \in Workers, FreeIo(w) PROVE IInv'
<1> USE IocpAssumption DEF IInv, TypeOK, TcpTypeOK, IocpTypeOK
<1>1. /\ wk[w].pc = "freeio"
      /\ io' = [io EXCEPT ![wk[w].io] = FreshIo] /\ wk' = [wk EXCEPT ![w] = IdleWorker]
      /\ UNCHANGED <<tcpVars, conn, key, assoc, port, main>>
  BY DEF FreeIo
<1>2. /\ io' \in [Ios -> IoRec] /\ wk' \in [Workers -> WorkerRec]
      /\ \A j \in Ios : j # wk[w].io => io'[j] = io[j]
      /\ io'[wk[w].io].st = "free" /\ wk'[w].pc = "wait"
      /\ \A v \in Workers : v # w => wk'[v] = wk[v] /\ (Holds(v) => io'[wk[v].io] = io[wk[v].io])
      /\ HolderInv' /\ ReaderInv' /\ PortInv' /\ StreamInv' /\ SendInv'
  BY <1>1, BlockFreed
<1>3. TypeOK' /\ MainInv' /\ ConnInv'
  BY <1>1, <1>2 DEF MainInv, ConnInv, tcpVars
<1>4. BlockInv'
  <2>1. UNCHANGED <<peer, conn, key>>
    BY <1>1 DEF tcpVars
  <2>2. ASSUME NEW j \in Ios, j # wk[w].io PROVE BlockOK(j)'
    BY <1>2, <2>1, <2>2 DEF BlockInv, BlockOK, Active
  <2>3. ASSUME NEW j \in Ios, j = wk[w].io PROVE BlockOK(j)'
    BY <1>2, <2>3 DEF BlockOK, Active
  <2> QED
    BY <2>2, <2>3 DEF BlockInv
<1>5. WorkerInv'
  <2>1. ASSUME NEW v \in Workers, v # w PROVE WorkerOK(v)'
    <3>1. /\ wk'[v] = wk[v] /\ (Holds(v)' <=> Holds(v)) /\ (Holds(v) => io'[wk[v].io] = io[wk[v].io])
          /\ conn' = conn /\ key' = key /\ WorkerOK(v)
      BY <1>1, <1>2, <2>1 DEF Holds, WorkerInv
    <3> QED
      BY <3>1 DEF WorkerOK, Holds
  <2>2. WorkerOK(w)'
    BY <1>2 DEF WorkerOK, Holds
  <2> QED
    BY <2>1, <2>2 DEF WorkerInv
<1> QED
  BY <1>2, <1>3, <1>4, <1>5

LEMMA RecvNextKeeps ==
  ASSUME IInv, NEW w \in Workers, RecvNext(w) PROVE IInv'
<1> DEFINE c == wk[w].sock
           i == Malloc
<1> USE IocpAssumption DEF IInv, TypeOK, TcpTypeOK, IocpTypeOK
<1>1. /\ wk[w].pc = "recv" /\ c \in Clients /\ key[c] = "live" /\ conn[c] = "open"
      /\ i \in Ios /\ io[i].st = "free"
  BY MallocIsFree DEF RecvNext, WorkerInv, WorkerOK
<1>2. /\ io' = [io EXCEPT ![i] = RecvBlock(c)]
      /\ RecvBlock(c) \in IoRec
      /\ RecvBlock(c).st = "posted" \/ RecvBlock(c).st = "lost"
      /\ RecvBlock(c).st = "posted" <=> peer[c] # "rst"
      /\ RecvBlock(c).mode = "READ" /\ RecvBlock(c).client = c /\ RecvBlock(c).n = 0
  BY <1>1 DEF RecvNext, RecvBlock, CallFails, IoRec, IoState
<1>3. /\ wk' = [wk EXCEPT ![w] = IdleWorker] /\ IdleWorker.pc = "wait" /\ IdleWorker \in WorkerRec
      /\ UNCHANGED <<tcpVars, conn, key, assoc, port, main>>
  BY DEF RecvNext, IdleWorker, WorkerRec, WorkerPc
<1> HIDE DEF c, i
<1>4. TypeOK' /\ MainInv' /\ ConnInv'
  BY <1>1, <1>2, <1>3 DEF MainInv, ConnInv, tcpVars
<1>5. /\ \A v \in Workers : v # w => wk'[v] = wk[v]
      /\ wk'[w].pc = "wait"
      /\ \A v \in Workers : Holds(v)' => v # w /\ Holds(v) /\ io'[wk[v].io] = io[wk[v].io]
      /\ \A j \in Ios : j # i => io'[j] = io[j]
      /\ io'[i] = RecvBlock(c)
  <2>1. /\ \A v \in Workers : v # w => wk'[v] = wk[v]
        /\ wk'[w].pc = "wait"
        /\ \A j \in Ios : j # i => io'[j] = io[j]
        /\ io'[i] = RecvBlock(c)
    BY <1>1, <1>2, <1>3
  <2>2. \A v \in Workers : Holds(v)' => v # w /\ Holds(v) /\ wk[v].io \in Ios /\ wk[v].io # i
    BY <1>1, <2>1 DEF Holds, WorkerInv, WorkerOK
  <2> QED
    BY <2>1, <2>2
<1>6. WorkerInv'
  <2>1. ASSUME NEW v \in Workers, v # w PROVE WorkerOK(v)'
    <3>1. /\ wk'[v] = wk[v] /\ (Holds(v)' <=> Holds(v)) /\ (Holds(v) => io'[wk[v].io] = io[wk[v].io])
          /\ conn' = conn /\ key' = key /\ WorkerOK(v)
      BY <1>3, <1>5, <2>1 DEF Holds, WorkerInv
    <3> QED
      BY <3>1 DEF WorkerOK, Holds
  <2>2. WorkerOK(w)'
    BY <1>5 DEF WorkerOK, Holds
  <2> QED
    BY <2>1, <2>2 DEF WorkerInv
<1>7. HolderInv'
  BY <1>5 DEF HolderInv
<1>8. BlockInv'
  <2>1. UNCHANGED <<peer, conn, key>>
    BY <1>3 DEF tcpVars
  <2> QED
    BY <1>1, <1>2, <1>5, <2>1 DEF BlockInv, BlockOK, Active
<1>9. PortInv'
  BY <1>1, <1>2, <1>3, PortUntouched
<1>10. /\ \A j \in Ios : Active(j)' => j = i \/ (Active(j) /\ io'[j] = io[j] /\ io[j].client # c)
       /\ \A v \in Workers : wk'[v].pc = "recv" => wk'[v] = wk[v] /\ wk[v].sock # c
       /\ main.client # c
  BY <1>1, <1>2, <1>5 DEF Active, ReaderInv, c
<1>11. ReaderInv'
  <2>1. \A j, k \in Ios : Active(j)' /\ Active(k)' /\ io'[j].client = io'[k].client => j = k
    BY <1>2, <1>5, <1>10 DEF ReaderInv
  <2>2. \A j \in Ios : Active(j)' => io'[j].client # main'.client
    BY <1>2, <1>3, <1>5, <1>10 DEF ReaderInv
  <2>3. \A j \in Ios, v \in Workers : Active(j)' /\ wk'[v].pc = "recv" => io'[j].client # wk'[v].sock
    BY <1>2, <1>5, <1>10 DEF ReaderInv
  <2>4. /\ \A v \in Workers : wk'[v].pc = "recv" => wk'[v].sock # main'.client
        /\ \A u, v \in Workers :
             wk'[u].pc = "recv" /\ wk'[v].pc = "recv" /\ wk'[u].sock = wk'[v].sock => u = v
    BY <1>3, <1>10 DEF ReaderInv
  <2> QED
    BY <2>1, <2>2, <2>3, <2>4 DEF ReaderInv
<1>12. StreamInv'
  <2>1. UNCHANGED <<read, wire, peer, main>>
    BY <1>3 DEF tcpVars
  <2>2. read[c] = Len(wire[c]) \/ peer[c] = "rst"
    BY <1>1 DEF StreamInv, c
  <2>3. ASSUME NEW j \in Ios, Active(j)'
        PROVE  /\ read'[io'[j].client] = Len(wire'[io'[j].client]) + io'[j].n
               /\ io'[j].n > 0 => io'[j].lo = Len(wire'[io'[j].client]) + 1
               /\ io'[j].st = "posted" => io'[j].n = 0
    <3>1. CASE j = i
      <4>1. io'[j].client = c /\ io'[j].n = 0 /\ io'[j].st = "posted"
        BY <1>2, <1>5, <2>3, <3>1 DEF Active
      <4>2. read[c] = Len(wire[c]) /\ Len(wire[c]) + 0 = Len(wire[c])
        BY <1>1, <1>2, <1>5, <2>2, <3>1, <4>1
      <4> QED
        BY <2>1, <4>1, <4>2
    <3>2. CASE j # i
      BY <1>10, <2>1, <2>3, <3>2 DEF StreamInv
    <3> QED
      BY <3>1, <3>2
  <2>4. \A v \in Workers : wk'[v].pc = "recv" =>
          read'[wk'[v].sock] = Len(wire'[wk'[v].sock]) \/ peer'[wk'[v].sock] = "rst"
    BY <1>10, <2>1 DEF StreamInv
  <2> QED
    BY <2>1, <2>3, <2>4 DEF StreamInv
<1>13. SendInv'
  <2>1. \A j \in Ios : Sending(j)' => Sending(j) /\ io'[j] = io[j]
    BY <1>2, <1>5 DEF Sending
  <2>2. UNCHANGED <<delivered, wire>>
    BY <1>3 DEF tcpVars
  <2> QED
    BY <2>1, <2>2 DEF SendInv
<1> QED
  BY <1>4, <1>6, <1>7, <1>8, <1>9, <1>11, <1>12, <1>13

LEMMA SendBackKeeps ==
  ASSUME IInv, NEW w \in Workers, SendBack(w) PROVE IInv'
<1> DEFINE c == wk[w].sock
           i == wk[w].io
           n == wk[w].n
<1> USE IocpAssumption DEF IInv, TypeOK, TcpTypeOK, IocpTypeOK
<1>1. /\ wk[w].pc = "send" /\ wk[w].key = c /\ c \in Clients /\ main.client # c
      /\ i \in Ios /\ io[i].client = c /\ Active(i) /\ io[i].st = "held"
      /\ \A v \in Workers : wk[v].pc = "recv" => wk[v].sock # c
      /\ \A j \in Ios : Active(j) /\ io[j].client = c => j = i
  BY ReadBranchAlone DEF SendBack
<1>2. /\ conn[c] = "open" /\ key[c] = "live" /\ n > 0 /\ n \in 0..BufLen /\ n = io[i].n
      /\ \A v \in Workers : v # w /\ Holds(v) => wk[v].io \in Ios /\ wk[v].io # i
  BY <1>1 DEF WorkerInv, WorkerOK, HolderInv, Holds, Active, WorkerRec
<1>3. /\ wire[c] = Chunk(1, Len(wire[c])) /\ Len(wire[c]) \in Nat /\ wire[c] \in Seq(Nat)
      /\ read[c] = Len(wire[c]) + n /\ io[i].lo = Len(wire[c]) + 1
      /\ delivered[c] <= Len(wire[c]) /\ delivered[c] \in Nat
  <2>1. wire[c] = Chunk(1, Len(wire[c])) /\ delivered[c] <= Len(wire[c])
    BY <1>1 DEF StreamInv, SendInv
  <2>2. read[c] = Len(wire[c]) + io[i].n /\ io[i].lo = Len(wire[c]) + 1
    <3>1. read[io[i].client] = Len(wire[io[i].client]) + io[i].n
      BY <1>1 DEF StreamInv
    <3>2. io[i].lo = Len(wire[io[i].client]) + 1
      BY <1>1, <1>2 DEF StreamInv
    <3> QED
      BY <1>1, <3>1, <3>2
  <2>3. Len(wire[c]) \in Nat /\ wire[c] \in Seq(Nat) /\ delivered[c] \in Nat
    BY <1>1
  <2> QED
    BY <1>2, <2>1, <2>2, <2>3
<1>4. /\ io' = [io EXCEPT ![i] = SendBlock(c, n)]
      /\ wire' = IF peer[c] = "rst" THEN wire ELSE [wire EXCEPT ![c] = @ \o Chunk(io[i].lo, n)]
      /\ wk' = [wk EXCEPT ![w] = [pc |-> "recv", io |-> NoSock, sock |-> c, key |-> NoSock, n |-> 0]]
      /\ UNCHANGED <<peer, sent, read, delivered, conn, key, assoc, port, main>>
  BY <1>2 DEF SendBack, CallFails, Received
<1>5. /\ SendBlock(c, n) \in IoRec
      /\ SendBlock(c, n).mode = "WRITE" /\ SendBlock(c, n).client = c
      /\ SendBlock(c, n).lo = Len(wire[c]) + 1 /\ SendBlock(c, n).n = n
      /\ SendBlock(c, n).st = IF peer[c] = "rst" THEN "lost" ELSE "posted"
  BY <1>1, <1>2, <1>3 DEF SendBlock, CallFails, IoRec, IoState
<1>6. [pc |-> "recv", io |-> NoSock, sock |-> c, key |-> NoSock, n |-> 0] \in WorkerRec
  BY <1>1 DEF WorkerRec, WorkerPc
<1> HIDE DEF c, i, n
<1>7. /\ io' \in [Ios -> IoRec] /\ io'[i] = SendBlock(c, n) /\ \A j \in Ios : j # i => io'[j] = io[j]
      /\ wk' \in [Workers -> WorkerRec] /\ \A v \in Workers : v # w => wk'[v] = wk[v]
      /\ wk'[w].pc = "recv" /\ wk'[w].sock = c
  BY <1>1, <1>4, <1>5, <1>6
<1>8. /\ wire' \in [Clients -> Seq(Nat)]
      /\ \A d \in Clients : d # c => wire'[d] = wire[d]
      /\ peer[c] = "rst" => wire'[c] = wire[c]
      /\ peer[c] # "rst" => wire'[c] = Chunk(1, Len(wire[c]) + n) /\ Len(wire'[c]) = Len(wire[c]) + n
  <2>1. n \in Nat
    BY <1>2
  <2>2. /\ wire[c] \o Chunk(io[i].lo, n) = Chunk(1, Len(wire[c]) + n)
        /\ Chunk(io[i].lo, n) \in Seq(Nat) /\ Len(Chunk(io[i].lo, n)) = n
    <3> DEFINE m == Len(wire[c])
    <3>1. /\ Chunk(1, m) \o Chunk(m + 1, n) = Chunk(1, m + n)
          /\ Chunk(m + 1, n) \in Seq(Nat) /\ Len(Chunk(m + 1, n)) = n
      BY <1>3, <2>1, ChunkConcat
    <3> QED
      BY <1>3, <3>1
  <2>3. /\ wire[c] \o Chunk(io[i].lo, n) \in Seq(Nat)
        /\ Len(wire[c] \o Chunk(io[i].lo, n)) = Len(wire[c]) + n
    <3> DEFINE t == Chunk(io[i].lo, n)
    <3>1. t \in Seq(Nat) /\ Len(t) = n
      BY <2>2
    <3> HIDE DEF t
    <3>2. wire[c] \o t \in Seq(Nat) /\ Len(wire[c] \o t) = Len(wire[c]) + n
      <4>1. wire[c] \in Seq(Nat)
        BY <1>3
      <4> HIDE DEF IInv, TypeOK, TcpTypeOK, IocpTypeOK
      <4> QED
        BY <3>1, <4>1, ConcatProperties
    <3> QED
      BY <3>2 DEF t
  <2> QED
    BY <1>1, <1>4, <2>2, <2>3
<1>9. TypeOK'
  BY <1>4, <1>7, <1>8
<1>10. MainInv'
  BY <1>4 DEF MainInv
<1>11. ConnInv'
  BY <1>1, <1>2, <1>4, <1>8 DEF ConnInv
<1>12. WorkerInv'
  <2>1. ASSUME NEW v \in Workers, v # w PROVE WorkerOK(v)'
    <3>1. /\ wk'[v] = wk[v] /\ (Holds(v)' <=> Holds(v)) /\ (Holds(v) => io'[wk[v].io] = io[wk[v].io])
          /\ conn' = conn /\ key' = key /\ WorkerOK(v)
      BY <1>2, <1>4, <1>7, <2>1 DEF Holds, WorkerInv
    <3> QED
      BY <3>1 DEF WorkerOK, Holds
  <2>2. WorkerOK(w)'
    BY <1>1, <1>2, <1>4, <1>7 DEF WorkerOK, Holds
  <2> QED
    BY <2>1, <2>2 DEF WorkerInv
<1>13. HolderInv'
  <2>1. \A v \in Workers : Holds(v)' => v # w /\ Holds(v) /\ wk'[v] = wk[v]
    BY <1>7 DEF Holds
  <2> QED
    BY <2>1 DEF HolderInv
<1>14. BlockInv'
  <2>1. ASSUME NEW j \in Ios, j # i PROVE BlockOK(j)'
    BY <1>4, <1>7, <2>1 DEF BlockInv, BlockOK, Active
  <2>2. ASSUME NEW j \in Ios, j = i PROVE BlockOK(j)'
    BY <1>1, <1>2, <1>4, <1>5, <1>7, <2>2 DEF BlockOK, Active
  <2> QED
    BY <2>1, <2>2 DEF BlockInv
<1>15. PortInv'
  BY <1>1, <1>4, <1>5, PortUntouched
<1>16. /\ \A j \in Ios : Active(j)' => j # i /\ Active(j) /\ io'[j] = io[j] /\ io[j].client # c
       /\ \A v \in Workers : wk'[v].pc = "recv" => (v = w \/ (wk'[v] = wk[v] /\ wk[v].sock # c))
  BY <1>1, <1>5, <1>7 DEF Active
<1>17. ReaderInv'
  <2>1. \A j, k \in Ios : Active(j)' /\ Active(k)' /\ io'[j].client = io'[k].client => j = k
    BY <1>16 DEF ReaderInv
  <2>2. \A j \in Ios : Active(j)' => io'[j].client # main'.client
    BY <1>4, <1>16 DEF ReaderInv
  <2>3. \A j \in Ios, v \in Workers : Active(j)' /\ wk'[v].pc = "recv" => io'[j].client # wk'[v].sock
    <3> SUFFICES ASSUME NEW j \in Ios, NEW v \in Workers, Active(j)', wk'[v].pc = "recv"
                 PROVE  io'[j].client # wk'[v].sock
      OBVIOUS
    <3>1. Active(j) /\ io'[j] = io[j] /\ io[j].client # c
      BY <1>16
    <3>2. CASE v = w
      BY <1>7, <3>1, <3>2
    <3>3. CASE v # w
      BY <1>16, <3>1, <3>3 DEF ReaderInv
    <3> QED
      BY <3>2, <3>3
  <2>4. /\ \A v \in Workers : wk'[v].pc = "recv" => wk'[v].sock # main'.client
        /\ \A u, v \in Workers :
             wk'[u].pc = "recv" /\ wk'[v].pc = "recv" /\ wk'[u].sock = wk'[v].sock => u = v
    BY <1>1, <1>4, <1>7, <1>16 DEF ReaderInv
  <2> QED
    BY <2>1, <2>2, <2>3, <2>4 DEF ReaderInv
<1>18. StreamInv'
  <2>1. UNCHANGED <<read, peer, main>>
    BY <1>4
  <2>2. ASSUME NEW d \in Clients PROVE wire'[d] = Chunk(1, Len(wire'[d])) /\ Len(wire'[d]) <= read'[d]
    <3>1. CASE d = c /\ peer[c] # "rst"
      BY <1>2, <1>3, <1>8, <2>1, <3>1
    <3>2. CASE d # c \/ peer[c] = "rst"
      BY <1>8, <2>1, <3>2 DEF StreamInv
    <3> QED
      BY <3>1, <3>2
  <2>3. ASSUME NEW j \in Ios, Active(j)'
        PROVE  /\ read'[io'[j].client] = Len(wire'[io'[j].client]) + io'[j].n
               /\ io'[j].n > 0 => io'[j].lo = Len(wire'[io'[j].client]) + 1
               /\ io'[j].st = "posted" => io'[j].n = 0
    <3>1. j # i /\ Active(j) /\ io'[j] = io[j] /\ io[j].client # c /\ io[j].client \in Clients
      BY <1>16, <2>3 DEF BlockInv, BlockOK, Active
    <3>2. wire'[io[j].client] = wire[io[j].client]
      BY <1>8, <3>1
    <3> QED
      BY <2>1, <3>1, <3>2 DEF StreamInv
  <2>4. main'.pc # "accept" => read'[main'.client] = Len(wire'[main'.client])
    BY <1>1, <1>8, <2>1 DEF StreamInv, MainInv
  <2>5. ASSUME NEW v \in Workers, wk'[v].pc = "recv"
        PROVE  read'[wk'[v].sock] = Len(wire'[wk'[v].sock]) \/ peer'[wk'[v].sock] = "rst"
    <3>1. CASE v = w
      BY <1>3, <1>7, <1>8, <2>1, <3>1
    <3>2. CASE v # w
      <4>1. wk'[v] = wk[v] /\ wk[v].sock # c /\ wk[v].sock \in Clients /\ wk[v].pc = "recv"
        BY <1>16, <2>5, <3>2 DEF WorkerInv, WorkerOK
      <4> QED
        BY <1>8, <2>1, <4>1 DEF StreamInv
    <3> QED
      BY <3>1, <3>2
  <2> QED
    BY <2>2, <2>3, <2>4, <2>5 DEF StreamInv
<1>19. SendInv'
  <2>1. UNCHANGED delivered /\ n \in Nat
    BY <1>2, <1>4
  <2>2. \A d \in Clients : Len(wire[d]) <= Len(wire'[d]) /\ Len(wire[d]) \in Nat /\ Len(wire'[d]) \in Nat
    <3> SUFFICES ASSUME NEW d \in Clients
                 PROVE  Len(wire[d]) <= Len(wire'[d]) /\ Len(wire[d]) \in Nat /\ Len(wire'[d]) \in Nat
      OBVIOUS
    <3>1. Len(wire[d]) \in Nat
      OBVIOUS
    <3>2. wire'[d] = wire[d] \/ (d = c /\ Len(wire'[d]) = Len(wire[d]) + n)
      BY <1>8
    <3> QED
      BY <2>1, <3>1, <3>2
  <2>3. \A d \in Clients : delivered'[d] <= Len(wire'[d])
    BY <2>1, <2>2 DEF SendInv
  <2>4. \A j \in Ios : Sending(j)' => (j = i /\ peer[c] # "rst") \/ (j # i /\ Sending(j) /\ io'[j] = io[j])
    BY <1>5, <1>7 DEF Sending
  <2>5. \A j \in Ios : io[j].lo \in Nat /\ io[j].n \in Nat /\ (Sending(j) => io[j].client \in Clients)
    BY DEF IoRec, Sending, BlockInv, BlockOK, Active
  <2>6. ASSUME NEW j \in Ios, Sending(j)'
        PROVE  /\ io'[j].n > 0 /\ delivered'[io'[j].client] < io'[j].lo
               /\ io'[j].lo + io'[j].n <= Len(wire'[io'[j].client]) + 1
    <3>1. CASE j = i
      <4>1. io'[j].n = n /\ io'[j].lo = Len(wire[c]) + 1 /\ io'[j].client = c /\ peer[c] # "rst"
        BY <1>5, <1>7, <2>4, <2>6, <3>1
      <4>2. Len(wire'[c]) = Len(wire[c]) + n /\ delivered'[c] = delivered[c]
        BY <1>8, <2>1, <4>1
      <4> QED
        <5>1. n > 0 /\ n \in Nat /\ Len(wire[c]) \in Nat /\ delivered[c] \in Nat /\ delivered[c] <= Len(wire[c])
          BY <1>2, <1>3 DEF SendInv
        <5> HIDE DEF IInv, TypeOK, IocpTypeOK, TcpTypeOK
        <5> QED
          BY <4>1, <4>2, <5>1
    <3>2. CASE j # i
      <4>1. /\ Sending(j) /\ io'[j] = io[j] /\ io[j].client \in Clients
            /\ io[j].lo \in Nat /\ io[j].n \in Nat
        BY <2>4, <2>5, <2>6, <3>2
      <4>2. /\ io[j].n > 0 /\ delivered[io[j].client] < io[j].lo
            /\ io[j].lo + io[j].n <= Len(wire[io[j].client]) + 1
        BY <4>1 DEF SendInv
      <4>3. Len(wire[io[j].client]) <= Len(wire'[io[j].client])
        BY <2>2, <4>1
      <4> QED
        <5>1. UNCHANGED delivered /\ Len(wire[io[j].client]) \in Nat /\ Len(wire'[io[j].client]) \in Nat
          BY <2>1, <2>2, <4>1
        <5> HIDE DEF IInv, TypeOK, IocpTypeOK, TcpTypeOK
        <5> DEFINE before == Len(wire[io[j].client])
                   after == Len(wire'[io[j].client])
                   end == io[j].lo + io[j].n
        <5>2. end \in Nat /\ before \in Nat /\ after \in Nat /\ end <= before + 1 /\ before <= after
          BY <4>1, <4>2, <4>3, <5>1
        <5>3. end <= after + 1
          <6> HIDE DEF before, after, end
          <6> QED
            BY <5>2
        <5> QED
          BY <4>1, <4>2, <5>1, <5>3
    <3> QED
      BY <3>1, <3>2
  <2>7. ASSUME NEW j \in Ios, NEW k \in Ios, Sending(j)', Sending(k)', io'[j].client = io'[k].client, j # k
        PROVE  io'[j].lo + io'[j].n <= io'[k].lo \/ io'[k].lo + io'[k].n <= io'[j].lo
    <3>1. CASE j # i /\ k # i
      BY <2>4, <2>7, <3>1 DEF SendInv
    <3>2. ASSUME NEW m \in Ios, m # i, Sending(m)', io'[m].client = c
          PROVE  io'[m].lo + io'[m].n <= io'[i].lo
      BY <1>3, <1>5, <1>7, <2>4, <2>5, <3>2 DEF SendInv
    <3>3. CASE j = i
      BY <1>5, <1>7, <2>7, <3>2, <3>3
    <3>4. CASE k = i
      BY <1>5, <1>7, <2>7, <3>2, <3>4
    <3> QED
      BY <3>1, <3>3, <3>4
  <2> QED
    BY <2>3, <2>6, <2>7 DEF SendInv
<1> QED
  BY <1>9, <1>10, <1>11, <1>12, <1>13, <1>14, <1>15, <1>17, <1>18, <1>19

LEMMA PeerKeeps ==
  ASSUME IInv, NEW c \in Clients, Peer(c) PROVE IInv'
<1> USE DEF IInv, TypeOK, TcpTypeOK, IocpTypeOK, Peer, PeerStep, srvVars
<1>1. /\ UNCHANGED <<read, wire, delivered, conn, key, assoc, io, port, main, wk>>
      /\ peer' \in [Clients -> PeerState] /\ sent' \in [Clients -> Nat]
      /\ \A d \in Clients : peer[d] = "rst" => peer'[d] = "rst"
      /\ \A d \in Clients : peer[d] # "away" => peer'[d] # "away"
      /\ \A d \in Clients : peer[d] \in {"fin", "rst"} => peer'[d] \in {"fin", "rst"}
      /\ \A d \in Clients : read[d] <= sent[d] => read[d] <= sent'[d]
  <2>1. CASE PeerConnect(c)
    BY <2>1 DEF PeerConnect, PeerState
  <2>2. CASE PeerSend(c)
    BY <2>2 DEF PeerSend
  <2>3. CASE PeerClose(c)
    BY <2>3 DEF PeerClose, PeerState
  <2>4. CASE PeerReset(c)
    BY <2>4 DEF PeerReset, PeerState
  <2> QED
    BY <2>1, <2>2, <2>3, <2>4
<1> USE <1>1
<1> HIDE DEF Peer, PeerStep
<1>2. TypeOK' /\ MainInv' /\ PortInv' /\ SendInv' /\ HolderInv'
  BY DEF MainInv, PortInv, SendInv, Sending, HolderInv, Holds
<1>3. ConnInv' /\ BlockInv'
  BY DEF ConnInv, BlockInv, BlockOK, Active
<1>4. WorkerInv' /\ ReaderInv'
  BY DEF WorkerInv, WorkerOK, Holds, ReaderInv, Active
<1>5. StreamInv'
  BY DEF StreamInv, Active, WorkerInv, WorkerOK
<1> QED
  BY <1>2, <1>3, <1>4, <1>5

LEMMA NextKeeps ==
  ASSUME IInv, [Next]_vars PROVE IInv'
<1>1. CASE \E c \in Clients : Accept(c)
  BY <1>1, AcceptKeeps
<1>2. CASE Register
  BY <1>2, RegisterKeeps
<1>3. CASE FirstRecv
  BY <1>3, FirstRecvKeeps
<1>4. CASE \E w \in Workers : Worker(w)
  BY <1>4, DequeueKeeps, LoadKeyKeeps, CloseSockKeeps, FreeBothKeeps, SendBackKeeps,
     RecvNextKeeps, FreeIoKeeps DEF Worker
<1>5. CASE \E i \in Ios : Kernel(i)
  BY <1>5, CompleteReadKeeps, CompleteWriteKeeps DEF Kernel
<1>6. CASE \E c \in Clients : Peer(c)
  BY <1>6, PeerKeeps
<1>7. CASE UNCHANGED vars
  BY <1>7 DEF vars, tcpVars, srvVars, IInv, TypeOK, TcpTypeOK, IocpTypeOK, MainInv, ConnInv,
     WorkerInv, WorkerOK, Holds, HolderInv, BlockInv, BlockOK, Active, ReaderInv, PortInv,
     StreamInv, SendInv, Sending
<1> QED
  BY <1>1, <1>2, <1>3, <1>4, <1>5, <1>6, <1>7 DEF Next, MainThread

-----------------------------------------------------------------------------
\* The invariant holds in every state of every run.
THEOREM Invariance == Spec => []IInv
<1>1. Init => IInv
  BY InitIInv
<1>2. IInv /\ [Next]_vars => IInv'
  BY NextKeeps
<1> QED
  BY <1>1, <1>2, PTL DEF Spec

\* Every variable keeps its type, whatever a worker reads from a freed record.
THEOREM TypeCorrect == Spec => []TypeOK
<1>1. IInv => TypeOK
  BY DEF IInv
<1> QED
  BY <1>1, Invariance, PTL

\* The echo of a connection is never reordered, repeated or made up, however
\* many workers serve its packets.
THEOREM EchoStaysInOrder == Spec => []EchoInOrder
<1>1. IInv => EchoInOrder
  BY DEF IInv, StreamInv, SendInv, EchoInOrder
<1> QED
  BY <1>1, Invariance, PTL

\* No connection ever has two receivers.
THEOREM OneReaderAlways == Spec => []OneReader
<1>1. IInv => OneReader
  <2> SUFFICES ASSUME IInv, NEW c \in Clients, NEW x \in Readers(c), NEW y \in Readers(c)
               PROVE  x = y
    BY DEF OneReader
  <2> USE DEF IInv, ReaderInv
  <2>1. \/ main.pc # "accept" /\ main.client = c /\ x = <<"main", main>>
        \/ \E i \in Ios : Active(i) /\ io[i].client = c /\ x = <<"io", i>>
        \/ \E w \in Workers : wk[w].pc = "recv" /\ wk[w].sock = c /\ x = <<"wk", w>>
    BY DEF Readers, Active
  <2>2. \/ main.pc # "accept" /\ main.client = c /\ y = <<"main", main>>
        \/ \E i \in Ios : Active(i) /\ io[i].client = c /\ y = <<"io", i>>
        \/ \E w \in Workers : wk[w].pc = "recv" /\ wk[w].sock = c /\ y = <<"wk", w>>
    BY DEF Readers, Active
  <2> QED
    BY <2>1, <2>2
<1> QED
  BY <1>1, Invariance, PTL

\* Whoever is in the READ branch works on an open connection with a live
\* record: no receive, send, close or free after a close or free.
THEOREM ReadBranchSafe == Spec => []ReadBranchOwnsConn
<1>1. IInv => ReadBranchOwnsConn
  <2> SUFFICES ASSUME IInv, NEW w \in Workers
               PROVE  /\ wk[w].pc \in {"send", "recv", "close"} =>
                           /\ wk[w].sock \in Clients
                           /\ conn[wk[w].sock] = "open"
                           /\ key[wk[w].sock] = "live"
                      /\ wk[w].pc = "free" => conn[wk[w].key] = "closed" /\ key[wk[w].key] = "live"
    BY DEF ReadBranchOwnsConn
  <2> USE DEF IInv
  <2>1. CASE wk[w].pc \in {"send", "close"}
    BY <2>1, ReadBranchAlone DEF WorkerInv, WorkerOK, Active
  <2>2. CASE wk[w].pc \in {"recv", "free"}
    BY <2>2 DEF WorkerInv, WorkerOK
  <2> QED
    BY <2>1, <2>2
<1> QED
  BY <1>1, Invariance, PTL

\* Only a reset makes the server lose a block.
THEOREM LeakNeedsReset == Spec => []LeakOnlyAfterReset
<1>1. IInv => LeakOnlyAfterReset
  BY DEF IInv, BlockInv, BlockOK, LeakOnlyAfterReset
<1> QED
  BY <1>1, Invariance, PTL

\* No block gets lost in a worker: one that is held has a holder.
HeldInv == \A i \in Ios : io[i].st = "held" => \E w \in Workers : Holds(w) /\ wk[w].io = i

\* Worker w alone moves, and the block it held, if any, is given up.
LEMMA HeldGivenUp ==
  ASSUME IInv, HeldInv, NEW w \in Workers, NEW i \in Ios, NEW b, b.st # "held",
         io' = [io EXCEPT ![i] = b], Holds(w) => wk[w].io = i,
         \A v \in Workers : v # w => wk'[v] = wk[v]
  PROVE  HeldInv'
<1> SUFFICES ASSUME NEW j \in Ios, io'[j].st = "held"
             PROVE  \E v \in Workers : Holds(v)' /\ wk'[v].io = j
  BY DEF HeldInv
<1>1. j # i /\ io[j].st = "held"
  BY DEF IInv, TypeOK, IocpTypeOK
<1>2. PICK v \in Workers : Holds(v) /\ wk[v].io = j
  BY <1>1 DEF HeldInv
<1>3. v # w
  BY <1>1, <1>2
<1> QED
  BY <1>2, <1>3 DEF Holds

LEMMA HeldKeeps ==
  ASSUME IInv, HeldInv, [Next]_vars PROVE HeldInv'
<1> USE DEF IInv, TypeOK, IocpTypeOK
<1>1. CASE UNCHANGED <<io, wk>>
  BY <1>1 DEF HeldInv, Holds
<1>2. ASSUME NEW i \in Ios, NEW b, b.st # "held", io' = [io EXCEPT ![i] = b], UNCHANGED wk
      PROVE  HeldInv'
  <2> SUFFICES ASSUME NEW j \in Ios, io'[j].st = "held"
               PROVE  \E v \in Workers : Holds(v)' /\ wk'[v].io = j
    BY DEF HeldInv
  <2>1. io[j].st = "held"
    BY <1>2
  <2> QED
    BY <1>2, <2>1 DEF HeldInv, Holds
<1>3. CASE FirstRecv
  <2>1. Malloc \in Ios /\ RecvBlock(main.client).st # "held"
    BY <1>3, MallocIsFree DEF FirstRecv, RecvBlock
  <2> QED
    BY <1>2, <1>3, <2>1 DEF FirstRecv
<1>4. ASSUME NEW i \in Ios, Kernel(i) PROVE HeldInv'
  <2>1. UNCHANGED wk /\ \E b : io' = [io EXCEPT ![i] = b]
    BY <1>4 DEF Kernel, CompleteRead, CompleteWrite, Complete
  <2>2. PICK b : io' = [io EXCEPT ![i] = b]
    BY <2>1
  <2>3. io'[i].st = "queued"
    <3>1. io[i] \in IoRec
      OBVIOUS
    <3>2. CASE CompleteRead(i)
      <4>1. \/ \E n : io' = [io EXCEPT ![i] = [io[i] EXCEPT !.st = "queued", !.lo = read[io[i].client] + 1, !.n = n]]
            \/ io' = [io EXCEPT ![i] = [io[i] EXCEPT !.st = "queued"]]
        BY <3>2 DEF CompleteRead, Complete
      <4>2. ASSUME NEW n, io' = [io EXCEPT ![i] = [io[i] EXCEPT !.st = "queued", !.lo = read[io[i].client] + 1, !.n = n]]
            PROVE  io'[i].st = "queued"
        <5>1. io'[i] = [io[i] EXCEPT !.st = "queued", !.lo = read[io[i].client] + 1, !.n = n]
          BY <4>2
        <5> QED
          BY <3>1, <5>1 DEF IoRec
      <4>3. CASE io' = [io EXCEPT ![i] = [io[i] EXCEPT !.st = "queued"]]
        BY <3>1, <4>3 DEF IoRec
      <4> QED
        BY <4>1, <4>2, <4>3
    <3>3. CASE CompleteWrite(i)
      BY <3>1, <3>3 DEF CompleteWrite, Complete, IoRec
    <3> QED
      BY <1>4, <3>2, <3>3 DEF Kernel
  <2>4. b.st # "held"
    BY <2>2, <2>3
  <2> QED
    BY <1>2, <2>1, <2>2, <2>4
<1>5. ASSUME NEW w \in Workers, Dequeue(w) PROVE HeldInv'
  <2> DEFINE i == Head(port)
  <2>1. i \in Ios /\ port # << >> /\ ~Holds(w)
    BY <1>5, HeadTailProperties DEF Dequeue, Holds
  <2>2. Holds(w)' /\ wk'[w].io = i /\ \A v \in Workers : v # w => wk'[v] = wk[v]
    BY <1>5 DEF Dequeue, Holds
  <2> SUFFICES ASSUME NEW j \in Ios, io'[j].st = "held", j # i
               PROVE  \E v \in Workers : Holds(v)' /\ wk'[v].io = j
    BY <2>2 DEF HeldInv
  <2>3. io[j].st = "held"
    BY <1>5, <2>1 DEF Dequeue
  <2>4. PICK v \in Workers : Holds(v) /\ wk[v].io = j
    BY <2>3 DEF HeldInv
  <2> QED
    BY <2>1, <2>2, <2>4 DEF Holds
<1>6. ASSUME NEW w \in Workers, LoadKey(w) \/ CloseSock(w) PROVE HeldInv'
  <2>1. CASE LoadKey(w)
    <3>1. PICK s \in Clients \cup {NoSock} :
            wk' = [wk EXCEPT ![w].sock = s, ![w].pc = Branch(io[wk[w].io].mode, wk[w].n)]
      BY <2>1 DEF LoadKey
    <3>2. /\ wk'[w].io = wk[w].io /\ wk'[w].pc = Branch(io[wk[w].io].mode, wk[w].n)
          /\ \A v \in Workers : v # w => wk'[v] = wk[v]
      BY <3>1 DEF WorkerRec
    <3>3. \A v \in Workers : Holds(v) => Holds(v)' /\ wk'[v].io = wk[v].io
      BY <3>2 DEF Holds, Branch
    <3> QED
      BY <2>1, <3>3 DEF LoadKey, HeldInv
  <2>2. CASE CloseSock(w)
    <3>1. /\ wk'[w].io = wk[w].io /\ wk'[w].pc = "free"
          /\ \A v \in Workers : v # w => wk'[v] = wk[v]
      BY <2>2 DEF CloseSock, WorkerRec
    <3>2. \A v \in Workers : Holds(v) => Holds(v)' /\ wk'[v].io = wk[v].io
      BY <3>1 DEF Holds
    <3> QED
      BY <2>2, <3>2 DEF CloseSock, HeldInv
  <2> QED
    BY <1>6, <2>1, <2>2
<1>7. ASSUME NEW w \in Workers, FreeBoth(w) \/ FreeIo(w) \/ SendBack(w) PROVE HeldInv'
  <2>1. wk[w].io \in Ios
    BY <1>7 DEF FreeBoth, FreeIo, SendBack, Holds, WorkerInv, WorkerOK
  <2>2. \A v \in Workers : v # w => wk'[v] = wk[v]
    BY <1>7 DEF FreeBoth, FreeIo, SendBack
  <2>3. PICK b : b.st # "held" /\ io' = [io EXCEPT ![wk[w].io] = b]
    BY <1>7 DEF FreeBoth, FreeIo, SendBack, SendBlock, FreshIo
  <2> QED
    BY <2>1, <2>2, <2>3, HeldGivenUp
<1>8. ASSUME NEW w \in Workers, RecvNext(w) PROVE HeldInv'
  <2>1. Malloc \in Ios /\ RecvBlock(wk[w].sock).st # "held" /\ ~Holds(w)
    BY <1>8, MallocIsFree DEF RecvNext, RecvBlock, Holds
  <2>2. \A v \in Workers : v # w => wk'[v] = wk[v]
    BY <1>8 DEF RecvNext
  <2> QED
    BY <1>8, <2>1, <2>2, HeldGivenUp DEF RecvNext
<1>9. CASE (\E c \in Clients : Accept(c) \/ Peer(c)) \/ Register \/ UNCHANGED vars
  <2>1. UNCHANGED <<io, wk>>
    BY <1>9 DEF Accept, Peer, Register, vars, srvVars
  <2> QED
    BY <1>1, <2>1
<1> QED
  BY <1>3, <1>4, <1>5, <1>6, <1>7, <1>8, <1>9 DEF Next, MainThread, Worker

\* A block is in one packet if it is queued and in none otherwise, and with one
\* worker if it is held and with none otherwise.
THEOREM BlocksInOnePlace == Spec => []BlockInOnePlace
<1>1. IInv /\ HeldInv => BlockInOnePlace
  <2> SUFFICES ASSUME IInv, HeldInv, NEW i \in Ios
               PROVE  LET packets == {k \in 1..Len(port) : port[k] = i}
                          holders == {w \in Workers : wk[w].pc \notin {"wait", "recv"} /\ wk[w].io = i}
                      IN /\ \A x, y \in packets : x = y
                         /\ \A x, y \in holders : x = y
                         /\ (packets # {}) <=> (io[i].st = "queued")
                         /\ (holders # {}) <=> (io[i].st = "held")
    BY DEF BlockInOnePlace
  <2> DEFINE packets == {k \in 1..Len(port) : port[k] = i}
             holders == {w \in Workers : wk[w].pc \notin {"wait", "recv"} /\ wk[w].io = i}
  <2>1. (\A x, y \in packets : x = y) /\ ((packets # {}) <=> (io[i].st = "queued"))
    BY DEF IInv, PortInv
  <2>2. \A w \in Workers : Holds(w) <=> wk[w].pc \notin {"wait", "recv"}
    BY DEF IInv, TypeOK, IocpTypeOK, Holds, WorkerRec, WorkerPc
  <2>3. \A x, y \in holders : x = y
    BY <2>2 DEF IInv, HolderInv
  <2>4. (holders # {}) <=> (io[i].st = "held")
    BY <2>2 DEF IInv, WorkerInv, WorkerOK, HeldInv
  <2> QED
    BY <2>1, <2>3, <2>4
<1>2. Init => HeldInv
  BY DEF Init, HeldInv, FreshIo
<1>3. IInv /\ HeldInv /\ [Next]_vars => HeldInv'
  BY HeldKeeps
<1> QED
  BY <1>1, <1>2, <1>3, Invariance, PTL DEF Spec

-----------------------------------------------------------------------------
LEMMA StreamsArePrefixes == IInv => PrefixOK
<1> SUFFICES ASSUME IInv, NEW c \in Clients
             PROVE  /\ wire[c] = Chunk(1, Len(wire[c])) /\ Len(wire[c]) \in Nat
                    /\ delivered[c] \in 0..Len(wire[c])
  BY DEF PrefixOK
<1>1. wire[c] \in Seq(Nat) /\ delivered[c] \in Nat
  BY DEF IInv, TypeOK, TcpTypeOK
<1>2. Len(wire[c]) \in Nat
  BY <1>1
<1>3. wire[c] = Chunk(1, Len(wire[c])) /\ delivered[c] <= Len(wire[c])
  BY DEF IInv, StreamInv, SendInv
<1> QED
  BY <1>1, <1>2, <1>3

LEMMA StreamsStayPrefixes == IInv' => PrefixOK'
  BY StreamsArePrefixes, PTL

\* A step of the server is a step of the service, or invisible to it.
LEMMA StepImplements ==
  ASSUME IInv, IInv', [Next]_vars PROVE [Service!Next]_(Service!vars)
<1> DEFINE Left == [c \in Clients |-> peer[c] \in {"fin", "rst"}]
           Released == [c \in Clients |-> conn[c] = "closed"]
<1> USE DEF Service!Next, Service!vars
<1>1. ASSUME UNCHANGED <<peer, sent, wire, delivered, conn>> PROVE UNCHANGED Service!vars
  BY <1>1
<1>2. CASE \E c \in Clients : Accept(c)
  <2>1. PICK c \in Clients : Accept(c)
    BY <1>2
  <2>2. conn[c] = "none" /\ conn'[c] \in {"open", "invalid"} /\ \A d \in Clients : d # c => conn'[d] = conn[d]
    BY <2>1 DEF Accept, IInv, TypeOK, IocpTypeOK
  <2>3. Released' = Released
    BY <2>2
  <2> QED
    BY <2>1, <2>3 DEF Accept, tcpVars
<1>3. CASE Register \/ FirstRecv
  BY <1>1, <1>3 DEF Register, FirstRecv, tcpVars
<1>4. ASSUME NEW w \in Workers,
             Dequeue(w) \/ LoadKey(w) \/ FreeBoth(w) \/ RecvNext(w) \/ FreeIo(w)
      PROVE  UNCHANGED Service!vars
  BY <1>1, <1>4 DEF Dequeue, LoadKey, FreeBoth, RecvNext, FreeIo, tcpVars
<1>5. ASSUME NEW w \in Workers, CloseSock(w)
      PROVE  Service!Next
  <2> DEFINE c == wk[w].sock
  <2>1. /\ c \in Clients /\ c = wk[w].key /\ io[wk[w].io].client = c
        /\ wk[w].io \in Ios /\ Active(wk[w].io) /\ io[wk[w].io].st = "held"
    BY <1>5, ReadBranchAlone DEF CloseSock
  <2>2. wk[w].n = 0 /\ wk[w].n = io[wk[w].io].n /\ conn[c] = "open"
    BY <1>5, <2>1 DEF CloseSock, IInv, WorkerInv, WorkerOK, Holds, Active
  <2>3. peer[c] \in {"fin", "rst"}
    BY <2>1, <2>2 DEF IInv, BlockInv, BlockOK
  <2>4. conn' = [conn EXCEPT ![c] = "closed"] /\ UNCHANGED tcpVars
    BY <1>5 DEF CloseSock
  <2>5. Released' = [Released EXCEPT ![c] = TRUE] /\ Released[c] = FALSE /\ Left[c] = TRUE
    BY <2>1, <2>2, <2>3, <2>4 DEF IInv, TypeOK, IocpTypeOK
  <2> QED
    BY <2>1, <2>4, <2>5 DEF Service!Release, tcpVars
<1>6. ASSUME NEW w \in Workers, SendBack(w)
      PROVE  UNCHANGED Service!vars
  <2>1. UNCHANGED <<peer, sent, delivered, conn>>
    BY <1>6 DEF SendBack
  <2>2. Returned' = Returned
    BY <2>1, ReturnedKept, StreamsArePrefixes, StreamsStayPrefixes
  <2> QED
    BY <2>1, <2>2 DEF Returned
<1>7. ASSUME NEW i \in Ios, CompleteRead(i)
      PROVE  UNCHANGED Service!vars
  BY <1>1, <1>7 DEF CompleteRead
<1>8. ASSUME NEW i \in Ios, CompleteWrite(i)
      PROVE  [Service!Next]_(Service!vars)
  <2> DEFINE c == io[i].client
             n == io[i].n
  <2>1. /\ c \in Clients /\ Sending(i) /\ n \in Nat
        /\ UNCHANGED <<peer, sent, wire, conn>>
        /\ delivered' = [delivered EXCEPT ![c] = IF CallFails(c) THEN @ ELSE @ + n]
    BY <1>8 DEF CompleteWrite, PendingSends, Sending, IInv, BlockInv, BlockOK, TypeOK, IocpTypeOK, IoRec
  <2>2. CASE CallFails(c)
    <3>1. delivered' = delivered
      BY <2>1, <2>2 DEF IInv, TypeOK, TcpTypeOK
    <3> QED
      BY <2>1, <3>1
  <2>3. CASE ~CallFails(c)
    <3>1. /\ delivered[c] \in Nat /\ delivered'[c] = delivered[c] + n /\ n > 0
          /\ \A d \in Clients : d # c => delivered'[d] = delivered[d]
          /\ conn[c] = "open" /\ sent[c] \in Nat
      BY <2>1, <2>3 DEF CallFails, IInv, TypeOK, TcpTypeOK, SendInv
    <3>2. delivered[c] + n <= sent[c]
      <4>1. delivered'[c] <= Len(wire'[c]) /\ Len(wire'[c]) <= read'[c] /\ read'[c] <= sent'[c]
        BY <2>1 DEF IInv, SendInv, StreamInv, ConnInv
      <4>2. Len(wire'[c]) \in Nat /\ read'[c] \in Nat /\ sent'[c] \in Nat /\ delivered'[c] \in Nat
        BY <2>1 DEF IInv, TypeOK, TcpTypeOK
      <4> QED
        BY <2>1, <3>1, <4>1, <4>2
    <3>3. /\ Returned[c] = Chunk(1, delivered[c]) /\ Len(Returned[c]) = delivered[c]
          /\ Returned' = [Returned EXCEPT ![c] = @ \o [k \in 1..n |-> Len(Returned[c]) + k]]
      BY <2>1, <3>1, ReturnedGrows, StreamsArePrefixes, StreamsStayPrefixes
    <3>4. n \in 1..(sent[c] - Len(Returned[c]))
      BY <2>1, <3>1, <3>2, <3>3
    <3>5. Released[c] = FALSE
      BY <2>1, <3>1
    <3>6. Service!Next
      BY <2>1, <3>3, <3>4, <3>5 DEF Service!Echo, Returned
    <3> QED
      BY <3>6
  <2> QED
    BY <2>2, <2>3
<1>9. ASSUME NEW c \in Clients, Peer(c)
      PROVE  [Service!Next]_(Service!vars)
  <2>1. UNCHANGED <<wire, delivered, conn>> /\ peer \in [Clients -> PeerState]
    BY <1>9 DEF Peer, PeerStep, PeerConnect, PeerSend, PeerClose, PeerReset, srvVars, IInv, TypeOK, TcpTypeOK
  <2>2. CASE PeerConnect(c)
    <3>1. UNCHANGED sent /\ Left' = Left
      BY <2>1, <2>2 DEF PeerConnect
    <3> QED
      BY <2>1, <3>1
  <2>3. CASE PeerSend(c)
    <3>1. Service!Send(c)
      BY <2>1, <2>3 DEF PeerSend, Service!Send
    <3> QED
      BY <3>1
  <2>4. CASE PeerClose(c)
    <3>1. UNCHANGED sent /\ Left[c] = FALSE /\ Left' = [Left EXCEPT ![c] = TRUE]
      BY <2>1, <2>4, LeftGrows DEF PeerClose
    <3>2. Service!Leave(c)
      BY <2>1, <3>1 DEF Service!Leave
    <3> QED
      BY <3>2
  <2>5. CASE PeerReset(c)
    <3>1. CASE peer[c] = "open"
      <4>1. UNCHANGED sent /\ Left[c] = FALSE /\ Left' = [Left EXCEPT ![c] = TRUE]
        BY <2>1, <2>5, <3>1, LeftGrows DEF PeerReset
      <4>2. Service!Leave(c)
        BY <2>1, <4>1 DEF Service!Leave
      <4> QED
        BY <4>2
    <3>2. CASE peer[c] = "fin"
      <4>1. UNCHANGED sent /\ Left' = Left
        BY <2>1, <2>5, <3>2 DEF PeerReset
      <4> QED
        BY <2>1, <4>1
    <3> QED
      BY <2>5, <3>1, <3>2 DEF PeerReset
  <2> QED
    BY <1>9, <2>2, <2>3, <2>4, <2>5 DEF Peer, PeerStep
<1>10. CASE UNCHANGED vars
  BY <1>1, <1>10 DEF vars, tcpVars, srvVars
<1> QED
  BY <1>2, <1>3, <1>4, <1>5, <1>6, <1>7, <1>8, <1>9, <1>10 DEF Next, MainThread, Worker, Kernel

\* Everything the completion-port server does is something an echo service
\* may do: prefixes come back in order, nothing after the release, no release
\* before the client has left.
THEOREM ImplementsServiceSafety == Spec => Service!Init /\ [][Service!Next]_(Service!vars)
<1>1. Init => Service!Init
  <2> SUFFICES ASSUME Init PROVE Service!Init
    OBVIOUS
  <2>1. [c \in Clients |-> SubSeq(wire[c], 1, delivered[c])] = [c \in Clients |-> << >>]
    BY DEF Init, TcpInit
  <2>2. [c \in Clients |-> peer[c] \in {"fin", "rst"}] = [c \in Clients |-> FALSE]
    <3>1. \A c \in Clients : peer[c] = "away"
      BY DEF Init, TcpInit
    <3>2. ASSUME NEW c \in Clients PROVE (peer[c] \in {"fin", "rst"}) = FALSE
      <4>1. peer[c] = "away"
        BY <3>1
      <4>2. peer[c] \notin {"fin", "rst"}
        BY <4>1
      <4> QED
        BY <4>2
    <3> QED
      BY <3>2
  <2>3. [c \in Clients |-> conn[c] = "closed"] = [c \in Clients |-> FALSE]
    BY DEF Init
  <2> QED
    BY <2>1, <2>2, <2>3 DEF Init, TcpInit, Service!Init
<1>2. IInv /\ IInv' /\ [Next]_vars => [Service!Next]_(Service!vars)
  BY StepImplements
<1> QED
  BY <1>1, <1>2, Invariance, PTL DEF Spec
=============================================================================
