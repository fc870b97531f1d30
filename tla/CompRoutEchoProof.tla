------------------------- MODULE CompRoutEchoProof -------------------------
(***************************************************************************)
(* CompRoutEcho for any number of clients, any BUF_LEN and any number of   *)
(* bytes: the inductive invariant, and what it implies.                    *)
(***************************************************************************)
EXTENDS CompRoutEcho, TcpPeerProof

ClientOK(c) == ConnOK(c) /\ StreamOK(c) /\ PairOK(c)

\* What is known of a connection stays known while a step is about others.
LEMMA ClientUntouched ==
  ASSUME NEW d \in Clients, ClientOK(d),
         conn'[d] = conn[d], block'[d] = block[d], wire'[d] = wire[d], read'[d] = read[d],
         delivered'[d] = delivered[d], sent'[d] = sent[d], peer'[d] = peer[d]
  PROVE  ClientOK(d)'
  BY DEF ClientOK, ConnOK, StreamOK, PairOK

LEMMA InitIInv == Init => IInv
<1> SUFFICES ASSUME Init PROVE IInv
  OBVIOUS
<1> USE DEF Init, TcpInit
<1>1. TypeOK
  BY CompRoutAssumption DEF TypeOK, TcpTypeOK, CompRoutTypeOK, PeerState, Block
<1>2. MainInv /\ ApcInv
  BY DEF MainInv, ApcInv
<1>3. ASSUME NEW c \in Clients PROVE ConnOK(c) /\ StreamOK(c) /\ PairOK(c)
  BY DEF ConnOK, StreamOK, PairOK, Chunk
<1> QED
  BY <1>1, <1>2, <1>3 DEF IInv

\* The kernel turns a posted block into a queued one and appends its routine.
LEMMA ApcQueued ==
  ASSUME IInv, NEW c \in Clients, NEW b \in Block, block[c].st = "posted",
         Queue(c, b), b.st = "queued"
  PROVE  ApcInv' /\ apcs' \in Seq(Clients) /\ block' \in [Clients -> Block]
<1> USE DEF IInv, TypeOK, CompRoutTypeOK, Queue
<1>1. apcs' \in Seq(Clients) /\ Len(apcs') = Len(apcs) + 1 /\ Len(apcs) \in Nat
      /\ apcs'[Len(apcs) + 1] = c /\ \A k \in 1..Len(apcs) : apcs'[k] = apcs[k]
  BY AppendProperties
<1>2. block' \in [Clients -> Block] /\ block'[c] = b
      /\ \A d \in Clients : d # c => block'[d] = block[d]
  OBVIOUS
<1>3. \A k \in 1..Len(apcs) : apcs[k] \in Clients /\ apcs[k] # c
  BY DEF ApcInv
<1>4. \A k \in 1..Len(apcs') : block'[apcs'[k]].st = "queued"
  BY <1>1, <1>2, <1>3 DEF ApcInv
<1>5. \A j, k \in 1..Len(apcs') : apcs'[j] = apcs'[k] => j = k
  BY <1>1, <1>3 DEF ApcInv
<1> QED
  BY <1>1, <1>2, <1>4, <1>5 DEF ApcInv

\* A routine that runs leaves the queue, whatever becomes of its block.
LEMMA ApcRun ==
  ASSUME IInv, NEW c \in Clients, NEW op, Run(c, op), NEW b \in Block,
         block' = [block EXCEPT ![c] = b]
  PROVE  /\ ApcInv' /\ apcs' \in Seq(Clients) /\ block' \in [Clients -> Block]
         /\ block[c].st = "queued" /\ block[c].op = op /\ pc = "sleep" /\ conn[c] = "open"
<1> USE DEF IInv, TypeOK, CompRoutTypeOK, Run
<1>1. apcs' \in Seq(Clients) /\ Len(apcs') = Len(apcs) - 1 /\ Len(apcs) \in Nat \ {0}
      /\ apcs[1] = c /\ \A k \in 1..Len(apcs') : apcs'[k] = apcs[k + 1]
  BY HeadTailProperties, EmptySeq
<1>2. block[c].st = "queued"
  BY <1>1 DEF ApcInv
<1>3. block' \in [Clients -> Block] /\ \A d \in Clients : d # c => block'[d] = block[d]
  OBVIOUS
<1>4. \A k \in 1..Len(apcs') : apcs'[k] # c /\ block[apcs'[k]].st = "queued" /\ apcs'[k] \in Clients
  BY <1>1 DEF ApcInv
<1>5. \A k \in 1..Len(apcs') : block'[apcs'[k]].st = "queued"
  BY <1>3, <1>4
<1>6. \A j, k \in 1..Len(apcs') : apcs'[j] = apcs'[k] => j = k
  BY <1>1 DEF ApcInv
<1> QED
  BY <1>1, <1>2, <1>3, <1>5, <1>6 DEF ApcInv, ConnOK

LEMMA CompleteReadKeeps ==
  ASSUME IInv, NEW c \in Clients, CompleteRead(c) PROVE IInv'
<1> USE CompRoutAssumption DEF IInv, TypeOK, TcpTypeOK, CompRoutTypeOK
<1>1. /\ block[c].st = "posted" /\ block[c].op = "read" /\ block[c] \in Block
      /\ UNCHANGED <<peer, sent, wire, delivered, conn, pc, cur>>
  BY DEF CompleteRead
<1>2. ASSUME NEW n \in 0..BufLen, NEW b \in Block, b.st = "queued", b.op = "read", b.n = n, Queue(c, b),
             read' \in [Clients -> Nat], read'[c] = read[c] + n, read[c] + n <= sent[c],
             \A d \in Clients : d # c => read'[d] = read[d],
             n = 0 => peer[c] \in {"fin", "rst"},
             n > 0 => b.lo = read[c] + 1 /\ peer[c] # "rst"
      PROVE  IInv'
  <2>1. ApcInv' /\ apcs' \in Seq(Clients) /\ block' \in [Clients -> Block]
    BY <1>1, <1>2, ApcQueued
  <2>2. block'[c] = b /\ read'[c] = read[c] + n /\ read[c] \in Nat
        /\ \A d \in Clients : d # c => block'[d] = block[d] /\ read'[d] = read[d]
    BY <1>2 DEF Queue
  <2>3. TypeOK'
    BY <1>1, <1>2, <2>1
  <2>4. MainInv'
    BY <1>1, <2>2 DEF MainInv
  <2>5. ClientOK(c)'
    <3>1. ConnOK(c)'
      BY <1>1, <1>2, <2>2 DEF ConnOK
    <3>2. StreamOK(c)'
      BY <1>1, <1>2, <2>2 DEF StreamOK
    <3>3. PairOK(c)'
      <4>1. peer[c] = "rst" \/ read[c] = Len(wire[c])
        BY <1>1 DEF PairOK
      <4>2. /\ block'[c] = b /\ b.st = "queued" /\ b.op = "read" /\ b.n = n /\ n \in 0..BufLen
            /\ peer'[c] = peer[c] /\ wire'[c] = wire[c] /\ read[c] \in Nat
            /\ read'[c] = read[c] + n
        BY <1>1, <1>2, <2>2
      <4> QED
        BY ONLY <1>2, <4>1, <4>2 DEF PairOK
    <3> QED
      BY <3>1, <3>2, <3>3 DEF ClientOK
  <2>6. ASSUME NEW d \in Clients, d # c PROVE ClientOK(d)'
    BY <1>1, <2>2, <2>6, ClientUntouched DEF ClientOK
  <2> QED
    BY <2>1, <2>3, <2>4, <2>5, <2>6 DEF ClientOK
<1>3. CASE \E n \in 1..block[c].len :
             /\ peer[c] # "rst" /\ n <= Unread(c)
             /\ Queue(c, [block[c] EXCEPT !.st = "queued", !.lo = read[c] + 1, !.n = n])
             /\ read' = [read EXCEPT ![c] = @ + n]
  <2>1. PICK n \in 1..block[c].len :
             /\ peer[c] # "rst" /\ n <= Unread(c)
             /\ Queue(c, [block[c] EXCEPT !.st = "queued", !.lo = read[c] + 1, !.n = n])
             /\ read' = [read EXCEPT ![c] = @ + n]
    BY <1>3
  <2> DEFINE b == [block[c] EXCEPT !.st = "queued", !.lo = read[c] + 1, !.n = n]
  <2>2. n \in 1..BufLen /\ read[c] \in Nat
    BY <1>1 DEF Block
  <2>3. b \in Block /\ b.st = "queued" /\ b.op = "read" /\ b.n = n /\ b.lo = read[c] + 1
    <3>1. block[c] \in Block /\ block[c].op = "read" /\ n \in 0..BufLen /\ read[c] + 1 \in Nat
      BY <1>1, <2>2
    <3> QED
      BY ONLY <3>1 DEF Block
  <2>4. read[c] + n <= sent[c]
    BY <2>1, <2>2 DEF Unread
  <2>5. /\ n \in 0..BufLen /\ n # 0 /\ Queue(c, b)
        /\ read' \in [Clients -> Nat] /\ read'[c] = read[c] + n
        /\ \A d \in Clients : d # c => read'[d] = read[d]
    BY <2>1, <2>2
  <2> HIDE DEF b
  <2> QED
    BY <1>2, <2>1, <2>3, <2>4, <2>5
<1>4. CASE /\ peer[c] \in {"fin", "rst"}
           /\ Queue(c, [block[c] EXCEPT !.st = "queued", !.n = 0])
           /\ UNCHANGED read
  <2> DEFINE b == [block[c] EXCEPT !.st = "queued", !.n = 0]
  <2>1. b \in Block /\ b.st = "queued" /\ b.op = "read" /\ b.n = 0
    <3>1. block[c] \in Block /\ block[c].op = "read" /\ 0 \in 0..BufLen
      BY <1>1
    <3> QED
      BY ONLY <3>1 DEF Block
  <2>2. /\ read' \in [Clients -> Nat] /\ read'[c] = read[c] + 0 /\ read[c] + 0 <= sent[c]
        /\ \A d \in Clients : d # c => read'[d] = read[d]
    BY <1>4 DEF StreamOK
  <2>3. 0 \in 0..BufLen /\ Queue(c, b) /\ peer[c] \in {"fin", "rst"}
    BY <1>4
  <2>4. (0 = 0 => peer[c] \in {"fin", "rst"}) /\ ~(0 > 0)
    BY <2>3
  <2> HIDE DEF b, IInv, Queue
  <2> QED
    BY <1>2, <2>1, <2>2, <2>3, <2>4, Zenon
<1> QED
  BY <1>3, <1>4 DEF CompleteRead

LEMMA CompleteWriteKeeps ==
  ASSUME IInv, NEW c \in Clients, CompleteWrite(c) PROVE IInv'
<1> USE CompRoutAssumption DEF IInv, TypeOK, TcpTypeOK, CompRoutTypeOK
<1> DEFINE b == [block[c] EXCEPT !.st = "queued"]
<1>1. /\ block[c].st = "posted" /\ block[c].op = "write" /\ block[c] \in Block
      /\ b \in Block /\ b.st = "queued" /\ b.op = "write" /\ Queue(c, b)
      /\ UNCHANGED <<peer, sent, read, wire, conn, pc, cur>>
  BY DEF CompleteWrite, Block
<1>2. ApcInv' /\ apcs' \in Seq(Clients) /\ block' \in [Clients -> Block]
  BY <1>1, ApcQueued
<1>3. /\ block'[c] = b /\ \A d \in Clients : d # c => block'[d] = block[d]
      /\ delivered' \in [Clients -> Nat]
      /\ delivered'[c] = (IF peer[c] = "rst" THEN delivered[c] ELSE Len(wire[c]))
      /\ \A d \in Clients : d # c => delivered'[d] = delivered[d]
  BY <1>1 DEF CompleteWrite, Queue
<1> HIDE DEF b
<1>4. TypeOK' /\ MainInv'
  BY <1>1, <1>2, <1>3 DEF MainInv
<1>5. ClientOK(c)'
  <2>1. ConnOK(c)' /\ StreamOK(c)'
    BY <1>1, <1>3 DEF ConnOK, StreamOK
  <2>2. PairOK(c)'
    BY <1>1, <1>3 DEF PairOK
  <2> QED
    BY <2>1, <2>2 DEF ClientOK
<1>6. ASSUME NEW d \in Clients, d # c PROVE ClientOK(d)'
  BY <1>1, <1>3, <1>6, ClientUntouched DEF ClientOK
<1> QED
  BY <1>2, <1>4, <1>5, <1>6 DEF ClientOK

LEMMA ReadEndKeeps ==
  ASSUME IInv, NEW c \in Clients, ReadEnd(c) PROVE IInv'
<1> USE CompRoutAssumption DEF IInv, TypeOK, TcpTypeOK, CompRoutTypeOK
<1> DEFINE b == [block[c] EXCEPT !.st = "freed"]
<1>1. /\ Run(c, "read") /\ block' = [block EXCEPT ![c] = b]
      /\ block[c] \in Block /\ b \in Block /\ b.st = "freed"
      /\ conn' = [conn EXCEPT ![c] = "closed"] /\ UNCHANGED <<tcpVars, pc, cur>>
  BY DEF ReadEnd, Block
<1>2. /\ ApcInv' /\ apcs' \in Seq(Clients) /\ block' \in [Clients -> Block]
      /\ block[c].st = "queued" /\ pc = "sleep" /\ conn[c] = "open"
  BY <1>1, ApcRun
<1>3. /\ block'[c] = b /\ conn'[c] = "closed"
      /\ \A d \in Clients : d # c => block'[d] = block[d] /\ conn'[d] = conn[d]
  BY <1>1
<1> HIDE DEF b
<1>4. TypeOK' /\ MainInv'
  BY <1>1, <1>2 DEF MainInv, tcpVars
<1>5. ClientOK(c)'
  BY <1>1, <1>3 DEF ClientOK, ConnOK, StreamOK, PairOK, tcpVars
<1>6. ASSUME NEW d \in Clients, d # c PROVE ClientOK(d)'
  BY <1>1, <1>3, <1>6, ClientUntouched DEF ClientOK, tcpVars
<1> QED
  BY <1>2, <1>4, <1>5, <1>6 DEF ClientOK

LEMMA ReadDataKeeps ==
  ASSUME IInv, NEW c \in Clients, ReadData(c) PROVE IInv'
<1> USE CompRoutAssumption DEF IInv, TypeOK, TcpTypeOK, CompRoutTypeOK
<1> DEFINE b == [Post(c, "write") EXCEPT !.len = block[c].n]
           n == block[c].n
<1>1. /\ Run(c, "read") /\ block' = [block EXCEPT ![c] = b] /\ block[c] \in Block /\ n > 0 /\ n \in 0..BufLen
      /\ wire' = IF peer[c] = "rst" THEN wire ELSE [wire EXCEPT ![c] = @ \o Received(c)]
      /\ UNCHANGED <<peer, sent, read, delivered, conn, pc, cur>>
  BY DEF ReadData, Block
<1>2. b \in Block /\ b.op = "write" /\ b.st = (IF peer[c] = "rst" THEN "lost" ELSE "posted")
  <2>1. block[c] \in Block /\ block[c].n \in 0..BufLen
    BY <1>1
  <2> QED
    BY ONLY <2>1 DEF Block, Post
<1>3. /\ ApcInv' /\ apcs' \in Seq(Clients) /\ block' \in [Clients -> Block]
      /\ block[c].st = "queued" /\ block[c].op = "read" /\ pc = "sleep" /\ conn[c] = "open"
  BY <1>1, <1>2, ApcRun
<1>4. block'[c] = b /\ \A d \in Clients : d # c => block'[d] = block[d] /\ wire'[d] = wire[d]
  BY <1>1
<1>5. block[c].lo = Len(wire[c]) + 1 /\ read[c] = Len(wire[c]) + n /\ Len(wire[c]) \in Nat
  BY <1>1, <1>3 DEF PairOK
<1>6. ASSUME peer[c] # "rst"
      PROVE  wire'[c] = Chunk(1, Len(wire[c]) + n) /\ wire'[c] \in Seq(Nat) /\ Len(wire'[c]) = Len(wire[c]) + n
  <2>1. Received(c) = Chunk(Len(wire[c]) + 1, n)
    BY <1>5 DEF Received
  <2>2. wire'[c] = wire[c] \o Received(c) /\ wire[c] = Chunk(1, Len(wire[c]))
    BY <1>1, <1>6 DEF StreamOK
  <2>3. wire'[c] = Chunk(1, Len(wire[c]) + n)
    <3>1. n \in Nat
      BY <1>1
    <3> QED
      BY <1>5, <2>1, <2>2, <3>1, ChunkConcat
  <2>4. ASSUME NEW m \in Nat PROVE Chunk(1, m) \in Seq(Nat) /\ Len(Chunk(1, m)) = m
    BY DEF Chunk
  <2>5. Len(wire[c]) + n \in Nat
    BY <1>1, <1>5
  <2> QED
    BY <2>3, <2>4, <2>5
<1>7. wire' \in [Clients -> Seq(Nat)]
  BY <1>1, <1>6
<1> HIDE DEF b
<1>8. TypeOK' /\ MainInv'
  BY <1>1, <1>3, <1>7 DEF MainInv
<1>9. ClientOK(c)'
  <2>1. ConnOK(c)'
    BY <1>1, <1>2, <1>3, <1>4 DEF ConnOK
  <2>2. StreamOK(c)'
    BY <1>1, <1>5, <1>6 DEF StreamOK
  <2>3. PairOK(c)'
    BY <1>1, <1>2, <1>4, <1>5, <1>6 DEF PairOK
  <2> QED
    BY <2>1, <2>2, <2>3 DEF ClientOK
<1>10. ASSUME NEW d \in Clients, d # c PROVE ClientOK(d)'
  BY <1>1, <1>4, <1>10, ClientUntouched DEF ClientOK
<1> QED
  BY <1>3, <1>8, <1>9, <1>10 DEF ClientOK

LEMMA WriteDoneKeeps ==
  ASSUME IInv, NEW c \in Clients, WriteDone(c) PROVE IInv'
<1> USE CompRoutAssumption DEF IInv, TypeOK, TcpTypeOK, CompRoutTypeOK
<1> DEFINE b == [Post(c, "read") EXCEPT !.len = BufLen]
<1>1. /\ Run(c, "write") /\ block' = [block EXCEPT ![c] = b] /\ block[c] \in Block
      /\ UNCHANGED <<tcpVars, conn, pc, cur>>
  BY DEF WriteDone
<1>2. b \in Block /\ b.op = "read" /\ b.st = (IF peer[c] = "rst" THEN "lost" ELSE "posted")
  <2>1. block[c] \in Block /\ BufLen \in 0..BufLen
    BY <1>1
  <2> QED
    BY ONLY <2>1 DEF Block, Post
<1>3. /\ ApcInv' /\ apcs' \in Seq(Clients) /\ block' \in [Clients -> Block]
      /\ block[c].st = "queued" /\ block[c].op = "write" /\ pc = "sleep" /\ conn[c] = "open"
  BY <1>1, <1>2, ApcRun
<1>4. block'[c] = b /\ \A d \in Clients : d # c => block'[d] = block[d]
  BY <1>1
<1> HIDE DEF b
<1>5. TypeOK' /\ MainInv'
  BY <1>1, <1>3 DEF MainInv, tcpVars
<1>6. ClientOK(c)'
  BY <1>1, <1>2, <1>3, <1>4 DEF ClientOK, ConnOK, StreamOK, PairOK, tcpVars
<1>7. ASSUME NEW d \in Clients, d # c PROVE ClientOK(d)'
  BY <1>1, <1>4, <1>7, ClientUntouched DEF ClientOK, tcpVars
<1> QED
  BY <1>3, <1>5, <1>6, <1>7 DEF ClientOK

LEMMA FirstRecvKeeps ==
  ASSUME IInv, FirstRecv PROVE IInv'
<1> USE CompRoutAssumption DEF IInv, TypeOK, TcpTypeOK, CompRoutTypeOK
<1> PICK c \in Clients : c = cur
  BY DEF FirstRecv, MainInv
<1> DEFINE b == Post(c, "read")
<1>1. /\ conn[c] = "open" /\ block[c].st = "none" /\ block[c] \in Block
      /\ block' = [block EXCEPT ![c] = b]
      /\ pc' = "sleep" /\ cur' = NoSock /\ UNCHANGED <<tcpVars, conn, apcs>>
  BY DEF FirstRecv, MainInv
<1>2. b \in Block /\ b.op = "read" /\ b.st = (IF peer[c] = "rst" THEN "lost" ELSE "posted")
  <2>1. block[c] \in Block
    BY <1>1
  <2> QED
    BY ONLY <2>1 DEF Block, Post
<1>3. /\ block'[c] = b /\ block' \in [Clients -> Block]
      /\ \A d \in Clients : d # c => block'[d] = block[d]
  <2>1. block \in [Clients -> Block]
    OBVIOUS
  <2> QED
    BY ONLY <1>1, <1>2, <2>1
<1>4. read[c] = 0 /\ Len(wire[c]) = 0 /\ delivered[c] = 0
  BY <1>1 DEF PairOK, StreamOK
<1>5. ApcInv'
  <2>1. apcs \in Seq(Clients) /\ apcs' = apcs /\ block[c].st = "none" /\ ApcInv
    BY <1>1
  <2>2. \A k \in 1..Len(apcs) : apcs[k] \in Clients /\ apcs[k] # c
    BY ONLY <2>1 DEF ApcInv
  <2>3. \A d \in Clients : d # c => block'[d] = block[d]
    BY ONLY <1>3
  <2> QED
    BY ONLY <2>1, <2>2, <2>3 DEF ApcInv
<1> HIDE DEF b
<1>6. TypeOK' /\ MainInv'
  BY <1>1, <1>3 DEF MainInv, tcpVars
<1>7. ClientOK(c)'
  <2>1. /\ conn'[c] = "open" /\ block'[c].op = "read" /\ block'[c].st \in {"lost", "posted"}
        /\ read'[c] = 0 /\ Len(wire'[c]) = 0 /\ delivered'[c] = 0
    BY <1>1, <1>2, <1>3, <1>4 DEF tcpVars
  <2>2. ConnOK(c)' /\ PairOK(c)'
    BY <2>1 DEF ConnOK, PairOK
  <2>3. StreamOK(c)'
    BY <1>1 DEF StreamOK, tcpVars
  <2> QED
    BY <2>2, <2>3 DEF ClientOK
<1>8. ASSUME NEW d \in Clients, d # c PROVE ClientOK(d)'
  BY <1>1, <1>3, <1>8, ClientUntouched DEF ClientOK, tcpVars
<1> QED
  BY <1>5, <1>6, <1>7, <1>8 DEF ClientOK

LEMMA AcceptKeeps ==
  ASSUME IInv, NEW c \in Clients, AcceptClient(c) PROVE IInv'
<1> USE CompRoutAssumption DEF IInv, TypeOK, TcpTypeOK, CompRoutTypeOK
<1>1. /\ conn[c] = "none" /\ conn' = [conn EXCEPT ![c] = "open"]
      /\ pc' = "recv" /\ cur' = c /\ UNCHANGED <<tcpVars, block, apcs>>
  BY DEF AcceptClient, Pending
<1>2. TypeOK' /\ ApcInv'
  BY <1>1 DEF ApcInv, tcpVars
<1>3. MainInv'
  BY <1>1 DEF MainInv, ConnOK
<1>4. ASSUME NEW d \in Clients PROVE ConnOK(d)' /\ StreamOK(d)' /\ PairOK(d)'
  BY <1>1 DEF ConnOK, StreamOK, PairOK, tcpVars
<1> QED
  BY <1>2, <1>3, <1>4

\* A step of main that is only about where it is.
LEMMA MainKeeps ==
  ASSUME IInv, pc' \in {"sleep", "accept", "exit"}, UNCHANGED <<tcpVars, conn, block, apcs, cur>>
  PROVE  IInv'
<1> USE DEF IInv, TypeOK, TcpTypeOK, CompRoutTypeOK, tcpVars
<1>1. TypeOK' /\ MainInv' /\ ApcInv'
  BY DEF MainInv, ApcInv
<1>2. ASSUME NEW d \in Clients PROVE ConnOK(d)' /\ StreamOK(d)' /\ PairOK(d)'
  BY DEF ConnOK, StreamOK, PairOK
<1> QED
  BY <1>1, <1>2

LEMMA PeerKeeps ==
  ASSUME IInv, NEW c \in Clients, Peer(c) PROVE IInv'
<1> USE DEF IInv, TypeOK, TcpTypeOK, CompRoutTypeOK
<1>1. /\ UNCHANGED <<read, wire, delivered, conn, block, apcs, pc, cur>>
      /\ peer' \in [Clients -> PeerState] /\ sent' \in [Clients -> Nat]
      /\ \A d \in Clients : sent[d] <= sent'[d]
      /\ \A d \in Clients : /\ peer[d] = "rst" => peer'[d] = "rst"
                            /\ peer[d] = "fin" => peer'[d] \in {"fin", "rst"}
  <2>1. UNCHANGED <<read, wire, delivered, conn, block, apcs, pc, cur>>
    BY DEF Peer, PeerStep, PeerConnect, PeerSend, PeerClose, PeerReset, srvVars
  <2>2. CASE PeerSend(c)
    BY <2>1, <2>2 DEF PeerSend
  <2>3. ASSUME NEW q \in PeerState, peer[c] = "rst" => q = "rst",
               peer[c] = "fin" => q \in {"fin", "rst"}, peer' = [peer EXCEPT ![c] = q]
        PROVE  /\ peer' \in [Clients -> PeerState]
               /\ \A d \in Clients : /\ peer[d] = "rst" => peer'[d] = "rst"
                                     /\ peer[d] = "fin" => peer'[d] \in {"fin", "rst"}
    BY <2>3
  <2>4. CASE PeerConnect(c)
    BY <2>1, <2>3, <2>4 DEF PeerConnect, PeerState
  <2>5. CASE PeerClose(c)
    BY <2>1, <2>3, <2>5 DEF PeerClose, PeerState
  <2>6. CASE PeerReset(c)
    BY <2>1, <2>3, <2>6 DEF PeerReset, PeerState
  <2> QED
    BY <2>1, <2>2, <2>4, <2>5, <2>6 DEF Peer, PeerStep
<1>2. TypeOK' /\ MainInv' /\ ApcInv'
  BY <1>1 DEF MainInv, ApcInv
<1>3. ASSUME NEW d \in Clients PROVE ConnOK(d)' /\ StreamOK(d)' /\ PairOK(d)'
  BY <1>1 DEF ConnOK, StreamOK, PairOK
<1> QED
  BY <1>2, <1>3

LEMMA NextKeeps ==
  ASSUME IInv, [Next]_vars PROVE IInv'
<1>1. CASE Wake \/ AcceptNone \/ \E c \in Clients : AcceptFails(c)
  BY <1>1, MainKeeps DEF Wake, AcceptNone, AcceptFails
<1>2. CASE FirstRecv
  BY <1>2, FirstRecvKeeps
<1>3. CASE \E c \in Clients : AcceptClient(c) \/ ReadEnd(c) \/ ReadData(c) \/ WriteDone(c)
  BY <1>3, AcceptKeeps, ReadEndKeeps, ReadDataKeeps, WriteDoneKeeps
<1>4. CASE \E c \in Clients : Kernel(c) \/ Peer(c)
  BY <1>4, CompleteReadKeeps, CompleteWriteKeeps, PeerKeeps DEF Kernel
<1>5. CASE UNCHANGED vars
  <2> USE DEF vars, tcpVars, srvVars
  <2>1. TypeOK' /\ MainInv' /\ ApcInv'
    BY <1>5 DEF IInv, TypeOK, TcpTypeOK, CompRoutTypeOK, MainInv, ApcInv
  <2>2. ASSUME NEW d \in Clients PROVE ConnOK(d)' /\ StreamOK(d)' /\ PairOK(d)'
    BY <1>5 DEF IInv, ConnOK, StreamOK, PairOK
  <2> QED
    BY <2>1, <2>2 DEF IInv
<1> QED
  BY <1>1, <1>2, <1>3, <1>4, <1>5 DEF Next, Server

-----------------------------------------------------------------------------
\* The invariant holds in every state of every run.
THEOREM Invariance == Spec => []IInv
<1>1. Init => IInv
  BY InitIInv
<1>2. IInv /\ [Next]_vars => IInv'
  BY NextKeeps
<1> QED
  BY <1>1, <1>2, PTL DEF Spec

\* Every variable keeps its type.
THEOREM TypeCorrect == Spec => []TypeOK
<1>1. IInv => TypeOK
  BY DEF IInv
<1> QED
  BY <1>1, Invariance, PTL

\* No receive is posted on a buffer whose bytes are still to be delivered.
THEOREM BufferIsFree == Spec => []BufferNotReused
<1>1. IInv => BufferNotReused
  BY DEF IInv, PairOK, BufferNotReused
<1> QED
  BY <1>1, Invariance, PTL

\* A routine runs once for its operation, on a live pair and an open socket.
THEOREM RoutinesAreSafe == Spec => []RoutinesFindTheirBlock
<1>1. IInv => RoutinesFindTheirBlock
  BY DEF IInv, TypeOK, CompRoutTypeOK, ApcInv, ConnOK, RoutinesFindTheirBlock
<1> QED
  BY <1>1, Invariance, PTL
-----------------------------------------------------------------------------
LEMMA StreamsArePrefixes == IInv => PrefixOK
<1> SUFFICES ASSUME IInv, NEW c \in Clients
             PROVE  /\ wire[c] = Chunk(1, Len(wire[c])) /\ Len(wire[c]) \in Nat
                    /\ delivered[c] \in 0..Len(wire[c])
  BY DEF PrefixOK
<1>1. wire[c] \in Seq(Nat) /\ delivered[c] \in Nat
  BY DEF IInv, TypeOK, TcpTypeOK
<1>2. Len(wire[c]) \in Nat
  BY <1>1
<1> QED
  BY <1>1, <1>2 DEF IInv, StreamOK

LEMMA StreamsStayPrefixes == IInv' => PrefixOK'
  BY StreamsArePrefixes, PTL

Released == [c \in Clients |-> conn[c] = "closed" /\ block[c].st = "freed"]

\* A step that frees no pair releases no client.
LEMMA ReleasedKept ==
  ASSUME NEW c \in Clients, block[c].st # "freed", block'[c].st # "freed",
         \A d \in Clients : d # c => conn'[d] = conn[d] /\ block'[d] = block[d]
  PROVE  Released' = Released
<1>1. ASSUME NEW d \in Clients
      PROVE  (conn'[d] = "closed" /\ block'[d].st = "freed") = (conn[d] = "closed" /\ block[d].st = "freed")
  BY Zenon
<1> QED
  BY <1>1, Zenon DEF Released

\* A step of the server is a step of the service, or invisible to it.
LEMMA StepImplements ==
  ASSUME IInv, IInv', [Next]_vars PROVE [Service!Next]_(Service!vars)
<1> DEFINE Left == [c \in Clients |-> peer[c] \in {"fin", "rst"}]
<1>a. ASSUME UNCHANGED <<sent, Returned, Released, peer>> PROVE UNCHANGED Service!vars
  BY <1>a DEF Service!vars, Returned, Released
<1>b. ASSUME UNCHANGED <<wire, delivered>> PROVE UNCHANGED Returned
  BY <1>b DEF Returned
<1>1. CASE Wake \/ AcceptNone \/ \E c \in Clients : AcceptFails(c)
  BY <1>1, <1>a, <1>b DEF Wake, AcceptNone, AcceptFails, tcpVars, Released
<1>2. ASSUME NEW c \in Clients, AcceptClient(c) PROVE UNCHANGED Service!vars
  <2>1. block[c].st = "none" /\ block' = block /\ \A d \in Clients : d # c => conn'[d] = conn[d]
    BY <1>2 DEF AcceptClient, Pending, IInv, ConnOK, TypeOK, CompRoutTypeOK
  <2>2. Released' = Released
    BY <2>1, ReleasedKept
  <2> QED
    BY <1>2, <2>2, <1>a, <1>b DEF AcceptClient, tcpVars
<1>3. ASSUME NEW c \in Clients, NEW b, b.st # "freed", block[c].st # "freed",
             block' = [block EXCEPT ![c] = b], UNCHANGED <<peer, sent, conn>>
      PROVE  Released' = Released
  <2>1. block'[c].st # "freed" /\ \A d \in Clients : d # c => conn'[d] = conn[d] /\ block'[d] = block[d]
    BY <1>3 DEF IInv, TypeOK, CompRoutTypeOK
  <2> QED
    BY <1>3, <2>1, ReleasedKept
<1>4. CASE FirstRecv
  <2>1. cur \in Clients /\ block[cur].st = "none" /\ block' = [block EXCEPT ![cur] = Post(cur, "read")]
        /\ UNCHANGED <<tcpVars, conn>>
    BY <1>4 DEF FirstRecv, IInv, MainInv
  <2>2. Post(cur, "read").st # "freed"
    BY <2>1 DEF Post, IInv, TypeOK, CompRoutTypeOK, Block
  <2>3. Released' = Released
    BY <2>1, <2>2, <1>3 DEF tcpVars
  <2> QED
    BY <2>1, <2>3, <1>a, <1>b DEF tcpVars
<1>5. ASSUME NEW c \in Clients, Run(c, "read") \/ Run(c, "write") PROVE block[c].st = "queued"
  BY <1>5, HeadTailProperties DEF Run, IInv, ApcInv, TypeOK, CompRoutTypeOK
<1>6. ASSUME NEW c \in Clients, WriteDone(c) PROVE UNCHANGED Service!vars
  <2>1. [Post(c, "read") EXCEPT !.len = BufLen].st # "freed"
    BY DEF Post, IInv, TypeOK, CompRoutTypeOK, Block
  <2>2. Released' = Released
    BY <1>3, <1>5, <1>6, <2>1 DEF WriteDone, tcpVars
  <2> QED
    BY <1>6, <2>2, <1>a, <1>b DEF WriteDone, tcpVars
<1>7. ASSUME NEW c \in Clients, ReadData(c) PROVE UNCHANGED Service!vars
  <2>1. [Post(c, "write") EXCEPT !.len = block[c].n].st # "freed"
    BY DEF Post, IInv, TypeOK, CompRoutTypeOK, Block
  <2>2. Released' = Released
    BY <1>3, <1>5, <1>7, <2>1 DEF ReadData
  <2>3. Returned' = Returned
    BY <1>7, ReturnedKept, StreamsArePrefixes, StreamsStayPrefixes DEF ReadData
  <2> QED
    BY <1>7, <2>2, <2>3, <1>a DEF ReadData
<1>8. ASSUME NEW c \in Clients, ReadEnd(c) PROVE Service!Next
  <2>1. /\ block[c].st = "queued" /\ block[c].op = "read" /\ block[c].n = 0
        /\ conn' = [conn EXCEPT ![c] = "closed"] /\ block' = [block EXCEPT ![c].st = "freed"]
        /\ UNCHANGED tcpVars
    BY <1>5, <1>8 DEF ReadEnd, Run
  <2>2. Left[c] = TRUE
    BY <2>1 DEF IInv, PairOK
  <2>3. /\ conn'[c] = "closed" /\ block'[c].st = "freed"
        /\ \A d \in Clients : d # c => conn'[d] = conn[d] /\ block'[d] = block[d]
    BY <2>1 DEF IInv, TypeOK, CompRoutTypeOK, Block
  <2>4. Released[c] = FALSE /\ Released'[c] = TRUE /\ \A d \in Clients : d # c => Released'[d] = Released[d]
    BY <2>1, <2>3 DEF Released
  <2>5. Released' = [Released EXCEPT ![c] = TRUE]
    BY <2>4 DEF Released
  <2>6. Service!Release(c)
    BY <2>1, <2>2, <2>4, <2>5 DEF Service!Release, Released, tcpVars
  <2> QED
    BY <2>6 DEF Service!Next
<1>9. ASSUME NEW c \in Clients, CompleteRead(c) PROVE UNCHANGED Service!vars
  <2>1. PICK b : block' = [block EXCEPT ![c] = b] /\ b.st = "queued"
    <3>1. [block[c] EXCEPT !.st = "queued", !.n = 0].st = "queued"
          /\ \A n \in Nat : [block[c] EXCEPT !.st = "queued", !.lo = read[c] + 1, !.n = n].st = "queued"
      BY DEF IInv, TypeOK, CompRoutTypeOK, Block
    <3>2. 1..block[c].len \subseteq Nat
      BY DEF IInv, TypeOK, CompRoutTypeOK, Block
    <3> QED
      BY <1>9, <3>1, <3>2 DEF CompleteRead, Queue
  <2>2. Released' = Released
    BY <1>3, <1>9, <2>1 DEF CompleteRead
  <2> QED
    BY <1>9, <2>2, <1>a, <1>b DEF CompleteRead
<1>10. ASSUME NEW c \in Clients, CompleteWrite(c) PROVE [Service!Next]_(Service!vars)
  <2>1. /\ block[c].st = "posted" /\ block' = [block EXCEPT ![c] = [block[c] EXCEPT !.st = "queued"]]
        /\ UNCHANGED <<peer, sent, wire, conn>>
        /\ delivered' = [delivered EXCEPT ![c] = IF peer[c] = "rst" THEN @ ELSE Len(wire[c])]
    BY <1>10 DEF CompleteWrite, Queue
  <2>2. [block[c] EXCEPT !.st = "queued"].st = "queued"
    BY DEF IInv, TypeOK, CompRoutTypeOK, Block
  <2>3. Released' = Released
    BY <1>3, <2>1, <2>2
  <2>4. delivered[c] \in 0..Len(wire[c]) /\ Len(wire[c]) \in Nat /\ sent[c] \in Nat /\ Len(wire[c]) <= sent[c]
    <3>1. delivered[c] \in 0..Len(wire[c]) /\ Len(wire[c]) \in Nat
      BY StreamsArePrefixes DEF PrefixOK
    <3>2. sent[c] \in Nat /\ read[c] \in Nat
      BY DEF IInv, TypeOK, TcpTypeOK
    <3> QED
      BY <3>1, <3>2 DEF IInv, StreamOK
  <2>5. CASE delivered'[c] = delivered[c]
    <3>1. delivered' = delivered
      BY <2>1, <2>5 DEF IInv, TypeOK, TcpTypeOK
    <3> QED
      BY <2>1, <2>3, <3>1, <1>a, <1>b
  <2>6. CASE delivered'[c] # delivered[c]
    <3> DEFINE n == Len(wire[c]) - delivered[c]
    <3>1. n \in Nat /\ n > 0 /\ delivered'[c] = delivered[c] + n /\ delivered[c] + n <= sent[c]
          /\ \A d \in Clients : d # c => delivered'[d] = delivered[d]
      BY <2>1, <2>4, <2>6 DEF IInv, TypeOK, TcpTypeOK
    <3> HIDE DEF n
    <3>2. /\ Len(Returned[c]) = delivered[c]
          /\ Returned' = [Returned EXCEPT ![c] = @ \o [k \in 1..n |-> Len(Returned[c]) + k]]
      BY <3>1, ReturnedGrows, StreamsArePrefixes, StreamsStayPrefixes
    <3>3. n \in 1..(sent[c] - Len(Returned[c]))
      BY <2>4, <3>1, <3>2
    <3>4. Released[c] = FALSE
      BY <2>1 DEF Released
    <3>5. Service!Echo(c)
      BY <2>1, <2>3, <3>2, <3>3, <3>4 DEF Service!Echo, Returned, Released
    <3> QED
      BY <3>5 DEF Service!Next
  <2> QED
    BY <2>5, <2>6
<1>11. ASSUME NEW c \in Clients, Peer(c) PROVE [Service!Next]_(Service!vars)
  <2>1. UNCHANGED <<wire, delivered, conn, block>> /\ peer \in [Clients -> PeerState]
    BY <1>11 DEF Peer, PeerStep, PeerConnect, PeerSend, PeerClose, PeerReset, srvVars, IInv, TypeOK, TcpTypeOK
  <2>2. CASE PeerSend(c)
    <3>1. Service!Send(c)
      BY <2>1, <2>2 DEF PeerSend, Service!Send
    <3> QED
      BY <3>1 DEF Service!Next
  <2>3. CASE PeerConnect(c) \/ (PeerReset(c) /\ peer[c] = "fin")
    <3>1. UNCHANGED sent /\ Left' = Left
      BY <2>1, <2>3 DEF PeerConnect, PeerReset
    <3> QED
      BY <2>1, <3>1 DEF Service!vars
  <2>4. CASE PeerClose(c) \/ (PeerReset(c) /\ peer[c] = "open")
    <3>1. UNCHANGED sent /\ Left[c] = FALSE /\ Left' = [Left EXCEPT ![c] = TRUE]
      BY <2>1, <2>4, LeftGrows DEF PeerClose, PeerReset
    <3>2. Service!Leave(c)
      BY <2>1, <3>1 DEF Service!Leave
    <3> QED
      BY <3>2 DEF Service!Next
  <2> QED
    BY <1>11, <2>2, <2>3, <2>4 DEF Peer, PeerStep, PeerReset
<1>12. CASE UNCHANGED vars
  BY <1>12, <1>a, <1>b DEF vars, tcpVars, srvVars, Released
<1> QED
  BY <1>1, <1>2, <1>4, <1>6, <1>7, <1>8, <1>9, <1>10, <1>11, <1>12 DEF Next, Server, Kernel

\* Everything the completion-routine server does is something an echo service
\* may do: prefixes come back in order, nothing after the release, no release
\* before the client has left.
THEOREM ImplementsServiceSafety == Spec => Service!Init /\ [][Service!Next]_(Service!vars)
<1>1. Init => Service!Init
  <2> SUFFICES ASSUME Init PROVE Service!Init
    OBVIOUS
  <2>1. [c \in Clients |-> SubSeq(wire[c], 1, delivered[c])] = [c \in Clients |-> << >>]
    BY DEF Init, TcpInit
  <2>2. ASSUME NEW c \in Clients PROVE (peer[c] \in {"fin", "rst"}) = FALSE
    <3>1. peer[c] = "away"
      BY DEF Init, TcpInit
    <3> QED
      BY <3>1
  <2>3. [c \in Clients |-> peer[c] \in {"fin", "rst"}] = [c \in Clients |-> FALSE]
    BY <2>2
  <2>4. [c \in Clients |-> conn[c] = "closed" /\ block[c].st = "freed"] = [c \in Clients |-> FALSE]
    BY DEF Init
  <2> QED
    BY <2>1, <2>3, <2>4 DEF Init, TcpInit, Service!Init
<1>2. IInv /\ IInv' /\ [Next]_vars => [Service!Next]_(Service!vars)
  BY StepImplements
<1> QED
  BY <1>1, <1>2, Invariance, PTL DEF Spec
=============================================================================
