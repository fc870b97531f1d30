-------------------------- MODULE SelectEchoProof --------------------------
(***************************************************************************)
(* SelectEcho for any number of clients and sockets, any FD_SETSIZE and    *)
(* any BUF_LEN: the inductive invariant, and what it implies.              *)
(***************************************************************************)
EXTENDS SelectEcho, TcpPeerProof

\* FD_SET appends one new value, or does nothing.
LEMMA FdSetCases ==
  ASSUME NEW h, NEW fds
  PROVE  \/ FdSet(h, fds) = fds /\ (h \in Range(fds) \/ Len(fds) >= FdSetSize)
         \/ FdSet(h, fds) = Append(fds, h) /\ h \notin Range(fds) /\ ~(Len(fds) >= FdSetSize)
  BY DEF FdSet

\* FD_CLR takes one value out and closes the gap.
LEMMA FdClrGap ==
  ASSUME NEW S, NEW fds \in Seq(S), NEW k \in 1..Len(fds),
         \A j, l \in 1..Len(fds) : fds[j] = fds[l] => j = l
  PROVE  LET t == FdClr(fds[k], fds) IN
         /\ t \in Seq(S) /\ Len(t) = Len(fds) - 1
         /\ \A j \in 1..(Len(fds) - 1) : t[j] = IF j < k THEN fds[j] ELSE fds[j + 1]
<1>1. Len(fds) \in Nat /\ DOMAIN fds = 1..Len(fds)
  OBVIOUS
<1>2. fds[k] \in Range(fds)
  BY <1>1 DEF Range
<1>3. FirstAt(fds[k], fds) = k
  <2>1. \A j \in 1..(k - 1) : j \in 1..Len(fds) /\ j # k
    BY <1>1
  <2> QED
    BY <2>1 DEF FirstAt
<1>4. FdClr(fds[k], fds) = SubSeq(fds, 1, k - 1) \o SubSeq(fds, k + 1, Len(fds))
  BY <1>2, <1>3 DEF FdClr, RemoveAt
<1>5. LET u == SubSeq(fds, 1, k - 1) \o SubSeq(fds, k + 1, Len(fds)) IN
      /\ u \in Seq(S) /\ Len(u) = Len(fds) - 1
      /\ \A j \in 1..(Len(fds) - 1) : u[j] = IF j < k THEN fds[j] ELSE fds[j + 1]
  BY GapClosed, Zenon
<1> QED
  BY <1>4, <1>5, Zenon

LEMMA InitIInv == Init => IInv
<1> SUFFICES ASSUME Init PROVE IInv
  OBVIOUS
<1> USE DEF Init, TcpInit
<1>1. Len(readfds) = 1 /\ readfds[1] = Listener /\ readfds \in Seq(Handles \cup {Listener, Invalid})
  OBVIOUS
<1>2. TypeOK
  BY <1>1, SelectAssumption DEF TypeOK, TcpTypeOK, SelectTypeOK, PeerState
<1>3. OwnerInv /\ ReadfdsInv /\ WalkInv
  BY <1>1, SelectAssumption DEF OwnerInv, ReadfdsInv, WalkInv
<1>4. ASSUME NEW c \in Clients
      PROVE  /\ wire[c] = Chunk(1, Len(wire[c])) /\ delivered[c] = Len(wire[c])
             /\ Len(wire[c]) <= read[c] /\ read[c] <= sent[c]
             /\ read[c] = Len(wire[c]) + Behind(c)
  <2>1. wire[c] = << >> /\ Len(<< >>) = 0 /\ read[c] = 0 /\ sent[c] = 0 /\ delivered[c] = 0
    OBVIOUS
  <2>2. Behind(c) = 0
    BY DEF Behind
  <2>3. Chunk(1, 0) = << >>
    BY DEF Chunk
  <2> QED
    BY ONLY <2>1, <2>2, <2>3
<1>5. StreamInv
  BY ONLY <1>4 DEF StreamInv
<1> QED
  BY <1>2, <1>3, <1>5 DEF IInv

\* An accept that has failed stays so.
LEMMA FailedStays ==
  ASSUME AcceptFailed,
         \A d \in Clients : conn[d] = "invalid" => conn'[d] = "invalid",
         \A d \in Clients : peer[d] = "rst" => peer'[d] = "rst"
  PROVE  AcceptFailed'
  BY DEF AcceptFailed

LEMMA SelectKeeps ==
  ASSUME IInv, Select PROVE IInv'
<1> USE DEF IInv, Select
<1>1. TypeOK'
  <2>1. DOMAIN readfds = 1..Len(readfds) /\ Range(readfds) \subseteq Handles \cup {Listener, Invalid}
    BY DEF TypeOK, SelectTypeOK, Range
  <2>2. tempfds' \subseteq Handles \cup {Listener}
    BY <2>1, SelectAssumption DEF IsSocket
  <2> QED
    BY <2>2 DEF TypeOK, TcpTypeOK, SelectTypeOK, tcpVars
<1>2. OwnerInv' /\ ReadfdsInv'
  BY DEF OwnerInv, ReadfdsInv, AcceptFailed, tcpVars
<1>3. WalkInv'
  <2>1. \A h \in tempfds' \cap Handles : owner'[h] # Nobody
    BY SelectAssumption DEF IsSocket
  <2>2. \A h \in tempfds' : Ready(h)'
    BY DEF Ready, Pending, Readable, Unread, tcpVars
  <2> QED
    BY <2>1, <2>2 DEF WalkInv
<1>4. StreamInv'
  BY DEF StreamInv, Behind, tcpVars
<1> QED
  BY <1>1, <1>2, <1>3, <1>4

LEMMA SelectFailsKeeps ==
  ASSUME IInv, SelectFails PROVE IInv'
<1> USE DEF IInv, SelectFails
<1>1. TypeOK'
  BY DEF TypeOK, TcpTypeOK, SelectTypeOK, tcpVars
<1>2. OwnerInv' /\ WalkInv'
  BY DEF OwnerInv, WalkInv
<1>3. ReadfdsInv'
  <2>1. AcceptFailed
    <3>1. PICK k \in 1..Len(readfds) : ~IsSocket(readfds[k])
      BY DEF Range, TypeOK, SelectTypeOK
    <3>2. readfds[k] \in Handles \cup {Listener, Invalid}
      BY <3>1 DEF TypeOK, SelectTypeOK
    <3> QED
      BY <3>1, <3>2 DEF IsSocket, ReadfdsInv
  <2>2. \A d \in Clients : conn[d] = "invalid" => conn'[d] = "invalid"
    BY DEF TypeOK, SelectTypeOK
  <2>3. AcceptFailed'
    BY <2>1, <2>2, FailedStays DEF tcpVars
  <2> QED
    BY <2>3 DEF ReadfdsInv
<1>4. StreamInv'
  BY DEF StreamInv, Behind, tcpVars
<1> QED
  BY <1>1, <1>2, <1>3, <1>4

LEMMA SkipKeeps ==
  ASSUME IInv, Skip PROVE IInv'
<1> USE DEF IInv, Skip, AtSocket
<1>1. TypeOK'
  BY DEF TypeOK, TcpTypeOK, SelectTypeOK, tcpVars
<1>2. OwnerInv' /\ ReadfdsInv'
  BY DEF OwnerInv, ReadfdsInv, AcceptFailed, tcpVars
<1>3. WalkInv'
  <2>1. \A h : Ready(h)' = Ready(h)
    BY DEF Ready, Pending, Readable, Unread, tcpVars
  <2>2. i \in Nat \ {0} /\ i' = i + 1 /\ i' # 1 /\ \A k \in i'..Len(readfds) : k \in i..Len(readfds)
    BY DEF TypeOK, SelectTypeOK
  <2> QED
    BY <2>1, <2>2 DEF WalkInv
<1>4. StreamInv'
  BY DEF StreamInv, Behind, tcpVars
<1> QED
  BY <1>1, <1>2, <1>3, <1>4

LEMMA WalkDoneKeeps ==
  ASSUME IInv, WalkDone PROVE IInv'
<1> USE DEF IInv, WalkDone
<1>1. TypeOK'
  BY DEF TypeOK, TcpTypeOK, SelectTypeOK, tcpVars
<1>2. OwnerInv' /\ ReadfdsInv' /\ WalkInv'
  BY DEF OwnerInv, ReadfdsInv, AcceptFailed, WalkInv, tcpVars
<1>3. StreamInv'
  BY DEF StreamInv, Behind, tcpVars
<1> QED
  BY <1>1, <1>2, <1>3

\* What FD_SET does to readfds when accept has returned h.
LEMMA AcceptedFds ==
  ASSUME IInv, AtSocket, NEW h \in Handles \cup {Invalid},
         readfds' = FdSet(h, readfds)
  PROVE  /\ readfds' \in Seq(Handles \cup {Listener, Invalid})
         /\ Len(readfds') >= Len(readfds) /\ Len(readfds') <= FdSetSize
         /\ \A k \in 1..Len(readfds) : readfds'[k] = readfds[k]
         /\ \A k \in 1..Len(readfds') : k > Len(readfds) => readfds'[k] = h /\ k = Len(readfds) + 1
         /\ \A j, k \in 1..Len(readfds') : readfds'[j] = readfds'[k] => j = k
         /\ readfds' = readfds => (\E k \in 1..Len(readfds) : readfds[k] = h) \/ Len(readfds) = FdSetSize
         /\ readfds' # readfds => Len(readfds') = Len(readfds) + 1
<1>1. /\ readfds \in Seq(Handles \cup {Listener, Invalid}) /\ Len(readfds) \in Nat
      /\ DOMAIN readfds = 1..Len(readfds) /\ Len(readfds) <= FdSetSize
      /\ \A j, k \in 1..Len(readfds) : readfds[j] = readfds[k] => j = k
  BY DEF IInv, TypeOK, SelectTypeOK, ReadfdsInv
<1>2. h \in Range(readfds) <=> \E k \in 1..Len(readfds) : readfds[k] = h
  BY <1>1 DEF Range
<1>3. CASE readfds' = readfds /\ (h \in Range(readfds) \/ Len(readfds) >= FdSetSize)
  <2>1. Len(readfds) >= FdSetSize => Len(readfds) = FdSetSize
    <3>1. FdSetSize \in Nat
      BY SelectAssumption
    <3>2. Len(readfds) \in Nat /\ Len(readfds) <= FdSetSize
      BY <1>1
    <3> QED
      BY ONLY <3>1, <3>2
  <2>2. \A k \in 1..Len(readfds) : ~(k > Len(readfds))
    BY <1>1
  <2>3. Len(readfds) >= Len(readfds)
    BY <1>1
  <2> QED
    BY ONLY <1>1, <1>2, <1>3, <2>1, <2>2, <2>3, Zenon
<1>4. CASE readfds' = Append(readfds, h) /\ h \notin Range(readfds) /\ ~(Len(readfds) >= FdSetSize)
  <2>1. /\ readfds' \in Seq(Handles \cup {Listener, Invalid}) /\ Len(readfds') = Len(readfds) + 1
        /\ \A k \in 1..Len(readfds) : readfds'[k] = readfds[k]
        /\ readfds'[Len(readfds) + 1] = h
    BY <1>1, <1>4, AppendProperties
  <2>2. \A k \in 1..Len(readfds') : k \in 1..Len(readfds) \/ k = Len(readfds) + 1
    BY <1>1, <2>1
  <2>3. \A j, k \in 1..Len(readfds') : readfds'[j] = readfds'[k] => j = k
    BY <1>1, <1>2, <1>4, <2>1, <2>2
  <2>4. Len(readfds') <= FdSetSize
    BY <1>1, <1>4, <2>1, SelectAssumption
  <2>5. readfds' # readfds
    BY <1>1, <2>1
  <2> QED
    BY <1>1, <2>1, <2>2, <2>3, <2>4, <2>5
<1> QED
  BY <1>3, <1>4, FdSetCases
\* A step of the walk that only moves on keeps what is known of the sockets
\* behind it.
LEMMA ReadyKept ==
  ASSUME TypeOK, NEW h \in Handles, Ready(h), owner'[h] = owner[h],
         UNCHANGED <<sent, peer>>, owner[h] \in Clients => read'[owner[h]] = read[owner[h]]
  PROVE  Ready(h)'
  BY SelectAssumption DEF Ready, Readable, Unread

LEMMA AcceptKeeps ==
  ASSUME IInv, NEW c \in Clients, AcceptClient(c) PROVE IInv'
<1> USE DEF IInv
<1>1. /\ AtSocket /\ readfds[i] = Listener /\ conn[c] = "none" /\ pc' = "walk" /\ pc = "walk"
      /\ i' = i + 1 /\ UNCHANGED <<tcpVars, tempfds, bytesLen>>
  BY DEF AcceptClient, AtSocket, Pending
<1>2. i = 1
  BY <1>1 DEF AtSocket, ReadfdsInv, TypeOK, SelectTypeOK
<1>3. PICK h \in Handles \cup {Invalid} :
        /\ readfds' = FdSet(h, readfds)
        /\ \/ h \in Handles /\ owner[h] = Nobody /\ conn' = [conn EXCEPT ![c] = "open"]
              /\ owner' = [owner EXCEPT ![h] = c]
           \/ /\ h = Invalid /\ conn' = [conn EXCEPT ![c] = "invalid"] /\ owner' = owner
              /\ peer[c] = "rst"
  BY DEF AcceptClient
<1>4. /\ readfds' \in Seq(Handles \cup {Listener, Invalid}) /\ Len(readfds') \in Nat
      /\ Len(readfds') >= Len(readfds) /\ Len(readfds') <= FdSetSize
      /\ \A k \in 1..Len(readfds) : readfds'[k] = readfds[k]
      /\ \A k \in 1..Len(readfds') : k > Len(readfds) => readfds'[k] = h
      /\ \A j, k \in 1..Len(readfds') : readfds'[j] = readfds'[k] => j = k
  BY <1>1, <1>3, AcceptedFds
<1>5. /\ conn \in [Clients -> {"none", "open", "invalid", "closed", "aborted"}]
      /\ owner \in [Handles -> Clients \cup {Nobody}] /\ Len(readfds) \in Nat
  BY DEF TypeOK, SelectTypeOK
<1>6. TypeOK'
  <2>1. conn' \in [Clients -> {"none", "open", "invalid", "closed", "aborted"}]
        /\ owner' \in [Handles -> Clients \cup {Nobody}]
    BY <1>3, <1>5
  <2> QED
    BY <1>1, <1>2, <1>4, <2>1 DEF TypeOK, TcpTypeOK, SelectTypeOK, tcpVars
<1>7. OwnerInv'
  BY <1>1, <1>3, <1>5, SelectAssumption DEF OwnerInv
<1>8. ReadfdsInv'
  <2>1. \A k \in Handles : owner[k] # Nobody => owner'[k] # Nobody
    BY <1>3, <1>5, SelectAssumption
  <2>2. h \in Handles => owner'[h] # Nobody
    BY <1>3, <1>5, SelectAssumption
  <2>3. ASSUME NEW k \in 1..Len(readfds'), readfds'[k] \in Handles PROVE owner'[readfds'[k]] # Nobody
    <3>1. CASE k \in 1..Len(readfds)
      BY <1>1, <1>4, <2>1, <2>3, <3>1 DEF ReadfdsInv
    <3>2. CASE k > Len(readfds)
      BY <1>4, <2>2, <2>3, <3>2
    <3> QED
      BY <1>4, <1>5, <3>1, <3>2
  <2>4. Len(readfds') >= 1 /\ readfds'[1] = Listener
    BY <1>4, <1>5 DEF ReadfdsInv
  <2>5. AcceptFailed => AcceptFailed'
    <3>1. \A d \in Clients : conn[d] = "invalid" => conn'[d] = "invalid"
      BY <1>1, <1>3, <1>5
    <3> QED
      BY <1>1, <3>1, FailedStays DEF tcpVars
  <2>6. ASSUME NEW k \in 1..Len(readfds'), readfds'[k] = Invalid PROVE AcceptFailed'
    <3>1. CASE k \in 1..Len(readfds)
      BY <1>4, <2>5, <2>6, <3>1 DEF ReadfdsInv
    <3>2. CASE k > Len(readfds)
      <4>1. h = Invalid
        BY <1>4, <2>6, <3>2
      <4>2. conn'[c] = "invalid" /\ peer'[c] = "rst"
        BY <1>1, <1>3, <1>5, <4>1, SelectAssumption DEF tcpVars
      <4> QED
        BY <4>2 DEF AcceptFailed
    <3> QED
      BY <1>4, <1>5, <3>1, <3>2
  <2> QED
    BY <1>1, <1>4, <2>3, <2>4, <2>6 DEF ReadfdsInv
<1>9. WalkInv'
  <2>1. ASSUME NEW k \in i'..Len(readfds'), readfds'[k] \in tempfds PROVE Ready(readfds[k])'
    <3>1. k \in 1..Len(readfds') /\ k # 1
      BY <1>1, <1>2, <1>4
    <3>2. readfds'[k] # Listener
      <4>1. 1 \in 1..Len(readfds') /\ readfds'[1] = Listener
        BY <1>4, <1>5 DEF ReadfdsInv
      <4> QED
        BY <1>4, <3>1, <4>1
    <3>3. readfds'[k] \in Handles /\ owner[readfds'[k]] # Nobody
      BY <1>1, <1>2, <2>1, <3>2 DEF WalkInv, TypeOK, SelectTypeOK
    <3>4. k \in i..Len(readfds)
      <4>1. CASE k > Len(readfds)
        <5>1. readfds'[k] = h
          BY <1>4, <3>1, <4>1
        <5> QED
          BY <1>3, <3>3, <5>1, SelectAssumption
      <4> QED
        BY <1>2, <1>4, <1>5, <3>1, <4>1
    <3>5. readfds'[k] = readfds[k] /\ Ready(readfds[k])
      BY <1>1, <1>2, <1>4, <2>1, <3>4 DEF WalkInv
    <3>6. owner'[readfds[k]] = owner[readfds[k]]
      BY <1>3, <1>5, <3>3, <3>5
    <3>7. PICK g \in Handles : g = readfds'[k]
      BY <3>3
    <3>8. Ready(g)'
      BY <1>1, <3>3, <3>5, <3>6, <3>7, ReadyKept DEF tcpVars
    <3> QED
      BY <3>7, <3>8 DEF Ready
  <2>2. i' # 1
    BY <1>1, <1>2
  <2> QED
    BY <1>1, <2>1, <2>2 DEF WalkInv
<1>10. StreamInv'
  BY <1>1 DEF StreamInv, Behind, tcpVars
<1> QED
  BY <1>6, <1>7, <1>8, <1>9, <1>10

LEMMA RecvEndKeeps ==
  ASSUME IInv, NEW c \in Clients, RecvEnd(c) PROVE IInv'
<1> USE DEF IInv
<1> DEFINE h == readfds[i]
           n == Len(readfds)
<1>1. /\ pc = "walk" /\ i \in 1..n /\ n \in Nat /\ h \in Handles /\ owner[h] = c
      /\ conn' = [conn EXCEPT ![c] = "closed"] /\ owner' = [owner EXCEPT ![h] = Nobody]
      /\ readfds' = FdClr(h, readfds) /\ i' = i + 1
      /\ UNCHANGED <<tcpVars, tempfds, pc, bytesLen>>
  BY SelectAssumption DEF RecvEnd, AtReadable, AtSocket, TypeOK, SelectTypeOK
<1>2. /\ readfds' \in Seq(Handles \cup {Listener, Invalid}) /\ Len(readfds') = n - 1
      /\ \A k \in 1..(n - 1) : readfds'[k] = IF k < i THEN readfds[k] ELSE readfds[k + 1]
  <2>1. readfds \in Seq(Handles \cup {Listener, Invalid})
        /\ \A j, l \in 1..Len(readfds) : readfds[j] = readfds[l] => j = l
    BY DEF TypeOK, SelectTypeOK, ReadfdsInv
  <2> QED
    BY <1>1, <2>1, FdClrGap
<1>3. /\ conn \in [Clients -> {"none", "open", "invalid", "closed", "aborted"}]
      /\ owner \in [Handles -> Clients \cup {Nobody}]
      /\ readfds[1] = Listener /\ n <= FdSetSize /\ FdSetSize \in Nat
      /\ \A j, k \in 1..n : readfds[j] = readfds[k] => j = k
  BY SelectAssumption DEF TypeOK, SelectTypeOK, ReadfdsInv
<1>4. i # 1
  BY <1>1, <1>3, SelectAssumption
<1>5. TypeOK'
  BY <1>1, <1>2 DEF TypeOK, TcpTypeOK, SelectTypeOK, tcpVars
<1>6. OwnerInv'
  BY <1>1, <1>3, SelectAssumption DEF OwnerInv
<1>7. \A k \in 1..(n - 1) :
        \E l \in 1..n : /\ l = IF k < i THEN k ELSE k + 1
                        /\ readfds'[k] = readfds[l] /\ readfds'[k] # h
  BY <1>1, <1>2, <1>3
<1>8. ReadfdsInv'
  <2>1. \A j, k \in 1..(n - 1) : readfds'[j] = readfds'[k] => j = k
    BY <1>1, <1>3, <1>7
  <2>2. ASSUME NEW k \in 1..(n - 1), readfds'[k] \in Handles PROVE owner'[readfds'[k]] # Nobody
    BY <1>1, <1>3, <1>7, <2>2 DEF ReadfdsInv
  <2>3. Len(readfds') >= 1 /\ readfds'[1] = Listener /\ Len(readfds') <= FdSetSize
    BY <1>1, <1>2, <1>3, <1>4
  <2>4. conn[c] = "open"
    BY <1>1, SelectAssumption DEF OwnerInv
  <2>5. AcceptFailed => AcceptFailed'
    <3>1. \A d \in Clients : conn[d] = "invalid" => conn'[d] = "invalid"
      BY <1>1, <1>3, <2>4
    <3> QED
      BY <1>1, <3>1, FailedStays DEF tcpVars
  <2>6. \A k \in 1..(n - 1) : readfds'[k] = Invalid => AcceptFailed'
    BY <1>7, <2>5 DEF ReadfdsInv
  <2> QED
    BY <1>1, <1>2, <2>1, <2>2, <2>3, <2>6 DEF ReadfdsInv
<1>9. WalkInv'
  <2>1. ASSUME NEW k \in (i + 1)..(n - 1), readfds'[k] \in tempfds PROVE Ready(readfds[k])'
    <3>1. k \in 1..(n - 1) /\ k + 1 \in i..n /\ k + 1 \in 1..n /\ k + 1 # 1
          /\ readfds'[k] = readfds[k + 1] /\ readfds'[k] # h
      BY <1>1, <1>2, <1>7
    <3>2. Ready(readfds[k + 1]) /\ readfds[k + 1] # Listener
      <4>1. 1 \in 1..n
        BY <1>1
      <4> QED
        BY <1>1, <1>3, <2>1, <3>1, <4>1 DEF WalkInv
    <3>3. readfds[k + 1] \in Handles
      BY <1>1, <2>1, <3>1, <3>2 DEF TypeOK, SelectTypeOK
    <3>4. PICK g \in Handles : g = readfds'[k]
      BY <3>1, <3>3
    <3>5. Ready(g)'
      BY <1>1, <1>3, <3>1, <3>2, <3>3, <3>4, ReadyKept DEF tcpVars
    <3> QED
      BY <3>4, <3>5 DEF Ready
  <2> QED
    BY <1>1, <1>2, <1>4, <2>1 DEF WalkInv
<1>10. StreamInv'
  BY <1>1 DEF StreamInv, Behind, tcpVars
<1> QED
  BY <1>5, <1>6, <1>8, <1>9, <1>10


LEMMA RecvDataKeeps ==
  ASSUME IInv, NEW c \in Clients, RecvData(c) PROVE IInv'
<1> USE DEF IInv
<1>1. /\ pc = "walk" /\ pc' = "send" /\ i \in 1..Len(readfds) /\ Len(readfds) \in Nat
      /\ readfds[i] \in Handles /\ owner[readfds[i]] = c /\ peer[c] # "rst"
      /\ UNCHANGED <<peer, sent, wire, delivered, conn, owner, readfds, tempfds, i>>
  BY SelectAssumption DEF RecvData, AtReadable, AtSocket, TypeOK, SelectTypeOK
<1>2. PICK n \in 1..(BufLen - 1) :
        n <= Unread(c) /\ read' = [read EXCEPT ![c] = @ + n] /\ bytesLen' = n
  BY DEF RecvData, RecvMax
<1>3. read \in [Clients -> Nat] /\ sent \in [Clients -> Nat] /\ BufLen \in Nat
      /\ owner \in [Handles -> Clients \cup {Nobody}]
  BY SelectAssumption DEF TypeOK, TcpTypeOK, SelectTypeOK
<1>4. TypeOK'
  BY <1>1, <1>2, <1>3 DEF TypeOK, TcpTypeOK, SelectTypeOK
<1>5. OwnerInv' /\ ReadfdsInv'
  BY <1>1 DEF OwnerInv, ReadfdsInv, AcceptFailed
<1>6. WalkInv'
  <2>1. ASSUME NEW k \in (i + 1)..Len(readfds), readfds[k] \in tempfds PROVE Ready(readfds[k])'
    <3>1. k \in 1..Len(readfds) /\ k # i /\ k # 1 /\ k \in i..Len(readfds)
      BY <1>1, <2>1
    <3>2. readfds[k] # readfds[i] /\ readfds[k] # Listener /\ Ready(readfds[k])
      <4>1. 1 \in 1..Len(readfds)
        BY <1>1
      <4> QED
        BY <1>1, <2>1, <3>1, <4>1 DEF ReadfdsInv, WalkInv
    <3>3. readfds[k] \in Handles
      BY <2>1, <3>2 DEF TypeOK, SelectTypeOK
    <3>4. owner[readfds[k]] # Nobody
      BY <1>1, <3>1, <3>3 DEF ReadfdsInv
    <3>5. owner[readfds[k]] # c /\ owner[readfds[k]] \in Clients
      BY <1>1, <1>3, <3>2, <3>3, <3>4 DEF OwnerInv
    <3>6. PICK g \in Handles : g = readfds[k]
      BY <3>3
    <3>7. Ready(g)'
      BY <1>1, <1>2, <1>3, <3>2, <3>5, <3>6, ReadyKept
    <3> QED
      BY <1>1, <3>6, <3>7 DEF Ready
  <2> QED
    BY <1>1, <2>1 DEF WalkInv
<1>7. StreamInv'
  <2>1. ASSUME NEW d \in Clients
        PROVE  /\ Len(wire[d]) <= read'[d] /\ read'[d] <= sent[d]
               /\ peer[d] = "rst" \/ read'[d] = Len(wire[d]) + Behind(d)'
    <3>1. Len(wire[d]) \in Nat /\ Behind(d) = 0 /\ Behind(d)' = IF d = c THEN bytesLen' ELSE 0
      BY <1>1 DEF Behind, TypeOK, TcpTypeOK
    <3>2. Len(wire[d]) <= read[d] /\ read[d] <= sent[d] /\ (peer[d] = "rst" \/ read[d] = Len(wire[d]))
      BY <3>1 DEF StreamInv, TypeOK, TcpTypeOK
    <3>3. CASE d = c
      <4>1. read'[c] = read[c] + n /\ n <= sent[c] - read[c] /\ bytesLen' = n /\ n \in Nat
        BY <1>2, <1>3 DEF Unread
      <4>2. read[c] \in Nat /\ sent[c] \in Nat /\ Behind(c)' = n
        BY <1>3, <3>1, <3>3, <4>1
      <4> QED
        BY <1>1, <3>1, <3>2, <3>3, <4>1, <4>2
    <3>4. CASE d # c
      BY <1>1, <1>2, <1>3, <3>1, <3>2, <3>4
    <3> QED
      BY <3>3, <3>4
  <2> QED
    BY <1>1, <2>1 DEF StreamInv
<1> QED
  BY <1>4, <1>5, <1>6, <1>7

\* What send does to the stream of its client, and to nothing else.
LEMMA SendBackStream ==
  ASSUME IInv, NEW c \in Clients, SendBack(c)
  PROVE  /\ StreamInv'
         /\ wire' \in [Clients -> Seq(Nat)] /\ delivered' \in [Clients -> Nat]
         /\ \A d \in Clients : d # c => wire'[d] = wire[d] /\ delivered'[d] = delivered[d]
         /\ delivered'[c] = delivered[c] \/ delivered'[c] = delivered[c] + bytesLen
<1> USE DEF IInv
<1>1. /\ pc = "send" /\ pc' = "walk" /\ owner[readfds[i]] = c /\ bytesLen \in Nat
      /\ UNCHANGED <<peer, sent, read, conn, owner, readfds, tempfds>>
  BY DEF SendBack, TypeOK, SelectTypeOK
<1>2. /\ wire \in [Clients -> Seq(Nat)] /\ delivered \in [Clients -> Nat]
      /\ read \in [Clients -> Nat] /\ sent \in [Clients -> Nat]
  BY DEF TypeOK, TcpTypeOK
<1>3. \A d \in Clients : Behind(d)' = 0 /\ Behind(d) = IF d = c THEN bytesLen ELSE 0
  BY <1>1 DEF Behind
<1>4. CASE peer[c] = "rst"
  <2>1. UNCHANGED <<wire, delivered>>
    BY <1>4 DEF SendBack
  <2>2. ASSUME NEW d \in Clients PROVE peer[d] = "rst" \/ read[d] = Len(wire[d]) + Behind(d)'
    BY <1>2, <1>3, <1>4 DEF StreamInv
  <2>3. StreamInv'
    BY <1>1, <2>1, <2>2 DEF StreamInv
  <2> QED
    BY <1>2, <2>1, <2>3
<1>5. CASE peer[c] # "rst"
  <2> DEFINE m == Len(wire[c])
  <2>1. /\ wire' = [wire EXCEPT ![c] = @ \o Echoed(c)]
        /\ delivered' = [delivered EXCEPT ![c] = Len(wire'[c])]
    BY <1>5 DEF SendBack
  <2>2. m \in Nat /\ wire[c] = Chunk(1, m) /\ read[c] = m + bytesLen
    BY <1>2, <1>3, <1>5 DEF StreamInv
  <2>3. Echoed(c) = Chunk(m + 1, bytesLen)
    <3>1. read[c] - bytesLen + 1 = m + 1
      BY <1>1, <2>2
    <3> QED
      BY <3>1 DEF Echoed
  <2>4. /\ wire'[c] = Chunk(1, m + bytesLen) /\ wire'[c] \in Seq(Nat)
        /\ Len(wire'[c]) = m + bytesLen /\ m + bytesLen \in Nat
    <3>1. wire'[c] = wire[c] \o Echoed(c)
      BY <1>2, <2>1
    <3>2. Chunk(1, m + bytesLen) \in Seq(Nat) /\ Len(Chunk(1, m + bytesLen)) = m + bytesLen
      BY <1>1, <2>2 DEF Chunk
    <3>3. Chunk(1, m) \o Chunk(m + 1, bytesLen) = Chunk(1, m + bytesLen)
      BY <1>1, <2>2, ChunkConcat
    <3>4. wire'[c] = Chunk(1, m + bytesLen)
      BY <2>2, <2>3, <3>1, <3>3
    <3> QED
      BY <1>1, <2>2, <3>2, <3>4
  <2> HIDE DEF m
  <2>5. \A d \in Clients : d # c => wire'[d] = wire[d] /\ delivered'[d] = delivered[d]
    BY <1>2, <2>1
  <2>6. wire' \in [Clients -> Seq(Nat)] /\ delivered' \in [Clients -> Nat] /\ delivered'[c] = Len(wire'[c])
    BY <1>2, <2>1, <2>4
  <2>7. ASSUME NEW d \in Clients
        PROVE  /\ wire'[d] = Chunk(1, Len(wire'[d])) /\ delivered'[d] = Len(wire'[d])
               /\ Len(wire'[d]) <= read[d] /\ read[d] <= sent[d]
               /\ peer[d] = "rst" \/ read[d] = Len(wire'[d]) + Behind(d)'
    <3>1. CASE d = c
      BY <1>1, <1>2, <1>3, <2>2, <2>4, <2>6, <3>1 DEF StreamInv
    <3>2. CASE d # c
      BY <1>2, <1>3, <2>5, <3>2 DEF StreamInv
    <3> QED
      BY <3>1, <3>2
  <2>8. StreamInv'
    BY <1>1, <2>7 DEF StreamInv
  <2>9. delivered'[c] = delivered[c] + bytesLen
    BY <2>4, <2>6 DEF m, StreamInv
  <2> QED
    BY <2>5, <2>6, <2>8, <2>9
<1> QED
  BY <1>4, <1>5

LEMMA SendBackKeeps ==
  ASSUME IInv, NEW c \in Clients, SendBack(c) PROVE IInv'
<1> USE DEF IInv
<1>1. /\ pc = "send" /\ pc' = "walk" /\ i' = i + 1 /\ bytesLen' = 0 /\ i \in Nat \ {0}
      /\ UNCHANGED <<peer, sent, read, conn, owner, readfds, tempfds>>
  BY DEF SendBack, TypeOK, SelectTypeOK
<1>2. StreamInv' /\ wire' \in [Clients -> Seq(Nat)] /\ delivered' \in [Clients -> Nat]
  BY SendBackStream
<1>3. TypeOK'
  BY <1>1, <1>2, SelectAssumption DEF TypeOK, TcpTypeOK, SelectTypeOK
<1>4. OwnerInv' /\ ReadfdsInv'
  BY <1>1 DEF OwnerInv, ReadfdsInv, AcceptFailed
<1>5. WalkInv'
  <2>1. \A h : Ready(h)' = Ready(h)
    BY <1>1 DEF Ready, Pending, Readable, Unread
  <2> QED
    BY <1>1, <2>1 DEF WalkInv
<1> QED
  BY <1>2, <1>3, <1>4, <1>5

LEMMA PeerKeeps ==
  ASSUME IInv, NEW c \in Clients, Peer(c) PROVE IInv'
<1> USE DEF IInv
<1>1. /\ UNCHANGED <<read, wire, delivered, conn, owner, readfds, tempfds, pc, i, bytesLen>>
      /\ peer \in [Clients -> PeerState] /\ sent \in [Clients -> Nat] /\ read \in [Clients -> Nat]
  BY DEF Peer, PeerStep, PeerConnect, PeerSend, PeerClose, PeerReset, srvVars, TypeOK, TcpTypeOK
<1>2. /\ peer' \in [Clients -> PeerState] /\ sent' \in [Clients -> Nat]
      /\ \A d \in Clients : /\ sent'[d] >= sent[d]
                            /\ peer[d] # "away" => peer'[d] # "away"
                            /\ peer[d] \in {"fin", "rst"} => peer'[d] \in {"fin", "rst"}
                            /\ peer[d] = "rst" => peer'[d] = "rst"
  <2> USE DEF PeerState
  <2>1. CASE PeerConnect(c)
    BY <1>1, <2>1 DEF PeerConnect
  <2>2. CASE PeerSend(c)
    BY <1>1, <2>2 DEF PeerSend
  <2>3. CASE PeerClose(c)
    BY <1>1, <2>3 DEF PeerClose
  <2>4. CASE PeerReset(c)
    BY <1>1, <2>4 DEF PeerReset
  <2> QED
    BY <2>1, <2>2, <2>3, <2>4 DEF Peer, PeerStep
<1>3. TypeOK'
  BY <1>1, <1>2 DEF TypeOK, TcpTypeOK, SelectTypeOK
<1>4. OwnerInv' /\ ReadfdsInv'
  <2>1. AcceptFailed => AcceptFailed'
    BY <1>1, <1>2, FailedStays
  <2> QED
    BY <1>1, <2>1 DEF OwnerInv, ReadfdsInv
<1>5. WalkInv'
  <2>1. ASSUME NEW h, Ready(h) PROVE Ready(h)'
    <3>1. CASE h = Listener
      BY <1>1, <1>2, <2>1, <3>1 DEF Ready, Pending
    <3>2. CASE h # Listener
      BY <1>1, <1>2, <2>1, <3>2 DEF Ready, Readable, Unread
    <3> QED
      BY <3>1, <3>2
  <2> QED
    BY <1>1, <2>1 DEF WalkInv
<1>6. StreamInv'
  <2>1. ASSUME NEW d \in Clients
        PROVE  read[d] <= sent'[d] /\ (peer'[d] = "rst" \/ read[d] = Len(wire[d]) + Behind(d)')
    <3>1. Behind(d)' = Behind(d)
      BY <1>1 DEF Behind
    <3> QED
      BY <1>1, <1>2, <3>1 DEF StreamInv
  <2> QED
    BY <1>1, <2>1 DEF StreamInv
<1> QED
  BY <1>3, <1>4, <1>5, <1>6

LEMMA NextKeeps ==
  ASSUME IInv, [Next]_vars PROVE IInv'
<1>1. CASE UNCHANGED vars
  BY <1>1 DEF IInv, TypeOK, TcpTypeOK, SelectTypeOK, OwnerInv, ReadfdsInv, AcceptFailed, WalkInv, StreamInv,
              Behind, Ready, Pending, Readable, Unread, vars, tcpVars, srvVars
<1> QED
  BY <1>1, SelectKeeps, SelectFailsKeeps, SkipKeeps, WalkDoneKeeps, AcceptKeeps, RecvEndKeeps,
     RecvDataKeeps, SendBackKeeps, PeerKeeps DEF Next, Server

-----------------------------------------------------------------------------
\* The invariant holds in every state of every run.
THEOREM Invariance == Spec => []IInv
<1>1. Init => IInv
  BY InitIInv
<1>2. IInv /\ [Next]_vars => IInv'
  BY NextKeeps
<1> QED
  BY <1>1, <1>2, PTL DEF Spec

\* Every variable keeps its type.
THEOREM TypeCorrect == Spec => []TypeOK
<1>1. IInv => TypeOK
  BY DEF IInv
<1> QED
  BY <1>1, Invariance, PTL

\* accept and recv of the only thread return at once, whenever they are called.
THEOREM ThreadNeverBlocks == Spec => []NeverBlocks
<1>1. IInv => NeverBlocks
  BY DEF IInv, TypeOK, SelectTypeOK, WalkInv, NeverBlocks, AtSocket
<1> QED
  BY <1>1, Invariance, PTL

\* readfds holds the listening socket and open connections, each once, and
\* INVALID_SOCKET only once accept has failed; nothing else ends the server.
THEOREM OnlyOpenSockets == Spec => []WatchesOpenSockets
<1>1. IInv => WatchesOpenSockets
  <2> SUFFICES ASSUME IInv PROVE WatchesOpenSockets
    OBVIOUS
  <2>1. readfds \in Seq(Handles \cup {Listener, Invalid}) /\ DOMAIN readfds = 1..Len(readfds)
    BY DEF IInv, TypeOK, SelectTypeOK
  <2>2. readfds # << >> /\ Head(readfds) = readfds[1]
    BY <2>1 DEF IInv, ReadfdsInv
  <2> QED
    BY <2>1, <2>2 DEF IInv, ReadfdsInv, WatchesOpenSockets, Range
<1> QED
  BY <1>1, Invariance, PTL
-----------------------------------------------------------------------------
\* What was accepted is watched, unless readfds was full.
THEOREM ForgetsNoOther == Spec => ForgetsOnlyWhenFull
<1> DEFINE Forgets ==
      \A c \in Clients :
        (conn'[c] = "open" /\ ~Watched(c)') =>
          \/ conn[c] = "open" /\ ~Watched(c)
          \/ conn[c] = "none" /\ Len(readfds) = FdSetSize
<1>1. ASSUME IInv, [Next]_vars PROVE Forgets \/ UNCHANGED vars
  <2> SUFFICES ASSUME NEW c \in Clients, conn'[c] = "open", ~Watched(c)'
               PROVE  \/ conn[c] = "open" /\ ~Watched(c)
                      \/ conn[c] = "none" /\ Len(readfds) = FdSetSize
                      \/ UNCHANGED vars
    OBVIOUS
  <2>1. /\ conn \in [Clients -> {"none", "open", "invalid", "closed", "aborted"}]
        /\ owner \in [Handles -> Clients \cup {Nobody}]
        /\ readfds \in Seq(Handles \cup {Listener, Invalid}) /\ DOMAIN readfds = 1..Len(readfds)
        /\ Len(readfds) \in Nat
    BY <1>1 DEF IInv, TypeOK, SelectTypeOK
  <2>2. ASSUME UNCHANGED <<conn, owner, readfds>>
        PROVE  conn[c] = "open" /\ ~Watched(c)
    BY <2>2 DEF Watched
  <2>3. CASE SelectFails
    BY <2>1, <2>3 DEF SelectFails
  <2>4. ASSUME NEW d \in Clients, AcceptClient(d)
        PROVE  \/ conn[c] = "open" /\ ~Watched(c)
               \/ conn[c] = "none" /\ Len(readfds) = FdSetSize
    <3>1. PICK h \in Handles \cup {Invalid} :
            /\ readfds' = FdSet(h, readfds)
            /\ \/ h \in Handles /\ owner[h] = Nobody /\ conn' = [conn EXCEPT ![d] = "open"]
                  /\ owner' = [owner EXCEPT ![h] = d]
               \/ h = Invalid /\ conn' = [conn EXCEPT ![d] = "invalid"] /\ owner' = owner
      BY <2>4 DEF AcceptClient
    <3>2. conn[d] = "none" /\ AtSocket
      BY <2>4 DEF AcceptClient, Pending
    <3>3. /\ readfds' \in Seq(Handles \cup {Listener, Invalid}) /\ DOMAIN readfds' = 1..Len(readfds')
          /\ Len(readfds') \in Nat /\ Len(readfds') >= Len(readfds)
          /\ \A k \in 1..Len(readfds) : readfds'[k] = readfds[k]
          /\ readfds' # readfds => Len(readfds') = Len(readfds) + 1 /\ readfds'[Len(readfds) + 1] = h
          /\ readfds' = readfds => (\E k \in 1..Len(readfds) : readfds[k] = h) \/ Len(readfds) = FdSetSize
      <4>1. readfds' # readfds => Len(readfds') = Len(readfds) + 1
        BY <1>1, <3>1, <3>2, AcceptedFds
      <4>2. \A k \in 1..Len(readfds') : k > Len(readfds) => readfds'[k] = h
        BY <1>1, <3>1, <3>2, AcceptedFds
      <4>3. Len(readfds) + 1 > Len(readfds) /\ Len(readfds) + 1 \in 1..(Len(readfds) + 1)
        BY <2>1
      <4> QED
        BY <1>1, <3>1, <3>2, <4>1, <4>2, <4>3, AcceptedFds
    <3>4. Range(readfds) \subseteq Range(readfds')
      <4>1. ASSUME NEW k \in 1..Len(readfds) PROVE readfds[k] \in Range(readfds')
        <5>1. /\ Len(readfds) \in Nat /\ Len(readfds') \in Nat /\ Len(readfds') >= Len(readfds)
              /\ DOMAIN readfds' = 1..Len(readfds')
          BY <2>1, <3>3
        <5>2. k \in DOMAIN readfds'
          BY ONLY <5>1, k \in 1..Len(readfds)
        <5>3. readfds'[k] = readfds[k]
          BY <3>3
        <5> QED
          BY <5>2, <5>3 DEF Range
      <4> QED
        BY <2>1, <4>1 DEF Range
    <3>5. CASE c # d
      <4>1. conn[c] = "open"
        BY <2>1, <3>1, <3>5
      <4>2. ASSUME Watched(c) PROVE FALSE
        <5>1. PICK k \in Range(readfds) \cap Handles : owner[k] = c
          BY <4>2 DEF Watched
        <5>2. owner'[k] = c
          BY <2>1, <3>1, <5>1, SelectAssumption
        <5> QED
          BY <3>4, <5>1, <5>2 DEF Watched
      <4> QED
        BY <4>1, <4>2
    <3>6. CASE c = d
      <4>1. h \in Handles /\ owner'[h] = c
        BY <2>1, <3>1, <3>6
      <4>2. h \notin Range(readfds')
        BY <4>1 DEF Watched
      <4>3. readfds' = readfds
        <5>1. SUFFICES ASSUME readfds' # readfds PROVE FALSE
          OBVIOUS
        <5>2. Len(readfds) + 1 \in DOMAIN readfds' /\ readfds'[Len(readfds) + 1] = h
          BY <2>1, <3>3, <5>1
        <5> QED
          BY <4>2, <5>2 DEF Range
      <4> QED
        BY <2>1, <3>2, <3>3, <3>6, <4>2, <4>3 DEF Range
    <3> QED
      BY <3>5, <3>6
  <2>5. ASSUME NEW d \in Clients, RecvEnd(d)
        PROVE  conn[c] = "open" /\ ~Watched(c)
    <3> DEFINE h == readfds[i]
    <3>1. /\ i \in 1..Len(readfds) /\ h \in Handles /\ owner[h] = d
          /\ conn' = [conn EXCEPT ![d] = "closed"] /\ owner' = [owner EXCEPT ![h] = Nobody]
          /\ readfds' = FdClr(h, readfds)
      BY <1>1, <2>5, SelectAssumption DEF RecvEnd, AtReadable, AtSocket, IInv, TypeOK, SelectTypeOK
    <3>2. c # d /\ conn[c] = "open"
      BY <2>1, <3>1
    <3>3. /\ readfds' \in Seq(Handles \cup {Listener, Invalid}) /\ Len(readfds') = Len(readfds) - 1
          /\ \A k \in 1..(Len(readfds) - 1) : readfds'[k] = IF k < i THEN readfds[k] ELSE readfds[k + 1]
      <4>1. \A j, l \in 1..Len(readfds) : readfds[j] = readfds[l] => j = l
        BY <1>1 DEF IInv, ReadfdsInv
      <4> QED
        BY <2>1, <3>1, <4>1, FdClrGap
    <3>4. ASSUME Watched(c) PROVE FALSE
      <4>1. PICK k \in 1..Len(readfds) : readfds[k] \in Handles /\ owner[readfds[k]] = c
        BY <2>1, <3>4 DEF Watched, Range
      <4>2. k # i /\ owner'[readfds[k]] = c
        BY <2>1, <3>1, <3>2, <4>1
      <4>3. PICK l \in 1..(Len(readfds) - 1) : readfds'[l] = readfds[k]
        <5>1. CASE k < i
          <6>1. k \in 1..(Len(readfds) - 1)
            BY <2>1, <3>1, <5>1
          <6> QED
            BY <3>3, <5>1, <6>1
        <5>2. CASE k > i
          <6>1. k - 1 \in 1..(Len(readfds) - 1) /\ ~(k - 1 < i) /\ (k - 1) + 1 = k
            BY <2>1, <3>1, <5>2
          <6> QED
            BY <3>3, <6>1
        <5> QED
          BY <3>1, <4>2, <5>1, <5>2
      <4>4. readfds[k] \in Range(readfds')
        BY <3>3, <4>3 DEF Range
      <4> QED
        BY <4>1, <4>2, <4>4 DEF Watched
    <3> QED
      BY <3>2, <3>4
  <2>6. CASE Select \/ Skip \/ WalkDone \/ (\E d \in Clients : RecvData(d) \/ SendBack(d) \/ Peer(d))
    BY <2>2, <2>6 DEF Select, Skip, WalkDone, RecvData, SendBack, Peer, srvVars
  <2> QED
    BY <1>1, <2>3, <2>4, <2>5, <2>6 DEF Next, Server
<1>2. IInv /\ [Next]_vars => [Forgets]_vars
  BY <1>1
<1> QED
  BY <1>2, Invariance, PTL DEF Spec, ForgetsOnlyWhenFull
-----------------------------------------------------------------------------
LEMMA StreamsArePrefixes == IInv => PrefixOK
<1> SUFFICES ASSUME IInv, NEW c \in Clients
             PROVE  /\ wire[c] = Chunk(1, Len(wire[c])) /\ Len(wire[c]) \in Nat
                    /\ delivered[c] \in 0..Len(wire[c])
  BY DEF PrefixOK
<1>1. wire[c] \in Seq(Nat) /\ Len(wire[c]) \in Nat
  BY DEF IInv, TypeOK, TcpTypeOK
<1>2. wire[c] = Chunk(1, Len(wire[c])) /\ delivered[c] = Len(wire[c])
  BY DEF IInv, StreamInv
<1> QED
  BY <1>1, <1>2

LEMMA StreamsStayPrefixes == IInv' => PrefixOK'
  BY StreamsArePrefixes, PTL

\* A step of the server is a step of the service, or invisible to it.
LEMMA StepImplements ==
  ASSUME IInv, IInv', [Next]_vars PROVE [Service!Next]_(Service!vars)
<1> DEFINE Left == [c \in Clients |-> peer[c] \in {"fin", "rst"}]
           Released == [c \in Clients |-> conn[c] = "closed"]
<1>a. ASSUME UNCHANGED <<sent, wire, delivered, peer>>, Released' = Released PROVE UNCHANGED Service!vars
  BY <1>a DEF Service!vars
<1>b. conn \in [Clients -> {"none", "open", "invalid", "closed", "aborted"}]
  BY DEF IInv, TypeOK, SelectTypeOK
<1>1. CASE Select \/ Skip \/ WalkDone \/ \E c \in Clients : RecvData(c)
  BY <1>1, <1>a DEF Select, Skip, WalkDone, RecvData, tcpVars
<1>2. CASE SelectFails
  <2>1. Released' = Released
    BY <1>2, <1>b DEF SelectFails
  <2> QED
    BY <1>2, <2>1, <1>a DEF SelectFails, tcpVars
<1>3. ASSUME NEW c \in Clients, AcceptClient(c) PROVE UNCHANGED Service!vars
  <2>1. conn[c] = "none" /\ conn'[c] # "closed" /\ \A d \in Clients : d # c => conn'[d] = conn[d]
    BY <1>3, <1>b DEF AcceptClient, Pending
  <2>2. Released' = Released
    BY <2>1
  <2> QED
    BY <1>3, <2>2, <1>a DEF AcceptClient, tcpVars
<1>4. ASSUME NEW c \in Clients, RecvEnd(c) PROVE Service!Next
  <2>1. /\ conn' = [conn EXCEPT ![c] = "closed"] /\ UNCHANGED tcpVars
        /\ readfds[i] \in Handles /\ owner[readfds[i]] = c
        /\ Readable(c) /\ (peer[c] = "rst" \/ Unread(c) = 0)
    BY <1>4, SelectAssumption DEF RecvEnd, AtReadable, AtSocket, IInv, TypeOK, SelectTypeOK
  <2>2. conn[c] = "open"
    BY <2>1, SelectAssumption DEF IInv, OwnerInv
  <2>3. Left[c] = TRUE
    <3>1. peer[c] \in {"fin", "rst"}
      BY <2>1 DEF Readable
    <3> QED
      BY <3>1
  <2>4. Released[c] = FALSE /\ Released' = [Released EXCEPT ![c] = TRUE]
    BY <1>b, <2>1, <2>2
  <2>5. Service!Release(c)
    BY <2>1, <2>3, <2>4 DEF Service!Release, tcpVars
  <2> QED
    BY <2>5 DEF Service!Next
<1>5. ASSUME NEW c \in Clients, SendBack(c) PROVE [Service!Next]_(Service!vars)
  <2>1. pc = "send" /\ owner[readfds[i]] = c /\ UNCHANGED <<peer, sent, read, conn>>
    BY <1>5 DEF SendBack
  <2>2. /\ \A d \in Clients : d # c => wire'[d] = wire[d] /\ delivered'[d] = delivered[d]
        /\ delivered'[c] = delivered[c] \/ delivered'[c] = delivered[c] + bytesLen
        /\ delivered' \in [Clients -> Nat] /\ delivered \in [Clients -> Nat] /\ bytesLen \in Nat
    <3>1. delivered \in [Clients -> Nat] /\ bytesLen \in Nat
      BY DEF IInv, TypeOK, TcpTypeOK, SelectTypeOK
    <3> QED
      BY <1>5, <3>1, SendBackStream
  <2>3. delivered'[c] <= sent[c] /\ sent[c] \in Nat
    <3>1. delivered'[c] = Len(wire'[c]) /\ Len(wire'[c]) <= read'[c] /\ read'[c] <= sent'[c]
      BY DEF IInv, StreamInv
    <3>2. read'[c] \in Nat /\ sent'[c] \in Nat /\ delivered'[c] \in Nat
      BY DEF IInv, TypeOK, TcpTypeOK
    <3> QED
      BY <2>1, <3>1, <3>2
  <2>4. CASE delivered'[c] = delivered[c]
    <3>1. delivered' = delivered
      BY <2>2, <2>4
    <3>2. Returned' = Returned
      BY <3>1, ReturnedKept, StreamsArePrefixes, StreamsStayPrefixes
    <3> QED
      BY <2>1, <3>2 DEF Service!vars, Returned
  <2>5. CASE delivered'[c] # delivered[c]
    <3>1. bytesLen > 0 /\ delivered'[c] = delivered[c] + bytesLen
      BY <2>2, <2>5
    <3>2. /\ Len(Returned[c]) = delivered[c]
          /\ Returned' = [Returned EXCEPT ![c] = @ \o [k \in 1..bytesLen |-> Len(Returned[c]) + k]]
      BY <2>2, <3>1, ReturnedGrows, StreamsArePrefixes, StreamsStayPrefixes
    <3>3. bytesLen \in 1..(sent[c] - Len(Returned[c]))
      BY <2>2, <2>3, <3>1, <3>2
    <3>4. Released[c] = FALSE
      <4>1. conn[c] = "open"
        BY <2>1, SelectAssumption DEF IInv, OwnerInv, WalkInv
      <4> QED
        BY <4>1
    <3>5. Service!Echo(c)
      BY <2>1, <3>2, <3>3, <3>4 DEF Service!Echo, Returned
    <3> QED
      BY <3>5 DEF Service!Next
  <2> QED
    BY <2>4, <2>5
<1>6. ASSUME NEW c \in Clients, Peer(c) PROVE [Service!Next]_(Service!vars)
  <2>1. UNCHANGED <<wire, delivered, conn>> /\ peer \in [Clients -> PeerState]
    BY <1>6 DEF Peer, PeerStep, PeerConnect, PeerSend, PeerClose, PeerReset, srvVars, IInv, TypeOK, TcpTypeOK
  <2>2. CASE PeerSend(c)
    <3>1. Service!Send(c)
      BY <2>1, <2>2 DEF PeerSend, Service!Send
    <3> QED
      BY <3>1 DEF Service!Next
  <2>3. CASE PeerConnect(c) \/ (PeerReset(c) /\ peer[c] = "fin")
    <3>1. UNCHANGED sent /\ Left' = Left
      BY <2>1, <2>3 DEF PeerConnect, PeerReset
    <3> QED
      BY <2>1, <3>1 DEF Service!vars
  <2>4. CASE PeerClose(c) \/ (PeerReset(c) /\ peer[c] = "open")
    <3>1. UNCHANGED sent /\ Left[c] = FALSE /\ Left' = [Left EXCEPT ![c] = TRUE]
      BY <2>1, <2>4, LeftGrows DEF PeerClose, PeerReset
    <3>2. Service!Leave(c)
      BY <2>1, <3>1 DEF Service!Leave
    <3> QED
      BY <3>2 DEF Service!Next
  <2> QED
    BY <1>6, <2>2, <2>3, <2>4 DEF Peer, PeerStep, PeerReset
<1>7. CASE UNCHANGED vars
  BY <1>7, <1>a DEF vars, tcpVars, srvVars
<1> QED
  BY <1>1, <1>2, <1>3, <1>4, <1>5, <1>6, <1>7 DEF Next, Server

\* Everything the select server does is something an echo service may do:
\* prefixes come back in order, nothing after the release, no release before
\* the client has left.
THEOREM ImplementsServiceSafety == Spec => Service!Init /\ [][Service!Next]_(Service!vars)
<1>1. Init => Service!Init
  <2> SUFFICES ASSUME Init PROVE Service!Init
    OBVIOUS
  <2>1. [c \in Clients |-> SubSeq(wire[c], 1, delivered[c])] = [c \in Clients |-> << >>]
    BY DEF Init, TcpInit
  <2>2. ASSUME NEW c \in Clients PROVE (peer[c] \in {"fin", "rst"}) = FALSE
    <3>1. peer[c] = "away"
      BY DEF Init, TcpInit
    <3> QED
      BY <3>1
  <2>3. [c \in Clients |-> peer[c] \in {"fin", "rst"}] = [c \in Clients |-> FALSE]
    BY <2>2
  <2>4. [c \in Clients |-> conn[c] = "closed"] = [c \in Clients |-> FALSE]
    BY DEF Init
  <2> QED
    BY <2>1, <2>3, <2>4 DEF Init, TcpInit, Service!Init
<1>2. IInv /\ IInv' /\ [Next]_vars => [Service!Next]_(Service!vars)
  BY StepImplements
<1> QED
  BY <1>1, <1>2, Invariance, PTL DEF Spec
=============================================================================
