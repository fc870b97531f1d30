------------------------- MODULE WsaEventEchoProof -------------------------
(***************************************************************************)
(* WsaEventEcho for any number of clients, any BUF_LEN and any transport   *)
(* buffer: the inductive invariant, and what it implies.                   *)
(***************************************************************************)
EXTENDS WsaEventEcho, TcpPeerProof, FiniteSetTheorems

\* The types that the steps below need, in one place.
LEMMA Types ==
  ASSUME TypeOK
  PROVE  /\ conn \in [Clients -> {"none", "open", "invalid", "closed"}]
         /\ recorded \in [Sockets -> SUBSET NetworkEvent]
         /\ signaled \subseteq Sockets /\ armed \subseteq Sockets /\ closing \subseteq Clients
         /\ socks \in Seq(Sockets) /\ Len(socks) \in Nat /\ i \in Nat \ {0} /\ bytesLen \in 0..BufLen
         /\ bytesLen \in Nat /\ peer \in [Clients -> PeerState]
         /\ sent \in [Clients -> Nat] /\ read \in [Clients -> Nat] /\ delivered \in [Clients -> Nat]
         /\ wire \in [Clients -> Seq(Nat)] /\ \A c \in Clients : Len(wire[c]) \in Nat
  BY WsaAssumption DEF TypeOK, TcpTypeOK, WsaTypeOK

LEMMA InitIInv == Init => IInv
<1> SUFFICES ASSUME Init PROVE IInv
  OBVIOUS
<1> USE DEF Init, TcpInit
<1>1. Len(socks) = 1 /\ socks[1] = Listener /\ socks \in Seq(Sockets) /\ socks = events
  BY DEF Sockets
<1>2. Placed = {}
  BY DEF Placed
<1>3. TypeOK
  <2>1. 1 <= MaxEvents
    BY WsaAssumption
  <2> QED
    BY <1>1, <2>1, WsaAssumption DEF TypeOK, TcpTypeOK, WsaTypeOK, PeerState, Sockets
<1>4. PlaceInv
  <2>1. Cardinality(Placed) = 0
    BY <1>2, FS_EmptySet
  <2> QED
    BY <1>1, <2>1, WsaAssumption DEF PlaceInv
<1>5. RecordInv
  BY WsaAssumption DEF RecordInv, Sockets
<1>6. ReadInv /\ CloseInv
  BY DEF ReadInv, CloseInv
<1>7. ASSUME NEW c \in Clients
      PROVE  /\ read[c] = 0 /\ sent[c] = 0 /\ delivered[c] = 0 /\ wire[c] = << >>
             /\ Len(wire[c]) = 0 /\ InBuf(c) = 0
  BY DEF InBuf
<1>8. EchoInv
  <2>1. ASSUME NEW c \in Clients
        PROVE  /\ read[c] <= sent[c] /\ InBuf(c) <= read[c] /\ delivered[c] <= Len(wire[c])
               /\ Len(wire[c]) <= delivered[c] + SndBuf
    <3>1. SndBuf \in Nat
      BY WsaAssumption
    <3> QED
      BY ONLY <1>7, <3>1
  <2>2. ASSUME NEW c \in Clients PROVE 1..Len(wire[c]) = {}
    <3>1. Len(wire[c]) = 0
      BY <1>7
    <3> QED
      BY ONLY <3>1
  <2> QED
    BY ONLY <2>1, <2>2 DEF EchoInv
<1> QED
  BY <1>3, <1>4, <1>5, <1>6, <1>8 DEF IInv

\* A step that changes neither a connection's state nor the arrays leaves the
\* places alone.
LEMMA PlacesStay ==
  ASSUME PlaceInv, UNCHANGED <<conn, socks, events>>,
         pc' \in {"handle", "send", "wild"} => i' <= Len(socks)
  PROVE  PlaceInv'
<1>1. Placed' = Placed
  BY DEF Placed
<1>2. Cardinality(Placed)' = Cardinality(Placed)
  BY <1>1
<1>3. Len(socks') = 1 + Cardinality(Placed)'
  BY <1>2 DEF PlaceInv
<1> QED
  BY <1>3 DEF PlaceInv

-----------------------------------------------------------------------------
(* The kernel.                                                             *)

LEMMA NotifyAcceptKeeps ==
  ASSUME IInv, NotifyAccept PROVE IInv'
<1> USE DEF IInv
<1>1. /\ recorded' = [recorded EXCEPT ![Listener] = @ \cup {"ACCEPT"}]
      /\ signaled' = signaled \cup {Listener} /\ armed' = armed \ {Listener}
      /\ UNCHANGED <<tcpVars, closing, srvVars>>
  BY DEF NotifyAccept, Record
<1>2. /\ recorded \in [Sockets -> SUBSET NetworkEvent] /\ Listener \in Sockets /\ Invalid \in Sockets
      /\ Clients \subseteq Sockets /\ Listener \notin Clients /\ Listener # Invalid
  BY Types, WsaAssumption DEF Sockets
<1>3. recorded'[Listener] \subseteq recorded[Listener] \cup {"ACCEPT"}
      /\ recorded'[Invalid] = recorded[Invalid]
      /\ \A c \in Clients : recorded'[c] = recorded[c] /\ (c \in armed' <=> c \in armed)
                            /\ (c \in signaled' <=> c \in signaled)
  BY <1>1, <1>2
<1>4. TypeOK'
  BY <1>1, <1>2 DEF TypeOK, TcpTypeOK, WsaTypeOK, tcpVars, srvVars, NetworkEvent
<1>5. PlaceInv' /\ EchoInv'
  <2>1. PlaceInv'
    BY <1>1, PlacesStay DEF PlaceInv, srvVars
  <2>2. EchoInv'
    BY <1>1 DEF EchoInv, InBuf, tcpVars, srvVars
  <2> QED
    BY <2>1, <2>2
<1>6. RecordInv'
  BY <1>1, <1>2, <1>3 DEF RecordInv, tcpVars, srvVars
<1>7. ReadInv' /\ CloseInv'
  BY <1>1, <1>3, Types DEF ReadInv, CloseInv, InHand, Unread, tcpVars, srvVars
<1> QED
  BY <1>4, <1>5, <1>6, <1>7

LEMMA NotifyReadKeeps ==
  ASSUME IInv, NEW c \in Clients, NotifyRead(c) PROVE IInv'
<1> USE DEF IInv
<1>1. /\ conn[c] = "open" /\ peer[c] # "rst" /\ Unread(c) > 0 /\ c \in armed
      /\ recorded' = [recorded EXCEPT ![c] = @ \cup {"READ"}]
      /\ signaled' = signaled \cup {c} /\ armed' = armed \ {c}
      /\ UNCHANGED <<tcpVars, closing, srvVars>>
  BY DEF NotifyRead, Record
<1>2. /\ recorded \in [Sockets -> SUBSET NetworkEvent] /\ Listener \in Sockets /\ Invalid \in Sockets
      /\ Clients \subseteq Sockets /\ c # Listener /\ c # Invalid
  BY Types, WsaAssumption DEF Sockets
<1>3. /\ recorded'[c] = recorded[c] \cup {"READ"} /\ c \notin armed' /\ c \in signaled'
      /\ \A s \in Sockets : s # c => recorded'[s] = recorded[s] /\ (s \in armed' <=> s \in armed)
                                     /\ (s \in signaled' <=> s \in signaled)
  BY <1>1, <1>2
<1>4. TypeOK'
  BY <1>1, <1>2 DEF TypeOK, TcpTypeOK, WsaTypeOK, tcpVars, srvVars, NetworkEvent
<1>5. PlaceInv' /\ EchoInv'
  <2>1. PlaceInv'
    BY <1>1, PlacesStay DEF PlaceInv, srvVars
  <2>2. EchoInv'
    BY <1>1 DEF EchoInv, InBuf, tcpVars, srvVars
  <2> QED
    BY <2>1, <2>2
<1>6. RecordInv'
  BY <1>1, <1>2, <1>3 DEF RecordInv, tcpVars, srvVars
<1>7. ~("READ" \in recorded[c]) /\ ~(InHand(c) /\ "READ" \in net)
  BY <1>1 DEF ReadInv
<1>8. ReadInv'
  <2>1. \A d \in Clients : InHand(d)' = InHand(d) /\ Unread(d)' = Unread(d)
    BY <1>1 DEF InHand, Unread, tcpVars, srvVars
  <2> QED
    BY <1>1, <1>2, <1>3, <1>7, <2>1 DEF ReadInv, tcpVars, srvVars
<1>9. CloseInv'
  <2>1. \A d \in Clients : InHand(d)' = InHand(d) /\ Unread(d)' = Unread(d) /\ recorded[d] \subseteq recorded'[d]
    BY <1>1, <1>2, <1>3 DEF InHand, Unread, tcpVars, srvVars
  <2> QED
    BY <1>1, <2>1, Types DEF CloseInv, tcpVars, srvVars
<1> QED
  BY <1>4, <1>5, <1>6, <1>8, <1>9

LEMMA NotifyCloseKeeps ==
  ASSUME IInv, NEW c \in Clients, NotifyClose(c) PROVE IInv'
<1> USE DEF IInv
<1>1. PICK e \in {"CLOSE", "ABORT"} :
        /\ recorded' = [recorded EXCEPT ![c] = @ \cup {e}]
        /\ IF e = "CLOSE" THEN peer[c] = "fin" /\ Unread(c) = 0 ELSE peer[c] = "rst"
  BY DEF NotifyClose, Record
<1>2. /\ conn[c] = "open" /\ c \notin closing /\ closing' = closing \cup {c}
      /\ signaled' = signaled \cup {c} /\ UNCHANGED <<tcpVars, armed, srvVars>>
  BY DEF NotifyClose, Record
<1>3. /\ recorded \in [Sockets -> SUBSET NetworkEvent] /\ Listener \in Sockets /\ Invalid \in Sockets
      /\ Clients \subseteq Sockets /\ c # Listener /\ c # Invalid
  BY Types, WsaAssumption DEF Sockets
<1>4. /\ recorded'[c] = recorded[c] \cup {e} /\ c \in signaled'
      /\ \A s \in Sockets : s # c => recorded'[s] = recorded[s] /\ (s \in signaled' <=> s \in signaled)
                                     /\ (s \in closing' <=> s \in closing)
  BY <1>1, <1>2, <1>3
<1>5. TypeOK'
  BY <1>1, <1>2, <1>3 DEF TypeOK, TcpTypeOK, WsaTypeOK, tcpVars, srvVars, NetworkEvent
<1>6. PlaceInv' /\ EchoInv'
  <2>1. PlaceInv'
    BY <1>2, PlacesStay DEF PlaceInv, srvVars
  <2>2. EchoInv'
    BY <1>2 DEF EchoInv, InBuf, tcpVars, srvVars
  <2> QED
    BY <2>1, <2>2
<1>7. RecordInv'
  BY <1>1, <1>2, <1>3, <1>4 DEF RecordInv, tcpVars, srvVars
<1>8. \A d \in Clients : InHand(d)' = InHand(d) /\ Unread(d)' = Unread(d)
  BY <1>2 DEF InHand, Unread, tcpVars, srvVars
<1>9. ReadInv'
  <2>1. \A d \in Clients : "READ" \in recorded'[d] <=> "READ" \in recorded[d]
    BY <1>1, <1>3, <1>4
  <2> QED
    BY <1>2, <1>8, <2>1 DEF ReadInv, tcpVars, srvVars
<1>10. CloseInv'
  BY <1>1, <1>2, <1>3, <1>4, <1>8, Types DEF CloseInv, tcpVars, srvVars
<1> QED
  BY <1>5, <1>6, <1>7, <1>9, <1>10

LEMMA DeliverKeeps ==
  ASSUME IInv, NEW c \in Clients, Deliver(c) PROVE IInv'
<1> USE DEF IInv
<1>1. /\ delivered[c] < Len(wire[c]) /\ delivered' = [delivered EXCEPT ![c] = @ + 1]
      /\ UNCHANGED <<peer, sent, read, wire, winVars, srvVars>>
  BY DEF Deliver
<1>2. TypeOK'
  BY <1>1 DEF TypeOK, TcpTypeOK, WsaTypeOK, winVars, srvVars
<1>3. PlaceInv'
  BY <1>1, PlacesStay DEF PlaceInv, srvVars
<1>6. RecordInv' /\ ReadInv' /\ CloseInv'
  BY <1>1 DEF RecordInv, ReadInv, CloseInv, InHand, Unread, winVars, srvVars
<1>4. ASSUME NEW d \in Clients
      PROVE  delivered'[d] <= Len(wire[d]) /\ Len(wire[d]) <= delivered'[d] + SndBuf
  <2>1. /\ delivered[d] \in Nat /\ Len(wire[d]) \in Nat /\ SndBuf \in Nat
        /\ delivered'[d] = IF d = c THEN delivered[d] + 1 ELSE delivered[d]
    BY <1>1, Types, WsaAssumption
  <2>2. delivered[d] <= Len(wire[d]) /\ Len(wire[d]) <= delivered[d] + SndBuf
    BY DEF EchoInv
  <2> QED
    BY <1>1, <2>1, <2>2
<1>5. EchoInv'
  BY <1>1, <1>4 DEF EchoInv, InBuf, srvVars
<1> QED
  BY <1>2, <1>3, <1>5, <1>6

-----------------------------------------------------------------------------
(* The server.                                                             *)

\* Steps that move on to another place or to the wait, with nothing in hand.
LEMMA MoveKeeps ==
  ASSUME IInv, pc' \in {"wait", "scan"}, i' \in Nat \ {0}, net' \subseteq NetworkEvent, pc \notin {"send", "wild"},
         pc = "handle" => "READ" \notin net /\ net # {"CLOSE"},
         UNCHANGED <<tcpVars, winVars, conn, socks, events, bytesLen>>
  PROVE  IInv'
<1> USE DEF IInv, tcpVars, winVars
<1>1. TypeOK'
  BY DEF TypeOK, TcpTypeOK, WsaTypeOK
<1>2. PlaceInv' /\ RecordInv'
  <2>1. PlaceInv'
    BY PlacesStay DEF PlaceInv
  <2>2. RecordInv'
    BY DEF PlaceInv, RecordInv
  <2> QED
    BY <2>1, <2>2
<1>3. ReadInv' /\ CloseInv'
  BY DEF ReadInv, CloseInv, InHand, Unread
<1>4. EchoInv'
  BY DEF EchoInv, InBuf
<1> QED
  BY <1>1, <1>2, <1>3, <1>4

LEMMA ScanKeeps ==
  ASSUME IInv, Wait \/ Skip \/ CloseError \/ Handled \/ ScanDone PROVE IInv'
<1>1. i \in Nat \ {0} /\ net \subseteq NetworkEvent /\ socks = events /\ Len(socks) \in Nat
  BY Types DEF IInv, TypeOK, WsaTypeOK, PlaceInv
<1>2. CASE Wait
  BY <1>1, <1>2, MoveKeeps DEF Wait
<1>3. CASE Skip
  BY <1>1, <1>3, MoveKeeps DEF Skip
<1>4. CASE CloseError
  BY <1>1, <1>4, MoveKeeps DEF CloseError
<1>5. CASE Handled
  BY <1>1, <1>5, MoveKeeps DEF Handled
<1>6. CASE ScanDone
  BY <1>1, <1>6, MoveKeeps DEF ScanDone
<1> QED
  BY <1>2, <1>3, <1>4, <1>5, <1>6

LEMMA EnumKeeps ==
  ASSUME IInv, Enum PROVE IInv'
<1> USE DEF IInv
<1>1. PICK s \in Sockets : s = socks[i]
  <2>1. i \in 1..Len(socks) /\ socks \in Seq(Sockets)
    BY Types DEF Enum, PlaceInv
  <2> QED
    BY <2>1
<1>2. /\ pc = "scan" /\ pc' = "handle" /\ i <= Len(socks) /\ s \in signaled
      /\ net' = recorded[s] /\ recorded' = [recorded EXCEPT ![s] = {}] /\ signaled' = signaled \ {s}
      /\ UNCHANGED <<tcpVars, armed, closing, conn, socks, events, i, bytesLen>>
  BY <1>1 DEF Enum, PlaceInv
<1>3. recorded \in [Sockets -> SUBSET NetworkEvent] /\ Listener \in Sockets /\ Invalid \in Sockets
      /\ Clients \subseteq Sockets /\ Listener \notin Clients /\ Invalid \notin Clients /\ Listener # Invalid
      /\ s # Invalid /\ Sockets \subseteq Clients \cup {Listener, Invalid}
  BY <1>2, Types, WsaAssumption DEF Sockets, RecordInv
<1>4. /\ recorded'[s] = {} /\ \A t \in Sockets : t # s => recorded'[t] = recorded[t]
      /\ \A t \in Sockets : t # s => (t \in signaled' <=> t \in signaled)
      /\ socks'[i'] = s /\ \A d \in Clients : InHand(d)' <=> d = s
  BY <1>1, <1>2, <1>3 DEF InHand
<1>5. TypeOK'
  BY <1>2, <1>3 DEF TypeOK, TcpTypeOK, WsaTypeOK, tcpVars
<1>6. PlaceInv' /\ EchoInv'
  <2>1. PlaceInv'
    BY <1>2, PlacesStay DEF PlaceInv
  <2>2. EchoInv'
    BY <1>2 DEF EchoInv, InBuf, tcpVars
  <2> QED
    BY <2>1, <2>2
<1>7. RecordInv'
  <2>1. \/ s = Listener /\ net' \subseteq {"ACCEPT"}
        \/ s \in Clients /\ "ACCEPT" \notin net'
    BY <1>2, <1>3 DEF RecordInv
  <2>2. /\ recorded'[Invalid] = {} /\ Invalid \notin signaled' /\ recorded'[Listener] \subseteq {"ACCEPT"}
    BY <1>2, <1>3, <1>4 DEF RecordInv
  <2>3. ASSUME NEW c \in Clients
        PROVE  /\ "ACCEPT" \notin recorded'[c]
               /\ "ABORT" \in recorded'[c] => peer'[c] = "rst"
               /\ conn'[c] = "none" => recorded'[c] = {} /\ c \notin signaled' /\ c \notin closing'
               /\ conn'[c] = "open" /\ recorded'[c] # {} => c \in signaled'
    <3>1. /\ "ACCEPT" \notin recorded[c] /\ ("ABORT" \in recorded[c] => peer[c] = "rst")
          /\ conn[c] = "none" => recorded[c] = {} /\ c \notin signaled /\ c \notin closing
          /\ conn[c] = "open" /\ recorded[c] # {} => c \in signaled
      BY DEF RecordInv
    <3> QED
      BY <1>2, <1>3, <1>4, <3>1 DEF tcpVars
  <2> QED
    BY <1>2, <1>4, <2>1, <2>2, <2>3 DEF RecordInv
<1>8. \A d \in Clients : ~InHand(d) /\ Unread(d)' = Unread(d)
  BY <1>2 DEF InHand, Unread, tcpVars
<1>9. ReadInv'
  BY <1>2, <1>3, <1>4, <1>8 DEF ReadInv, tcpVars
<1>10. CloseInv'
  <2> SUFFICES ASSUME NEW c \in closing, conn[c] = "open", peer[c] # "rst"
               PROVE  /\ peer[c] = "fin" /\ Unread(c) = 0
                      /\ "CLOSE" \in recorded'[c] \/ (InHand(c)' /\ net' = {"CLOSE"})
    BY <1>2, <1>8, Types DEF CloseInv, tcpVars
  <2>1. c \in Clients /\ peer[c] = "fin" /\ Unread(c) = 0 /\ "CLOSE" \in recorded[c]
    BY <1>8, Types DEF CloseInv
  <2>2. recorded[c] = {"CLOSE"}
    <3>1. "READ" \notin recorded[c]
      BY <2>1 DEF ReadInv
    <3>2. "ABORT" \notin recorded[c] /\ "ACCEPT" \notin recorded[c]
      BY <2>1 DEF RecordInv
    <3> QED
      BY <1>3, <2>1, <3>1, <3>2 DEF NetworkEvent
  <2> QED
    BY <1>2, <1>3, <1>4, <2>1, <2>2
<1> QED
  BY <1>5, <1>6, <1>7, <1>9, <1>10

\* How many connections have a place: a finite number, one more when one is
\* accepted, one less when one is closed.
LEMMA PlacesCounted == IsFiniteSet(Placed) /\ Cardinality(Placed) \in Nat
<1>1. Placed \subseteq Clients
  BY DEF Placed
<1> QED
  BY <1>1, FS_Subset, FS_CardinalityType, WsaAssumption

LEMMA OneMorePlaced ==
  ASSUME TypeOK, NEW c \in Clients, conn[c] = "none", NEW v \in {"open", "invalid"},
         conn' = [conn EXCEPT ![c] = v]
  PROVE  Cardinality(Placed)' = Cardinality(Placed) + 1
<1>1. Placed' = Placed \cup {c} /\ c \notin Placed
  BY Types DEF Placed
<1>2. Cardinality(Placed \cup {c}) = Cardinality(Placed) + 1
  BY <1>1, PlacesCounted, FS_AddElement
<1> QED
  BY <1>1, <1>2

LEMMA OneLessPlaced ==
  ASSUME TypeOK, NEW c \in Clients, conn[c] = "open", conn' = [conn EXCEPT ![c] = "closed"]
  PROVE  Cardinality(Placed)' = Cardinality(Placed) - 1
<1>1. Placed' = Placed \ {c} /\ c \in Placed
  BY Types DEF Placed
<1>2. Cardinality(Placed \ {c}) = Cardinality(Placed) - 1
  BY <1>1, PlacesCounted, FS_RemoveElement
<1> QED
  BY <1>1, <1>2

LEMMA AcceptKeeps ==
  ASSUME IInv, NEW c \in Clients, AcceptClient(c) PROVE IInv'
<1> USE DEF IInv
<1>1. /\ pc = "handle" /\ "ACCEPT" \in net /\ conn[c] = "none" /\ net' = net \ {"ACCEPT"}
      /\ Len(socks) < MaxEvents
      /\ UNCHANGED <<tcpVars, recorded, signaled, closing, pc, i, bytesLen>>
  BY DEF AcceptClient, Pending
<1>2. PICK s \in {c, Invalid} :
        /\ conn' = [conn EXCEPT ![c] = IF s = c THEN "open" ELSE "invalid"]
        /\ socks' = Append(socks, s) /\ events' = Append(events, s)
        /\ armed' = armed \cup {Listener} \cup ({s} \ {Invalid})
  BY DEF AcceptClient
<1>3. /\ conn \in [Clients -> {"none", "open", "invalid", "closed"}]
      /\ socks \in Seq(Sockets) /\ Len(socks) \in Nat /\ s \in Sockets /\ c # Invalid /\ c # Listener
      /\ Listener # Invalid /\ Listener \in Sockets /\ i \in Nat \ {0} /\ socks = events
  BY Types, WsaAssumption DEF Sockets, PlaceInv
<1>4. /\ socks' \in Seq(Sockets) /\ Len(socks') = Len(socks) + 1 /\ socks'[Len(socks) + 1] = s
      /\ \A k \in 1..Len(socks) : socks'[k] = socks[k]
  BY <1>2, <1>3, AppendProperties
<1>5. /\ i \in 1..Len(socks) /\ socks[i] = Listener /\ socks'[i'] = socks[i] /\ net \subseteq {"ACCEPT"}
  BY <1>1, <1>3, <1>4 DEF PlaceInv, RecordInv
<1>6. Len(socks') = 1 + Cardinality(Placed)' /\ Len(socks') <= MaxEvents
  <2>1. PICK v \in {"open", "invalid"} : conn' = [conn EXCEPT ![c] = v]
    BY <1>2
  <2>2. Cardinality(Placed)' = Cardinality(Placed) + 1
    BY <1>1, <2>1, OneMorePlaced
  <2>3. Len(socks) = 1 + Cardinality(Placed) /\ Cardinality(Placed) \in Nat
    BY PlacesCounted DEF PlaceInv
  <2> QED
    BY <1>1, <1>3, <1>4, <2>2, <2>3, WsaAssumption
<1>7. /\ conn' \in [Clients -> {"none", "open", "invalid", "closed"}] /\ conn'[c] # "none"
      /\ (conn'[c] = "open") <=> (s = c)
      /\ \A d \in Clients : d # c => conn'[d] = conn[d]
  BY <1>2, <1>3
<1>8. TypeOK'
  BY <1>1, <1>2, <1>3, <1>4, <1>6, <1>7, Types DEF TypeOK, TcpTypeOK, WsaTypeOK, tcpVars
<1>9. PlaceInv'
  <2>1. \A k \in 1..Len(socks') : k \in 1..Len(socks) \/ k = Len(socks) + 1
    BY <1>3, <1>4
  <2>2. \A k \in 1..Len(socks) : socks[k] # c
    BY <1>1 DEF PlaceInv
  <2>3. \A j, k \in 1..Len(socks') : socks'[j] = socks'[k] /\ socks'[j] # Invalid => j = k
    BY <1>2, <1>4, <2>1, <2>2 DEF PlaceInv
  <2>4. ASSUME NEW d \in Clients PROVE conn'[d] = "open" <=> \E k \in 1..Len(socks') : socks'[k] = d
    <3>1. conn[d] = "open" <=> \E k \in 1..Len(socks) : socks[k] = d
      BY DEF PlaceInv
    <3>2. 1..Len(socks) \subseteq 1..Len(socks') /\ Len(socks) + 1 \in 1..Len(socks')
      BY <1>3, <1>4
    <3>3. CASE d = c
      BY <1>4, <1>7, <2>1, <2>2, <3>2, <3>3
    <3>4. CASE d # c
      BY <1>2, <1>4, <1>7, <2>1, <3>1, <3>2, <3>4, WsaAssumption
    <3> QED
      BY <3>3, <3>4
  <2>5. Len(socks') >= 1 /\ socks'[1] = Listener /\ socks' = events' /\ i' <= Len(socks')
    BY <1>1, <1>2, <1>3, <1>4, <1>5 DEF PlaceInv
  <2> QED
    BY <1>6, <2>3, <2>4, <2>5 DEF PlaceInv
<1>10. RecordInv'
  <2>1. net' \subseteq {"ACCEPT"} /\ socks'[i'] = Listener /\ pc' = "handle"
    BY <1>1, <1>5
  <2> QED
    BY <1>1, <1>7, <2>1 DEF RecordInv, tcpVars
<1>11. \A d \in Clients : ~InHand(d) /\ ~InHand(d)' /\ Unread(d)' = Unread(d)
  BY <1>1, <1>5, WsaAssumption DEF InHand, Unread, tcpVars
<1>12. ReadInv'
  <2> SUFFICES ASSUME NEW d \in Clients, conn'[d] = "open"
               PROVE  /\ d \in armed' \/ "READ" \in recorded[d]
                      /\ "READ" \in recorded[d] => d \notin armed' /\ (Unread(d) > 0 \/ peer[d] = "rst")
    BY <1>1, <1>11 DEF ReadInv, tcpVars
  <2>1. CASE d = c
    BY <1>1, <1>2, <1>3, <1>7, <2>1 DEF RecordInv
  <2>2. CASE d # c
    BY <1>2, <1>7, <1>11, <2>2, WsaAssumption DEF ReadInv
  <2> QED
    BY <2>1, <2>2
<1>13. CloseInv'
  <2>1. c \notin closing
    BY <1>1 DEF RecordInv
  <2> QED
    BY <1>1, <1>7, <1>11, <2>1, Types DEF CloseInv, tcpVars
<1>14. EchoInv'
  BY <1>1 DEF EchoInv, InBuf, tcpVars
<1> QED
  BY <1>8, <1>9, <1>10, <1>12, <1>13, <1>14

\* Leaving an array changes nothing that is followed.
LEMMA OverrunKeeps ==
  ASSUME IInv, NEW c \in Clients, Overrun(c) PROVE IInv'
<1> USE DEF IInv
<1>1. /\ pc = "handle" /\ pc' = "wild"
      /\ UNCHANGED <<tcpVars, winVars, conn, socks, events, i, net, bytesLen>>
  BY DEF Overrun
<1>2. UNCHANGED <<peer, sent, read, wire, delivered, recorded, signaled, armed, closing>>
  BY <1>1 DEF tcpVars, winVars
<1>3. \A d \in Clients : InHand(d)' = InHand(d) /\ Unread(d)' = Unread(d) /\ InBuf(d)' = InBuf(d)
  BY <1>1, <1>2 DEF InHand, Unread, InBuf
<1>4. TypeOK'
  BY <1>1, <1>2 DEF TypeOK, TcpTypeOK, WsaTypeOK
<1>5. PlaceInv'
  BY <1>1, PlacesStay DEF PlaceInv
<1>6. RecordInv'
  BY <1>1, <1>2 DEF RecordInv
<1>7. ReadInv' /\ CloseInv' /\ EchoInv'
  BY <1>1, <1>2, <1>3, Types DEF ReadInv, CloseInv, EchoInv
<1> QED
  BY <1>4, <1>5, <1>6, <1>7

LEMMA RecvNothingKeeps ==
  ASSUME IInv, NEW c \in Clients, RecvNothing(c) PROVE IInv'
<1> USE DEF IInv
<1>1. /\ pc = "handle" /\ "READ" \in net /\ c = socks[i] /\ (peer[c] = "rst" \/ Unread(c) = 0)
      /\ armed' = armed \cup {c} /\ net' = net \ {"READ"}
      /\ UNCHANGED <<tcpVars, recorded, signaled, closing, conn, socks, events, pc, i, bytesLen>>
  BY DEF RecvNothing
<1>2. InHand(c) /\ \A d \in Clients : /\ InHand(d)' = InHand(d)
                                      /\ (InHand(d) => d = c)
                                      /\ Unread(d)' = Unread(d)
  BY <1>1 DEF InHand, Unread, tcpVars
<1>3. TypeOK'
  BY <1>1 DEF TypeOK, TcpTypeOK, WsaTypeOK, tcpVars, Sockets
<1>4. PlaceInv' /\ EchoInv'
  <2>1. PlaceInv'
    BY <1>1, PlacesStay DEF PlaceInv
  <2>2. EchoInv'
    BY <1>1 DEF EchoInv, InBuf, tcpVars
  <2> QED
    BY <2>1, <2>2
<1>5. RecordInv'
  BY <1>1, WsaAssumption DEF RecordInv, tcpVars
<1>6. ReadInv'
  <2> SUFFICES ASSUME NEW d \in Clients, conn[d] = "open"
               PROVE  /\ d \in armed' \/ "READ" \in recorded[d] \/ (InHand(d) /\ "READ" \in net')
                      /\ "READ" \in recorded[d] \/ (InHand(d) /\ "READ" \in net') =>
                           d \notin armed' /\ (Unread(d) > 0 \/ peer[d] = "rst")
                      /\ ~("READ" \in recorded[d] /\ InHand(d) /\ "READ" \in net')
    BY <1>1, <1>2 DEF ReadInv, tcpVars
  <2>1. CASE d = c
    BY <1>1, <1>2, <2>1 DEF ReadInv
  <2>2. CASE d # c
    <3>1. d \in armed' <=> d \in armed
      BY <1>1, <2>2
    <3>2. ~InHand(d)
      BY <1>2, <2>2
    <3> QED
      BY <3>1, <3>2 DEF ReadInv
  <2> QED
    BY <2>1, <2>2
<1>7. CloseInv'
  <2>1. conn[c] = "open" => peer[c] = "rst"
    <3>1. Unread(c) = 0 => ~(Unread(c) > 0)
      OBVIOUS
    <3> QED
      BY <1>1, <1>2, <3>1 DEF ReadInv
  <2> QED
    BY <1>1, <1>2, <2>1, Types DEF CloseInv, tcpVars
<1> QED
  BY <1>3, <1>4, <1>5, <1>6, <1>7

LEMMA RecvDataKeeps ==
  ASSUME IInv, NEW c \in Clients, RecvData(c) PROVE IInv'
<1> USE DEF IInv
<1>1. /\ pc = "handle" /\ "READ" \in net /\ c = socks[i] /\ peer[c] # "rst"
      /\ armed' = armed \cup {c} /\ pc' = "send"
      /\ UNCHANGED <<peer, sent, wire, delivered, recorded, signaled, closing, conn, socks, events, i, net>>
  BY DEF RecvData
<1>2. PICK n \in 1..BufLen : n <= Unread(c) /\ read' = [read EXCEPT ![c] = @ + n] /\ bytesLen' = n
  BY DEF RecvData
<1>3. /\ read \in [Clients -> Nat] /\ sent \in [Clients -> Nat] /\ n \in Nat /\ n \in 0..BufLen
      /\ read' \in [Clients -> Nat] /\ read'[c] = read[c] + n /\ n <= sent[c] - read[c]
      /\ \A d \in Clients : d # c => read'[d] = read[d]
  BY <1>2, Types, WsaAssumption DEF Unread
<1>4. InHand(c) /\ \A d \in Clients : /\ ~InHand(d)' /\ (InHand(d) => d = c)
                                      /\ d # c => Unread(d)' = Unread(d)
  BY <1>1, <1>3 DEF InHand, Unread
<1>5. TypeOK'
  BY <1>1, <1>2, <1>3 DEF TypeOK, TcpTypeOK, WsaTypeOK, Sockets
<1>6. PlaceInv' /\ RecordInv'
  <2>1. PlaceInv'
    BY <1>1, PlacesStay DEF PlaceInv
  <2>2. RecordInv'
    BY <1>1, WsaAssumption DEF PlaceInv, RecordInv
  <2> QED
    BY <2>1, <2>2
<1>7. ReadInv'
  <2> SUFFICES ASSUME NEW d \in Clients, conn[d] = "open"
               PROVE  /\ d \in armed' \/ "READ" \in recorded[d]
                      /\ "READ" \in recorded[d] => d \notin armed' /\ (Unread(d)' > 0 \/ peer[d] = "rst")
    BY <1>1, <1>4 DEF ReadInv
  <2>1. CASE d = c
    BY <1>1, <1>4, <2>1 DEF ReadInv
  <2>2. CASE d # c
    BY <1>1, <1>4, <2>2 DEF ReadInv
  <2> QED
    BY <2>1, <2>2
<1>8. CloseInv'
  <2>1. c \notin closing \/ conn[c] # "open"
    <3>1. Unread(c) # 0
      BY <1>2, <1>3 DEF Unread
    <3> QED
      BY <1>1, <3>1 DEF CloseInv
  <2> QED
    BY <1>1, <1>4, <2>1, Types DEF CloseInv
<1>9. EchoInv'
  <2> SUFFICES ASSUME NEW d \in Clients
               PROVE  /\ read'[d] <= sent[d] /\ InBuf(d)' <= read'[d]
                      /\ \A k \in 1..Len(wire[d]) : wire[d][k] <= read'[d] - InBuf(d)'
    BY <1>1 DEF EchoInv
  <2>1. /\ InBuf(d) = 0 /\ InBuf(d)' = IF d = c THEN n ELSE 0
    BY <1>1, <1>2 DEF InBuf
  <2>2. /\ read[d] <= sent[d] /\ \A k \in 1..Len(wire[d]) : wire[d][k] <= read[d]
    BY <1>3, <2>1 DEF EchoInv
  <2>3. read[d] \in Nat /\ sent[d] \in Nat /\ \A k \in 1..Len(wire[d]) : wire[d][k] \in Nat
    BY Types
  <2>4. read'[d] = read[d] + InBuf(d)' /\ InBuf(d)' \in Nat /\ read'[d] <= sent[d]
    BY <1>3, <2>1, <2>2, <2>3
  <2>5. read'[d] - InBuf(d)' = read[d] /\ InBuf(d)' <= read'[d]
    BY <2>3, <2>4
  <2> QED
    BY <2>2, <2>4, <2>5
<1> QED
  BY <1>5, <1>6, <1>7, <1>8, <1>9

\* What a send takes is the next part of what is in buf, or nothing.
LEMMA TakenPart ==
  ASSUME IInv, NEW c \in Clients, pc = "send", c = socks[i]
  PROVE  \E m \in Nat :
           /\ m <= bytesLen /\ Len(wire[c]) + m <= delivered[c] + SndBuf
           /\ Taken(c) \in Seq(Nat) /\ Len(Taken(c)) = m
           /\ \A k \in 1..m : Taken(c)[k] = (read[c] - bytesLen) + k
<1> DEFINE room == SndBuf - (Len(wire[c]) - delivered[c])
           m == IF bytesLen <= room THEN bytesLen ELSE room
           lo == read[c] - bytesLen + 1
<1>1. /\ SndBuf \in Nat /\ Len(wire[c]) \in Nat /\ delivered[c] \in Nat /\ bytesLen \in Nat /\ read[c] \in Nat
  BY Types, WsaAssumption DEF IInv
<1>2. delivered[c] <= Len(wire[c]) /\ Len(wire[c]) <= delivered[c] + SndBuf /\ bytesLen <= read[c]
  BY DEF IInv, EchoInv, InBuf
<1>3. m \in Nat /\ m <= bytesLen /\ Len(wire[c]) + m <= delivered[c] + SndBuf /\ lo \in Nat /\ lo >= 1
  BY ONLY <1>1, <1>2
<1>4. Taken(c) = Chunk(lo, m)
  BY DEF Taken
<1> HIDE DEF m
<1>5. Chunk(lo, m) = [k \in 1..m |-> lo + k - 1]
  BY DEF Chunk
<1>6. Taken(c) \in Seq(Nat) /\ Len(Taken(c)) = m /\ \A k \in 1..m : Taken(c)[k] = lo + k - 1
  BY ONLY <1>3, <1>4, <1>5
<1>7. \A k \in 1..m : lo + k - 1 = (read[c] - bytesLen) + k
  BY <1>1, <1>3
<1> QED
  BY <1>3, <1>6, <1>7

LEMMA SendBackKeeps ==
  ASSUME IInv, NEW c \in Clients, SendBack(c) PROVE IInv'
<1> USE DEF IInv
<1>1. /\ pc = "send" /\ c = socks[i] /\ bytesLen' = 0 /\ net' = net \ {"READ"} /\ pc' = "handle"
      /\ wire' = IF peer[c] = "rst" THEN wire ELSE [wire EXCEPT ![c] = @ \o Taken(c)]
      /\ UNCHANGED <<peer, sent, read, delivered, winVars, conn, socks, events, i>>
  BY DEF SendBack
<1>2. PICK m \in Nat :
        /\ m <= bytesLen /\ Len(wire[c]) + m <= delivered[c] + SndBuf
        /\ Taken(c) \in Seq(Nat) /\ Len(Taken(c)) = m
        /\ \A k \in 1..m : Taken(c)[k] = (read[c] - bytesLen) + k
  BY <1>1, TakenPart
<1>3. /\ wire \in [Clients -> Seq(Nat)] /\ read[c] \in Nat /\ bytesLen \in Nat /\ delivered[c] \in Nat
      /\ Len(wire[c]) \in Nat /\ bytesLen <= read[c] /\ delivered[c] <= Len(wire[c])
      /\ SndBuf \in Nat /\ Len(wire[c]) <= delivered[c] + SndBuf
      /\ \A k \in 1..Len(wire[c]) : wire[c][k] <= read[c] - bytesLen
      /\ \A j, k \in 1..Len(wire[c]) : j < k => wire[c][j] < wire[c][k]
  BY <1>1, Types, WsaAssumption DEF EchoInv, InBuf
<1>4. \A d \in Clients : d # c => wire'[d] = wire[d]
  BY <1>1, <1>3
<1>5. /\ wire'[c] \in Seq(Nat) /\ Len(wire'[c]) \in Nat
      /\ delivered[c] <= Len(wire'[c]) /\ Len(wire'[c]) <= delivered[c] + SndBuf
      /\ \A k \in 1..Len(wire'[c]) : wire'[c][k] <= read[c]
      /\ \A j, k \in 1..Len(wire'[c]) : j < k => wire'[c][j] < wire'[c][k]
  <2>1. wire[c] \in Seq(Nat) /\ \A k \in 1..Len(wire[c]) : wire[c][k] \in Nat /\ wire[c][k] <= read[c]
    BY <1>3
  <2>2. CASE peer[c] = "rst"
    <3>1. wire'[c] = wire[c]
      BY <1>1, <2>2
    <3> QED
      BY <1>3, <2>1, <3>1
  <2>3. CASE peer[c] # "rst"
    <3>1. wire'[c] = wire[c] \o Taken(c)
      BY <1>1, <1>3, <2>3
    <3> DEFINE n == Len(wire[c])
               r == read[c] - bytesLen
    <3>2. /\ wire'[c] \in Seq(Nat) /\ Len(wire'[c]) = n + m
          /\ \A k \in 1..(n + m) : wire'[c][k] = IF k <= n THEN wire[c][k] ELSE Taken(c)[k - n]
      <4>1. LET t == wire[c] \o Taken(c) IN
            /\ t \in Seq(Nat) /\ Len(t) = Len(wire[c]) + Len(Taken(c))
            /\ \A k \in 1..(Len(wire[c]) + Len(Taken(c))) :
                 t[k] = IF k <= Len(wire[c]) THEN wire[c][k] ELSE Taken(c)[k - Len(wire[c])]
        BY <1>2, <2>1, ConcatProperties, Zenon
      <4>2. Len(Taken(c)) = m
        BY <1>2
      <4> QED
        BY ONLY <3>1, <4>1, <4>2, Zenon
    <3>3. n \in Nat /\ m \in Nat /\ r \in Nat /\ r + m <= read[c] /\ n + m <= delivered[c] + SndBuf
          /\ delivered[c] <= n + m
      BY <1>2, <1>3
    <3>4. \A k \in 1..(n + m) : k <= n => wire'[c][k] = wire[c][k] /\ wire[c][k] <= r /\ wire[c][k] \in Nat
                                          /\ k \in 1..n
      BY <1>3, <2>1, <3>2, <3>3
    <3>5. \A k \in 1..(n + m) : k > n => wire'[c][k] = r + (k - n) /\ k - n \in 1..m
      <4>1. \A k \in 1..(n + m) : k > n => ~(k <= n) /\ k - n \in 1..m
        BY <3>3
      <4> QED
        BY <1>2, <3>2, <4>1
    <3> HIDE DEF n, r
    <3>6. \A k \in 1..(n + m) : wire'[c][k] <= read[c]
      <4> TAKE k \in 1..(n + m)
      <4>1. CASE k <= n
        <5>1. wire'[c][k] <= r /\ wire'[c][k] \in Nat
          BY <3>4, <4>1
        <5> QED
          BY <1>3, <3>3, <5>1
      <4>2. CASE k > n
        <5>1. wire'[c][k] = r + (k - n) /\ k - n \in 1..m
          BY <3>5, <4>2
        <5> QED
          BY <1>3, <3>3, <5>1
      <4> QED
        BY <3>3, <4>1, <4>2
    <3>7. ASSUME NEW j \in 1..(n + m), NEW k \in 1..(n + m), j < k
          PROVE  wire'[c][j] < wire'[c][k]
      <4>1. CASE k <= n
        <5>1. j \in 1..n /\ k \in 1..n
          BY <3>3, <3>7, <4>1
        <5> QED
          BY <1>3, <3>4, <3>7, <4>1, <5>1 DEF n
      <4>2. CASE k > n /\ j <= n
        BY <3>3, <3>4, <3>5, <4>2
      <4>3. CASE k > n /\ j > n
        BY <3>3, <3>5, <3>7, <4>3
      <4> QED
        BY <3>3, <3>7, <4>1, <4>2, <4>3
    <3>8. n + m \in Nat /\ delivered[c] <= n + m /\ n + m <= delivered[c] + SndBuf
      BY <3>3
    <3> QED
      BY ONLY <3>2, <3>6, <3>7, <3>8, Zenon
  <2> QED
    BY <2>2, <2>3
<1>6. TypeOK'
  <2>1. wire' \in [Clients -> Seq(Nat)]
    BY <1>1, <1>3, <1>4, <1>5
  <2> QED
    BY <1>1, <2>1, WsaAssumption DEF TypeOK, TcpTypeOK, WsaTypeOK, winVars
<1>7. PlaceInv' /\ RecordInv'
  <2>1. PlaceInv'
    BY <1>1, PlacesStay DEF PlaceInv
  <2>2. RecordInv'
    BY <1>1, WsaAssumption DEF PlaceInv, RecordInv, winVars
  <2> QED
    BY <2>1, <2>2
<1>8. ReadInv' /\ CloseInv'
  BY <1>1 DEF ReadInv, CloseInv, InHand, Unread, winVars
<1>9. EchoInv'
  <2>1. \A d \in Clients : InBuf(d)' = 0 /\ (d # c => InBuf(d) = 0) /\ read[d] \in Nat
    BY <1>1, Types DEF InBuf
  <2>2. ASSUME NEW d \in Clients
        PROVE  /\ read[d] <= sent[d] /\ InBuf(d)' <= read[d] /\ delivered[d] <= Len(wire'[d])
               /\ Len(wire'[d]) <= delivered[d] + SndBuf
               /\ \A k \in 1..Len(wire'[d]) : wire'[d][k] <= read[d] - InBuf(d)'
               /\ \A j, k \in 1..Len(wire'[d]) : j < k => wire'[d][j] < wire'[d][k]
    <3>1. read[d] - 0 = read[d] /\ 0 <= read[d] /\ read[d] <= sent[d]
      BY <2>1 DEF EchoInv
    <3>2. CASE d = c
      BY <1>5, <2>1, <3>1, <3>2
    <3>3. CASE d # c
      BY <1>4, <2>1, <3>1, <3>3 DEF EchoInv
    <3> QED
      BY <3>2, <3>3
  <2> QED
    BY <1>1, <2>2 DEF EchoInv
<1> QED
  BY <1>6, <1>7, <1>8, <1>9

LEMMA CloseClientKeeps ==
  ASSUME IInv, NEW c \in Clients, CloseClient(c) PROVE IInv'
<1> USE DEF IInv
<1> DEFINE n == Len(socks)
<1>1. /\ pc = "handle" /\ net = {"CLOSE"} /\ c = socks[i] /\ pc' = "scan" /\ net' = {}
      /\ conn' = [conn EXCEPT ![c] = "closed"] /\ signaled' = signaled \ {c}
      /\ socks' = RemoveAt(socks, i) /\ events' = RemoveAt(socks, i)
      /\ UNCHANGED <<tcpVars, recorded, armed, closing, i, bytesLen>>
  BY DEF CloseClient, PlaceInv
<1>2. /\ conn \in [Clients -> {"none", "open", "invalid", "closed"}] /\ n \in Nat /\ i \in 1..n /\ i # 1
      /\ socks \in Seq(Sockets) /\ Clients \subseteq Sockets
      /\ \A k \in 1..n : socks[k] = c => k = i
  BY <1>1, Types, WsaAssumption DEF PlaceInv, Sockets
<1>3. /\ socks' \in Seq(Sockets) /\ Len(socks') = n - 1
      /\ \A k \in 1..(n - 1) : socks'[k] = IF k < i THEN socks[k] ELSE socks[k + 1]
  BY <1>1, <1>2, GapClosed DEF RemoveAt
<1>4. \A k \in 1..(n - 1) :
        \E l \in 1..n : l = (IF k < i THEN k ELSE k + 1) /\ socks'[k] = socks[l] /\ l # i
  BY <1>2, <1>3
<1>5. /\ conn' \in [Clients -> {"none", "open", "invalid", "closed"}] /\ conn[c] = "open"
      /\ conn'[c] = "closed" /\ \A d \in Clients : d # c => conn'[d] = conn[d]
  BY <1>1, <1>2 DEF PlaceInv
<1>6. TypeOK'
  <2>1. n - 1 <= MaxEvents /\ n <= MaxEvents
    BY <1>2, WsaAssumption DEF TypeOK, WsaTypeOK
  <2> QED
    BY <1>1, <1>3, <1>5, <2>1, Types DEF TypeOK, TcpTypeOK, WsaTypeOK, tcpVars
<1>7. PlaceInv'
  <2>1. \A j, k \in 1..(n - 1) : socks'[j] = socks'[k] /\ socks'[j] # Invalid => j = k
    <3> SUFFICES ASSUME NEW j \in 1..(n - 1), NEW k \in 1..(n - 1),
                        socks'[j] = socks'[k], socks'[j] # Invalid
                 PROVE  j = k
      OBVIOUS
    <3>1. PICK l \in 1..n : l = (IF j < i THEN j ELSE j + 1) /\ socks'[j] = socks[l]
      BY <1>4
    <3>2. PICK m \in 1..n : m = (IF k < i THEN k ELSE k + 1) /\ socks'[k] = socks[m]
      BY <1>4
    <3>3. socks[l] = socks[m] /\ socks[l] # Invalid
      BY <3>1, <3>2
    <3>4. l = m
      BY <3>3 DEF PlaceInv
    <3> QED
      BY ONLY <1>2, <3>1, <3>2, <3>4
  <2>2. ASSUME NEW d \in Clients PROVE conn'[d] = "open" <=> \E k \in 1..(n - 1) : socks'[k] = d
    <3>1. CASE d = c
      BY <1>2, <1>4, <1>5, <3>1
    <3>2. CASE d # c
      <4>1. conn[d] = "open" <=> \E k \in 1..n : socks[k] = d
        BY DEF PlaceInv
      <4>2. ASSUME NEW k \in 1..n, socks[k] = d PROVE \E l \in 1..(n - 1) : socks'[l] = d
        <5>1. k # i
          BY <1>1, <3>2, <4>2
        <5>2. CASE k < i
          <6>1. k \in 1..(n - 1)
            BY <1>2, <5>2
          <6> QED
            BY <1>3, <4>2, <5>2, <6>1
        <5>3. CASE k > i
          <6>1. k - 1 \in 1..(n - 1) /\ ~(k - 1 < i) /\ (k - 1) + 1 = k
            BY <1>2, <5>3
          <6>2. socks'[k - 1] = d
            BY <1>3, <4>2, <6>1
          <6> QED
            BY <6>1, <6>2
        <5> QED
          BY <1>2, <5>1, <5>2, <5>3
      <4> QED
        BY <1>4, <1>5, <3>2, <4>1, <4>2
    <3> QED
      BY <3>1, <3>2
  <2>4. Len(socks') = 1 + Cardinality(Placed)'
    <3>1. Cardinality(Placed)' = Cardinality(Placed) - 1
      BY <1>1, <1>5, OneLessPlaced
    <3>2. n = 1 + Cardinality(Placed) /\ Cardinality(Placed) \in Nat
      BY PlacesCounted DEF PlaceInv
    <3> QED
      BY <1>3, <3>1, <3>2
  <2>5. Len(socks') >= 1 /\ socks'[1] = Listener
    BY <1>2, <1>3 DEF PlaceInv
  <2> QED
    BY <1>1, <1>3, <2>1, <2>2, <2>4, <2>5 DEF PlaceInv
<1>8. RecordInv'
  <2> SUFFICES ASSUME NEW d \in Clients
               PROVE  /\ conn'[d] = "none" => recorded[d] = {} /\ d \notin signaled' /\ d \notin closing
                      /\ conn'[d] = "open" /\ recorded[d] # {} => d \in signaled'
    BY <1>1 DEF RecordInv, tcpVars
  <2> QED
    BY <1>1, <1>5 DEF RecordInv
<1>9. \A d \in Clients : ~InHand(d)' /\ (InHand(d) => d = c) /\ Unread(d)' = Unread(d)
  BY <1>1 DEF InHand, Unread, tcpVars
<1>10. ReadInv' /\ CloseInv'
  <2>1. \A d \in Clients : conn'[d] = "open" => conn[d] = "open" /\ ~InHand(d)
    BY <1>5, <1>9
  <2> QED
    BY <1>1, <1>9, <2>1, Types DEF ReadInv, CloseInv, tcpVars
<1>11. EchoInv'
  BY <1>1 DEF EchoInv, InBuf, tcpVars
<1> QED
  BY <1>6, <1>7, <1>8, <1>10, <1>11

LEMMA PeerKeeps ==
  ASSUME IInv, NEW c \in Clients, Peer(c) PROVE IInv'
<1> USE DEF IInv
<1>1. UNCHANGED <<read, wire, delivered, winVars, srvVars>>
  BY DEF Peer, PeerStep, PeerConnect, PeerSend, PeerClose, PeerReset
<1>2. /\ peer \in [Clients -> PeerState] /\ sent \in [Clients -> Nat] /\ read \in [Clients -> Nat]
      /\ peer' \in [Clients -> PeerState] /\ sent' \in [Clients -> Nat]
      /\ \A d \in Clients : /\ sent'[d] >= sent[d] /\ (peer[d] # "open" => sent'[d] = sent[d])
                            /\ peer[d] = "fin" => peer'[d] \in {"fin", "rst"}
                            /\ peer[d] = "rst" => peer'[d] = "rst"
  <2> USE Types DEF PeerState
  <2>1. CASE PeerConnect(c)
    BY <2>1 DEF PeerConnect
  <2>2. CASE PeerSend(c)
    BY <2>2 DEF PeerSend
  <2>3. CASE PeerClose(c)
    BY <2>3 DEF PeerClose
  <2>4. CASE PeerReset(c)
    BY <2>4 DEF PeerReset
  <2> QED
    BY <2>1, <2>2, <2>3, <2>4 DEF Peer, PeerStep
<1>3. TypeOK'
  BY <1>1, <1>2 DEF TypeOK, TcpTypeOK, WsaTypeOK, winVars, srvVars
<1>4. PlaceInv' /\ RecordInv'
  <2>1. PlaceInv'
    BY <1>1, <1>2, PlacesStay DEF PlaceInv, srvVars
  <2>2. RecordInv'
    BY <1>1, <1>2 DEF PlaceInv, RecordInv, winVars, srvVars
  <2> QED
    BY <2>1, <2>2
<1>5. \A d \in Clients : /\ InHand(d)' = InHand(d) /\ Unread(d)' >= Unread(d)
                         /\ Unread(d) \in Int /\ Unread(d)' \in Int
                         /\ peer[d] = "fin" => Unread(d)' = Unread(d)
  BY <1>1, <1>2 DEF InHand, Unread, winVars, srvVars
<1>6. ReadInv'
  <2>1. \A d \in Clients : Unread(d) > 0 \/ peer[d] = "rst" => Unread(d)' > 0 \/ peer'[d] = "rst"
    BY <1>2, <1>5
  <2> QED
    BY <1>1, <1>5, <2>1 DEF ReadInv, winVars, srvVars
<1>7. CloseInv'
  BY <1>1, <1>2, <1>5, Types DEF CloseInv, winVars, srvVars
<1>8. EchoInv'
  <2>1. \A d \in Clients : read[d] <= sent'[d]
    BY <1>2 DEF EchoInv
  <2> QED
    BY <1>1, <2>1 DEF EchoInv, InBuf, winVars, srvVars
<1> QED
  BY <1>3, <1>4, <1>6, <1>7, <1>8

LEMMA NextKeeps ==
  ASSUME IInv, [Next]_vars PROVE IInv'
<1>1. CASE UNCHANGED vars
  <2> USE <1>1 DEF IInv, vars, tcpVars, winVars, srvVars
  <2>1. TypeOK'
    BY DEF TypeOK, TcpTypeOK, WsaTypeOK
  <2>2. PlaceInv' /\ RecordInv'
    <3>1. PlaceInv'
      BY PlacesStay DEF PlaceInv
    <3>2. RecordInv'
      BY DEF PlaceInv, RecordInv
    <3> QED
      BY <3>1, <3>2
  <2>3. ReadInv' /\ CloseInv' /\ EchoInv'
    BY DEF ReadInv, CloseInv, EchoInv, InHand, InBuf, Unread
  <2> QED
    BY <2>1, <2>2, <2>3
<1>2. CASE NotifyAccept \/ \E c \in Clients : Kernel(c) \/ Peer(c)
  BY <1>2, NotifyAcceptKeeps, NotifyReadKeeps, NotifyCloseKeeps, DeliverKeeps, PeerKeeps DEF Kernel
<1>3. CASE Server
  BY <1>3, ScanKeeps, EnumKeeps, AcceptKeeps, OverrunKeeps, RecvNothingKeeps, RecvDataKeeps, SendBackKeeps,
     CloseClientKeeps DEF Server
<1> QED
  BY <1>1, <1>2, <1>3 DEF Next

\* Once it has left an array it does not move, and what was the reason stays: a
\* reset is for ever, and bytes that are not read do not go away.
LEMMA WildKeeps ==
  ASSUME IInv, WildInv, [Next]_vars PROVE WildInv'
<1> SUFFICES ASSUME pc' = "wild" PROVE WildInv'
  BY DEF WildInv
<1>1. CASE \E c \in Clients : Overrun(c)
  <2>1. PICK c \in Clients : Overrun(c)
    BY <1>1
  <2>2. /\ pc = "handle" /\ UNCHANGED <<peer, sent, read, socks, i, net>>
        /\ \/ "ACCEPT" \in net /\ Len(socks) = MaxEvents
           \/ "READ" \in net /\ c = socks[i] /\ (peer[c] = "rst" \/ Unread(c) \notin 1..(BufLen - 1))
    BY <2>1 DEF Overrun, tcpVars
  <2>3. CASE "ACCEPT" \in net /\ Len(socks) = MaxEvents
    BY <2>2, <2>3 DEF WildInv
  <2>4. CASE "READ" \in net /\ c = socks[i] /\ (peer[c] = "rst" \/ Unread(c) \notin 1..(BufLen - 1))
    <3>1. conn[c] = "open"
      BY <2>2, <2>4, Types DEF IInv, PlaceInv
    <3>2. Unread(c) > 0 \/ peer[c] = "rst"
      BY <2>2, <2>4, <3>1 DEF IInv, ReadInv, InHand
    <3>3. Unread(c) \in Int /\ BufLen \in Nat
      BY Types, WsaAssumption DEF IInv, Unread
    <3>4. peer[c] = "rst" \/ Unread(c) >= BufLen
      BY <2>4, <3>2, <3>3
    <3>5. Unread(c)' = Unread(c)
      BY <2>2 DEF Unread
    <3> QED
      BY <2>2, <2>4, <3>4, <3>5 DEF WildInv
  <2> QED
    BY <2>2, <2>3, <2>4
<1>2. CASE ~(\E c \in Clients : Overrun(c))
  <2>1. UNCHANGED srvVars
    BY <1>2 DEF Next, Server, Wait, Skip, Enum, CloseError, Handled, ScanDone, AcceptClient, RecvNothing,
                RecvData, SendBack, CloseClient, NotifyAccept, Kernel, NotifyRead, NotifyClose, Deliver,
                Peer, vars
  <2>2. UNCHANGED <<socks, i, net, pc>>
    BY <2>1 DEF srvVars
  <2>3. read' = read /\ \A d \in Clients : sent'[d] >= sent[d] /\ (peer[d] = "rst" => peer'[d] = "rst")
    <3>1. CASE \E c \in Clients : Peer(c)
      <4>1. PICK c \in Clients : PeerStep(c)
        BY <3>1 DEF Peer
      <4>2. CASE PeerConnect(c)
        BY <4>2, Types DEF IInv, PeerConnect
      <4>3. CASE PeerSend(c)
        BY <4>3, Types DEF IInv, PeerSend
      <4>4. CASE PeerClose(c)
        BY <4>4, Types DEF IInv, PeerClose
      <4>5. CASE PeerReset(c)
        BY <4>5, Types DEF IInv, PeerReset
      <4> QED
        BY <4>1, <4>2, <4>3, <4>4, <4>5 DEF PeerStep
    <3>2. CASE ~(\E c \in Clients : Peer(c))
      <4>1. UNCHANGED <<peer, sent, read>>
        BY <1>2, <2>2, <3>2 DEF Next, Server, Wait, Skip, Enum, CloseError, Handled, ScanDone, AcceptClient,
                RecvNothing, RecvData, SendBack, CloseClient, NotifyAccept, Kernel, NotifyRead, NotifyClose,
                Deliver, vars, tcpVars
      <4>2. \A d \in Clients : sent[d] \in Nat
        BY Types DEF IInv
      <4> QED
        BY <4>1, <4>2
    <3> QED
      BY <3>1, <3>2
  <2>4. CASE "ACCEPT" \in net /\ Len(socks) = MaxEvents
    BY <2>2, <2>4 DEF WildInv
  <2>5. CASE "READ" \in net /\ (peer[socks[i]] = "rst" \/ Unread(socks[i]) >= BufLen)
    <3>1. PICK d \in Clients : d = socks[i]
      BY <2>2, <2>5 DEF IInv, RecordInv
    <3>2. Unread(d)' >= Unread(d) /\ Unread(d) \in Int /\ Unread(d)' \in Int /\ BufLen \in Nat
      <4>1. sent[d] \in Nat /\ read[d] \in Nat /\ sent'[d] \in Nat
        BY NextKeeps, Types DEF IInv, TypeOK, TcpTypeOK
      <4> QED
        BY <2>3, <4>1, WsaAssumption DEF Unread
    <3>3. peer'[d] = "rst" \/ Unread(d)' >= BufLen
      BY <2>3, <2>5, <3>1, <3>2
    <3> QED
      BY <2>2, <2>5, <3>1, <3>3 DEF WildInv
  <2> QED
    BY <2>2, <2>4, <2>5 DEF WildInv
<1> QED
  BY <1>1, <1>2

-----------------------------------------------------------------------------
\* The invariant holds in every state of every run.
THEOREM Invariance == Spec => [](IInv /\ WildInv)
<1>1. Init => IInv /\ WildInv
  BY InitIInv DEF Init, WildInv
<1>2. IInv /\ WildInv /\ [Next]_vars => (IInv /\ WildInv)'
  BY NextKeeps, WildKeeps
<1> QED
  BY <1>1, <1>2, PTL DEF Spec

\* Every variable keeps its type, however many clients come; the arrays never
\* hold more than WSA_MAXIMUM_WAIT_EVENTS before a write leaves them (line 101).
THEOREM TypeCorrect == Spec => []TypeOK
<1>1. IInv => TypeOK
  BY DEF IInv
<1> QED
  BY <1>1, Invariance, PTL

\* The arrays stay parallel, a closed connection leaves them, and its place is
\* free again: line 101 leaves the arrays only when server_sock, the connections
\* that are open and those that were reset have every place.
THEOREM ArraysStayParallel == Spec => []ArraysMatch
<1>1. IInv /\ WildInv => ArraysMatch
  <2> SUFFICES ASSUME IInv, WildInv PROVE ArraysMatch
    OBVIOUS
  <2>1. socks \in Seq(Sockets) /\ DOMAIN socks = 1..Len(socks) /\ Len(socks) >= 1
    BY Types DEF IInv, PlaceInv
  <2>2. Head(socks) = socks[1]
    BY <2>1
  <2>3. \A c \in Clients : c \in Range(socks) <=> \E k \in 1..Len(socks) : socks[k] = c
    BY <2>1 DEF Range
  <2>4. ASSUME NEW c \in closing, conn[c] = "open"
        PROVE  peer[c] = "rst" \/ recorded[c] # {} \/ (pc \in {"handle", "wild"} /\ socks[i] = c)
    BY <2>4 DEF IInv, CloseInv, InHand
  <2>5. ASSUME pc = "wild", socks[i] = Listener PROVE Cardinality(Placed) = MaxEvents - 1
    <3>1. net \subseteq {"ACCEPT"}
      BY <2>5, WsaAssumption DEF IInv, RecordInv
    <3>2. Len(socks) = MaxEvents
      BY <2>5, <3>1 DEF WildInv
    <3> QED
      BY <3>2, PlacesCounted, WsaAssumption DEF IInv, PlaceInv
  <2> QED
    BY <2>2, <2>3, <2>4, <2>5 DEF IInv, PlaceInv, ArraysMatch
<1> QED
  BY <1>1, Invariance, PTL

\* What comes back ascends, whatever the transport had no room for.
THEOREM EchoIsOrdered == Spec => []EchoAscends
<1>1. IInv => EchoAscends
  <2> SUFFICES ASSUME IInv, NEW c \in Clients
               PROVE  /\ \A j, k \in 1..Len(wire[c]) : j < k => wire[c][j] < wire[c][k]
                      /\ \A k \in 1..Len(wire[c]) : wire[c][k] <= read[c]
    BY DEF EchoAscends
  <2>1. read[c] \in Nat /\ InBuf(c) \in Nat /\ wire[c] \in Seq(Nat)
    BY Types DEF IInv, InBuf
  <2>2. ASSUME NEW k \in 1..Len(wire[c]) PROVE wire[c][k] <= read[c]
    <3>1. wire[c][k] \in Nat /\ wire[c][k] <= read[c] - InBuf(c)
      BY <2>1 DEF IInv, EchoInv
    <3> QED
      BY <2>1, <3>1
  <2> QED
    BY <2>2 DEF IInv, EchoInv
<1> QED
  BY <1>1, Invariance, PTL

\* No notification is lost and none is spurious; line 117 writes beside buf only
\* after a reset, or when as many bytes are there as buf has.
THEOREM NotificationsAreRight == Spec => []NotificationsMatchBytes
<1>1. IInv /\ WildInv => NotificationsMatchBytes
  <2> SUFFICES ASSUME IInv, WildInv PROVE NotificationsMatchBytes
    OBVIOUS
  <2>1. ASSUME NEW c \in Clients, conn[c] = "open", c \notin armed
        PROVE  \/ "READ" \in recorded[c] /\ c \in signaled
               \/ pc \in {"handle", "send", "wild"} /\ socks[i] = c /\ "READ" \in net
    BY <2>1 DEF IInv, ReadInv, RecordInv, InHand
  <2>2. ASSUME pc \in {"handle", "wild"}, "READ" \in net PROVE Unread(socks[i]) > 0 \/ peer[socks[i]] = "rst"
    <3>1. socks[i] \in Clients
      BY <2>2 DEF IInv, RecordInv
    <3>2. conn[socks[i]] = "open"
      BY <2>2, <3>1, Types DEF IInv, PlaceInv
    <3> QED
      BY <2>2, <3>1, <3>2 DEF IInv, ReadInv, InHand
  <2>3. ASSUME pc = "wild", socks[i] # Listener
        PROVE  Unread(socks[i]) >= BufLen \/ peer[socks[i]] = "rst"
    BY <2>3 DEF IInv, RecordInv, WildInv
  <2> QED
    BY <2>1, <2>2, <2>3 DEF NotificationsMatchBytes
<1> QED
  BY <1>1, Invariance, PTL
=============================================================================
