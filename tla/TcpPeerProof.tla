---------------------------- MODULE TcpPeerProof ----------------------------
(***************************************************************************)
(* Facts about streams that the proofs of the echo servers share.          *)
(***************************************************************************)
EXTENDS TcpPeer, SequenceTheorems, TLAPS

\* Two adjacent stretches of a stream make one.
LEMMA ChunkConcat ==
  ASSUME NEW n \in Nat, NEW m \in Nat
  PROVE  /\ Chunk(1, n) \o Chunk(n + 1, m) = Chunk(1, n + m)
         /\ Chunk(n + 1, m) \in Seq(Nat)
         /\ Len(Chunk(n + 1, m)) = m
<1>1. /\ Chunk(1, n) \in Seq(Nat) /\ Len(Chunk(1, n)) = n
      /\ Chunk(n + 1, m) \in Seq(Nat) /\ Len(Chunk(n + 1, m)) = m
      /\ Chunk(1, n + m) \in Seq(Nat) /\ Len(Chunk(1, n + m)) = n + m
  BY DEF Chunk
<1>2. ASSUME NEW k \in 1..(n + m)
      PROVE  (Chunk(1, n) \o Chunk(n + 1, m))[k] = Chunk(1, n + m)[k]
  BY <1>1 DEF Chunk
<1>3. Chunk(1, n) \o Chunk(n + 1, m) \in Seq(Nat) /\ Len(Chunk(1, n) \o Chunk(n + 1, m)) = n + m
  BY <1>1, ConcatProperties
<1> QED
  BY <1>1, <1>2, <1>3, SeqEqual

\* The first d bytes of the first m.
LEMMA ChunkPrefix ==
  ASSUME NEW m \in Nat, NEW d \in 0..m
  PROVE  SubSeq(Chunk(1, m), 1, d) = Chunk(1, d)
<1>1. /\ Chunk(1, d) \in Seq(Nat) /\ Len(Chunk(1, d)) = d
      /\ Chunk(1, m) \in Seq(Nat) /\ Len(Chunk(1, m)) = m
      /\ \A k \in 1..d : Chunk(1, d)[k] = k /\ Chunk(1, m)[k] = k
  BY DEF Chunk
<1>2. SubSeq(Chunk(1, m), 1, d) \in Seq(Nat) /\ Len(SubSeq(Chunk(1, m), 1, d)) = d
  BY <1>1, SubSeqProperties
<1>3. \A k \in 1..d : SubSeq(Chunk(1, m), 1, d)[k] = Chunk(1, m)[k]
  BY <1>1, SubSeqProperties
<1> QED
  BY <1>1, <1>2, <1>3, SeqEqual

\* A sequence with the element at place k taken out.
LEMMA GapClosed ==
  ASSUME NEW S, NEW s \in Seq(S), NEW k \in 1..Len(s)
  PROVE  LET t == SubSeq(s, 1, k - 1) \o SubSeq(s, k + 1, Len(s)) IN
         /\ t \in Seq(S) /\ Len(t) = Len(s) - 1
         /\ \A j \in 1..(Len(s) - 1) : t[j] = IF j < k THEN s[j] ELSE s[j + 1]
<1> DEFINE u == SubSeq(s, 1, k - 1)
           v == SubSeq(s, k + 1, Len(s))
<1>1. Len(s) \in Nat /\ \A j \in 1..Len(s) : s[j] \in S
  OBVIOUS
<1>2. u \in Seq(S) /\ Len(u) = k - 1 /\ \A j \in 1..(k - 1) : u[j] = s[j]
  BY <1>1, SubSeqProperties
<1>3. v \in Seq(S) /\ Len(v) = Len(s) - k /\ \A j \in 1..(Len(s) - k) : v[j] = s[k + j]
  BY <1>1, SubSeqProperties
<1> HIDE DEF u, v
<1>4. u \o v \in Seq(S) /\ Len(u \o v) = Len(s) - 1
      /\ \A j \in 1..(Len(s) - 1) : (u \o v)[j] = IF j < k THEN u[j] ELSE v[j - (k - 1)]
  BY <1>1, <1>2, <1>3, ConcatProperties
<1>5. \A j \in 1..(Len(s) - 1) : (u \o v)[j] = IF j < k THEN s[j] ELSE s[j + 1]
  BY <1>1, <1>2, <1>3, <1>4
<1> QED
  BY <1>4, <1>5 DEF u, v

\* Closing or losing the client's end is leaving.
LEMMA LeftGrows ==
  ASSUME NEW c \in Clients, NEW q \in {"fin", "rst"}, peer \in [Clients -> PeerState],
         peer[c] = "open", peer' = [peer EXCEPT ![c] = q]
  PROVE  LET Left == [d \in Clients |-> peer[d] \in {"fin", "rst"}] IN
         Left[c] = FALSE /\ Left' = [Left EXCEPT ![c] = TRUE]
<1>1. (peer[c] \in {"fin", "rst"}) = FALSE
  OBVIOUS
<1>2. \A d \in Clients : (peer'[d] \in {"fin", "rst"}) = IF d = c THEN TRUE ELSE peer[d] \in {"fin", "rst"}
  OBVIOUS
<1> QED
  BY <1>1, <1>2

\* What has come back to the clients.
Returned == [c \in Clients |-> SubSeq(wire[c], 1, delivered[c])]

\* Every echo is a beginning of the stream the client sent.
PrefixOK ==
  \A c \in Clients :
    wire[c] = Chunk(1, Len(wire[c])) /\ Len(wire[c]) \in Nat /\ delivered[c] \in 0..Len(wire[c])

ReturnedFromOne == Returned = [c \in Clients |-> Chunk(1, delivered[c])]

LEMMA ReturnedPrefix == PrefixOK => ReturnedFromOne
<1> SUFFICES ASSUME PrefixOK, NEW c \in Clients
             PROVE  SubSeq(wire[c], 1, delivered[c]) = Chunk(1, delivered[c])
  BY DEF Returned, ReturnedFromOne
<1>1. SubSeq(Chunk(1, Len(wire[c])), 1, delivered[c]) = Chunk(1, delivered[c])
  BY ChunkPrefix DEF PrefixOK
<1> QED
  BY <1>1 DEF PrefixOK

LEMMA ReturnedPrefixNext == PrefixOK' => ReturnedFromOne'
  BY ReturnedPrefix, PTL

\* As long as no more is delivered nothing comes back, whatever is sent.
LEMMA ReturnedKept ==
  ASSUME PrefixOK, PrefixOK', delivered' = delivered PROVE Returned' = Returned
  BY ReturnedPrefix, ReturnedPrefixNext DEF ReturnedFromOne

\* When n more bytes of c's are delivered, the next n of what c sent come back.
LEMMA ReturnedGrows ==
  ASSUME PrefixOK, PrefixOK', NEW c \in Clients, NEW n \in Nat, delivered'[c] = delivered[c] + n,
         \A d \in Clients : d # c => delivered'[d] = delivered[d]
  PROVE  /\ Returned[c] = Chunk(1, delivered[c]) /\ Len(Returned[c]) = delivered[c]
         /\ Returned' = [Returned EXCEPT ![c] = @ \o [k \in 1..n |-> Len(Returned[c]) + k]]
<1>1. /\ Returned = [d \in Clients |-> Chunk(1, delivered[d])]
      /\ Returned' = [d \in Clients |-> Chunk(1, delivered'[d])]
  BY ReturnedPrefix, ReturnedPrefixNext DEF ReturnedFromOne
<1>2. delivered[c] \in Nat
  BY DEF PrefixOK
<1>3. Returned[c] = Chunk(1, delivered[c]) /\ Len(Returned[c]) = delivered[c]
  <2>1. Len(Chunk(1, delivered[c])) = delivered[c]
    BY <1>2 DEF Chunk
  <2> QED
    BY <1>1, <2>1
<1>4. Chunk(1, delivered[c] + n) = Chunk(1, delivered[c]) \o [k \in 1..n |-> delivered[c] + k]
  <2>1. Chunk(delivered[c] + 1, n) = [k \in 1..n |-> delivered[c] + k]
    BY <1>2 DEF Chunk
  <2> QED
    BY <1>2, <2>1, ChunkConcat
<1>5. Returned'[c] = Returned[c] \o [k \in 1..n |-> Len(Returned[c]) + k]
  BY <1>1, <1>3, <1>4
<1>6. \A d \in Clients : d # c => Returned'[d] = Returned[d]
  BY <1>1
<1> HIDE DEF Returned
<1> QED
  BY <1>1, <1>3, <1>5, <1>6
=============================================================================
