------------------------------ MODULE TcpPeer ------------------------------
(***************************************************************************)
(* The TCP clients of a server and the part of the transport the server    *)
(* cannot influence.  Nothing in this module is code of the servers: it    *)
(* is what they rely on, seen from the calls they make (accept, recv,      *)
(* WSARecv, send, WSASend).  A server module EXTENDS this one and adds     *)
(* its own state and handlers.                                             *)
(*                                                                         *)
(* Byte k of client c is represented by the number k, so a buffer holding  *)
(* the bytes lo..lo+n-1 is the pair <<lo, n>>, and "the echo is right" is  *)
(* "the numbers come back as 1, 2, 3, ...".                                *)
(***************************************************************************)
EXTENDS Naturals, Sequences

CONSTANTS
  Clients,     \* the clients that may ever connect, one connection each
  MaxBytes,    \* bound: MaxBytes[c] is how many bytes client c sends
  Impatient,   \* clients that may close before their bytes have come back
  Resetters    \* clients whose connection may be reset

ASSUME PeerAssumption ==
  /\ MaxBytes \in [Clients -> Nat]
  /\ Impatient \subseteq Clients
  /\ Resetters \subseteq Clients

VARIABLES
  peer,        \* peer[c]: what the client has done with its end
  sent,        \* sent[c]: how many bytes it has sent
  read,        \* read[c]: how many of them the server has received
  wire,        \* wire[c]: the bytes the server handed to send, in call order
  delivered    \* delivered[c]: how many of wire[c] the transport has taken

tcpVars == <<peer, sent, read, wire, delivered>>

PeerState == {"away", "open", "fin", "rst"}

TcpTypeOK ==
  /\ peer \in [Clients -> PeerState]
  /\ sent \in [Clients -> Nat]
  /\ read \in [Clients -> Nat]
  /\ wire \in [Clients -> Seq(Nat)]
  /\ delivered \in [Clients -> Nat]

TcpInit ==
  /\ peer = [c \in Clients |-> "away"]
  /\ sent = [c \in Clients |-> 0]
  /\ read = [c \in Clients |-> 0]
  /\ wire = [c \in Clients |-> << >>]
  /\ delivered = [c \in Clients |-> 0]

\* The bytes of a buffer that holds n bytes from byte lo on.
Chunk(lo, n) == [k \in 1..n |-> lo + k - 1]

Unread(c) == sent[c] - read[c]

-----------------------------------------------------------------------------
PeerConnect(c) ==
  /\ peer[c] = "away"
  /\ peer' = [peer EXCEPT ![c] = "open"]
  /\ UNCHANGED <<sent, read, wire, delivered>>

PeerSend(c) ==
  /\ peer[c] = "open"
  /\ sent[c] < MaxBytes[c]
  /\ sent' = [sent EXCEPT ![c] = @ + 1]
  /\ UNCHANGED <<peer, read, wire, delivered>>

\* A patient client closes only after everything it sent has come back.
PeerClose(c) ==
  /\ peer[c] = "open"
  /\ c \in Impatient \/ delivered[c] = sent[c]
  /\ peer' = [peer EXCEPT ![c] = "fin"]
  /\ UNCHANGED <<sent, read, wire, delivered>>

PeerReset(c) ==
  /\ c \in Resetters
  /\ peer[c] \in {"open", "fin"}
  /\ peer' = [peer EXCEPT ![c] = "rst"]
  /\ UNCHANGED <<sent, read, wire, delivered>>

PeerStep(c) == PeerConnect(c) \/ PeerSend(c) \/ PeerClose(c) \/ PeerReset(c)
=============================================================================
