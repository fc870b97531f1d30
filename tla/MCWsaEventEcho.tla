-------------------------- MODULE MCWsaEventEcho --------------------------
(***************************************************************************)
(* WsaEventEcho for TLC.                                                   *)
(***************************************************************************)
EXTENDS WsaEventEcho

CONSTANTS c1, c2, c3

\* c1 sends two bytes, of which a recv may leave one, and waits for its echo; c2
\* sends three, more than the transport takes at once; c3 just connects.
Bytes == [c \in Clients |-> CASE c = c1 -> 2 [] c = c2 -> 3 [] OTHER -> 0]
=============================================================================
