-------------------------- MODULE MCCompRoutEcho --------------------------
(***************************************************************************)
(* CompRoutEcho for TLC.                                                   *)
(***************************************************************************)
EXTENDS CompRoutEcho

CONSTANTS c1, c2, c3

\* c1 sends two bytes and waits for its echo; c2 and c3 send one.
Bytes == [c \in Clients |-> IF c = c1 THEN 2 ELSE 1]
=============================================================================
