---------------------------- MODULE MCIocpEcho ----------------------------
(***************************************************************************)
(* IocpEcho for TLC.                                                       *)
(***************************************************************************)
EXTENDS IocpEcho

CONSTANTS c1, c2

\* c1 sends twice and waits for its echo; c2 sends once and may leave, or
\* lose its connection, at any moment.
Bytes == [c \in Clients |-> IF c = c1 THEN 2 ELSE 1]
OneByte == [c \in Clients |-> 1]
=============================================================================
