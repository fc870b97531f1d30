--------------------------- MODULE MCSelectEcho ---------------------------
(***************************************************************************)
(* SelectEcho for TLC.                                                     *)
(***************************************************************************)
EXTENDS SelectEcho

CONSTANTS c1, c2, c3, h1, h2, h3

\* c1 sends twice and waits for its echo; c2 sends once, c3 just connects.
Bytes == [c \in Clients |-> CASE c = c1 -> 2 [] c = c2 -> 1 [] OTHER -> 0]
=============================================================================
