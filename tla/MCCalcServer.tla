--------------------------- MODULE MCCalcServer ---------------------------
(***************************************************************************)
(* CalcServer for TLC.                                                     *)
(***************************************************************************)
EXTENDS CalcServer

CONSTANTS c1, c2

\* c1 makes two requests of one or two operands; c2 asks once, for one operand
\* or for one more than a signed char counts.
Operands == [c \in Clients |-> IF c = c1 THEN {1, 2} ELSE {1, CharMax + 1}]
Requests == [c \in Clients |-> IF c = c1 THEN 2 ELSE 1]
BufLens == [p \in {"ch05", "ch19"} |-> IF p = "ch05" THEN 8 ELSE 4]
=============================================================================
