------------------------------ MODULE MCOneWay ------------------------------
(* OneWay for TLC: every file of up to seven characters.                   *)
EXTENDS OneWay

Texts == UNION {[1..n -> {"c", "n"}] : n \in 0..7}
=============================================================================
