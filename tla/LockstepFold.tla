---------------------------- MODULE LockstepFold ----------------------------
(***************************************************************************)
(* What the comments of ch20-3 promise: numbers are entered one at a time, *)
(* each accumulator takes every one of them exactly once, and no number is *)
(* entered before both have taken the one before it.                       *)
(***************************************************************************)
EXTENDS Naturals, Sequences

CONSTANTS Accumulators, Numbers, LoopCount

VARIABLES
  entered,    \* the numbers entered so far
  taken       \* taken[a]: the numbers accumulator a has folded in, in order

vars == <<entered, taken>>

Init ==
  /\ entered = << >>
  /\ taken = [a \in Accumulators |-> << >>]

Enter ==
  /\ Len(entered) < LoopCount
  /\ \A a \in Accumulators : taken[a] = entered
  /\ \E v \in Numbers : entered' = Append(entered, v)
  /\ UNCHANGED taken

Take(a) ==
  /\ taken[a] # entered
  /\ taken' = [taken EXCEPT ![a] = entered]
  /\ UNCHANGED entered

Next == Enter \/ \E a \in Accumulators : Take(a)

Fairness == WF_vars(Enter) /\ \A a \in Accumulators : WF_vars(Take(a))

Spec == Init /\ [][Next]_vars /\ Fairness
=============================================================================
