--------------------------- MODULE AtomicCounter ---------------------------
(***************************************************************************)
(* What the lock in ch20-1 and ch20-2 is there for: a shared number that   *)
(* threads change by one in indivisible steps, each thread a fixed number  *)
(* of times, and that is reported once all of them have finished.          *)
(***************************************************************************)
EXTENDS Integers

CONSTANTS Threads, Delta(_), LoopCount

VARIABLES
  number,      \* the shared number
  finished,    \* finished[t]: how many of its changes t has made
  reported     \* main has read the number for the last time

vars == <<number, finished, reported>>

Init ==
  /\ number = 0
  /\ finished = [t \in Threads |-> 0]
  /\ reported = FALSE

Add(t) ==
  /\ finished[t] < LoopCount
  /\ number' = number + Delta(t)
  /\ finished' = [finished EXCEPT ![t] = @ + 1]
  /\ UNCHANGED reported

Report ==
  /\ ~reported
  /\ \A t \in Threads : finished[t] = LoopCount
  /\ reported' = TRUE
  /\ UNCHANGED <<number, finished>>

Next == Report \/ \E t \in Threads : Add(t)

Fairness == WF_vars(Report) /\ \A t \in Threads : WF_vars(Add(t))

Spec == Init /\ [][Next]_vars /\ Fairness
=============================================================================
