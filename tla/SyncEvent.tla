----------------------------- MODULE SyncEvent -----------------------------
(***************************************************************************)
(* 02_final/ch20-4_syncThread-Event.c: main reads a line into              *)
(* input_string while two threads wait for one manual-reset event; then    *)
(* both count in it, one the 'A's and one everything else.                 *)
(*                                                                         *)
(* A character is "A", "other", "nl" for '\n' or "nul" for '\0'.           *)
(***************************************************************************)
EXTENDS SyncThreads, Naturals, Sequences, FiniteSets

CONSTANT StrLen      \* STR_LEN

ASSUME EventAssumption == StrLen \in Nat \ {0}

Counters == {"A", "others"}
Chars == {"A", "other", "nl"}

VARIABLES
  event,     \* hEvent is signaled
  string,    \* input_string, a static array
  line,      \* history: what fgets took of the line typed, without its end
  cnt        \* cnt[t]: how many characters thread t has counted

eventVars == <<main, event, string, line, pc, i, cnt>>

Index == 0..(StrLen - 1)
MainPc == {"create", "fgets", "strip", "set", "join", "reset", "close", "end"}

EventTypeOK ==
  /\ main \in MainPc
  /\ event \in BOOLEAN
  /\ string \in [Index -> Chars \cup {"nul"}]
  /\ line \in Seq(Chars \ {"nl"}) /\ Len(line) < StrLen
  /\ pc \in [Counters -> {"new", "wait", "count", "done"}]
  /\ i \in [Counters -> Index]
  /\ cnt \in [Counters -> Nat]

\* Variant: the event starts signaled.
EventInitSignaled ==
  /\ main = "create"
  /\ event = TRUE
  /\ string = [k \in Index |-> "nul"]
  /\ line = << >>
  /\ pc = [t \in Counters |-> "new"]
  /\ i = [t \in Counters |-> 0]
  /\ cnt = [t \in Counters |-> 0]

\* Line 25; a static array starts as all '\0'.
EventInit ==
  /\ main = "create"
  /\ event = FALSE
  /\ string = [k \in Index |-> "nul"]
  /\ line = << >>
  /\ pc = [t \in Counters |-> "new"]
  /\ i = [t \in Counters |-> 0]
  /\ cnt = [t \in Counters |-> 0]

-----------------------------------------------------------------------------
(* main                                                                    *)

Goto(here, there) == main = here /\ main' = there

\* Both _beginthreadex calls: until they have returned nothing that a thread
\* could see changes.
CreateCounters ==
  /\ Goto("create", "fgets")
  /\ pc' = [t \in Counters |-> "wait"]
  /\ UNCHANGED <<event, string, line, i, cnt>>

\* input_string once fgets has stored the characters of s and a '\0'.
Stored(s) ==
  [k \in Index |-> IF k < Len(s) THEN s[k + 1] ELSE IF k = Len(s) THEN "nul" ELSE string[k]]

\* The size given to fgets.
Size == StrLen

\* fgets takes at most size - 1 characters, '\n' the last of them if the line fits.
Fgets ==
  /\ Goto("fgets", "strip")
  /\ \E n \in 0..(Size - 1) : \E s \in [1..n -> Chars \ {"nl"}] :
       /\ line' = s
       /\ \/ n < Size - 1 /\ string' = Stored(Append(s, "nl"))
          \/ n > 0 /\ string' = Stored(s)
  /\ UNCHANGED <<event, pc, i, cnt>>

\* At the end of the input it stores nothing and returns NULL.
FgetsEnd ==
  /\ Goto("fgets", "set")
  /\ UNCHANGED <<event, string, line, pc, i, cnt>>

\* strcspn: the index of the first '\n', or of the '\0' where there is none.
FirstOf(s) ==
  CHOOSE k \in Index : s[k] \in {"nl", "nul"} /\ \A j \in 0..(k - 1) : s[j] \notin {"nl", "nul"}

Strip ==
  /\ Goto("strip", "set")
  /\ string' = [string EXCEPT ![FirstOf(string)] = "nul"]
  /\ UNCHANGED <<event, line, pc, i, cnt>>

Set ==
  /\ Goto("set", "join")
  /\ event' = TRUE
  /\ UNCHANGED <<string, line, pc, i, cnt>>

\* WaitForSingleObject on one thread after the other.
JoinCounters ==
  /\ Goto("join", "reset")
  /\ \A t \in Counters : pc[t] = "done"
  /\ UNCHANGED <<event, string, line, pc, i, cnt>>

Reset ==
  /\ Goto("reset", "close")
  /\ event' = FALSE
  /\ UNCHANGED <<string, line, pc, i, cnt>>

\* The CloseHandle calls, and the return that ends the process.
CloseEvent ==
  /\ Goto("close", "end")
  /\ UNCHANGED <<event, string, line, pc, i, cnt>>

EventMain == CreateCounters \/ Fgets \/ FgetsEnd \/ Strip \/ Set \/ JoinCounters \/ Reset \/ CloseEvent

-----------------------------------------------------------------------------
(* number_of_a and number_of_others                                        *)

\* Variant: an auto-reset event, which lets one thread through.
WaitAuto(t) ==
  /\ Go(t, "wait", "count")
  /\ event /\ event' = FALSE
  /\ UNCHANGED <<main, string, line, i, cnt>>

\* The event is reset by hand only: it lets both threads through.
Wait(t) ==
  /\ Go(t, "wait", "count")
  /\ event
  /\ UNCHANGED <<main, event, string, line, i, cnt>>

Counted(t, ch) == (ch = "A") = (t = "A")

\* One round of the loop.
CountChar(t) ==
  /\ pc[t] = "count" /\ string[i[t]] # "nul"
  /\ i' = [i EXCEPT ![t] = @ + 1]
  /\ cnt' = [cnt EXCEPT ![t] = IF Counted(t, string[i[t]]) THEN @ + 1 ELSE @]
  /\ UNCHANGED <<main, event, string, line, pc>>

\* The '\0', and the result is printed.
CountEnd(t) ==
  /\ string[i[t]] = "nul" /\ Go(t, "count", "done")
  /\ UNCHANGED <<main, event, string, line, i, cnt>>

EventThread(t) == Wait(t) \/ CountChar(t) \/ CountEnd(t)

EventNext == EventMain \/ \E t \in Counters : EventThread(t)

\* Both threads are scheduled, and fgets returns in the end.
EventFairness == WF_eventVars(EventMain) /\ \A t \in Counters : WF_eventVars(EventThread(t))

EventSpec == EventInit /\ [][EventNext]_eventVars /\ EventFairness
-----------------------------------------------------------------------------
(* What must hold.                                                         *)

\* What a thread prints is the number of its characters in what fgets has taken of
\* the line that was typed, all of it unless it is longer than STR_LEN - 1: no
\* thread looks at input_string before main is done with it, and the '\n' is
\* nobody's.
CountsTypedLine ==
  \A t \in Counters :
    pc[t] = "done" => cnt[t] = Cardinality({k \in 1..Len(line) : Counted(t, line[k])})

\* main returns, and both threads have printed their counts: the one event
\* lets both through.
BothPrint == <>(main = "end" /\ \A t \in Counters : pc[t] = "done")
-----------------------------------------------------------------------------
(* Why it holds: an inductive invariant.                                   *)

\* main is done with input_string.
Ready == main \in {"set", "join", "reset", "close", "end"}

TextInv ==
  /\ \A k \in 1..Len(line) : string[k - 1] = line[k]
  /\ string[Len(line)] \in (IF Ready THEN {"nul"} ELSE {"nul", "nl"})
  /\ main \in {"create", "fgets"} => line = << >>  /\ string[0] = "nul"

SignalInv ==
  /\ event => main \in {"join", "reset"}
  /\ \A t \in Counters : pc[t] \in {"count", "done"} => Ready /\ main # "set"

CountInv ==
  \A t \in Counters :
    /\ pc[t] \in {"new", "wait"} => i[t] = 0
    /\ pc[t] = "done" => i[t] = Len(line)
    /\ i[t] <= Len(line)
    /\ cnt[t] = Cardinality({k \in 1..i[t] : Counted(t, line[k])})

EventIInv == EventTypeOK /\ TextInv /\ SignalInv /\ CountInv
=============================================================================
