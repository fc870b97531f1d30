--------------------------- MODULE SyncSemaphore ---------------------------
(***************************************************************************)
(* 02_final/ch20-3_syncThread-Semaphore.c: one thread reads numbers into   *)
(* shared_number, two others fold each number into a sum and a product,    *)
(* and three semaphores keep them in step.  A semaphore is named after the *)
(* thread that waits for it.                                               *)
(***************************************************************************)
EXTENDS SyncThreads, Naturals, Sequences

CONSTANTS
  LoopCount,   \* LOOP_COUNT
  Numbers,     \* the numbers a user may type
  Initial      \* what shared_number holds before anything is typed

ASSUME SemaphoreAssumption == LoopCount \in Nat

Accumulators == {"sum", "product"}
Threads == {"input"} \cup Accumulators

VARIABLES
  sem,         \* sem[t]: the count of the semaphore t waits for
  shared,      \* shared_number
  entered,     \* history: every value scanf left in shared_number
  taken        \* taken[a]: the values accumulator a has folded in

semaphoreVars == <<main, pc, i, sem, shared, entered, taken>>

\* main creates the threads in this order and joins them in this order.
Order == <<"input", "sum", "product">>

SemMax == [input |-> 2, sum |-> 1, product |-> 1]

InputPc == {"wait1", "wait2", "scan", "release1", "release2"}
AccumulatorPc == {"wait", "fold", "release", "print"}

SemaphoreTypeOK ==
  /\ main \in 1..8
  /\ pc \in [Threads -> InputPc \cup AccumulatorPc \cup {"new", "done"}]
  /\ pc["input"] \notin AccumulatorPc
  /\ \A a \in Accumulators : pc[a] \notin InputPc
  /\ i \in [Threads -> 0..LoopCount]
  /\ sem \in [Threads -> Nat]
  /\ \A t \in Threads : sem[t] <= SemMax[t]
  /\ shared \in Numbers \cup {Initial}
  /\ entered \in Seq(Numbers \cup {Initial})
  /\ taken \in [Accumulators -> Seq(Numbers \cup {Initial})]

\* Variant: h_input_ready_sem starts at 1.
SemaphoreInitOneReady ==
  /\ main = 1
  /\ pc = [t \in Threads |-> "new"]
  /\ i = [t \in Threads |-> 0]
  /\ sem = [input |-> 1, sum |-> 0, product |-> 0]
  /\ shared = Initial
  /\ entered = << >>
  /\ taken = [a \in Accumulators |-> << >>]

\* Lines 28-39: the semaphores are created before any thread is.
SemaphoreInit ==
  /\ main = 1
  /\ pc = [t \in Threads |-> "new"]
  /\ i = [t \in Threads |-> 0]
  /\ sem = [input |-> 2, sum |-> 0, product |-> 0]
  /\ shared = Initial
  /\ entered = << >>
  /\ taken = [a \in Accumulators |-> << >>]

-----------------------------------------------------------------------------
(* The semaphore calls.                                                    *)

\* WaitForSingleObject(h, INFINITE)
Acquire(s) == sem[s] > 0 /\ sem' = [sem EXCEPT ![s] = @ - 1]

\* ReleaseSemaphore(h, 1, NULL): a release that would take the count above
\* its maximum fails and changes nothing; no caller looks at the result.
Release(s) == sem' = IF sem[s] < SemMax[s] THEN [sem EXCEPT ![s] = @ + 1] ELSE sem

\* The end of a round: i++, and the loop's test.
EndRound(t, here, top) ==
  /\ Go(t, here, IF i[t] + 1 < LoopCount THEN top ELSE "done")
  /\ i' = [i EXCEPT ![t] = @ + 1]

-----------------------------------------------------------------------------
(* input_thread                                                            *)

WaitFirst ==
  /\ Go("input", "wait1", "wait2") /\ Acquire("input")
  /\ UNCHANGED <<main, i, shared, entered, taken>>

\* Variant: one wait where the code has two.
WaitSecondSkipped ==
  /\ Go("input", "wait2", "scan")
  /\ UNCHANGED <<main, i, sem, shared, entered, taken>>

WaitSecond ==
  /\ Go("input", "wait2", "scan") /\ Acquire("input")
  /\ UNCHANGED <<main, i, shared, entered, taken>>

\* scanf: at the end of the input, or where no number is typed, it leaves
\* shared_number as it was.
Scan ==
  /\ Go("input", "scan", "release1")
  /\ \E v \in Numbers \cup {shared} : shared' = v /\ entered' = Append(entered, v)
  /\ UNCHANGED <<main, i, sem, taken>>

ReleaseSum ==
  /\ Go("input", "release1", "release2") /\ Release("sum")
  /\ UNCHANGED <<main, i, shared, entered, taken>>

\* Variant: h_sum_ready_sem is released twice, h_product_ready_sem never.
ReleaseProductWrong ==
  /\ EndRound("input", "release2", "wait1") /\ Release("sum")
  /\ UNCHANGED <<main, shared, entered, taken>>

ReleaseProduct ==
  /\ EndRound("input", "release2", "wait1") /\ Release("product")
  /\ UNCHANGED <<main, shared, entered, taken>>

-----------------------------------------------------------------------------
(* sum_thread and product_thread                                           *)

WaitNumber(a) ==
  /\ Go(a, "wait", "fold") /\ Acquire(a)
  /\ UNCHANGED <<main, i, shared, entered, taken>>

\* sum += shared_number, product *= shared_number
Fold(a) ==
  /\ Go(a, "fold", "release")
  /\ taken' = [taken EXCEPT ![a] = Append(@, shared)]
  /\ UNCHANGED <<main, i, sem, shared, entered>>

ReleaseInput(a) ==
  /\ Go(a, "release", "print") /\ Release("input")
  /\ UNCHANGED <<main, i, shared, entered, taken>>

\* The result is printed when input_thread may already have gone on.
PrintResult(a) ==
  /\ EndRound(a, "print", "wait")
  /\ UNCHANGED <<main, sem, shared, entered, taken>>

-----------------------------------------------------------------------------
(* main                                                                    *)

\* _beginthreadex of the main-th thread; a loop of no rounds ends at once.
CreateThread ==
  /\ main \in 1..3
  /\ LET t == Order[main] IN
     Go(t, "new", IF LoopCount = 0 THEN "done" ELSE IF t = "input" THEN "wait1" ELSE "wait")
  /\ main' = main + 1
  /\ UNCHANGED <<i, sem, shared, entered, taken>>

\* WaitForSingleObject on the thread handles, in the order of creation.
JoinThread ==
  /\ main \in 4..6
  /\ pc[Order[main - 3]] = "done"
  /\ main' = main + 1
  /\ UNCHANGED <<pc, i, sem, shared, entered, taken>>

\* The CloseHandle calls, and the return that ends the process.
CloseSemaphores ==
  /\ main = 7
  /\ main' = 8
  /\ UNCHANGED <<pc, i, sem, shared, entered, taken>>

InputThread == WaitFirst \/ WaitSecond \/ Scan \/ ReleaseSum \/ ReleaseProduct
Accumulator(a) == WaitNumber(a) \/ Fold(a) \/ ReleaseInput(a) \/ PrintResult(a)
SemaphoreMain == CreateThread \/ JoinThread \/ CloseSemaphores

SemaphoreNext == SemaphoreMain \/ InputThread \/ \E a \in Accumulators : Accumulator(a)

\* Every thread is scheduled, and scanf returns in the end.
SemaphoreFairness ==
  WF_semaphoreVars(SemaphoreMain) /\ WF_semaphoreVars(InputThread) /\ \A a \in Accumulators : WF_semaphoreVars(Accumulator(a))

SemaphoreSpec == SemaphoreInit /\ [][SemaphoreNext]_semaphoreVars /\ SemaphoreFairness
-----------------------------------------------------------------------------
(* What must hold.                                                         *)

\* No ReleaseSemaphore call ever finds its semaphore at its maximum, so none
\* of the ignored results is a failure and no wake-up is lost.
NoReleaseLost ==
  /\ pc["input"] = "release1" => sem["sum"] < SemMax["sum"]
  /\ pc["input"] = "release2" => sem["product"] < SemMax["product"]
  /\ \A a \in Accumulators : pc[a] = "release" => sem["input"] < SemMax["input"]

\* While input_thread may write shared_number, both accumulators have folded
\* in everything entered before (the comment at lines 69-70), and neither is
\* about to read it.
BothDoneBeforeScan ==
  pc["input"] = "scan" =>
    \A a \in Accumulators : taken[a] = entered /\ pc[a] # "fold"

\* The semaphores' handles are closed after the last use of them.
HandlesOutliveThreads ==
  main >= 7 => \A t \in Threads : pc[t] = "done"

\* When main closes the handles, LOOP_COUNT numbers have been entered and each
\* accumulator has folded in every one of them: the results printed last are
\* the sum and the product of all.
AllNumbersFolded ==
  main >= 7 => Len(entered) = LoopCount /\ \A a \in Accumulators : taken[a] = entered

\* Both accumulators fold in every number entered, once, in order, and the
\* next is entered only when both have: the program is a lockstep fold, which
\* also goes on to its end.
Lockstep == INSTANCE LockstepFold WITH Numbers <- Numbers \cup {Initial}

ImplementsLockstep == Lockstep!Spec

\* main returns: nobody waits for somebody for ever.
MainReturns == <>(main = 8)
-----------------------------------------------------------------------------
(* Why it holds: an inductive invariant.  A number entered gives one       *)
(* permit to each accumulator, and each gives one back when it is done;    *)
(* with the two h_input_ready_sem starts with there are always two.        *)

\* The permits input_thread has acquired and not passed on yet.
Held ==
  CASE pc["input"] \in {"scan", "release1"} -> 2
    [] pc["input"] \in {"wait2", "release2"} -> 1
    [] OTHER -> 0

\* The permit of accumulator a: released to it, or being worked on.
Owed(a) == sem[a] + IF pc[a] \in {"fold", "release"} THEN 1 ELSE 0

\* The number entered last has not been folded in by a yet.
Behind(a) ==
  \/ pc["input"] = "release1"
  \/ a = "product" /\ pc["input"] = "release2"
  \/ sem[a] > 0
  \/ pc[a] = "fold"

PermitInv ==
  /\ sem["input"] + Held + Owed("sum") + Owed("product") = 2
  /\ \A a \in Accumulators : Owed(a) <= 1
  /\ pc["input"] = "release2" => Owed("product") = 0

FoldInv ==
  /\ entered # << >> => shared = entered[Len(entered)]
  /\ \A a \in Accumulators :
       IF Behind(a) THEN entered # << >> /\ taken[a] = SubSeq(entered, 1, Len(entered) - 1)
                    ELSE taken[a] = entered

RoundInv ==
  /\ \A t \in Threads : pc[t] = "new" => i[t] = 0
  /\ \A t \in Threads : pc[t] \notin {"new", "done"} => i[t] < LoopCount
  /\ Len(entered) = i["input"] + IF pc["input"] \in {"release1", "release2"} THEN 1 ELSE 0

JoinInv == \A k \in 1..3 : main > k + 3 => pc[Order[k]] = "done"

\* A thread that is done has made all its rounds, and folds once a round.
DoneInv ==
  /\ \A t \in Threads : pc[t] = "done" => i[t] = LoopCount
  /\ \A a \in Accumulators :
       Len(taken[a]) = i[a] + IF pc[a] \in {"release", "print"} THEN 1 ELSE 0

SemaphoreIInv == SemaphoreTypeOK /\ PermitInv /\ FoldInv /\ RoundInv /\ JoinInv
=============================================================================
