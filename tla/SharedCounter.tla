--------------------------- MODULE SharedCounter ---------------------------
(***************************************************************************)
(* 02_final/ch20-1_syncThread-CS.c and ch20-2_syncThread-Mutex.c: threads  *)
(* with an even index increase shared_number LOOP_CNT times, those with an *)
(* odd index decrease it.  The two programs differ in the lock and in how  *)
(* long it is held: ch20-1 keeps a critical section for the whole loop,    *)
(* ch20-2 takes a mutex in every round.  The variable program says which   *)
(* of the two is running.                                                  *)
(*                                                                         *)
(* shared_number++ is the three instructions of the comment in the code:   *)
(* load, add, store.                                                       *)
(***************************************************************************)
EXTENDS SyncThreads, Integers

CONSTANTS
  NumThread,        \* NUM_THREAD
  LoopCnt,          \* LOOP_CNT
  MaxWaitObjects    \* MAXIMUM_WAIT_OBJECTS of the Windows API

ASSUME CounterAssumption ==
  /\ NumThread \in Nat /\ LoopCnt \in Nat
  /\ NumThread <= MaxWaitObjects /\ MaxWaitObjects \in Nat

VARIABLES
  program,     \* "CS" for ch20-1, "Mutex" for ch20-2
  created,     \* how many threads it has created
  reg,         \* reg[t]: the register t computes in
  lock,        \* the thread that owns the lock, or NoOne
  number       \* shared_number

counterVars == <<program, main, created, pc, i, reg, lock, number>>

CounterThreads == 0..(NumThread - 1)
NoOne == -1

Pc == {"new", "acquire", "load", "add", "store", "release", "done"}

\* increase_thread for even indices, decrease_thread for odd ones.
Delta(t) == IF t % 2 = 0 THEN 1 ELSE -1

CounterTypeOK ==
  /\ program \in {"CS", "Mutex"}
  /\ main \in {"create", "wait", "delete", "print", "end"}
  /\ created \in 0..NumThread
  /\ pc \in [CounterThreads -> Pc]
  /\ i \in [CounterThreads -> 0..LoopCnt]
  /\ reg \in [CounterThreads -> Int]
  /\ lock \in CounterThreads \cup {NoOne}
  /\ number \in Int

\* The lock is created before any thread is (line 22).
CounterInit ==
  /\ program \in {"CS", "Mutex"}
  /\ main = "create" /\ created = 0
  /\ pc = [t \in CounterThreads |-> "new"]
  /\ i = [t \in CounterThreads |-> 0]
  /\ reg = [t \in CounterThreads |-> 0]
  /\ lock = NoOne
  /\ number = 0

-----------------------------------------------------------------------------
(* increase_thread and decrease_thread                                     *)

\* Where a thread goes when the loop's test is made with i = n.  A mutex is
\* taken inside the loop, a critical section around it.
LoopTest(n) ==
  IF n < LoopCnt THEN (IF program = "CS" THEN "load" ELSE "acquire")
  ELSE (IF program = "CS" THEN "release" ELSE "done")

\* EnterCriticalSection, WaitForSingleObject on the mutex.
TakeLock(t) ==
  /\ pc[t] = "acquire"
  /\ lock = NoOne
  /\ lock' = t
  /\ pc' = [pc EXCEPT ![t] = IF program = "CS" THEN LoopTest(0) ELSE "load"]
  /\ UNCHANGED <<program, main, created, i, reg, number>>

Load(t) ==
  /\ pc[t] = "load"
  /\ reg' = [reg EXCEPT ![t] = number]
  /\ pc' = [pc EXCEPT ![t] = "add"]
  /\ UNCHANGED <<program, main, created, i, lock, number>>

\* Variant: ReleaseMutex inside the read-modify-write.
AddReleasing(t) ==
  /\ pc[t] = "add"
  /\ reg' = [reg EXCEPT ![t] = @ + Delta(t)]
  /\ lock' = NoOne
  /\ pc' = [pc EXCEPT ![t] = "store"]
  /\ UNCHANGED <<program, main, created, i, number>>

Add(t) ==
  /\ pc[t] = "add"
  /\ reg' = [reg EXCEPT ![t] = @ + Delta(t)]
  /\ pc' = [pc EXCEPT ![t] = "store"]
  /\ UNCHANGED <<program, main, created, i, lock, number>>

\* The store, and with a critical section the end of the round.
Store(t) ==
  /\ pc[t] = "store"
  /\ number' = reg[t]
  /\ i' = [i EXCEPT ![t] = @ + 1]
  /\ pc' = [pc EXCEPT ![t] = IF program = "CS" THEN LoopTest(i[t] + 1) ELSE "release"]
  /\ UNCHANGED <<program, main, created, reg, lock>>

\* Variant: a thread returns without LeaveCriticalSection.
GiveLockForgotten(t) ==
  /\ pc[t] = "release"
  /\ lock' = IF program = "CS" THEN lock ELSE NoOne
  /\ pc' = [pc EXCEPT ![t] = IF program = "CS" THEN "done" ELSE LoopTest(i[t])]
  /\ UNCHANGED <<program, main, created, i, reg, number>>

\* LeaveCriticalSection, after which the thread returns; ReleaseMutex, after
\* which it goes on to the next round.
GiveLock(t) ==
  /\ pc[t] = "release"
  /\ lock' = NoOne
  /\ pc' = [pc EXCEPT ![t] = IF program = "CS" THEN "done" ELSE LoopTest(i[t])]
  /\ UNCHANGED <<program, main, created, i, reg, number>>

CounterThread(t) == TakeLock(t) \/ Load(t) \/ Add(t) \/ Store(t) \/ GiveLock(t)

-----------------------------------------------------------------------------
(* main                                                                    *)

\* _beginthreadex, NUM_THREAD times.
CreateChanger ==
  /\ main = "create"
  /\ IF created < NumThread
     THEN /\ pc' = [pc EXCEPT ![created] = IF program = "CS" THEN "acquire" ELSE LoopTest(0)]
          /\ created' = created + 1
          /\ UNCHANGED main
     ELSE main' = "wait" /\ UNCHANGED <<pc, created>>
  /\ UNCHANGED <<program, i, reg, lock, number>>

\* Variant: bWaitAll is FALSE.
WaitAllAny ==
  /\ main = "wait"
  /\ \E t \in CounterThreads : pc[t] = "done"
  /\ main' = "delete"
  /\ UNCHANGED <<program, created, pc, i, reg, lock, number>>

\* WaitForMultipleObjects for all of the threads.  It would fail at once,
\* which nobody looks at, for more handles than CounterAssumption allows.
WaitAll ==
  /\ main = "wait"
  /\ \A t \in CounterThreads : pc[t] = "done"
  /\ main' = "delete"
  /\ UNCHANGED <<program, created, pc, i, reg, lock, number>>

\* DeleteCriticalSection, CloseHandle(hMutex).
DeleteLock ==
  /\ main = "delete" /\ main' = "print"
  /\ UNCHANGED <<program, created, pc, i, reg, lock, number>>

\* printf("shared_number = %lld\n", shared_number)
PrintNumber ==
  /\ main = "print" /\ main' = "end"
  /\ UNCHANGED <<program, created, pc, i, reg, lock, number>>

CounterMain == CreateChanger \/ WaitAll \/ DeleteLock \/ PrintNumber

CounterNext == CounterMain \/ \E t \in CounterThreads : CounterThread(t)

\* Every thread is scheduled.  Weak fairness is enough although a thread that
\* waits for the lock may be overtaken: the others run out of rounds.
CounterFairness == WF_counterVars(CounterMain) /\ \A t \in CounterThreads : WF_counterVars(CounterThread(t))

CounterSpec == CounterInit /\ [][CounterNext]_counterVars /\ CounterFairness
-----------------------------------------------------------------------------
(* What must hold.                                                         *)

\* No update is lost: while a thread is between its load and its store,
\* nobody else changes shared_number, so it stores the successor (or the
\* predecessor) of what is there.
NoLostUpdate ==
  \A t \in CounterThreads : pc[t] = "store" => reg[t] = number + Delta(t)

\* What main prints is the 0 of the comment at line 52: every change of every
\* thread is in it, and as many threads increase the number as decrease it.
\* NUM_THREAD is even; with one thread more that one's rounds would be left.
PrintsZero ==
  main \in {"print", "end"} => number = IF NumThread % 2 = 0 THEN 0 ELSE LoopCnt

\* The lock is deleted when no thread owns it, waits for it or will ask for it.
LockDeletedUnused ==
  main \in {"print", "end"} => lock = NoOne /\ \A t \in CounterThreads : pc[t] = "done"

\* The program is an atomic counter: a store is the change, the print reports;
\* and main gets to its print, nobody waits for the lock for ever.
Atomic == INSTANCE AtomicCounter WITH
  Threads <- CounterThreads,
  LoopCount <- LoopCnt,
  finished <- i,
  reported <- (main = "end")

ImplementsAtomicCounter == Atomic!Spec
-----------------------------------------------------------------------------
(* Why it holds: an inductive invariant.                                   *)

Inside(t) == pc[t] \in {"load", "add", "store", "release"}

CounterIInv ==
  /\ CounterTypeOK
  /\ \A t \in CounterThreads : Inside(t) => lock = t
  /\ lock # NoOne => Inside(lock)
  /\ \A t \in CounterThreads : pc[t] = "add" => reg[t] = number
  /\ NoLostUpdate
  /\ \A t \in CounterThreads : pc[t] \in {"load", "add", "store"} => i[t] < LoopCnt
  /\ \A t \in CounterThreads : pc[t] = "acquire" /\ program = "Mutex" => i[t] < LoopCnt
  /\ \A t \in CounterThreads : pc[t] \in {"new", "acquire"} /\ program = "CS" => i[t] = 0
  /\ \A t \in CounterThreads : pc[t] = "new" => i[t] = 0
  /\ \A t \in CounterThreads : pc[t] = "done" \/ (pc[t] = "release" /\ program = "CS") => i[t] = LoopCnt
  /\ main = "create" \/ created = NumThread
  /\ \A t \in CounterThreads : pc[t] = "new" <=> created <= t
  /\ main \notin {"create", "wait"} => \A t \in CounterThreads : pc[t] = "done"

\* What thread t has made of shared_number so far.
Change(t) == IF t % 2 = 0 THEN i[t] ELSE -i[t]

\* f[n]: what the first n threads have made of it.
PartialSums(f) == f[0] = 0 /\ \A n \in 1..NumThread : f[n] = f[n - 1] + Change(n - 1)

\* shared_number is the sum of all changes, at any time.
SumInv == \E f \in [0..NumThread -> Int] : PartialSums(f) /\ number = f[NumThread]
=============================================================================
