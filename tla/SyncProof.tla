----------------------------- MODULE SyncProof -----------------------------
(***************************************************************************)
(* Proofs about the programs of ch20: SharedCounter, SyncSemaphore and     *)
(* SyncEvent, one after the other, each for every value of its constants.  *)
(***************************************************************************)
EXTENDS SharedCounter, SyncSemaphore, SyncEvent, SequenceTheorems, FiniteSetTheorems,
        WellFoundedInduction, TLAPS

-----------------------------------------------------------------------------
(* SharedCounter, for every NUM_THREAD and LOOP_CNT and both programs.     *)

\* Indices are integers, none of them is NoOne, and they are the naturals
\* below NUM_THREAD.
LEMMA CounterIndices ==
  /\ NoOne \notin CounterThreads /\ NoOne \in Int
  /\ \A t \in CounterThreads : t \in Nat /\ t < NumThread /\ Delta(t) \in Int
  /\ \A n \in Nat : n < NumThread => n \in CounterThreads
  /\ NumThread \in Nat /\ LoopCnt \in Nat
  BY CounterAssumption DEF CounterThreads, NoOne, Delta

LEMMA CounterInitIInv == CounterInit => CounterIInv
<1> SUFFICES ASSUME CounterInit PROVE CounterIInv
  OBVIOUS
<1>1. CounterTypeOK
  BY CounterIndices DEF CounterInit, CounterTypeOK, Pc
<1>2. \A t \in CounterThreads : pc[t] = "new" /\ i[t] = 0
  BY DEF CounterInit
<1> QED
  BY <1>1, <1>2, CounterIndices DEF CounterInit, CounterIInv, Inside, NoLostUpdate

\* The next place of a thread after its loop's test.
LEMMA LoopTestPlaces ==
  ASSUME NEW n \in 0..LoopCnt, program \in {"CS", "Mutex"}
  PROVE  /\ LoopTest(n) \in Pc \ {"new", "add", "store"}
         /\ program = "CS" => LoopTest(n) \in {"load", "release"}
         /\ program = "Mutex" => LoopTest(n) \in {"acquire", "done"}
         /\ LoopTest(n) \in {"load", "acquire"} => n < LoopCnt
         /\ LoopTest(n) \in {"release", "done"} => n = LoopCnt
  BY CounterIndices DEF LoopTest, Pc

LEMMA TakeLockKeeps == ASSUME NEW t \in CounterThreads, CounterIInv, TakeLock(t) PROVE CounterIInv'
<1> USE CounterIndices
<1>1. PICK q \in Pc :
        /\ pc' = [pc EXCEPT ![t] = q]
        /\ q \in {"load", "release"}
        /\ q = "load" => i[t] < LoopCnt
        /\ q = "release" => program = "CS" /\ i[t] = LoopCnt
  <2>1. CASE program = "CS"
    <3>1. i[t] = 0
      BY <2>1 DEF CounterIInv, TakeLock
    <3>2. LoopTest(0) \in {"load", "release"} /\ LoopTest(0) \in Pc
          /\ (LoopTest(0) = "load" => 0 < LoopCnt) /\ (LoopTest(0) = "release" => 0 = LoopCnt)
      BY <2>1, LoopTestPlaces
    <3> QED
      BY <2>1, <3>1, <3>2 DEF TakeLock
  <2>2. CASE program = "Mutex"
    <3>1. "load" \in Pc
      BY DEF Pc
    <3> QED
      BY <2>2, <3>1 DEF CounterIInv, TakeLock
  <2> QED
    BY <2>1, <2>2 DEF CounterIInv, CounterTypeOK
<1>2. \A u \in CounterThreads : ~Inside(u)
  BY DEF CounterIInv, TakeLock
<1>3. CounterTypeOK'
  BY <1>1 DEF CounterIInv, CounterTypeOK, TakeLock
<1>4. \A u \in CounterThreads : Inside(u)' <=> u = t
  BY <1>1, <1>2 DEF CounterIInv, CounterTypeOK, Inside
<1>5. \A u \in CounterThreads : u # t => pc'[u] = pc[u]
  BY <1>1 DEF CounterIInv, CounterTypeOK
<1>6. pc'[t] = q /\ pc[t] = "acquire"
  BY <1>1 DEF CounterIInv, CounterTypeOK, TakeLock
<1>7. UNCHANGED <<program, main, created, i, reg, number>> /\ lock' = t
  BY DEF TakeLock
<1> QED
  BY <1>1, <1>2, <1>3, <1>4, <1>5, <1>6, <1>7 DEF CounterIInv, Inside, NoLostUpdate

LEMMA LoadKeeps == ASSUME NEW t \in CounterThreads, CounterIInv, Load(t) PROVE CounterIInv'
<1> USE CounterIndices
<1>1. CounterTypeOK'
  BY DEF CounterIInv, CounterTypeOK, Load, Pc
<1>2. \A u \in CounterThreads : u # t => pc'[u] = pc[u] /\ reg'[u] = reg[u]
  BY DEF CounterIInv, CounterTypeOK, Load
<1>3. pc'[t] = "add" /\ reg'[t] = number
  BY DEF CounterIInv, CounterTypeOK, Load
<1>4. UNCHANGED <<program, main, created, i, lock, number>> /\ pc[t] = "load"
  BY DEF Load
<1> QED
  BY <1>1, <1>2, <1>3, <1>4 DEF CounterIInv, Inside, NoLostUpdate

LEMMA AddKeeps == ASSUME NEW t \in CounterThreads, CounterIInv, Add(t) PROVE CounterIInv'
<1> USE CounterIndices
<1>1. CounterTypeOK'
  BY DEF CounterIInv, CounterTypeOK, Add, Pc
<1>2. \A u \in CounterThreads : u # t => pc'[u] = pc[u] /\ reg'[u] = reg[u]
  BY DEF CounterIInv, CounterTypeOK, Add
<1>3. pc'[t] = "store" /\ reg'[t] = number + Delta(t)
  BY DEF CounterIInv, CounterTypeOK, Add
<1>4. UNCHANGED <<program, main, created, i, lock, number>> /\ pc[t] = "add"
  BY DEF Add
<1> QED
  BY <1>1, <1>2, <1>3, <1>4 DEF CounterIInv, Inside, NoLostUpdate

LEMMA StoreKeeps == ASSUME NEW t \in CounterThreads, CounterIInv, Store(t) PROVE CounterIInv'
<1> USE CounterIndices
<1>1. i[t] \in Nat /\ i[t] < LoopCnt /\ i'[t] = i[t] + 1 /\ i'[t] \in 0..LoopCnt
  BY DEF CounterIInv, CounterTypeOK, Store
<1>2. PICK q \in Pc :
        /\ pc' = [pc EXCEPT ![t] = q]
        /\ q \in {"load", "release"}
        /\ q = "load" => i'[t] < LoopCnt
        /\ q = "release" /\ program = "CS" => i'[t] = LoopCnt
  <2>1. CASE program = "CS"
    <3>1. LoopTest(i'[t]) \in {"load", "release"} /\ LoopTest(i'[t]) \in Pc
          /\ (LoopTest(i'[t]) = "load" => i'[t] < LoopCnt)
          /\ (LoopTest(i'[t]) = "release" => i'[t] = LoopCnt)
      BY <1>1, <2>1, LoopTestPlaces
    <3>2. pc' = [pc EXCEPT ![t] = LoopTest(i'[t])]
      BY <1>1, <2>1 DEF Store
    <3> QED
      BY <3>1, <3>2
  <2>2. CASE program = "Mutex"
    BY <2>2 DEF Store, Pc
  <2> QED
    BY <2>1, <2>2 DEF CounterIInv, CounterTypeOK
<1>3. CounterTypeOK'
  BY <1>1, <1>2 DEF CounterIInv, CounterTypeOK, Store
<1>4. \A u \in CounterThreads : u # t => pc'[u] = pc[u] /\ i'[u] = i[u] /\ ~Inside(u)
  BY <1>2 DEF CounterIInv, CounterTypeOK, Store, Inside
<1>5. pc'[t] = q /\ pc[t] = "store" /\ lock = t
  BY <1>2 DEF CounterIInv, CounterTypeOK, Store, Inside
<1>6. UNCHANGED <<program, main, created, reg, lock>>
  BY DEF Store
<1> QED
  BY <1>1, <1>2, <1>3, <1>4, <1>5, <1>6 DEF CounterIInv, Inside, NoLostUpdate

LEMMA GiveLockKeeps == ASSUME NEW t \in CounterThreads, CounterIInv, GiveLock(t) PROVE CounterIInv'
<1> USE CounterIndices
<1>1. PICK q \in Pc :
        /\ pc' = [pc EXCEPT ![t] = q]
        /\ q \in {"acquire", "done"}
        /\ q = "acquire" => program = "Mutex" /\ i[t] < LoopCnt
        /\ q = "done" => i[t] = LoopCnt
  <2>1. CASE program = "CS"
    BY <2>1 DEF CounterIInv, GiveLock, Pc
  <2>2. CASE program = "Mutex"
    <3>1. i[t] \in 0..LoopCnt
      BY DEF CounterIInv, CounterTypeOK
    <3> QED
      BY <2>2, <3>1, LoopTestPlaces DEF GiveLock
  <2> QED
    BY <2>1, <2>2 DEF CounterIInv, CounterTypeOK
<1>2. CounterTypeOK'
  BY <1>1 DEF CounterIInv, CounterTypeOK, GiveLock
<1>3. \A u \in CounterThreads : u # t => pc'[u] = pc[u] /\ ~Inside(u)
  BY <1>1 DEF CounterIInv, CounterTypeOK, GiveLock, Inside
<1>4. pc'[t] = q /\ pc[t] = "release" /\ lock' = NoOne
  BY <1>1 DEF CounterIInv, CounterTypeOK, GiveLock
<1>5. UNCHANGED <<program, main, created, i, reg, number>>
  BY DEF GiveLock
<1> QED
  BY <1>1, <1>2, <1>3, <1>4, <1>5 DEF CounterIInv, Inside, NoLostUpdate

LEMMA CreateChangerKeeps == CounterIInv /\ CreateChanger => CounterIInv'
<1> SUFFICES ASSUME CounterIInv, CreateChanger PROVE CounterIInv'
  OBVIOUS
<1> USE CounterIndices
<1>0. UNCHANGED <<program, i, reg, lock, number>> /\ main = "create"
  BY DEF CreateChanger
<1>1. CASE created < NumThread
  <2>1. created \in CounterThreads /\ created' = created + 1 /\ UNCHANGED main
        /\ pc[created] = "new" /\ i[created] = 0
    BY <1>1 DEF CounterIInv, CounterTypeOK, CreateChanger
  <2>2. PICK q \in Pc :
          /\ pc' = [pc EXCEPT ![created] = q]
          /\ q \in {"acquire", "done"}
          /\ q = "acquire" /\ program = "Mutex" => 0 < LoopCnt
          /\ q = "done" => 0 = LoopCnt
    <3>1. CASE program = "CS"
      BY <1>1, <3>1 DEF CreateChanger, Pc
    <3>2. CASE program = "Mutex"
      BY <1>1, <3>2, LoopTestPlaces DEF CreateChanger
    <3> QED
      BY <3>1, <3>2 DEF CounterIInv, CounterTypeOK
  <2>3. CounterTypeOK'
    BY <1>0, <1>1, <2>1, <2>2 DEF CounterIInv, CounterTypeOK
  <2>4. \A u \in CounterThreads : u # created => pc'[u] = pc[u]
    BY <2>2 DEF CounterIInv, CounterTypeOK
  <2>5. pc'[created] = q
    BY <2>1, <2>2 DEF CounterIInv, CounterTypeOK
  <2>6. \A u \in CounterThreads : pc'[u] = "new" <=> created' <= u
    BY <2>1, <2>2, <2>4, <2>5 DEF CounterIInv, CounterTypeOK
  <2> QED
    BY <1>0, <2>1, <2>2, <2>3, <2>4, <2>5, <2>6 DEF CounterIInv, Inside, NoLostUpdate
<1>2. CASE ~(created < NumThread)
  <2>1. main' = "wait" /\ UNCHANGED <<pc, created>> /\ created = NumThread
    BY <1>2 DEF CreateChanger, CounterIInv, CounterTypeOK
  <2>2. CounterTypeOK'
    BY <1>0, <2>1 DEF CounterIInv, CounterTypeOK
  <2> QED
    BY <1>0, <2>1, <2>2 DEF CounterIInv, Inside, NoLostUpdate
<1> QED
  BY <1>1, <1>2

LEMMA CounterMainRestKeeps == CounterIInv /\ (WaitAll \/ DeleteLock \/ PrintNumber) => CounterIInv'
<1> SUFFICES ASSUME CounterIInv, WaitAll \/ DeleteLock \/ PrintNumber PROVE CounterIInv'
  OBVIOUS
<1>1. UNCHANGED <<program, created, pc, i, reg, lock, number>>
      /\ main \in {"wait", "delete", "print"} /\ main' \in {"delete", "print", "end"}
      /\ \A t \in CounterThreads : pc[t] = "done"
  BY DEF WaitAll, DeleteLock, PrintNumber, CounterIInv
<1>2. CounterTypeOK'
  BY <1>1 DEF CounterIInv, CounterTypeOK
<1> QED
  BY <1>1, <1>2 DEF CounterIInv, Inside, NoLostUpdate

\* Every step keeps the inductive invariant.
LEMMA CounterNextKeeps == CounterIInv /\ [CounterNext]_counterVars => CounterIInv'
<1> SUFFICES ASSUME CounterIInv, [CounterNext]_counterVars PROVE CounterIInv'
  OBVIOUS
<1>1. CASE CounterMain
  BY <1>1, CreateChangerKeeps, CounterMainRestKeeps DEF CounterMain
<1>2. ASSUME NEW t \in CounterThreads, CounterThread(t) PROVE CounterIInv'
  BY <1>2, TakeLockKeeps, LoadKeeps, AddKeeps, StoreKeeps, GiveLockKeeps DEF CounterThread
<1>3. CASE UNCHANGED counterVars
  BY <1>3 DEF counterVars, CounterIInv, CounterTypeOK, Inside, NoLostUpdate
<1> QED
  BY <1>1, <1>2, <1>3 DEF CounterNext

\* The inductive invariant holds in every reachable state.
THEOREM CounterInvariance == CounterSpec => []CounterIInv
<1> QED
  BY CounterInitIInv, CounterNextKeeps, PTL DEF CounterSpec

\* Every variable keeps its type.
THEOREM CounterTypeCorrect == CounterSpec => []CounterTypeOK
<1>1. CounterIInv => CounterTypeOK
  BY DEF CounterIInv
<1> QED
  BY <1>1, CounterInvariance, PTL

\* No thread overwrites another thread's change of shared_number, for any
\* number of threads and rounds.
THEOREM UpdatesAreAtomic == CounterSpec => []NoLostUpdate
<1>1. CounterIInv => NoLostUpdate
  BY DEF CounterIInv
<1> QED
  BY <1>1, CounterInvariance, PTL

\* The lock is deleted after its last use.
THEOREM LockDeletedSafely == CounterSpec => []LockDeletedUnused
<1>1. CounterIInv => LockDeletedUnused
  BY DEF CounterIInv, CounterTypeOK, LockDeletedUnused, Inside
<1> QED
  BY <1>1, CounterInvariance, PTL

\* A store moves the partial sums behind its thread by one, and nothing else
\* moves any of them.
LEMMA StoreMovesSums ==
  ASSUME CounterIInv, SumInv, NEW t \in CounterThreads, Store(t) PROVE SumInv'
<1> USE CounterIndices
<1>1. PICK f \in [0..NumThread -> Int] : PartialSums(f) /\ number = f[NumThread]
  BY DEF SumInv
<1> DEFINE g == [n \in 0..NumThread |-> IF n > t THEN f[n] + Delta(t) ELSE f[n]]
<1>2. g \in [0..NumThread -> Int]
  OBVIOUS
<1>3. i[t] \in Nat /\ i'[t] = i[t] + 1 /\ \A u \in CounterThreads : u # t => i'[u] = i[u]
  BY DEF CounterIInv, CounterTypeOK, Store
<1>4. ASSUME NEW n \in 1..NumThread PROVE g[n] = g[n - 1] + Change(n - 1)'
  <2>1. n - 1 \in CounterThreads /\ n \in 0..NumThread /\ n - 1 \in 0..NumThread
    BY DEF CounterThreads
  <2>2. f[n] = f[n - 1] + Change(n - 1) /\ f[n] \in Int /\ f[n - 1] \in Int
    BY <1>1, <2>1 DEF PartialSums
  <2>3. i[n - 1] \in Int /\ Change(n - 1) \in Int
    BY <2>1 DEF CounterIInv, CounterTypeOK, Change
  <2>4. CASE n - 1 = t
    <3>1. Change(n - 1)' = Change(n - 1) + Delta(t)
      <4>1. i[t] \in Nat /\ i'[t] = i[t] + 1
        BY <1>3
      <4>2. Change(t)' = Change(t) + Delta(t)
        BY ONLY <4>1 DEF Change, Delta
      <4> QED
        BY <2>4, <4>2
    <3>2. g[n] = f[n] + Delta(t) /\ g[n - 1] = f[n - 1]
      BY <2>1, <2>4
    <3> QED
      BY <2>2, <2>3, <3>1, <3>2
  <2>5. CASE n - 1 # t
    <3>1. Change(n - 1)' = Change(n - 1)
      BY <1>3, <2>1, <2>5 DEF Change
    <3>2. (g[n] = f[n] + Delta(t) /\ g[n - 1] = f[n - 1] + Delta(t)) \/ (g[n] = f[n] /\ g[n - 1] = f[n - 1])
      BY <2>1, <2>5
    <3> HIDE DEF g
    <3> QED
      BY <2>2, <2>3, <3>1, <3>2
  <2> QED
    BY <2>4, <2>5
<1>5. g[0] = 0
  BY <1>1 DEF PartialSums
<1>6. number' = g[NumThread]
  <2>1. number' = number + Delta(t)
    BY DEF Store, CounterIInv, NoLostUpdate
  <2> QED
    BY <1>1, <2>1
<1> HIDE DEF g
<1>7. PartialSums(g)'
  BY <1>4, <1>5 DEF PartialSums
<1> QED
  BY <1>2, <1>6, <1>7 DEF SumInv

LEMMA SumKeeps == ASSUME CounterIInv, SumInv, [CounterNext]_counterVars PROVE SumInv'
<1>1. ASSUME UNCHANGED <<i, number>> PROVE SumInv'
  BY <1>1 DEF SumInv, PartialSums, Change
<1>2. CASE CounterMain
  BY <1>1, <1>2 DEF CounterMain, CreateChanger, WaitAll, DeleteLock, PrintNumber
<1>3. ASSUME NEW t \in CounterThreads, CounterThread(t) PROVE SumInv'
  <2>1. CASE Store(t)
    BY <2>1, StoreMovesSums
  <2>2. CASE TakeLock(t) \/ Load(t) \/ Add(t) \/ GiveLock(t)
    BY <1>1, <2>2 DEF TakeLock, Load, Add, GiveLock
  <2> QED
    BY <1>3, <2>1, <2>2 DEF CounterThread
<1>4. CASE UNCHANGED counterVars
  BY <1>1, <1>4 DEF counterVars
<1> QED
  BY <1>2, <1>3, <1>4 DEF CounterNext

\* At any time shared_number is the sum of the changes made so far.
THEOREM NumberIsTheSum == CounterSpec => []SumInv
<1>1. CounterInit => SumInv
  <2> SUFFICES ASSUME CounterInit PROVE SumInv
    OBVIOUS
  <2> DEFINE f == [n \in 0..NumThread |-> 0]
  <2>1. f \in [0..NumThread -> Int] /\ f[0] = 0 /\ f[NumThread] = 0
    BY CounterIndices
  <2>2. \A n \in 1..NumThread : f[n] = f[n - 1] + Change(n - 1)
    BY CounterIndices DEF CounterInit, Change, CounterThreads
  <2> HIDE DEF f
  <2>3. PartialSums(f)
    BY <2>1, <2>2 DEF PartialSums
  <2> QED
    BY <2>1, <2>3 DEF SumInv, CounterInit
<1> QED
  BY <1>1, SumKeeps, CounterInvariance, PTL DEF CounterSpec

\* When all threads have made all their changes, two by two they cancel out.
LEMMA ChangesCancel ==
  ASSUME NEW f \in [0..NumThread -> Int], PartialSums(f),
         \A t \in CounterThreads : i[t] = LoopCnt
  PROVE  f[NumThread] = IF NumThread % 2 = 0 THEN 0 ELSE LoopCnt
<1> USE CounterIndices
<1> DEFINE Even(n) == f[n] = IF n % 2 = 0 THEN 0 ELSE LoopCnt
           S == {n \in 0..NumThread : ~Even(n)}
           R == {ss \in Nat \X Nat : ss[1] < ss[2]}
<1>1. IsWellFoundedOn(R, Nat)
  BY NatLessThanWellFounded DEF OpToRel
<1>2. SUFFICES ASSUME S # {} PROVE FALSE
  OBVIOUS
<1> HIDE DEF R
<1>3. PICK m \in S : \A y \in S : ~(<<y, m>> \in R)
  <2>1. S \subseteq Nat
    OBVIOUS
  <2> QED
    BY <1>1, <1>2, <2>1, WFMin
<1>4. ASSUME NEW y \in 0..NumThread, y < m PROVE Even(y)
  <2>1. y \in Nat /\ m \in Nat /\ <<y, m>> \in R
    BY <1>4 DEF R
  <2> QED
    BY <1>3, <2>1
<1>5. m # 0
  BY <1>3 DEF PartialSums
<1>6. m \in 1..NumThread /\ m - 1 \in CounterThreads /\ m - 1 \in 0..NumThread /\ m - 1 < m
  BY <1>3, <1>5 DEF CounterThreads
<1>7. f[m - 1] = IF (m - 1) % 2 = 0 THEN 0 ELSE LoopCnt
  BY <1>4, <1>6
<1>8. f[m] = f[m - 1] + IF (m - 1) % 2 = 0 THEN LoopCnt ELSE -LoopCnt
  BY <1>6 DEF PartialSums, Change
<1>9. Even(m)
  <2>1. m \in Nat \ {0}
    BY <1>6
  <2>2. m % 2 = 0 <=> (m - 1) % 2 # 0
    BY ONLY <2>1
  <2> QED
    BY <1>7, <1>8, <2>2
<1> QED
  BY <1>3, <1>9

\* What main prints is 0, for every even NUM_THREAD, every LOOP_CNT and either
\* lock: the comment at line 52.
THEOREM ZeroIsPrinted == CounterSpec => []PrintsZero
<1>1. CounterIInv /\ SumInv => PrintsZero
  <2> SUFFICES ASSUME CounterIInv, SumInv, main \in {"print", "end"}
               PROVE  number = IF NumThread % 2 = 0 THEN 0 ELSE LoopCnt
    BY DEF PrintsZero
  <2>1. \A t \in CounterThreads : i[t] = LoopCnt
    BY DEF CounterIInv
  <2> QED
    BY <2>1, ChangesCancel DEF SumInv
<1> QED
  BY <1>1, NumberIsTheSum, CounterInvariance, PTL

\* A step of the program is a step of the atomic counter or invisible to it.
LEMMA CounterStepImplements == CounterIInv /\ [CounterNext]_counterVars => [Atomic!Next]_(Atomic!vars)
<1> SUFFICES ASSUME CounterIInv, [CounterNext]_counterVars PROVE [Atomic!Next]_(Atomic!vars)
  OBVIOUS
<1> USE DEF Atomic!vars
<1>1. ASSUME NEW t \in CounterThreads, Store(t) PROVE Atomic!Add(t)
  <2>1. i[t] < LoopCnt /\ number' = number + Delta(t)
    BY <1>1 DEF Store, CounterIInv, NoLostUpdate
  <2> QED
    BY <1>1, <2>1 DEF Store, Atomic!Add
<1>2. ASSUME NEW t \in CounterThreads, TakeLock(t) \/ Load(t) \/ Add(t) \/ GiveLock(t)
      PROVE  UNCHANGED Atomic!vars
  BY <1>2 DEF TakeLock, Load, Add, GiveLock
<1>3. CASE PrintNumber
  <2>1. \A t \in CounterThreads : i[t] = LoopCnt
    BY <1>3 DEF PrintNumber, CounterIInv
  <2>2. (main = "end") = FALSE /\ (main' = "end") = TRUE
    BY <1>3 DEF PrintNumber
  <2>3. Atomic!Report
    BY <1>3, <2>1, <2>2 DEF PrintNumber, Atomic!Report
  <2> QED
    BY <2>3 DEF Atomic!Next
<1>4. CASE CreateChanger \/ WaitAll \/ DeleteLock
  <2>1. main # "end" /\ main' # "end" /\ UNCHANGED <<number, i>>
    BY <1>4 DEF CreateChanger, WaitAll, DeleteLock
  <2> QED
    BY <2>1
<1>5. CASE UNCHANGED counterVars
  BY <1>5 DEF counterVars
<1> QED
  BY <1>1, <1>2, <1>3, <1>4, <1>5 DEF CounterNext, CounterMain, CounterThread, Atomic!Next

\* Whatever either program does is something an atomic counter may do.
THEOREM ImplementsCounterSafety == CounterSpec => Atomic!Init /\ [][Atomic!Next]_(Atomic!vars)
<1>1. CounterInit => Atomic!Init
  BY DEF CounterInit, Atomic!Init
<1> QED
  BY <1>1, CounterStepImplements, CounterInvariance, PTL DEF CounterSpec

-----------------------------------------------------------------------------
(* SyncSemaphore, for every LOOP_COUNT and every set of numbers.  The      *)
(* heart is PermitInv: the permits of h_input_ready_sem are neither lost   *)
(* nor made, so holding two of them means that nobody else holds one.      *)

\* The two accumulators, one by one.
LEMMA TwoAccumulators ==
  /\ Accumulators = {"sum", "product"} /\ Threads = {"input", "sum", "product"}
  /\ "sum" \in Threads /\ "product" \in Threads /\ "input" \in Threads
  /\ "sum" # "product" /\ "sum" # "input" /\ "product" # "input"
  BY DEF Accumulators, Threads

\* Initially no number is entered and both permits are input_thread's to take.
LEMMA SemaphoreInitIInv == SemaphoreInit => SemaphoreIInv
<1> SUFFICES ASSUME SemaphoreInit PROVE SemaphoreIInv
  OBVIOUS
<1> USE DEF SemaphoreInit
<1>1. SemaphoreTypeOK
  BY SemaphoreAssumption, TwoAccumulators DEF SemaphoreTypeOK, InputPc, AccumulatorPc, SemMax
<1>2. PermitInv
  BY TwoAccumulators DEF PermitInv, Held, Owed
<1>3. FoldInv
  BY TwoAccumulators DEF FoldInv, Behind
<1>4. RoundInv /\ JoinInv
  BY TwoAccumulators, SemaphoreAssumption DEF RoundInv, JoinInv, Order
<1> QED
  BY <1>1, <1>2, <1>3, <1>4 DEF SemaphoreIInv

\* What input_thread knows when it holds both permits.
LEMMA HoldingBoth ==
  ASSUME SemaphoreIInv, Held = 2
  PROVE  \A a \in Accumulators : Owed(a) = 0 /\ sem[a] = 0 /\ pc[a] \notin {"fold", "release"}
<1>1. \A a \in Accumulators : sem[a] \in Nat /\ Owed(a) \in Nat
  BY TwoAccumulators DEF SemaphoreIInv, SemaphoreTypeOK, Owed
<1>2. sem["input"] \in Nat /\ sem["input"] + 2 + Owed("sum") + Owed("product") = 2
  BY TwoAccumulators DEF SemaphoreIInv, SemaphoreTypeOK, PermitInv
<1>3. \A a \in Accumulators : Owed(a) = 0
  BY <1>1, <1>2, TwoAccumulators
<1> QED
  BY <1>1, <1>3 DEF Owed

\* What an accumulator knows while it is between its wait and its release.
LEMMA HoldingOne ==
  ASSUME SemaphoreIInv, NEW a \in Accumulators, pc[a] \in {"fold", "release"}
  PROVE  Owed(a) = 1 /\ sem[a] = 0 /\ sem["input"] < 2
<1>1. Owed(a) = 1 /\ sem[a] = 0
  BY TwoAccumulators DEF SemaphoreIInv, SemaphoreTypeOK, PermitInv, Owed
<1>2. sem["input"] \in Nat /\ Held \in Nat /\ Owed("sum") \in Nat /\ Owed("product") \in Nat
  BY TwoAccumulators DEF SemaphoreIInv, SemaphoreTypeOK, Held, Owed
<1> QED
  BY <1>1, <1>2, TwoAccumulators DEF SemaphoreIInv, PermitInv

LEMMA WaitFirstKeeps == SemaphoreIInv /\ WaitFirst => SemaphoreIInv'
<1> SUFFICES ASSUME SemaphoreIInv, WaitFirst PROVE SemaphoreIInv'
  OBVIOUS
<1> USE TwoAccumulators DEF SemaphoreIInv, WaitFirst, Go, Acquire
<1>1. SemaphoreTypeOK'
  BY DEF SemaphoreTypeOK, InputPc, AccumulatorPc, SemMax
<1>2. PermitInv'
  BY DEF SemaphoreTypeOK, PermitInv, Held, Owed
<1>3. FoldInv'
  BY DEF SemaphoreTypeOK, FoldInv, Behind
<1>4. RoundInv' /\ JoinInv'
  BY DEF SemaphoreTypeOK, RoundInv, JoinInv, Order
<1> QED
  BY <1>1, <1>2, <1>3, <1>4

LEMMA WaitSecondKeeps == SemaphoreIInv /\ WaitSecond => SemaphoreIInv'
<1> SUFFICES ASSUME SemaphoreIInv, WaitSecond PROVE SemaphoreIInv'
  OBVIOUS
<1> USE TwoAccumulators DEF SemaphoreIInv, WaitSecond, Go, Acquire
<1>1. SemaphoreTypeOK'
  BY DEF SemaphoreTypeOK, InputPc, AccumulatorPc, SemMax
<1>2. PermitInv'
  BY DEF SemaphoreTypeOK, PermitInv, Held, Owed
<1>3. FoldInv'
  BY DEF SemaphoreTypeOK, FoldInv, Behind
<1>4. RoundInv' /\ JoinInv'
  BY DEF SemaphoreTypeOK, RoundInv, JoinInv, Order
<1> QED
  BY <1>1, <1>2, <1>3, <1>4

LEMMA ScanKeeps == SemaphoreIInv /\ Scan => SemaphoreIInv'
<1> SUFFICES ASSUME SemaphoreIInv, Scan PROVE SemaphoreIInv'
  OBVIOUS
<1>1. \A a \in Accumulators : Owed(a) = 0 /\ sem[a] = 0 /\ pc[a] \notin {"fold", "release"}
  BY HoldingBoth DEF Scan, Go, Held
<1>2. \A a \in Accumulators : taken[a] = entered
  BY <1>1, TwoAccumulators DEF SemaphoreIInv, FoldInv, Behind, Scan, Go
<1> USE TwoAccumulators DEF Scan, Go
<1>3. entered \in Seq(Numbers \cup {Initial}) /\ shared' \in Numbers \cup {Initial} /\ entered' = Append(entered, shared')
  BY DEF SemaphoreIInv, SemaphoreTypeOK
<1>4. SemaphoreTypeOK'
  BY <1>3 DEF SemaphoreIInv, SemaphoreTypeOK, InputPc, AccumulatorPc, SemMax
<1>5. PermitInv'
  BY DEF SemaphoreIInv, SemaphoreTypeOK, PermitInv, Held, Owed
<1>6. SubSeq(entered', 1, Len(entered') - 1) = entered /\ entered' # << >> /\ entered'[Len(entered')] = shared'
  BY <1>3
<1>7. FoldInv'
  <2>1. \A a \in Accumulators : Behind(a)' /\ taken'[a] = entered
    BY <1>2 DEF SemaphoreIInv, SemaphoreTypeOK, Behind
  <2> QED
    BY <2>1, <1>6 DEF FoldInv
<1>8. Len(entered') = Len(entered) + 1
  BY <1>3
<1>9. RoundInv' /\ JoinInv'
  BY <1>8 DEF SemaphoreIInv, SemaphoreTypeOK, RoundInv, JoinInv, Order
<1> QED
  BY <1>4, <1>5, <1>7, <1>9 DEF SemaphoreIInv

LEMMA ReleaseSumKeeps == SemaphoreIInv /\ ReleaseSum => SemaphoreIInv'
<1> SUFFICES ASSUME SemaphoreIInv, ReleaseSum PROVE SemaphoreIInv'
  OBVIOUS
<1>1. \A a \in Accumulators : Owed(a) = 0 /\ sem[a] = 0 /\ pc[a] \notin {"fold", "release"}
  BY HoldingBoth DEF ReleaseSum, Go, Held
<1> USE TwoAccumulators DEF ReleaseSum, Go, Release
<1>2. sem' = [sem EXCEPT !["sum"] = 1]
  <2>1. sem["sum"] = 0 /\ SemMax["sum"] = 1
    BY <1>1 DEF SemMax
  <2> QED
    BY <2>1
<1>3. SemaphoreTypeOK'
  BY <1>2 DEF SemaphoreIInv, SemaphoreTypeOK, InputPc, AccumulatorPc, SemMax
<1>4. PermitInv'
  <2>1. Held = 2 /\ Held' = 1 /\ sem["input"] = 0
    BY <1>1 DEF SemaphoreIInv, SemaphoreTypeOK, PermitInv, Held
  <2>2. sem'["input"] = 0 /\ sem'["sum"] = 1 /\ sem'["product"] = 0
    BY <1>1, <1>2, <2>1 DEF SemaphoreIInv, SemaphoreTypeOK
  <2>3. \A a \in Accumulators : pc'[a] \notin {"fold", "release"}
    BY <1>1 DEF SemaphoreIInv, SemaphoreTypeOK
  <2>4. Owed("sum")' = 1 /\ Owed("product")' = 0
    BY <2>2, <2>3 DEF Owed
  <2> QED
    BY <2>1, <2>2, <2>4 DEF PermitInv
<1>5. FoldInv'
  BY <1>2 DEF SemaphoreIInv, SemaphoreTypeOK, FoldInv, Behind
<1>6. RoundInv' /\ JoinInv'
  BY DEF SemaphoreIInv, SemaphoreTypeOK, RoundInv, JoinInv, Order
<1> QED
  BY <1>3, <1>4, <1>5, <1>6 DEF SemaphoreIInv

LEMMA ReleaseProductKeeps == SemaphoreIInv /\ ReleaseProduct => SemaphoreIInv'
<1> SUFFICES ASSUME SemaphoreIInv, ReleaseProduct PROVE SemaphoreIInv'
  OBVIOUS
<1> USE TwoAccumulators, SemaphoreAssumption DEF ReleaseProduct, EndRound, Go, Release
<1>1. Owed("product") = 0 /\ sem["product"] = 0 /\ pc["product"] \notin {"fold", "release"}
  BY DEF SemaphoreIInv, SemaphoreTypeOK, PermitInv, Owed
<1>2. sem' = [sem EXCEPT !["product"] = 1]
  BY <1>1 DEF SemaphoreIInv, SemaphoreTypeOK, SemMax
<1>3. i["input"] < LoopCount /\ pc'["input"] \in {"wait1", "done"}
  BY DEF SemaphoreIInv, SemaphoreTypeOK, RoundInv
<1>4. SemaphoreTypeOK'
  <2>1. sem' \in [Threads -> Nat] /\ sem'["product"] = 1 /\ SemMax["product"] = 1
    <3>1. sem \in [Threads -> Nat]
      BY DEF SemaphoreIInv, SemaphoreTypeOK
    <3>2. SemMax["product"] = 1
      BY DEF SemMax
    <3> QED
      BY <1>2, <3>1, <3>2
  <2>2. /\ sem'["input"] = sem["input"] /\ sem'["sum"] = sem["sum"]
        /\ \A t \in Threads : sem[t] <= SemMax[t]
    BY <1>2 DEF SemaphoreIInv, SemaphoreTypeOK
  <2>3. \A t \in Threads : sem'[t] <= SemMax[t]
    BY <2>1, <2>2
  <2>4. i' \in [Threads -> 0..LoopCount]
    BY <1>3 DEF SemaphoreIInv, SemaphoreTypeOK
  <2>5. pc' \in [Threads -> InputPc \cup AccumulatorPc \cup {"new", "done"}]
        /\ pc'["input"] \notin AccumulatorPc /\ \A a \in Accumulators : pc'[a] \notin InputPc
    BY <1>3 DEF SemaphoreIInv, SemaphoreTypeOK, InputPc, AccumulatorPc
  <2> QED
    BY <2>1, <2>3, <2>4, <2>5 DEF SemaphoreIInv, SemaphoreTypeOK
<1>5. PermitInv'
  <2>1. Held = 1 /\ Held' = 0 /\ pc'["input"] # "release2"
    BY <1>3 DEF Held
  <2>2. sem'["input"] = sem["input"] /\ sem'["sum"] = sem["sum"] /\ sem'["product"] = 1
    BY <1>2 DEF SemaphoreIInv, SemaphoreTypeOK
  <2>3. Owed("sum")' = Owed("sum") /\ Owed("product")' = 1
    BY <1>1, <2>2 DEF SemaphoreIInv, SemaphoreTypeOK, Owed
  <2> QED
    <3>1. sem["input"] + Held + Owed("sum") + Owed("product") = 2 /\ Owed("sum") \in Nat
      BY DEF SemaphoreIInv, SemaphoreTypeOK, PermitInv, Owed
    <3>2. sem["input"] \in Nat /\ Owed("sum") <= 1
      BY DEF SemaphoreIInv, SemaphoreTypeOK, PermitInv
    <3>3. sem'["input"] + Held' + Owed("sum")' + Owed("product")' = 2
      BY <1>1, <2>1, <2>2, <2>3, <3>1, <3>2
    <3>4. \A a \in Accumulators : Owed(a)' <= 1
      BY <2>3, <3>2
    <3> QED
      BY <2>1, <3>3, <3>4 DEF PermitInv
<1>6. FoldInv'
  <2>1. Behind("product") /\ Behind("product")'
    BY <1>2 DEF SemaphoreIInv, SemaphoreTypeOK, Behind
  <2>2. Behind("sum")' = Behind("sum")
    BY <1>2, <1>3 DEF SemaphoreIInv, SemaphoreTypeOK, Behind
  <2> QED
    BY <2>1, <2>2 DEF SemaphoreIInv, FoldInv
<1>7. RoundInv' /\ JoinInv'
  BY <1>3 DEF SemaphoreIInv, SemaphoreTypeOK, RoundInv, JoinInv, Order
<1> QED
  BY <1>4, <1>5, <1>6, <1>7 DEF SemaphoreIInv

LEMMA WaitNumberKeeps == ASSUME NEW a \in Accumulators, SemaphoreIInv, WaitNumber(a) PROVE SemaphoreIInv'
<1> USE TwoAccumulators DEF SemaphoreIInv, WaitNumber, Go, Acquire
<1>1. SemaphoreTypeOK'
  BY DEF SemaphoreTypeOK, InputPc, AccumulatorPc, SemMax
<1>2. PermitInv'
  <2>1. pc'["input"] = pc["input"] /\ sem'["input"] = sem["input"]
    BY DEF SemaphoreTypeOK
  <2>2. \A b \in Accumulators : Owed(b)' = Owed(b)
    BY DEF SemaphoreTypeOK, Owed
  <2>3. Held' = Held
    BY <2>1 DEF Held
  <2> QED
    BY <2>1, <2>2, <2>3 DEF PermitInv
<1>3. FoldInv'
  BY DEF SemaphoreTypeOK, FoldInv, Behind
<1>4. RoundInv' /\ JoinInv'
  BY DEF SemaphoreTypeOK, RoundInv, JoinInv, Order
<1> QED
  BY <1>1, <1>2, <1>3, <1>4

LEMMA FoldKeeps == ASSUME NEW a \in Accumulators, SemaphoreIInv, Fold(a) PROVE SemaphoreIInv'
<1> USE TwoAccumulators DEF Fold, Go
<1>1. Owed(a) = 1 /\ sem[a] = 0 /\ pc["input"] \notin {"scan", "release1"}
      /\ ~(a = "product" /\ pc["input"] = "release2")
  <2>1. Owed(a) = 1 /\ sem[a] = 0
    BY HoldingOne
  <2>2. Held # 2
    BY <2>1, HoldingBoth
  <2>3. ~(a = "product" /\ pc["input"] = "release2")
    BY <2>1 DEF SemaphoreIInv, PermitInv
  <2> QED
    BY <2>1, <2>2, <2>3 DEF Held
<1>2. entered # << >> /\ taken[a] = SubSeq(entered, 1, Len(entered) - 1) /\ shared = entered[Len(entered)]
  BY DEF SemaphoreIInv, FoldInv, Behind
<1>3. entered \in Seq(Numbers \cup {Initial})
  BY DEF SemaphoreIInv, SemaphoreTypeOK
<1>4. Append(taken[a], shared) = entered
  BY <1>2, <1>3
<1>5. SemaphoreTypeOK'
  BY DEF SemaphoreIInv, SemaphoreTypeOK, InputPc, AccumulatorPc, SemMax
<1>6. PermitInv'
  BY DEF SemaphoreIInv, SemaphoreTypeOK, PermitInv, Held, Owed
<1>7. ~Behind(a)' /\ taken'[a] = entered
  BY <1>1, <1>4 DEF SemaphoreIInv, SemaphoreTypeOK, Behind
<1>8. \A b \in Accumulators : b # a => Behind(b)' = Behind(b) /\ taken'[b] = taken[b]
  BY DEF SemaphoreIInv, SemaphoreTypeOK, Behind
<1>9. FoldInv'
  BY <1>7, <1>8 DEF SemaphoreIInv, FoldInv
<1>10. RoundInv' /\ JoinInv'
  BY DEF SemaphoreIInv, SemaphoreTypeOK, RoundInv, JoinInv, Order
<1> QED
  BY <1>5, <1>6, <1>9, <1>10 DEF SemaphoreIInv

LEMMA ReleaseInputKeeps == ASSUME NEW a \in Accumulators, SemaphoreIInv, ReleaseInput(a) PROVE SemaphoreIInv'
<1> USE TwoAccumulators DEF ReleaseInput, Go, Release
<1>1. sem["input"] < 2 /\ Owed(a) = 1 /\ sem[a] = 0
  BY HoldingOne
<1>2. sem' = [sem EXCEPT !["input"] = sem["input"] + 1]
  BY <1>1 DEF SemaphoreIInv, SemaphoreTypeOK, SemMax
<1>3. SemaphoreTypeOK'
  BY <1>1, <1>2 DEF SemaphoreIInv, SemaphoreTypeOK, InputPc, AccumulatorPc, SemMax
<1>4. PermitInv'
  <2>1. /\ pc'["input"] = pc["input"] /\ sem'["input"] = sem["input"] + 1
        /\ \A b \in Accumulators : sem'[b] = sem[b]
        /\ \A b \in Accumulators : b # a => pc'[b] = pc[b]
        /\ pc'[a] = "print"
    BY <1>2 DEF SemaphoreIInv, SemaphoreTypeOK
  <2>2. \A b \in Accumulators : b # a => Owed(b)' = Owed(b)
    BY <2>1 DEF Owed
  <2>3. Owed(a)' = 0
    BY <1>1, <2>1 DEF Owed
  <2>4. Held' = Held /\ Held \in Nat
    BY <2>1 DEF Held
  <2>5. sem["input"] \in Nat /\ \A b \in Accumulators : Owed(b) \in Nat
    BY DEF SemaphoreIInv, SemaphoreTypeOK, Owed
  <2>6. PermitInv
    BY DEF SemaphoreIInv
  <2>7. sem'["input"] + Held' + Owed("sum")' + Owed("product")' = 2
    BY <1>1, <2>1, <2>2, <2>3, <2>4, <2>5, <2>6 DEF PermitInv
  <2>8. \A b \in Accumulators : Owed(b)' <= 1
    BY <2>2, <2>3, <2>6 DEF PermitInv
  <2>9. pc'["input"] = "release2" => Owed("product")' = 0
    BY <1>1, <2>1, <2>2, <2>3, <2>6 DEF PermitInv
  <2> QED
    BY <2>7, <2>8, <2>9 DEF PermitInv
<1>5. FoldInv'
  BY <1>2 DEF SemaphoreIInv, SemaphoreTypeOK, FoldInv, Behind
<1>6. RoundInv' /\ JoinInv'
  BY DEF SemaphoreIInv, SemaphoreTypeOK, RoundInv, JoinInv, Order
<1> QED
  BY <1>3, <1>4, <1>5, <1>6 DEF SemaphoreIInv

LEMMA PrintResultKeeps == ASSUME NEW a \in Accumulators, SemaphoreIInv, PrintResult(a) PROVE SemaphoreIInv'
<1> USE TwoAccumulators, SemaphoreAssumption DEF PrintResult, EndRound, Go
<1>1. i[a] < LoopCount /\ pc'[a] \in {"wait", "done"}
  BY DEF SemaphoreIInv, SemaphoreTypeOK, RoundInv
<1>2. SemaphoreTypeOK'
  BY <1>1 DEF SemaphoreIInv, SemaphoreTypeOK, InputPc, AccumulatorPc, SemMax
<1>3. PermitInv'
  BY <1>1 DEF SemaphoreIInv, SemaphoreTypeOK, PermitInv, Held, Owed
<1>4. FoldInv'
  BY <1>1 DEF SemaphoreIInv, SemaphoreTypeOK, FoldInv, Behind
<1>5. RoundInv' /\ JoinInv'
  BY <1>1 DEF SemaphoreIInv, SemaphoreTypeOK, RoundInv, JoinInv, Order
<1> QED
  BY <1>2, <1>3, <1>4, <1>5 DEF SemaphoreIInv

LEMMA MainKeeps == SemaphoreIInv /\ SemaphoreMain => SemaphoreIInv'
<1> SUFFICES ASSUME SemaphoreIInv, SemaphoreMain PROVE SemaphoreIInv'
  OBVIOUS
<1> USE TwoAccumulators, SemaphoreAssumption
<1>1. CASE CreateThread
  <2> DEFINE t == Order[main]
  <2>1. t \in Threads /\ pc[t] = "new" /\ main \in 1..3 /\ main' = main + 1
    BY <1>1 DEF CreateThread, Go, Order
  <2>2. PICK p \in {"done", "wait1", "wait"} :
          /\ pc' = [pc EXCEPT ![t] = p]
          /\ p = "done" \/ LoopCount > 0
          /\ p = "wait1" => t = "input"
          /\ p = "wait" => t \in Accumulators
    <3> DEFINE q == IF LoopCount = 0 THEN "done" ELSE IF t = "input" THEN "wait1" ELSE "wait"
    <3>1. pc' = [pc EXCEPT ![t] = q]
      BY <1>1 DEF CreateThread, Go
    <3>2. CASE LoopCount = 0
      BY <3>1, <3>2
    <3>3. CASE LoopCount > 0 /\ t = "input"
      <4>1. q = "wait1" /\ LoopCount # 0
        BY <3>3
      <4> QED
        BY <3>1, <3>3, <4>1
    <3>4. CASE LoopCount > 0 /\ t # "input"
      <4>1. q = "wait" /\ t \in Accumulators
        BY <2>1, <3>4
      <4> QED
        BY <3>1, <3>4, <4>1
    <3> QED
      BY <3>2, <3>3, <3>4
  <2> HIDE DEF t
  <2>3. UNCHANGED <<i, sem, shared, entered, taken>>
    BY <1>1 DEF CreateThread
  <2>4. i[t] \in 0..LoopCount
    BY <2>1 DEF SemaphoreIInv, SemaphoreTypeOK
  <2>5. SemaphoreTypeOK'
    BY <2>1, <2>2, <2>3 DEF SemaphoreIInv, SemaphoreTypeOK, InputPc, AccumulatorPc, SemMax
  <2>6. PermitInv'
    BY <2>1, <2>2, <2>3 DEF SemaphoreIInv, SemaphoreTypeOK, PermitInv, Held, Owed
  <2>7. FoldInv'
    BY <2>1, <2>2, <2>3 DEF SemaphoreIInv, SemaphoreTypeOK, FoldInv, Behind
  <2>8. RoundInv'
    <3>1. pc["input"] \notin {"release1", "release2"} \/ t # "input"
      BY <2>1
    <3>2. pc'["input"] \in {"release1", "release2"} <=> pc["input"] \in {"release1", "release2"}
      BY <2>1, <2>2, <3>1 DEF SemaphoreIInv, SemaphoreTypeOK
    <3>3. Len(entered') = i'["input"] + IF pc'["input"] \in {"release1", "release2"} THEN 1 ELSE 0
      BY <2>3, <3>2 DEF SemaphoreIInv, RoundInv
    <3>4. i[t] = 0
      BY <2>1 DEF SemaphoreIInv, RoundInv
    <3>5. \A u \in Threads : pc'[u] \notin {"new", "done"} => i'[u] < LoopCount
      BY <2>1, <2>2, <2>3, <3>4 DEF SemaphoreIInv, SemaphoreTypeOK, RoundInv
    <3>6. \A u \in Threads : pc'[u] = "new" => i'[u] = 0
      BY <2>1, <2>2, <2>3 DEF SemaphoreIInv, SemaphoreTypeOK, RoundInv
    <3> QED
      BY <3>3, <3>5, <3>6 DEF RoundInv
  <2>9. JoinInv'
    BY <2>1 DEF SemaphoreIInv, JoinInv, SemaphoreTypeOK
  <2> QED
    BY <2>5, <2>6, <2>7, <2>8, <2>9 DEF SemaphoreIInv
<1>2. CASE JoinThread \/ CloseSemaphores
  <2>1. UNCHANGED <<pc, i, sem, shared, entered, taken>> /\ main \in 4..7 /\ main' = main + 1
    BY <1>2 DEF JoinThread, CloseSemaphores
  <2>2. JoinInv'
    <3>1. main = 7 \/ pc[Order[main - 3]] = "done"
      BY <1>2 DEF JoinThread, CloseSemaphores
    <3>2. ASSUME NEW k \in 1..3, main' > k + 3 PROVE main > k + 3 \/ k = main - 3
      BY <2>1, <3>2
    <3>3. ASSUME NEW k \in 1..3, main' > k + 3 PROVE pc[Order[k]] = "done"
      BY <2>1, <3>1, <3>2, <3>3 DEF SemaphoreIInv, JoinInv
    <3> QED
      BY <2>1, <3>3 DEF JoinInv
  <2>3. SemaphoreTypeOK'
    BY <2>1 DEF SemaphoreIInv, SemaphoreTypeOK
  <2>4. PermitInv' /\ FoldInv' /\ RoundInv'
    BY <2>1 DEF SemaphoreIInv, PermitInv, Held, Owed, FoldInv, Behind, RoundInv
  <2> QED
    BY <2>2, <2>3, <2>4 DEF SemaphoreIInv
<1> QED
  BY <1>1, <1>2 DEF SemaphoreMain

\* Every step keeps the inductive invariant.
LEMMA SemaphoreNextKeeps == SemaphoreIInv /\ [SemaphoreNext]_semaphoreVars => SemaphoreIInv'
<1> SUFFICES ASSUME SemaphoreIInv, [SemaphoreNext]_semaphoreVars PROVE SemaphoreIInv'
  OBVIOUS
<1>1. CASE SemaphoreMain
  BY <1>1, MainKeeps
<1>2. CASE InputThread
  BY <1>2, WaitFirstKeeps, WaitSecondKeeps, ScanKeeps, ReleaseSumKeeps, ReleaseProductKeeps DEF InputThread
<1>3. ASSUME NEW a \in Accumulators, Accumulator(a) PROVE SemaphoreIInv'
  BY <1>3, WaitNumberKeeps, FoldKeeps, ReleaseInputKeeps, PrintResultKeeps DEF Accumulator
<1>4. CASE UNCHANGED semaphoreVars
  BY <1>4 DEF semaphoreVars, SemaphoreIInv, SemaphoreTypeOK, PermitInv, Held, Owed, FoldInv, Behind, RoundInv, JoinInv
<1> QED
  BY <1>1, <1>2, <1>3, <1>4 DEF SemaphoreNext

\* The inductive invariant holds in every reachable state.
THEOREM SemaphoreInvariance == SemaphoreSpec => []SemaphoreIInv
<1> QED
  BY SemaphoreInitIInv, SemaphoreNextKeeps, PTL DEF SemaphoreSpec

\* No semaphore count ever exceeds the maximum it was created with, and every
\* other variable keeps its type.
THEOREM SemaphoreTypeCorrect == SemaphoreSpec => []SemaphoreTypeOK
<1>1. SemaphoreIInv => SemaphoreTypeOK
  BY DEF SemaphoreIInv
<1> QED
  BY <1>1, SemaphoreInvariance, PTL

\* No ReleaseSemaphore call of the program fails.
THEOREM ReleasesSucceed == SemaphoreSpec => []NoReleaseLost
<1>1. SemaphoreIInv => NoReleaseLost
  <2> SUFFICES ASSUME SemaphoreIInv PROVE NoReleaseLost
    OBVIOUS
  <2>1. pc["input"] = "release1" => sem["sum"] = 0
    BY HoldingBoth, TwoAccumulators DEF Held
  <2>2. pc["input"] = "release2" => sem["product"] = 0
    BY TwoAccumulators DEF SemaphoreIInv, SemaphoreTypeOK, PermitInv, Owed
  <2>3. \A a \in Accumulators : pc[a] = "release" => sem["input"] < 2
    BY HoldingOne
  <2> QED
    BY <2>1, <2>2, <2>3 DEF NoReleaseLost, SemMax
<1> QED
  BY <1>1, SemaphoreInvariance, PTL

\* input_thread writes shared_number only after both accumulators have folded
\* in everything before: the promise of the comment at lines 69-70.
THEOREM ScanWaitsForBoth == SemaphoreSpec => []BothDoneBeforeScan
<1>1. SemaphoreIInv => BothDoneBeforeScan
  <2> SUFFICES ASSUME SemaphoreIInv, pc["input"] = "scan"
               PROVE  \A a \in Accumulators : taken[a] = entered /\ pc[a] # "fold"
    BY DEF BothDoneBeforeScan
  <2>1. \A a \in Accumulators : sem[a] = 0 /\ pc[a] # "fold"
    BY HoldingBoth DEF Held
  <2> QED
    BY <2>1, TwoAccumulators DEF SemaphoreIInv, FoldInv, Behind
<1> QED
  BY <1>1, SemaphoreInvariance, PTL

\* main closes the semaphore handles after every thread has returned.
THEOREM HandlesSafe == SemaphoreSpec => []HandlesOutliveThreads
<1>1. SemaphoreIInv => HandlesOutliveThreads
  BY TwoAccumulators DEF SemaphoreIInv, SemaphoreTypeOK, JoinInv, Order, HandlesOutliveThreads
<1> QED
  BY <1>1, SemaphoreInvariance, PTL

LEMMA DoneKeeps == ASSUME SemaphoreIInv, DoneInv, [SemaphoreNext]_semaphoreVars PROVE DoneInv'
<1> USE TwoAccumulators, SemaphoreAssumption
<1>1. ASSUME NEW a \in Accumulators, Fold(a) PROVE DoneInv'
  <2>1. taken[a] \in Seq(Numbers \cup {Initial}) /\ shared \in Numbers \cup {Initial}
    BY DEF SemaphoreIInv, SemaphoreTypeOK
  <2>2. Len(Append(taken[a], shared)) = Len(taken[a]) + 1
    BY <2>1
  <2> QED
    BY <1>1, <2>2 DEF Fold, Go, DoneInv, SemaphoreIInv, SemaphoreTypeOK
<1>2. ASSUME NEW a \in Accumulators, PrintResult(a) PROVE DoneInv'
  <2>1. i[a] < LoopCount /\ i[a] \in Nat
    BY <1>2 DEF PrintResult, EndRound, Go, SemaphoreIInv, SemaphoreTypeOK, RoundInv
  <2> QED
    BY <1>2, <2>1 DEF PrintResult, EndRound, Go, DoneInv, SemaphoreIInv, SemaphoreTypeOK
<1>3. ASSUME NEW a \in Accumulators, WaitNumber(a) \/ ReleaseInput(a) PROVE DoneInv'
  BY <1>3 DEF WaitNumber, ReleaseInput, Go, DoneInv, SemaphoreIInv, SemaphoreTypeOK
<1>4. CASE ReleaseProduct
  <2>1. i["input"] < LoopCount /\ i["input"] \in Nat
    BY <1>4 DEF ReleaseProduct, EndRound, Go, SemaphoreIInv, SemaphoreTypeOK, RoundInv
  <2> QED
    BY <1>4, <2>1 DEF ReleaseProduct, EndRound, Go, DoneInv, SemaphoreIInv, SemaphoreTypeOK
<1>5. CASE WaitFirst \/ WaitSecond \/ Scan \/ ReleaseSum
  BY <1>5 DEF WaitFirst, WaitSecond, Scan, ReleaseSum, Go, DoneInv, SemaphoreIInv, SemaphoreTypeOK
<1>6. CASE CreateThread
  <2>1. i[Order[main]] = 0 /\ pc[Order[main]] = "new"
    BY <1>6 DEF CreateThread, Go, Order, SemaphoreIInv, RoundInv
  <2>2. LoopCount # 0 => pc'[Order[main]] \in {"wait1", "wait"}
    BY <1>6 DEF CreateThread, Go, Order, SemaphoreIInv, SemaphoreTypeOK
  <2>3. pc'[Order[main]] \in {"wait1", "wait", "done"}
    BY <1>6 DEF CreateThread, Go, Order, SemaphoreIInv, SemaphoreTypeOK
  <2>4. \A t \in Threads : t # Order[main] => pc'[t] = pc[t]
    BY <1>6 DEF CreateThread, Go
  <2>5. UNCHANGED <<i, taken>>
    BY <1>6 DEF CreateThread
  <2> QED
    BY <2>1, <2>2, <2>3, <2>4, <2>5 DEF DoneInv
<1>7. CASE JoinThread \/ CloseSemaphores
  BY <1>7 DEF JoinThread, CloseSemaphores, DoneInv
<1>8. CASE UNCHANGED semaphoreVars
  BY <1>8 DEF semaphoreVars, DoneInv
<1> QED
  BY <1>1, <1>2, <1>3, <1>4, <1>5, <1>6, <1>7, <1>8 DEF SemaphoreNext, SemaphoreMain, InputThread, Accumulator

\* Nothing typed is left out of either result, and nothing is folded in twice,
\* for every LOOP_COUNT.
THEOREM AllAreFolded == SemaphoreSpec => []AllNumbersFolded
<1>1. SemaphoreInit => DoneInv
  BY TwoAccumulators DEF SemaphoreInit, DoneInv
<1>2. SemaphoreIInv /\ DoneInv => AllNumbersFolded
  <2> SUFFICES ASSUME SemaphoreIInv, DoneInv, main >= 7
               PROVE  Len(entered) = LoopCount /\ \A a \in Accumulators : taken[a] = entered
    BY DEF AllNumbersFolded
  <2>1. \A t \in Threads : pc[t] = "done"
    BY TwoAccumulators DEF SemaphoreIInv, SemaphoreTypeOK, JoinInv, Order
  <2>2. Len(entered) = LoopCount
    BY <2>1, TwoAccumulators, SemaphoreAssumption DEF SemaphoreIInv, SemaphoreTypeOK, RoundInv, DoneInv
  <2>3. ASSUME NEW a \in Accumulators PROVE taken[a] = entered
    <3>1. Len(taken[a]) = LoopCount
      BY <2>1, TwoAccumulators, SemaphoreAssumption DEF SemaphoreIInv, SemaphoreTypeOK, DoneInv
    <3>2. entered \in Seq(Numbers \cup {Initial})
      BY DEF SemaphoreIInv, SemaphoreTypeOK
    <3>3. entered # << >> => Len(SubSeq(entered, 1, Len(entered) - 1)) # Len(entered)
      <4>1. Len(entered) \in Nat /\ \A k \in 1..(Len(entered) - 1) : entered[k] \in Numbers \cup {Initial}
        BY <3>2
      <4>2. Len(SubSeq(entered, 1, Len(entered) - 1)) = IF 1 <= Len(entered) - 1 THEN Len(entered) - 1 - 1 + 1 ELSE 0
        BY <4>1, SubSeqProperties
      <4>3. entered # << >> => Len(entered) # 0
        BY <3>2, EmptySeq
      <4> QED
        BY <4>1, <4>2, <4>3
    <3>4. taken[a] = entered \/ (entered # << >> /\ taken[a] = SubSeq(entered, 1, Len(entered) - 1))
      BY DEF SemaphoreIInv, FoldInv
    <3> QED
      BY <2>2, <3>1, <3>3, <3>4
  <2> QED
    BY <2>2, <2>3
<1> QED
  BY <1>1, <1>2, DoneKeeps, SemaphoreInvariance, PTL DEF SemaphoreSpec

\* A step of the program is a step of the lockstep fold or invisible to it.
LEMMA SemaphoreStepImplements ==
  ASSUME SemaphoreIInv, [SemaphoreNext]_semaphoreVars PROVE [Lockstep!Next]_(Lockstep!vars)
<1> USE DEF Lockstep!vars
<1>1. CASE Scan
  <2>1. \A a \in Accumulators : taken[a] = entered
    <3>1. \A a \in Accumulators : sem[a] = 0 /\ pc[a] # "fold"
      BY <1>1, HoldingBoth DEF Scan, Go, Held
    <3> QED
      BY <1>1, <3>1, TwoAccumulators DEF SemaphoreIInv, FoldInv, Behind, Scan, Go
  <2>2. Len(entered) < LoopCount
    BY <1>1, TwoAccumulators DEF Scan, Go, SemaphoreIInv, RoundInv, SemaphoreTypeOK
  <2>3. \E v \in Numbers \cup {Initial} : entered' = Append(entered, v)
    BY <1>1 DEF Scan, SemaphoreIInv, SemaphoreTypeOK
  <2>4. Lockstep!Enter
    BY <1>1, <2>1, <2>2, <2>3 DEF Scan, Lockstep!Enter
  <2> QED
    BY <2>4 DEF Lockstep!Next
<1>2. ASSUME NEW a \in Accumulators, Fold(a) PROVE Lockstep!Take(a)
  <2>1. entered # << >> /\ taken[a] = SubSeq(entered, 1, Len(entered) - 1) /\ shared = entered[Len(entered)]
    BY <1>2 DEF SemaphoreIInv, FoldInv, Behind, Fold, Go
  <2>2. entered \in Seq(Numbers \cup {Initial})
    BY DEF SemaphoreIInv, SemaphoreTypeOK
  <2>3. Append(taken[a], shared) = entered /\ taken[a] # entered
    BY <2>1, <2>2
  <2> QED
    BY <1>2, <2>3 DEF Fold, Lockstep!Take
<1>3. CASE SemaphoreMain
  BY <1>3 DEF SemaphoreMain, CreateThread, JoinThread, CloseSemaphores
<1>4. CASE WaitFirst \/ WaitSecond \/ ReleaseSum \/ ReleaseProduct
  BY <1>4 DEF WaitFirst, WaitSecond, ReleaseSum, ReleaseProduct
<1>5. ASSUME NEW a \in Accumulators, WaitNumber(a) \/ ReleaseInput(a) \/ PrintResult(a)
      PROVE  UNCHANGED Lockstep!vars
  BY <1>5 DEF WaitNumber, ReleaseInput, PrintResult
<1>6. CASE UNCHANGED semaphoreVars
  BY <1>6 DEF semaphoreVars
<1> QED
  BY <1>1, <1>2, <1>3, <1>4, <1>5, <1>6 DEF SemaphoreNext, InputThread, Accumulator, Lockstep!Next

\* Whatever the program does is something a lockstep fold may do.
THEOREM ImplementsLockstepSafety == SemaphoreSpec => Lockstep!Init /\ [][Lockstep!Next]_(Lockstep!vars)
<1>1. SemaphoreInit => Lockstep!Init
  BY DEF SemaphoreInit, Lockstep!Init
<1> QED
  BY <1>1, SemaphoreStepImplements, SemaphoreInvariance, PTL DEF SemaphoreSpec

-----------------------------------------------------------------------------
(* SyncEvent, for every STR_LEN and every line.                            *)

\* How many of the characters 1..n of a sequence s thread t counts.
CountUpTo(t, s, n) == Cardinality({k \in 1..n : Counted(t, s[k])})

\* Counting one character more: what one round of the loop adds.
LEMMA CountStep ==
  ASSUME NEW t, NEW s, NEW n \in Nat
  PROVE  /\ CountUpTo(t, s, n) \in Nat
         /\ CountUpTo(t, s, n + 1) =
              IF Counted(t, s[n + 1]) THEN CountUpTo(t, s, n) + 1 ELSE CountUpTo(t, s, n)
<1> DEFINE S(m) == {k \in 1..m : Counted(t, s[k])}
<1>1. IsFiniteSet(S(n)) /\ Cardinality(S(n)) \in Nat
  <2>1. IsFiniteSet(1..n)
    BY FS_Interval
  <2>2. S(n) \in SUBSET (1..n)
    OBVIOUS
  <2> QED
    BY <2>1, <2>2, FS_Subset, FS_CardinalityType
<1>2. CASE Counted(t, s[n + 1])
  <2>1. S(n + 1) = S(n) \cup {n + 1}
    BY <1>2
  <2>2. n + 1 \notin S(n)
    OBVIOUS
  <2> QED
    BY <1>1, <1>2, <2>1, <2>2, FS_AddElement DEF CountUpTo
<1>3. CASE ~Counted(t, s[n + 1])
  <2>1. S(n + 1) = S(n)
    BY <1>3
  <2> QED
    BY <1>1, <1>3, <2>1 DEF CountUpTo
<1> QED
  BY <1>2, <1>3, <1>1 DEF CountUpTo

LEMMA CountNone == ASSUME NEW t, NEW s PROVE CountUpTo(t, s, 0) = 0
<1>1. {k \in 1..0 : Counted(t, s[k])} = {}
  OBVIOUS
<1> QED
  BY <1>1, FS_EmptySet DEF CountUpTo

LEMMA EventInitIInv == EventInit => EventIInv
<1> SUFFICES ASSUME EventInit PROVE EventIInv
  OBVIOUS
<1>1. EventTypeOK
  <2>1. line \in Seq(Chars \ {"nl"}) /\ Len(line) = 0
    BY DEF EventInit
  <2>2. 0 \in Index /\ 0 < StrLen
    BY EventAssumption DEF Index
  <2> QED
    BY <2>1, <2>2 DEF EventInit, EventTypeOK, MainPc
<1>2. TextInv
  BY EventAssumption DEF EventInit, TextInv, Ready, Index
<1>3. CountInv
  <2>1. \A t \in Counters : Cardinality({k \in 1..0 : Counted(t, line[k])}) = 0
    BY CountNone DEF CountUpTo
  <2> QED
    BY <2>1 DEF EventInit, CountInv
<1> QED
  BY <1>1, <1>2, <1>3 DEF EventInit, EventIInv, SignalInv

\* While main works on input_string, no thread has begun to count.
LEMMA NobodyCounts ==
  ASSUME EventIInv, ~Ready
  PROVE  \A t \in Counters :
           pc[t] \in {"new", "wait"} /\ i[t] = 0 /\ cnt[t] = CountUpTo(t, line, 0)
  BY DEF EventIInv, EventTypeOK, SignalInv, CountInv, CountUpTo

LEMMA CreateCountersKeeps == ASSUME EventIInv, CreateCounters PROVE EventIInv'
<1>1. \A t \in Counters : i[t] = 0
  BY NobodyCounts DEF CreateCounters, Goto, Ready
<1>2. \A t \in Counters : pc'[t] = "wait"
  BY DEF CreateCounters
<1>3. EventTypeOK'
  BY DEF EventIInv, EventTypeOK, CreateCounters, Goto, MainPc
<1>4. TextInv'
  BY DEF EventIInv, TextInv, CreateCounters, Goto, Ready
<1>5. SignalInv'
  BY <1>2 DEF EventIInv, SignalInv, CreateCounters, Goto
<1>6. CountInv'
  BY <1>1, <1>2 DEF EventIInv, CountInv, CreateCounters
<1> QED
  BY <1>3, <1>4, <1>5, <1>6 DEF EventIInv

LEMMA FgetsKeeps == ASSUME EventIInv, Fgets PROVE EventIInv'
<1> USE EventAssumption
<1>0. main = "fgets" /\ main' = "strip" /\ UNCHANGED <<event, pc, i, cnt>>
  BY DEF Fgets, Goto
<1>a. PICK n \in 0..(Size - 1) : \E s \in [1..n -> Chars \ {"nl"}] :
        /\ line' = s
        /\ \/ n < Size - 1 /\ string' = Stored(Append(s, "nl"))
           \/ n > 0 /\ string' = Stored(s)
  BY DEF Fgets
<1>1. PICK s \in [1..n -> Chars \ {"nl"}] :
        /\ line' = s
        /\ \/ n < Size - 1 /\ string' = Stored(Append(s, "nl"))
           \/ n > 0 /\ string' = Stored(s)
  BY <1>a
<1>2. n \in Nat /\ n < StrLen /\ Len(s) = n /\ s \in Seq(Chars \ {"nl"})
  BY <1>1 DEF Size
<1>3. /\ string' \in [Index -> Chars \cup {"nul"}]
      /\ \A k \in 1..n : string'[k - 1] = s[k]
      /\ string'[n] \in {"nul", "nl"}
  <2>1. CASE n < Size - 1 /\ string' = Stored(Append(s, "nl"))
    <3> DEFINE u == Append(s, "nl")
    <3>1. /\ u \in Seq(Chars) /\ Len(u) = n + 1 /\ u[n + 1] = "nl"
          /\ \A k \in 1..n : u[k] = s[k]
      BY <1>2 DEF Chars
    <3>2. \A k \in 0..n : u[k + 1] \in Chars
      BY <1>2, <3>1
    <3> HIDE DEF u
    <3>3. string' = [k \in Index |-> IF k < n + 1 THEN u[k + 1]
                                     ELSE IF k = n + 1 THEN "nul" ELSE string[k]]
      BY <2>1, <3>1 DEF Stored, u
    <3>4. \A k \in Index : k < n + 1 => string'[k] = u[k + 1]
      BY <3>3
    <3>5. string' \in [Index -> Chars \cup {"nul"}]
      BY <1>2, <3>2, <3>3 DEF EventIInv, EventTypeOK, Index
    <3>6. n \in Index /\ \A k \in 1..n : k - 1 \in Index /\ k - 1 < n + 1
      BY <1>2 DEF Index
    <3> QED
      BY <1>2, <3>1, <3>4, <3>5, <3>6
  <2>2. CASE n > 0 /\ string' = Stored(s)
    <3>1. \A k \in 0..(n - 1) : s[k + 1] \in Chars
      BY <1>2
    <3>2. string' = [k \in Index |-> IF k < n THEN s[k + 1]
                                     ELSE IF k = n THEN "nul" ELSE string[k]]
      BY <1>2, <2>2 DEF Stored
    <3>3. string' \in [Index -> Chars \cup {"nul"}]
      BY <1>2, <3>1, <3>2 DEF EventIInv, EventTypeOK, Index
    <3>4. n \in Index /\ \A k \in 1..n : k - 1 \in Index /\ k - 1 < n
      BY <1>2 DEF Index
    <3> QED
      BY <1>2, <3>2, <3>3, <3>4
  <2> QED
    BY <1>1, <2>1, <2>2
<1>4. EventTypeOK'
  BY <1>0, <1>1, <1>2, <1>3 DEF EventIInv, EventTypeOK, MainPc
<1>5. TextInv'
  BY <1>0, <1>1, <1>2, <1>3 DEF TextInv, Ready
<1>6. SignalInv'
  BY <1>0 DEF EventIInv, SignalInv, Ready
<1>7. CountInv'
  <2>1. \A t \in Counters :
          /\ pc'[t] \in {"new", "wait"} /\ i'[t] = 0
          /\ cnt'[t] = 0 /\ CountUpTo(t, line', 0) = 0
    BY <1>0, NobodyCounts, CountNone DEF Ready
  <2>2. \A t \in Counters : Cardinality({k \in 1..i'[t] : Counted(t, line'[k])}) = 0
    BY <2>1 DEF CountUpTo
  <2> QED
    BY <1>1, <1>2, <2>1, <2>2 DEF CountInv
<1> QED
  BY <1>4, <1>5, <1>6, <1>7 DEF EventIInv

\* fgets stores nothing: the array still begins with a '\0'.
LEMMA FgetsEndKeeps == ASSUME EventIInv, FgetsEnd PROVE EventIInv'
<1>1. EventTypeOK'
  BY DEF EventIInv, EventTypeOK, FgetsEnd, Goto, MainPc
<1>2. TextInv'
  <2>1. line = << >> /\ string[0] = "nul" /\ main' = "set" /\ UNCHANGED <<string, line>>
    BY DEF EventIInv, TextInv, FgetsEnd, Goto
  <2> QED
    BY <2>1 DEF TextInv, Ready
<1>3. SignalInv'
  BY DEF EventIInv, SignalInv, FgetsEnd, Goto, Ready
<1>4. CountInv'
  BY DEF EventIInv, CountInv, FgetsEnd
<1> QED
  BY <1>1, <1>2, <1>3, <1>4 DEF EventIInv

\* strcspn finds the '\n' that follows the line, or the '\0' that does.
LEMMA StripKeeps == ASSUME EventIInv, Strip PROVE EventIInv'
<1> USE EventAssumption
<1>0. main = "strip" /\ main' = "set" /\ UNCHANGED <<event, line, pc, i, cnt>>
  BY DEF Strip, Goto
<1> DEFINE n == Len(line)
<1>1. n \in Nat /\ n < StrLen /\ n \in Index
  BY DEF EventIInv, EventTypeOK, Index
<1>2. \A k \in 0..(n - 1) : string[k] \in Chars \ {"nl"}
  <2>1. \A k \in 1..n : string[k - 1] = line[k] /\ line[k] \in Chars \ {"nl"}
    BY DEF EventIInv, EventTypeOK, TextInv
  <2>2. \A k \in 0..(n - 1) : k + 1 \in 1..n /\ (k + 1) - 1 = k
    BY <1>1
  <2> QED
    BY <2>1, <2>2
<1>3. string[n] \in {"nl", "nul"}
  BY DEF EventIInv, TextInv
<1> HIDE DEF n
<1>4. FirstOf(string) = n
  <2>1. \A k \in 0..(n - 1) : string[k] \notin {"nl", "nul"}
    BY <1>2 DEF Chars
  <2>2. \A k \in Index : (string[k] \in {"nl", "nul"} /\ \A j \in 0..(k - 1) : string[j] \notin {"nl", "nul"})
                           => k = n
    BY <1>1, <1>3, <2>1 DEF Index
  <2> QED
    BY <1>1, <1>3, <2>1, <2>2 DEF FirstOf
<1>5. string' = [string EXCEPT ![n] = "nul"]
  BY <1>4 DEF Strip
<1>6. EventTypeOK'
  BY <1>0, <1>1, <1>5 DEF EventIInv, EventTypeOK, MainPc
<1>7. TextInv'
  <2>1. \A k \in 1..n : string'[k - 1] = string[k - 1]
    BY <1>1, <1>5 DEF EventIInv, EventTypeOK
  <2>2. string'[n] = "nul"
    BY <1>1, <1>5 DEF EventIInv, EventTypeOK
  <2> QED
    BY <1>0, <2>1, <2>2 DEF EventIInv, TextInv, Ready, n
<1>8. SignalInv'
  BY <1>0 DEF EventIInv, SignalInv, Ready
<1>9. CountInv'
  BY <1>0 DEF EventIInv, CountInv
<1> QED
  BY <1>6, <1>7, <1>8, <1>9 DEF EventIInv

\* From SetEvent on main changes neither the text nor the threads.
LEMMA LateMainKeeps == ASSUME EventIInv, Set \/ JoinCounters \/ Reset \/ CloseEvent PROVE EventIInv'
<1>1. EventTypeOK'
  BY DEF EventIInv, EventTypeOK, Set, JoinCounters, Reset, CloseEvent, Goto, MainPc
<1>2. TextInv'
  BY DEF EventIInv, TextInv, Set, JoinCounters, Reset, CloseEvent, Goto, Ready
<1>3. SignalInv'
  BY DEF EventIInv, SignalInv, Set, JoinCounters, Reset, CloseEvent, Goto, Ready
<1>4. CountInv'
  BY DEF EventIInv, CountInv, Set, JoinCounters, Reset, CloseEvent
<1> QED
  BY <1>1, <1>2, <1>3, <1>4 DEF EventIInv

LEMMA WaitKeeps == ASSUME NEW t \in Counters, EventIInv, Wait(t) PROVE EventIInv'
<1>1. EventTypeOK'
  BY DEF EventIInv, EventTypeOK, Wait, Go
<1>2. TextInv'
  BY DEF EventIInv, TextInv, Wait, Ready
<1>3. pc[t] = "wait" /\ pc'[t] = "count" /\ \A u \in Counters : u # t => pc'[u] = pc[u]
  BY DEF EventIInv, EventTypeOK, Wait, Go
<1>4. SignalInv'
  BY <1>3 DEF EventIInv, SignalInv, Wait, Ready
<1>5. CountInv'
  BY <1>3 DEF EventIInv, CountInv, Wait
<1> QED
  BY <1>1, <1>2, <1>4, <1>5 DEF EventIInv

\* The character the loop looks at is character i + 1 of the line, if it is
\* not the '\0' that ends it.
LEMMA LoopIndex ==
  ASSUME EventIInv, NEW t \in Counters, pc[t] = "count"
  PROVE  /\ i[t] \in Nat /\ i[t] <= Len(line) /\ Len(line) < StrLen
         /\ string[i[t]] = "nul" => i[t] = Len(line)
         /\ string[i[t]] # "nul" => i[t] < Len(line) /\ string[i[t]] = line[i[t] + 1]
<1>1. i[t] \in Nat /\ i[t] <= Len(line) /\ Len(line) \in Nat /\ Len(line) < StrLen
  <2>1. Len(line) \in Nat /\ Len(line) < StrLen
    BY DEF EventIInv, EventTypeOK
  <2>2. i[t] \in Nat
    BY EventAssumption DEF EventIInv, EventTypeOK, Index
  <2> QED
    BY <2>1, <2>2 DEF EventIInv, CountInv
<1>2. string[Len(line)] = "nul"
  BY DEF EventIInv, SignalInv, TextInv, Ready
<1>3. CASE i[t] = Len(line)
  BY <1>1, <1>2, <1>3
<1>4. CASE i[t] < Len(line)
  <2>1. i[t] + 1 \in 1..Len(line) /\ (i[t] + 1) - 1 = i[t]
    BY <1>1, <1>4
  <2>2. string[i[t]] = line[i[t] + 1] /\ line[i[t] + 1] \in Chars
    BY <2>1 DEF EventIInv, TextInv, EventTypeOK
  <2> QED
    BY <1>1, <1>4, <2>2 DEF Chars
<1> QED
  BY <1>1, <1>3, <1>4

LEMMA CountCharKeeps == ASSUME NEW t \in Counters, EventIInv, CountChar(t) PROVE EventIInv'
<1> USE EventAssumption
<1>0. pc[t] = "count" /\ string[i[t]] # "nul" /\ UNCHANGED <<main, event, string, line, pc>>
  BY DEF CountChar
<1>1. i[t] \in Nat /\ i[t] < Len(line) /\ Len(line) < StrLen /\ string[i[t]] = line[i[t] + 1]
  BY <1>0, LoopIndex
<1>2. /\ i'[t] = i[t] + 1
      /\ cnt'[t] = IF Counted(t, line[i[t] + 1]) THEN cnt[t] + 1 ELSE cnt[t]
      /\ \A u \in Counters : u # t => i'[u] = i[u] /\ cnt'[u] = cnt[u]
  BY <1>1 DEF EventIInv, EventTypeOK, CountChar
<1>3. i[t] + 1 \in Index
  <2>1. Len(line) \in Nat
    BY DEF EventIInv, EventTypeOK
  <2> QED
    BY <1>1, <2>1 DEF Index
<1>4. EventTypeOK'
  <2>1. i' \in [Counters -> Index]
    BY <1>3 DEF EventIInv, EventTypeOK, CountChar
  <2>2. cnt' \in [Counters -> Nat]
    BY DEF EventIInv, EventTypeOK, CountChar
  <2> QED
    BY <1>0, <2>1, <2>2 DEF EventIInv, EventTypeOK
<1>5. TextInv'
  BY <1>0 DEF EventIInv, TextInv, Ready
<1>6. SignalInv'
  BY <1>0 DEF EventIInv, SignalInv, Ready
<1>7. CountInv'
  <2>1. cnt[t] = CountUpTo(t, line, i[t])
    BY DEF EventIInv, CountInv, CountUpTo
  <2>2. cnt'[t] = CountUpTo(t, line, i[t] + 1)
    <3>1. CountUpTo(t, line, i[t] + 1) =
            IF Counted(t, line[i[t] + 1]) THEN CountUpTo(t, line, i[t]) + 1 ELSE CountUpTo(t, line, i[t])
      BY <1>1, CountStep
    <3> QED
      BY <1>2, <2>1, <3>1
  <2>3. cnt'[t] = Cardinality({k \in 1..i'[t] : Counted(t, line'[k])})
    BY <1>0, <1>2, <2>2 DEF CountUpTo
  <2>4. i'[t] <= Len(line')
    <3>1. Len(line) \in Nat
      BY DEF EventIInv, EventTypeOK
    <3> QED
      BY <1>0, <1>1, <1>2, <3>1
  <2>5. pc'[t] = "count"
    BY <1>0
  <2>6. ASSUME NEW u \in Counters, u # t
        PROVE  /\ pc'[u] \in {"new", "wait"} => i'[u] = 0
               /\ pc'[u] = "done" => i'[u] = Len(line')
               /\ i'[u] <= Len(line')
               /\ cnt'[u] = Cardinality({k \in 1..i'[u] : Counted(u, line'[k])})
    BY <1>0, <1>2, <2>6 DEF EventIInv, CountInv
  <2> QED
    BY <2>3, <2>4, <2>5, <2>6 DEF CountInv
<1> QED
  BY <1>4, <1>5, <1>6, <1>7 DEF EventIInv

LEMMA CountEndKeeps == ASSUME NEW t \in Counters, EventIInv, CountEnd(t) PROVE EventIInv'
<1>0. pc[t] = "count" /\ string[i[t]] = "nul" /\ UNCHANGED <<main, event, string, line, i, cnt>>
  BY DEF CountEnd, Go
<1>1. i[t] = Len(line)
  BY <1>0, LoopIndex
<1>2. pc'[t] = "done" /\ \A u \in Counters : u # t => pc'[u] = pc[u]
  BY DEF EventIInv, EventTypeOK, CountEnd, Go
<1>3. EventTypeOK'
  BY <1>0 DEF EventIInv, EventTypeOK, CountEnd, Go
<1>4. TextInv'
  BY <1>0 DEF EventIInv, TextInv, Ready
<1>5. SignalInv'
  BY <1>0, <1>2 DEF EventIInv, SignalInv, Ready
<1>6. CountInv'
  BY <1>0, <1>1, <1>2 DEF EventIInv, CountInv
<1> QED
  BY <1>3, <1>4, <1>5, <1>6 DEF EventIInv

LEMMA StepIInv == EventIInv /\ [EventNext]_eventVars => EventIInv'
<1> SUFFICES ASSUME EventIInv, [EventNext]_eventVars PROVE EventIInv'
  OBVIOUS
<1>1. CASE EventMain
  BY <1>1, CreateCountersKeeps, FgetsKeeps, FgetsEndKeeps, StripKeeps, LateMainKeeps DEF EventMain
<1>2. ASSUME NEW t \in Counters, EventThread(t) PROVE EventIInv'
  BY <1>2, WaitKeeps, CountCharKeeps, CountEndKeeps DEF EventThread
<1>3. CASE UNCHANGED eventVars
  BY <1>3 DEF eventVars, EventIInv, EventTypeOK, TextInv, SignalInv, CountInv, Ready
<1> QED
  BY <1>1, <1>2, <1>3 DEF EventNext

-----------------------------------------------------------------------------
\* The invariant holds in every reachable state of the program.
THEOREM EventInvariance == EventSpec => []EventIInv
  BY EventInitIInv, StepIInv, PTL DEF EventSpec

\* Every variable keeps its type; above all, the index of either thread stays
\* inside input_string (lines 72 and 88).
THEOREM EventTypeCorrect == EventSpec => []EventTypeOK
<1>1. EventIInv => EventTypeOK
  BY DEF EventIInv
<1> QED
  BY <1>1, EventInvariance, PTL

\* Either thread prints the number of its characters in the line typed, for
\* lines of every length: SetEvent orders all of main's writes to input_string
\* before their reads.
THEOREM CountsAreRight == EventSpec => []CountsTypedLine
<1>1. EventIInv => CountsTypedLine
  BY DEF EventIInv, CountInv, CountsTypedLine
<1> QED
  BY <1>1, EventInvariance, PTL
=============================================================================
