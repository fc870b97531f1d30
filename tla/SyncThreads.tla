---------------------------- MODULE SyncThreads ----------------------------
(***************************************************************************)
(* What the programs of ch20 in 02_final have in common: main creates      *)
(* threads with _beginthreadex, each thread runs a loop, main waits for    *)
(* all of them.  SharedCounter, SyncSemaphore and SyncEvent EXTEND this    *)
(* module and add the data and the kernel object of their program.  The    *)
(* names of each begin with the object's, so that SyncProof can treat the  *)
(* three together.                                                         *)
(***************************************************************************)
VARIABLES
  main,        \* where main is
  pc,          \* pc[t]: where thread t is
  i            \* i[t]: the loop variable of thread t

\* Thread t gets from one place to the next.
Go(t, here, there) == pc[t] = here /\ pc' = [pc EXCEPT ![t] = there]
=============================================================================
