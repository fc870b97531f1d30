\* Two threads that increase and two that decrease, two rounds each: enough
\* for every pair of threads to meet between load and store in every round.
CONSTANTS
  NumThread = 4
  LoopCnt = 2
  MaxWaitObjects = 4
SPECIFICATION CounterSpec
INVARIANTS NoLostUpdate PrintsZero
PROPERTY ImplementsAtomicCounter
CHECK_DEADLOCK FALSE
