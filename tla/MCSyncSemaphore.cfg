\* Three rounds: the first, one in the middle, the last; two different numbers.
CONSTANTS
  LoopCount = 3
  Initial = 1
  Numbers = {2, 3}
SPECIFICATION SemaphoreSpec
INVARIANT NoReleaseLost
PROPERTIES ImplementsLockstep MainReturns
CHECK_DEADLOCK FALSE
