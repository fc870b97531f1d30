\* One client that stays, one that may be stopped at any moment and may ask for
\* more operands than a char counts; ints of two bytes.  Two operands fit in
\* ch05's buf and overrun ch19's.
CONSTANTS
  c1 = c1  c2 = c2
  Clients = {c1, c2}
  Quitters = {c2}
  Counts <- Operands
  MaxRequests <- Requests
  IntSize = 2
  CharMax = 2
  BufLen <- BufLens
SPECIFICATION Spec
INVARIANTS TypeOK RepliesMatchRequests
PROPERTIES EveryRequestAnswered LeaverReleased
CHECK_DEADLOCK FALSE
