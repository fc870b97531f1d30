\* c1 waits for its echo, c2 leaves when it likes, c3 may be reset, also
\* before it is accepted.
CONSTANTS
  c1 = c1  c2 = c2  c3 = c3
  NoSock = NoSock
  Clients = {c1, c2, c3}
  Impatient = {c2, c3}
  Resetters = {c3}
  MaxBytes <- Bytes
  BufLen = 2
SPECIFICATION Spec
INVARIANTS BufferNotReused RoutinesFindTheirBlock
PROPERTY ImplementsEchoService
CHECK_DEADLOCK FALSE
