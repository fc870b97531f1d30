\* One client that waits for its echo, one that neither waits nor ends
\* gracefully; two workers; messages split or joined by the transport.
\* Five blocks are all that can be in use: one READ per client, one WRITE per byte.
CONSTANTS
  c1 = c1  c2 = c2
  w1 = w1  w2 = w2
  i1 = i1  i2 = i2  i3 = i3  i4 = i4  i5 = i5
  NoSock = NoSock
  Clients = {c1, c2}
  Impatient = {c2}
  Resetters = {c2}
  MaxBytes <- Bytes
  BufLen = 2
  Workers = {w1, w2}
  Ios = {i1, i2, i3, i4, i5}
SPECIFICATION Spec
INVARIANTS EchoInOrder OneReader ReadBranchOwnsConn BlockInOnePlace LeakOnlyAfterReset
PROPERTIES ReleasedAfterFin ImplementsEchoService
CHECK_DEADLOCK FALSE
