\* The clients and workers of MCIocpEcho.cfg with one byte each: the record behind the completion
\* of a send, whose worker is delayed before line 128.
CONSTANTS
  c1 = c1  c2 = c2
  w1 = w1  w2 = w2
  i1 = i1  i2 = i2  i3 = i3  i4 = i4
  NoSock = NoSock
  Clients = {c1, c2}
  Impatient = {c2}
  Resetters = {c2}
  MaxBytes <- OneByte
  BufLen = 2
  Workers = {w1, w2}
  Ios = {i1, i2, i3, i4}
SPECIFICATION Spec
INVARIANT KeyOutlivesCompletions
CHECK_DEADLOCK FALSE
