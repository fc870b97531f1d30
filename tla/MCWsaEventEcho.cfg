\* c1 waits for its echo; c2 and c3 leave when they like; c2 may be reset, also
\* before it is accepted.  With server_sock only two of them have a place.
CONSTANTS
  c1 = c1  c2 = c2  c3 = c3
  Listener = Listener  Invalid = Invalid
  Clients = {c1, c2, c3}
  Impatient = {c2, c3}
  Resetters = {c2}
  MaxBytes <- Bytes
  BufLen = 3
  SndBuf = 2
  MaxEvents = 3
SPECIFICATION Spec
INVARIANTS ArraysMatch EchoAscends NotificationsMatchBytes
PROPERTIES ReleasedAfterFin EveryByteEchoed
CHECK_DEADLOCK FALSE
