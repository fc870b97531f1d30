\* c1 waits for its echo, c2 does not read and leaves when it likes, c3 may be
\* reset, also before it is accepted.  A socket value may be used again once it
\* is closed.  readfds has room for server_sock and two clients.
CONSTANTS
  c1 = c1  c2 = c2  c3 = c3
  h1 = h1  h2 = h2  h3 = h3
  Listener = Listener  Invalid = Invalid  Nobody = Nobody
  Clients = {c1, c2, c3}
  Impatient = {c2, c3}
  Resetters = {c3}
  MaxBytes <- Bytes
  Handles = {h1, h2, h3}
  FdSetSize = 3
  BufLen = 3
  Deaf = {c2}
  Window = 0
SPECIFICATION Spec
INVARIANTS NeverBlocks WatchesOpenSockets
PROPERTIES ForgetsOnlyWhenFull ImplementsEchoService
CHECK_DEADLOCK FALSE
