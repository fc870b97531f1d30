\* Two clients, one of which may be stopped; lines of two characters and, for
\* ch12, three; a server that takes at most two bytes at a time.
CONSTANTS
  Clients = {"c1", "c2"}
  Killable = {"c2"}
  Lens = {2, 3}
  MaxSent = 5
  BufLen = 3
  SrvMax = 2
SPECIFICATION EchoSpec
INVARIANT PrintsAccumulated
CHECK_DEADLOCK FALSE
