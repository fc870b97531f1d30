\* Two clients, one of which may be stopped; lines of two characters and, for ch12
\* and ch04, whose buf they overrun, three; a server that takes at most two bytes at a time.
CONSTANTS
  Clients = {"c1", "c2"}
  Killable = {"c2"}
  Lens = {2, 3}
  MaxSent = 5
  BufLen = 3
  SrvMax = 2
SPECIFICATION EchoSpec
INVARIANTS PrintsTheEcho BufferRespected
PROPERTIES RoundEnds LeaverReleased
CHECK_DEADLOCK FALSE
