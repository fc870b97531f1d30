\* Files shorter than a buffer, of its length, longer, and of twice its length or more; lines of every length.
CONSTANTS
  BufSize = 3
  Rounds = 2
  Files <- Texts
SPECIFICATION TransferSpec
INVARIANTS TransferTypeOK EndMeansAll BuffersSuffice
PROPERTIES NothingSkipped TransferEnds
CHECK_DEADLOCK FALSE
