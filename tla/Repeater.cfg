CONSTANTS
  BufSize = 2
  MaxLocal = 3
  MaxRemote = 3
  Window = 2
  Hold = FALSE
  Polling = TRUE
  ShortIO = FALSE
  Faults = TRUE
SPECIFICATION FairSpec
CHECK_DEADLOCK FALSE
INVARIANTS ShutdownAfterLastByte RemoteStreamComplete
PROPERTIES HalfCloseKeepsRelaying ImplementsDuplex LocalByteDelivered RemoteByteDelivered RemoteEndEnds
