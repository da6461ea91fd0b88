CONSTANTS
  BufSize = 2
  MaxLocal = 3
  MaxRemote = 4
  Window = 2
  Hold = FALSE
  Polling = FALSE
  ShortIO = TRUE
  Faults = TRUE
SPECIFICATION Spec
CHECK_DEADLOCK FALSE
INVARIANTS TypeOK LocalToRemoteInOrder RemoteAlwaysWatched
