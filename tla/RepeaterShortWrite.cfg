CONSTANTS
  BufSize = 2
  MaxLocal = 2
  MaxRemote = 3
  Window = 2
  Hold = FALSE
  Polling = TRUE
  ShortIO = TRUE
  Faults = FALSE
SPECIFICATION Spec
CHECK_DEADLOCK FALSE
INVARIANT RemoteToLocalInOrder
