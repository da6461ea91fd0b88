CONSTANTS
  BufSize = 2
  MaxLocal = 2
  MaxRemote = 2
  Window = 2
  Hold = TRUE
  Polling = FALSE
  ShortIO = FALSE
  Faults = TRUE
  Win32 = TRUE
  Clients = {c1, c2}
  NoClient = NoClient
SPECIFICATION ForwardFair
CHECK_DEADLOCK FALSE
INVARIANTS ForwardTypeOK HeldStreamsContinue
PROPERTIES StdinEndsSession ClientLeavesRelay
