CONSTANTS
  BufSize = 2
  MaxLocal = 1
  MaxRemote = 1
  Window = 2
  Hold = TRUE
  Polling = FALSE
  ShortIO = FALSE
  Faults = FALSE
  Win32 = FALSE
  Clients = {c1, c2}
  NoClient = NoClient
SPECIFICATION ForwardSpec
CHECK_DEADLOCK FALSE
PROPERTY RepeatsWaiting
