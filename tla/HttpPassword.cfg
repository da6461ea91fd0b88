CONSTANTS
  Size = 15
  Proxy <- MCProxy
  Others <- MCOthers
  Tunnel <- MCTunnel
  Answers <- AskAndMove
  PassInEnv = TRUE
  Timer = FALSE
  Faults = FALSE
SPECIFICATION Spec
CHECK_DEADLOCK FALSE
INVARIANT PasswordIsSent
