CONSTANTS
  Size = 15
  Proxy <- MCProxy
  Others <- MCOthers
  Tunnel <- MCTunnel
  Answers <- AnyAnswer
  PassInEnv = TRUE
  Timer = TRUE
  Faults = TRUE
SPECIFICATION FairSpec
CHECK_DEADLOCK FALSE
INVARIANTS TypeOK TunnelStartsAfterHeader AuthenticatesOnce
PROPERTIES BasicIsAnswered NegotiationEnds
