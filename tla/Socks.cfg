CONSTANTS
  Versions = {4, 5}
  Resolves = {"local", "remote", "both"}
  AuthLists <- MCAuthLists
  DestHost <- MCHost
  DestAddr <- MCAddr
  DestPort = 5000
  User <- MCUser
  Password <- MCPassword
  NameLengths = {0, 2, 249}
  Tunnel <- MCTunnel
  Timer = TRUE
  Faults = TRUE
SPECIFICATION FairSpec
CHECK_DEADLOCK FALSE
INVARIANTS TypeOK TunnelStartsAfterReply TargetIsAsked
PROPERTY NegotiationEnds
