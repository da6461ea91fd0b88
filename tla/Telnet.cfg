CONSTANTS
  Size = 9
  MaxDirect = 2
  Params <- MCParams
  Methods = {"direct", "socks", "http", "telnet"}
  Versions = {4, 5}
  Hosts <- MCHosts
  Number <- MCNumber
  Numeral <- MCNumeral
  Lower <- MCLower
  Answers <- MCAnswers
  Tunnel <- MCTunnel
  Timer = TRUE
  Faults = TRUE
SPECIFICATION Spec
CHECK_DEADLOCK FALSE
INVARIANTS TypeOK EntriesMatch FirstCoverDecides TunnelStartsAfterLine RefusalIsBelieved
