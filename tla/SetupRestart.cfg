CONSTANTS
  Text <- MCText
  SshVars = {"GIT_SSH"}
  Plinks = {"plink"}
  HomeDir = "home"
  Other <- MCOther
  UserValues <- MCUserValues
  Process = {"bash", "explorer", "service"}
  Core = {"bash", "service"}
  Shell = {"explorer", "service"}
  Registered = {"explorer", "service"}
  Opaque = {"service"}
  MaxSessions = 2
SPECIFICATION MCSpec
CHECK_DEADLOCK FALSE
INVARIANT ListedComeBack
