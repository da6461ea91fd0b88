CONSTANTS
  N = 3
  Opaque = {2}
  Object = {"file", "long", "thread", "event", "alpc"}
  File = {"file", "long"}
  Thread = {"thread"}
  Unlisted = {"alpc"}
  Wanted = {"file", "long"}
  Long = {"long"}
SPECIFICATION MCSpec
CHECK_DEADLOCK FALSE
INVARIANTS TypeOK ReportedHolds OpenIsReported
PROPERTY Finishes
