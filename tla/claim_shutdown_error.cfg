\* Shutdown fails and Close follows.
SPECIFICATION Spec
CONSTANTS
  Senders = {s1, s2}
  Conn = conn
  NoCaller = none
  Deadlines = {s1, s2}
  Operations = {"Shutdown", "Close"}
  ClientVersion = 1
  HasTimeout = TRUE
  AckQueueSize = 1
  IdMod = 8
  ReaderVersions <- AllReaderVersions
  ReplyBodies = {"ok", "rejected"}
  UnsolicitedIds = {7}
  MaxUnsolicited = 0
CHECK_DEADLOCK FALSE
INVARIANTS
  FailedShutdownFailsConnect
