\* The reader keeps its end open after answering CloseConnection.
SPECIFICATION Spec
CONSTANTS
  Senders = {s1}
  Conn = conn
  NoCaller = none
  Deadlines = {s1}
  Operations = {"Shutdown"}
  ClientVersion = 1
  HasTimeout = TRUE
  AckQueueSize = 1
  IdMod = 8
  ReaderVersions <- AllReaderVersions
  ReplyBodies = {"ok", "rejected"}
  UnsolicitedIds = {7}
  MaxUnsolicited = 0
CHECK_DEADLOCK FALSE
PROPERTIES
  TimeoutAfterCloseWaits
