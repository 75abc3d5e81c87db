\* The reader hangs up within its response to CloseConnection.
SPECIFICATION FairSpec
CONSTANTS
  Senders = {s1}
  Conn = conn
  NoCaller = none
  Deadlines = {}
  Operations = {"Shutdown"}
  ClientVersion = 1
  HasTimeout = TRUE
  AckQueueSize = 1
  IdMod = 8
  ReaderVersions <- AllReaderVersions
  ReplyBodies = {"ok", "cut"}
  UnsolicitedIds = {7}
  MaxUnsolicited = 0
CHECK_DEADLOCK FALSE
PROPERTIES
  HangupReleasesCallers
