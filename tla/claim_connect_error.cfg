\* The reader hangs up while a Client without a timeout negotiates.
SPECIFICATION FairSpec
CONSTANTS
  Senders = {s1}
  Conn = conn
  NoCaller = none
  Deadlines = {s1}
  Operations = {"SendMessage"}
  ClientVersion = 2
  HasTimeout = FALSE
  AckQueueSize = 1
  IdMod = 8
  ReaderVersions <- AllReaderVersions
  ReplyBodies = {"ok", "rejected"}
  UnsolicitedIds = {7}
  MaxUnsolicited = 0
CHECK_DEADLOCK FALSE
PROPERTIES
  ConnectReturnsAfterError
