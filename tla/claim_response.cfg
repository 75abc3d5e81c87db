\* The reader's own message IDs overlap the Client's.
SPECIFICATION Spec
CONSTANTS
  Senders = {s1}
  Conn = conn
  NoCaller = none
  Deadlines = {s1}
  Operations = {"SendMessage"}
  ClientVersion = 1
  HasTimeout = TRUE
  AckQueueSize = 1
  IdMod = 8
  ReaderVersions <- AllReaderVersions
  ReplyBodies = {"ok", "rejected"}
  UnsolicitedIds = {0, 1}
  MaxUnsolicited = 1
CHECK_DEADLOCK FALSE
INVARIANTS
  SendMessageReturnsItsResponse
