\* The Client and the reader negotiate version 1.1.
SPECIFICATION Spec
CONSTANTS
  Senders = {s1}
  Conn = conn
  NoCaller = none
  Deadlines = {s1}
  Operations = {"SendMessage"}
  ClientVersion = 2
  HasTimeout = TRUE
  AckQueueSize = 1
  IdMod = 8
  ReaderVersions <- AllReaderVersions
  ReplyBodies = {"ok", "rejected"}
  UnsolicitedIds = {7}
  MaxUnsolicited = 0
CHECK_DEADLOCK FALSE
INVARIANTS
  RequestsCarryNegotiatedVersion
