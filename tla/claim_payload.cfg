\* The reader answers GetSupportedVersion with more than MaxBufferedPayloadSz bytes.
SPECIFICATION Spec
CONSTANTS
  Senders = {s1}
  Conn = conn
  NoCaller = none
  Deadlines = {s1}
  Operations = {"SendMessage"}
  ClientVersion = 2
  HasTimeout = TRUE
  AckQueueSize = 1
  IdMod = 8
  ReaderVersions <- AllReaderVersions
  ReplyBodies = {"ok", "huge"}
  UnsolicitedIds = {7}
  MaxUnsolicited = 0
CHECK_DEADLOCK FALSE
INVARIANTS
  RepliesHavePayloads
