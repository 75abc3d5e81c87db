\* Three requests share two message IDs: the IDs have wrapped.
SPECIFICATION Spec
CONSTANTS
  Senders = {s1, s2, s3}
  Conn = conn
  NoCaller = none
  Deadlines = {s1, s2, s3}
  Operations = {"SendMessage"}
  ClientVersion = 1
  HasTimeout = TRUE
  AckQueueSize = 1
  IdMod = 2
  ReaderVersions <- AllReaderVersions
  ReplyBodies = {"ok", "cut"}
  UnsolicitedIds = {}
  MaxUnsolicited = 0
SYMMETRY SenderSymmetry
INVARIANTS
  NoChannelPanic
  ChannelOwnership
