\* Fair schedules of one connection with a timeout; only s1 has a deadline.
SPECIFICATION FairSpec
CONSTANTS
  Senders = {s1, s2}
  Conn = conn
  NoCaller = none
  Deadlines = {s1}
  Operations = {"Shutdown", "Close"}
  ClientVersion = 2
  HasTimeout = TRUE
  AckQueueSize = 1
  IdMod = 8
  ReaderVersions <- NewReader
  ReplyBodies = {"ok", "cut"}
  UnsolicitedIds = {7}
  MaxUnsolicited = 0
PROPERTIES
  CloseReleasesCallers
  CloseEndsConnect
  HangupEndsConnect
  CallsReturn
