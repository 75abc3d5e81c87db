\* Something accepts a connection and stays silent.
SPECIFICATION FairSpec
CONSTANTS
  Width = 4
  Configs <- SomeConfigs
  AsyncLimit = 2
  Durations = {"limited"}
  n1 = n1
  n2 = n2
  Names = {n1, n2}
  NoName = noname
  NoAddress = noaddress
  Listening <- SomeListening
  ReaderAt <- SomeReaderAt
  Registered <- SomeRegistered
  MaxRequests = 1
CHECK_DEADLOCK FALSE
PROPERTIES
  ProbesEnd
