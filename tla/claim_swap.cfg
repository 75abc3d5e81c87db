\* Two readers that have swapped their addresses.
SPECIFICATION FairSpec
CONSTANTS
  Width = 4
  Configs <- SwappedConfigs
  AsyncLimit = 2
  Durations = {"unlimited"}
  n1 = n1
  n2 = n2
  Names = {n1, n2}
  NoName = noname
  NoAddress = noaddress
  Listening <- SomeListening
  ReaderAt <- SomeReaderAt
  Registered <- Swapped
  MaxRequests = 1
CHECK_DEADLOCK FALSE
PROPERTIES
  OnlyItsAddressIsTaken
