---------------------------- MODULE LLRPDecoders ----------------------------
(***************************************************************************)
(* The UnmarshalBinary methods of generated_unmarshal.go as a grammar, one *)
(* row per message and per parameter: how many bytes the method demands    *)
(* before it looks at any, the fields it takes from the front of the data, *)
(* and the order in which it looks for sub-parameters. LLRPCodec gives the *)
(* rows their meaning. A sub-parameter is named by its type; the two       *)
(* C1G2TargetTags of a C1G2TagSpec by their fields.                        *)
(***************************************************************************)
EXTENDS LLRPGrammar, TLC

VersionMessages ==
  [GetSupportedVersion |-> Exactly(<<>>),
   GetSupportedVersionResponse |-> Struct(10, <<Masked(2, 224)>>,
     <<Required("LLRPStatus")>>),
   SetProtocolVersion |-> Exactly(<<Masked(1, 224)>>),
   SetProtocolVersionResponse |-> Struct(8, <<>>, <<Required("LLRPStatus")>>),
   GetReaderCapabilities |-> Struct(1, <<U(1)>>, <<Group(<<"Custom">>)>>)]

CapabilitiesAndAddROSpec ==
  [GetReaderCapabilitiesResponse |-> Struct(8, <<>>, <<Required("LLRPStatus"),
     Group(<<"GeneralDeviceCapabilities", "LLRPCapabilities",
     "RegulatoryCapabilities", "C1G2LLRPCapabilities">>),
     Group(<<"Custom">>)>>),
   AddROSpec |-> Struct(19, <<>>, <<Required("ROSpec")>>),
   AddROSpecResponse |-> Struct(8, <<>>, <<Required("LLRPStatus")>>)]

ROSpecRequests ==
  [DeleteROSpec |-> Exactly(<<U(4)>>),
   DeleteROSpecResponse |-> Struct(8, <<>>, <<Required("LLRPStatus")>>),
   StartROSpec |-> Exactly(<<U(4)>>),
   StartROSpecResponse |-> Struct(8, <<>>, <<Required("LLRPStatus")>>),
   StopROSpec |-> Exactly(<<U(4)>>),
   StopROSpecResponse |-> Struct(8, <<>>, <<Required("LLRPStatus")>>),
   EnableROSpec |-> Exactly(<<U(4)>>),
   EnableROSpecResponse |-> Struct(8, <<>>, <<Required("LLRPStatus")>>)]

ROSpecQueries ==
  [DisableROSpec |-> Exactly(<<U(4)>>),
   DisableROSpecResponse |-> Struct(8, <<>>, <<Required("LLRPStatus")>>),
   GetROSpecs |-> Exactly(<<>>),
   GetROSpecsResponse |-> Struct(8, <<>>, <<Required("LLRPStatus"),
     Group(<<"ROSpec">>)>>),
   AddAccessSpec |-> Struct(23, <<>>, <<Required("AccessSpec")>>)]

AccessSpecRequests ==
  [AddAccessSpecResponse |-> Struct(8, <<>>, <<Required("LLRPStatus")>>),
   DeleteAccessSpec |-> Exactly(<<U(4)>>),
   DeleteAccessSpecResponse |-> Struct(8, <<>>, <<Required("LLRPStatus")>>),
   EnableAccessSpec |-> Exactly(<<U(4)>>),
   EnableAccessSpecResponse |-> Struct(8, <<>>, <<Required("LLRPStatus")>>),
   DisableAccessSpec |-> Exactly(<<U(4)>>),
   DisableAccessSpecResponse |-> Struct(8, <<>>, <<Required("LLRPStatus")>>),
   GetAccessSpecs |-> Exactly(<<>>)]

AccessSpecQueries ==
  [GetAccessSpecsResponse |-> Struct(8, <<>>, <<Required("LLRPStatus"),
     Group(<<"AccessSpec">>)>>),
   ClientRequestOp |-> Struct(10, <<>>, <<Required("TagReportData")>>),
   ClientRequestOpResponse |-> Struct(14, <<>>,
     <<Required("ClientRequestResponse")>>),
   GetReport |-> Exactly(<<>>)]

ReportsAndNotices ==
  [ROAccessReport |-> Struct(0, <<>>, <<Group(<<"TagReportData",
     "RFSurveyReportData", "Custom">>)>>),
   KeepAlive |-> Exactly(<<>>),
   KeepAliveAck |-> Exactly(<<>>),
   ReaderEventNotification |-> Struct(16, <<>>,
     <<Required("ReaderEventNotificationData")>>),
   EnableEventsAndReports |-> Exactly(<<>>),
   ErrorMessage |-> Struct(8, <<>>, <<Required("LLRPStatus")>>)]

ReaderConfigRequest ==
  [GetReaderConfig |-> Struct(7, <<U(7)>>, <<Group(<<"Custom">>)>>)]

ReaderConfigReply ==
  [GetReaderConfigResponse |-> Struct(8, <<>>, <<Required("LLRPStatus"),
     Optional("Identification"), Group(<<"AntennaProperties",
     "AntennaConfiguration">>), Group(<<"ReaderEventNotificationSpec",
     "ROReportSpec", "AccessReportSpec", "LLRPConfigurationStateValue",
     "KeepAliveSpec">>), Group(<<"GPIPortCurrentState", "GPOWriteData">>),
     Optional("EventsAndReports"), Group(<<"Custom">>)>>)]

ReaderConfigChange ==
  [SetReaderConfig |-> Struct(1, <<Masked(1, 128)>>,
     <<Optional("ReaderEventNotificationSpec"), Group(<<"AntennaProperties",
     "AntennaConfiguration">>), Group(<<"ROReportSpec", "AccessReportSpec",
     "KeepAliveSpec">>), Group(<<"GPOWriteData", "GPIPortCurrentState">>),
     Optional("EventsAndReports"), Group(<<"Custom">>)>>)]

ClosingMessages ==
  [SetReaderConfigResponse |-> Struct(8, <<>>, <<Required("LLRPStatus")>>),
   CloseConnection |-> Exactly(<<>>),
   CloseConnectionResponse |-> Struct(8, <<>>, <<Required("LLRPStatus")>>),
   CustomMessage |-> Leaf(<<U(5), Rest>>)]

TagDataTVs ==
  [AntennaID |-> Leaf(<<U(2)>>),
   FirstSeenUTC |-> Leaf(<<U(8)>>),
   FirstSeenUptime |-> Leaf(<<U(8)>>),
   LastSeenUTC |-> Leaf(<<U(8)>>),
   LastSeenUptime |-> Leaf(<<U(8)>>),
   PeakRSSI |-> Leaf(<<U(1)>>),
   ChannelIndex |-> Leaf(<<U(2)>>),
   TagSeenCount |-> Leaf(<<U(2)>>),
   ROSpecID |-> Leaf(<<U(4)>>),
   InventoryParameterSpecID |-> Leaf(<<U(2)>>),
   C1G2CRC |-> Leaf(<<U(2)>>),
   C1G2PC |-> Leaf(<<U(2)>>),
   EPC96 |-> Leaf(<<U(12)>>),
   SpecIndex |-> Leaf(<<U(2)>>),
   ClientRequestOpSpecResult |-> Leaf(<<U(2)>>),
   AccessSpecID |-> Leaf(<<U(4)>>)]

AirProtocolTVs ==
  [OpSpecID |-> Leaf(<<U(2)>>),
   C1G2SingulationDetails |-> Leaf(<<U(4)>>),
   C1G2XPCW1 |-> Leaf(<<U(2)>>),
   C1G2XPCW2 |-> Leaf(<<U(2)>>),
   UTCTimestamp |-> Leaf(<<U(8)>>),
   Uptime |-> Leaf(<<U(8)>>)]

GeneralCapabilities ==
  [GeneralDeviceCapabilities |-> Struct(30, <<U(2), Masked(1, 192), Masked(1,
     0), U(8), Array(1)>>, <<Group(<<"ReceiveSensitivityTableEntry">>),
     Group(<<"PerAntennaReceiveSensitivityRange">>), RequiredAfter(8,
     "GPIOCapabilities"), Group(<<"PerAntennaAirProtocol">>),
     Optional("MaximumReceiveSensitivity")>>),
   ReceiveSensitivityTableEntry |-> Leaf(<<U(4)>>)]

LLRPAndRegulatoryCapabilities ==
  [PerAntennaAirProtocol |-> Struct(4, <<U(2), Array(1)>>, <<>>),
   GPIOCapabilities |-> Leaf(<<U(4)>>),
   LLRPCapabilities |-> Leaf(<<Masked(1, 248), U(23)>>),
   RegulatoryCapabilities |-> Struct(4, <<U(4)>>,
     <<Optional("UHFBandCapabilities"), Group(<<"Custom">>)>>)]

UHFCapabilities ==
  [UHFBandCapabilities |-> Struct(5, <<>>,
     <<Group(<<"TransmitPowerLevelTableEntry">>), RequiredAfter(4,
     "FrequencyInformation"), RequiredAfter(4, "UHFC1G2RFModeTable"),
     Optional("RFSurveyFrequencyCapabilities")>>),
   TransmitPowerLevelTableEntry |-> Leaf(<<U(4)>>),
   FrequencyInformation |-> Struct(1, <<Masked(1, 128)>>,
     <<Group(<<"FrequencyHopTable">>), Optional("FixedFrequencyTable")>>)]

FrequencyTables ==
  [FrequencyHopTable |-> Struct(4, <<U(1), Masked(1, 0), Array(4)>>, <<>>),
   FixedFrequencyTable |-> Struct(2, <<Array(4)>>, <<>>),
   PerAntennaReceiveSensitivityRange |-> Leaf(<<U(6)>>)]

ROSpecs ==
  [ROSpec |-> Struct(15, <<U(6)>>, <<Required("ROBoundarySpec"),
     Group(<<"AISpec", "RFSurveySpec", "Custom">>), Group(<<"LoopSpec",
     "ROReportSpec">>)>>),
   ROBoundarySpec |-> Struct(5, <<>>, <<Required("ROSpecStartTrigger"),
     RequiredAfter(4, "ROSpecStopTrigger")>>)]

ROSpecTriggers ==
  [ROSpecStartTrigger |-> Struct(1, <<U(1)>>, <<Group(<<"PeriodicTriggerValue",
     "GPITriggerValue">>)>>),
   PeriodicTriggerValue |-> Struct(8, <<U(8)>>, <<Optional("UTCTimestamp")>>),
   GPITriggerValue |-> Leaf(<<U(2), Masked(1, 128), U(4)>>),
   ROSpecStopTrigger |-> Struct(5, <<U(5)>>, <<Optional("GPITriggerValue")>>)]

AISpecs ==
  [AISpec |-> Struct(9, <<Array(2)>>, <<RequiredAfter(4, "AISpecStopTrigger"),
     Group(<<"InventoryParameterSpec">>), Group(<<"Custom">>)>>),
   AISpecStopTrigger |-> Struct(5, <<U(5)>>, <<Group(<<"GPITriggerValue",
     "TagObservationTrigger">>)>>),
   TagObservationTrigger |-> Leaf(<<U(1), Masked(1, 0), U(10)>>)]

InventoryAndRFSurveySpecs ==
  [InventoryParameterSpec |-> Struct(3, <<U(3)>>,
     <<Group(<<"AntennaConfiguration", "Custom">>)>>),
   RFSurveySpec |-> Struct(23, <<U(10)>>,
     <<Required("RFSurveySpecStopTrigger"), Group(<<"Custom">>)>>),
   RFSurveySpecStopTrigger |-> Leaf(<<U(9)>>)]

AccessSpecs ==
  [AccessSpec |-> Struct(19, <<U(7), Masked(1, 128), U(4)>>,
     <<Required("AccessSpecStopTrigger"), RequiredAfter(4, "AccessCommand"),
     Optional("AccessReportSpec"), Group(<<"Custom">>)>>),
   AccessSpecStopTrigger |-> Leaf(<<U(3)>>)]

AccessCommands ==
  [AccessCommand |-> Struct(15, <<>>, <<Required("C1G2TagSpec"),
     Group(<<"C1G2Read", "C1G2Write", "C1G2Kill", "C1G2Recommission",
     "C1G2Lock", "C1G2BlockErase", "C1G2BlockWrite", "C1G2BlockPermalock",
     "C1G2GetBlockPermalockStatus", "ClientRequestOpSpec">>),
     Group(<<"Custom">>)>>),
   ClientRequestOpSpec |-> Leaf(<<U(2)>>)]

ClientRequestsAndConfiguration ==
  [ClientRequestResponse |-> Struct(10, <<U(4)>>, <<Required("EPCData"),
     Group(<<"C1G2Read", "C1G2Write", "C1G2Kill", "C1G2Recommission",
     "C1G2Lock", "C1G2BlockErase", "C1G2BlockWrite", "C1G2BlockPermalock",
     "C1G2GetBlockPermalockStatus", "ClientRequestOpSpec", "Custom">>)>>),
   LLRPConfigurationStateValue |-> Leaf(<<U(4)>>),
   Identification |-> Struct(3, <<U(1), Array(1)>>, <<>>),
   GPOWriteData |-> Leaf(<<U(2), Masked(1, 128)>>),
   KeepAliveSpec |-> Leaf(<<U(5)>>)]

AntennaConfigurations ==
  [AntennaProperties |-> Leaf(<<Masked(1, 128), U(4)>>),
   AntennaConfiguration |-> Struct(2, <<U(2)>>, <<Group(<<"RFReceiver",
     "RFTransmitter", "C1G2InventoryCommand">>), Group(<<"Custom">>)>>),
   RFReceiver |-> Leaf(<<U(2)>>),
   RFTransmitter |-> Leaf(<<U(6)>>),
   GPIPortCurrentState |-> Leaf(<<U(2), Masked(1, 128), U(1)>>),
   EventsAndReports |-> Leaf(<<Masked(1, 128)>>)]

ROReportSpecs ==
  [ROReportSpec |-> Struct(9, <<U(3)>>, <<Required("TagReportContentSelector"),
     Group(<<"Custom">>)>>),
   TagReportContentSelector |-> Struct(2, <<U(1), Masked(1, 192)>>,
     <<Optional("C1G2EPCMemorySelector"), Group(<<"Custom">>)>>),
   AccessReportSpec |-> Leaf(<<U(1)>>)]

TagReports ==
  [TagReportData |-> Struct(6, <<>>, <<EitherTV(<<"EPCData", "EPC96">>),
     AnyGroup(<<"ROSpecID", "SpecIndex", "InventoryParameterSpecID",
     "AntennaID", "PeakRSSI", "ChannelIndex", "FirstSeenUTC",
     "FirstSeenUptime", "LastSeenUTC", "LastSeenUptime", "TagSeenCount",
     "C1G2PC", "C1G2XPCW1", "C1G2XPCW2", "C1G2CRC", "AccessSpecID",
     "C1G2ReadOpSpecResult", "C1G2WriteOpSpecResult", "C1G2KillOpSpecResult",
     "C1G2LockOpSpecResult", "C1G2BlockEraseOpSpecResult",
     "C1G2BlockWriteOpSpecResult", "C1G2RecommissionOpSpecResult",
     "C1G2BlockPermalockOpSpecResult",
     "C1G2GetBlockPermalockStatusOpSpecResult",
     "ClientRequestOpSpecResult">>), Group(<<"Custom">>)>>)]

TagIDsAndRFSurveyReports ==
  [EPCData |-> Struct(2, <<Bits>>, <<>>),
   RFSurveyReportData |-> Struct(26, <<>>, <<TVGroup(<<"ROSpecID",
     "SpecIndex">>), Group(<<"FrequencyRSSILevelEntry">>),
     Group(<<"Custom">>)>>),
   FrequencyRSSILevelEntry |-> Struct(22, <<U(10)>>, <<Either(<<"UTCTimestamp",
     "Uptime">>)>>)]

EventNotificationSpecs ==
  [ReaderEventNotificationSpec |-> Struct(7, <<>>,
     <<Group(<<"EventNotificationState">>)>>),
   EventNotificationState |-> Leaf(<<U(2), Masked(1, 128)>>)]

EventNotifications ==
  [ReaderEventNotificationData |-> Struct(12, <<>>, <<Either(<<"UTCTimestamp",
     "Uptime">>), Group(<<"HoppingEvent", "GPIEvent", "ROSpecEvent",
     "ReportBufferLevelWarningEvent", "ReportBufferOverflowErrorEvent",
     "ReaderExceptionEvent", "RFSurveyEvent", "AISpecEvent", "AntennaEvent",
     "ConnectionAttemptEvent", "ConnectionCloseEvent", "SpecLoopEvent">>),
     Group(<<"Custom">>)>>),
   HoppingEvent |-> Leaf(<<U(2)>>)]

ROSpecAndReaderEvents ==
  [GPIEvent |-> Leaf(<<U(2), Masked(1, 128)>>),
   ROSpecEvent |-> Leaf(<<U(9)>>),
   ReportBufferLevelWarningEvent |-> Leaf(<<U(1)>>),
   ReportBufferOverflowErrorEvent |-> Leaf(<<>>),
   ReaderExceptionEvent |-> Struct(2, <<Array(1)>>, <<TVGroup(<<"ROSpecID",
     "SpecIndex", "InventoryParameterSpecID", "AntennaID", "AccessSpecID",
     "OpSpecID">>), Group(<<"Custom">>)>>),
   RFSurveyEvent |-> Leaf(<<U(5)>>)]

AISpecEventsAndStatus ==
  [AISpecEvent |-> Struct(7, <<U(7)>>, <<Peek("C1G2SingulationDetails")>>),
   AntennaEvent |-> Leaf(<<U(3)>>),
   ConnectionAttemptEvent |-> Leaf(<<U(2)>>),
   ConnectionCloseEvent |-> Leaf(<<>>),
   LLRPStatus |-> Struct(4, <<U(2), Array(1)>>, <<Group(<<"FieldError",
     "ParameterError">>)>>),
   FieldError |-> Leaf(<<U(4)>>)]

ParameterErrorsAndC1G2Capabilities ==
  [ParameterError |-> Struct(4, <<U(4)>>, <<Group(<<"ParameterError",
     "FieldError">>)>>),
   C1G2LLRPCapabilities |-> Leaf(<<Masked(1, 252), U(2)>>),
   UHFC1G2RFModeTable |-> Struct(32, <<>>,
     <<Group(<<"UHFC1G2RFModeTableEntry">>)>>),
   UHFC1G2RFModeTableEntry |-> Leaf(<<U(4), Masked(1, 192), U(23)>>)]

C1G2Inventory ==
  [C1G2InventoryCommand |-> Struct(1, <<Masked(1, 128)>>,
     <<Group(<<"C1G2Filter">>), Group(<<"C1G2RFControl",
     "C1G2SingulationControl">>), Group(<<"Custom">>)>>),
   C1G2Filter |-> Struct(10, <<Masked(1, 192)>>,
     <<Required("C1G2TagInventoryMask"),
     Group(<<"C1G2TagInventoryStateAwareFilterAction",
     "C1G2TagInventoryStateUnawareFilterAction">>)>>)]

C1G2FiltersAndSingulation ==
  [C1G2TagInventoryMask |-> Struct(5, <<Masked(1, 192), U(2), Bits>>, <<>>),
   C1G2TagInventoryStateAwareFilterAction |-> Leaf(<<U(2)>>),
   C1G2TagInventoryStateUnawareFilterAction |-> Leaf(<<U(1)>>),
   C1G2RFControl |-> Leaf(<<U(4)>>),
   C1G2SingulationControl |-> Struct(7, <<Masked(1, 192), U(6)>>,
     <<Optional("C1G2TagInventoryStateAwareSingulationAction")>>),
   C1G2TagInventoryStateAwareSingulationAction |-> Leaf(<<Masked(1, 192)>>),
   C1G2TagSpec |-> Struct(11, <<>>, <<Required("TagPattern1"),
     Optional("TagPattern2")>>)]

C1G2ReadWriteLock ==
  [C1G2TargetTag |-> Struct(7, <<Masked(1, 224), U(2), Bits, Bits>>, <<>>),
   C1G2Read |-> Leaf(<<U(6), Masked(1, 192), U(4)>>),
   C1G2Write |-> Struct(11, <<U(6), Masked(1, 192), U(2), Array(2)>>, <<>>),
   C1G2Kill |-> Leaf(<<U(6)>>),
   C1G2Lock |-> Struct(12, <<U(6)>>, <<Group(<<"C1G2LockPayload">>)>>),
   C1G2LockPayload |-> Leaf(<<U(2)>>)]

C1G2EraseAndResults ==
  [C1G2BlockErase |-> Leaf(<<U(6), Masked(1, 192), U(4)>>),
   C1G2BlockWrite |-> Struct(11, <<U(6), Masked(1, 192), U(2), Array(2)>>,
     <<>>),
   C1G2EPCMemorySelector |-> Leaf(<<Masked(1, 224)>>),
   C1G2ReadOpSpecResult |-> Struct(5, <<U(3), Array(2)>>, <<>>),
   C1G2WriteOpSpecResult |-> Leaf(<<U(5)>>),
   C1G2KillOpSpecResult |-> Leaf(<<U(3)>>),
   C1G2LockOpSpecResult |-> Leaf(<<U(3)>>),
   C1G2BlockEraseOpSpecResult |-> Leaf(<<U(3)>>),
   C1G2BlockWriteOpSpecResult |-> Leaf(<<U(5)>>),
   LoopSpec |-> Leaf(<<U(4)>>),
   SpecLoopEvent |-> Leaf(<<U(8)>>)]

C1G2RecommissionAndCustom ==
  [C1G2Recommission |-> Leaf(<<U(6), Masked(1, 7)>>),
   C1G2BlockPermalock |-> Struct(11, <<U(6), Masked(1, 192), U(2), Array(2)>>,
     <<>>),
   C1G2GetBlockPermalockStatus |-> Leaf(<<U(6), Masked(1, 192), U(4)>>),
   C1G2RecommissionOpSpecResult |-> Leaf(<<U(3)>>),
   C1G2BlockPermalockOpSpecResult |-> Leaf(<<U(3)>>),
   C1G2GetBlockPermalockStatusOpSpecResult |-> Struct(5, <<U(3), Array(2)>>,
     <<>>),
   MaximumReceiveSensitivity |-> Leaf(<<U(2)>>),
   RFSurveyFrequencyCapabilities |-> Leaf(<<U(8)>>),
   Custom |-> Leaf(<<U(8), Rest>>)]

MessageDecoder ==
  VersionMessages @@ CapabilitiesAndAddROSpec @@ ROSpecRequests @@
    ROSpecQueries @@ AccessSpecRequests @@ AccessSpecQueries @@
    ReportsAndNotices @@ ReaderConfigRequest @@ ReaderConfigReply @@
    ReaderConfigChange @@ ClosingMessages

ParameterDecoder ==
  TagDataTVs @@ AirProtocolTVs @@ GeneralCapabilities @@
    LLRPAndRegulatoryCapabilities @@ UHFCapabilities @@ FrequencyTables @@
    ROSpecs @@ ROSpecTriggers @@ AISpecs @@ InventoryAndRFSurveySpecs @@
    AccessSpecs @@ AccessCommands @@ ClientRequestsAndConfiguration @@
    AntennaConfigurations @@ ROReportSpecs @@ TagReports @@
    TagIDsAndRFSurveyReports @@ EventNotificationSpecs @@ EventNotifications
    @@ ROSpecAndReaderEvents @@ AISpecEventsAndStatus @@
    ParameterErrorsAndC1G2Capabilities @@ C1G2Inventory @@
    C1G2FiltersAndSingulation @@ C1G2ReadWriteLock @@ C1G2EraseAndResults @@
    C1G2RecommissionAndCustom

=============================================================================
