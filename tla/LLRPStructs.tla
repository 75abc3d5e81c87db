----------------------------- MODULE LLRPStructs ----------------------------
(***************************************************************************)
(* The structs of generated_structs.go as far as they hold other           *)
(* parameters: which ones, and how many of each. A field T is one          *)
(* parameter, *T one or none, []T any number; messages.yaml, from which the*)
(* structs are generated, tells the lists that LLRP does not let be empty, *)
(* and the fields of which exactly one is set.                             *)
(***************************************************************************)
EXTENDS LLRPGrammar, TLC

VersionAndROSpecMessages ==
  [GetSupportedVersionResponse |-> <<One("LLRPStatus")>>,
   SetProtocolVersionResponse |-> <<One("LLRPStatus")>>,
   GetReaderCapabilities |-> <<Many("Custom")>>,
   GetReaderCapabilitiesResponse |-> <<One("LLRPStatus"),
     May("GeneralDeviceCapabilities"), May("LLRPCapabilities"),
     May("RegulatoryCapabilities"), May("C1G2LLRPCapabilities"),
     Many("Custom")>>,
   AddROSpec |-> <<One("ROSpec")>>,
   AddROSpecResponse |-> <<One("LLRPStatus")>>,
   DeleteROSpecResponse |-> <<One("LLRPStatus")>>,
   StartROSpecResponse |-> <<One("LLRPStatus")>>]

ROSpecAndAccessMessages ==
  [StopROSpecResponse |-> <<One("LLRPStatus")>>,
   EnableROSpecResponse |-> <<One("LLRPStatus")>>,
   DisableROSpecResponse |-> <<One("LLRPStatus")>>,
   GetROSpecsResponse |-> <<One("LLRPStatus"), Many("ROSpec")>>,
   AddAccessSpec |-> <<One("AccessSpec")>>,
   AddAccessSpecResponse |-> <<One("LLRPStatus")>>,
   DeleteAccessSpecResponse |-> <<One("LLRPStatus")>>]

AccessAndReportMessages ==
  [EnableAccessSpecResponse |-> <<One("LLRPStatus")>>,
   DisableAccessSpecResponse |-> <<One("LLRPStatus")>>,
   GetAccessSpecsResponse |-> <<One("LLRPStatus"), Many("AccessSpec")>>,
   ClientRequestOp |-> <<One("TagReportData")>>,
   ClientRequestOpResponse |-> <<One("ClientRequestResponse")>>,
   ROAccessReport |-> <<Many("TagReportData"), Many("RFSurveyReportData"),
     Many("Custom")>>,
   ReaderEventNotification |-> <<One("ReaderEventNotificationData")>>,
   ErrorMessage |-> <<One("LLRPStatus")>>]

ConfigurationMessages ==
  [GetReaderConfig |-> <<Many("Custom")>>,
   GetReaderConfigResponse |-> <<One("LLRPStatus"), May("Identification"),
     Many("AntennaProperties"), Many("AntennaConfiguration"),
     May("ReaderEventNotificationSpec"), May("ROReportSpec"),
     May("AccessReportSpec"), May("LLRPConfigurationStateValue"),
     May("KeepAliveSpec"), Many("GPIPortCurrentState"), Many("GPOWriteData"),
     May("EventsAndReports"), Many("Custom")>>,
   SetReaderConfig |-> <<May("ReaderEventNotificationSpec"),
     Many("AntennaProperties"), Many("AntennaConfiguration"),
     May("ROReportSpec"), May("AccessReportSpec"), May("KeepAliveSpec"),
     Many("GPOWriteData"), Many("GPIPortCurrentState"),
     May("EventsAndReports"), Many("Custom")>>,
   SetReaderConfigResponse |-> <<One("LLRPStatus")>>,
   CloseConnectionResponse |-> <<One("LLRPStatus")>>]

GeneralCapabilities ==
  [GeneralDeviceCapabilities |-> <<Some("ReceiveSensitivityTableEntry"),
     Many("PerAntennaReceiveSensitivityRange"), One("GPIOCapabilities"),
     Some("PerAntennaAirProtocol"), May("MaximumReceiveSensitivity")>>]

RegulatoryAndROSpecs ==
  [RegulatoryCapabilities |-> <<May("UHFBandCapabilities"), Many("Custom")>>,
   UHFBandCapabilities |-> <<Some("TransmitPowerLevelTableEntry"),
     One("FrequencyInformation"), One("UHFC1G2RFModeTable"),
     May("RFSurveyFrequencyCapabilities")>>,
   FrequencyInformation |-> <<Many("FrequencyHopTable"),
     May("FixedFrequencyTable")>>,
   ROSpec |-> <<One("ROBoundarySpec"), Many("AISpec"), Many("RFSurveySpec"),
     Many("Custom"), May("LoopSpec"), May("ROReportSpec")>>,
   ROBoundarySpec |-> <<One("ROSpecStartTrigger"), One("ROSpecStopTrigger")>>,
   ROSpecStartTrigger |-> <<May("PeriodicTriggerValue"),
     May("GPITriggerValue")>>,
   PeriodicTriggerValue |-> <<May("UTCTimestamp")>>,
   ROSpecStopTrigger |-> <<May("GPITriggerValue")>>]

AISpecsAndAccess ==
  [AISpec |-> <<One("AISpecStopTrigger"), Some("InventoryParameterSpec"),
     Many("Custom")>>,
   AISpecStopTrigger |-> <<May("GPITriggerValue"),
     May("TagObservationTrigger")>>,
   InventoryParameterSpec |-> <<Many("AntennaConfiguration"), Many("Custom")>>,
   RFSurveySpec |-> <<One("RFSurveySpecStopTrigger"), Many("Custom")>>,
   AccessSpec |-> <<One("AccessSpecStopTrigger"), One("AccessCommand"),
     May("AccessReportSpec"), Many("Custom")>>,
   AccessCommand |-> <<One("C1G2TagSpec"), May("C1G2Read"), May("C1G2Write"),
     May("C1G2Kill"), May("C1G2Recommission"), May("C1G2Lock"),
     May("C1G2BlockErase"), May("C1G2BlockWrite"), May("C1G2BlockPermalock"),
     May("C1G2GetBlockPermalockStatus"), May("ClientRequestOpSpec"),
     Many("Custom")>>,
   ClientRequestResponse |-> <<One("EPCData"), May("C1G2Read"),
     May("C1G2Write"), May("C1G2Kill"), May("C1G2Recommission"),
     May("C1G2Lock"), May("C1G2BlockErase"), May("C1G2BlockWrite"),
     May("C1G2BlockPermalock"), May("C1G2GetBlockPermalockStatus"),
     May("ClientRequestOpSpec"), May("Custom")>>]

AntennaConfigurations ==
  [AntennaConfiguration |-> <<May("RFReceiver"), May("RFTransmitter"),
     May("C1G2InventoryCommand"), Many("Custom")>>]

ReportsAndEvents ==
  [ROReportSpec |-> <<One("TagReportContentSelector"), Many("Custom")>>,
   TagReportContentSelector |-> <<May("C1G2EPCMemorySelector"),
     Many("Custom")>>,
   TagReportData |-> <<Alt("EPCData"), Alt("EPC96"), May("ROSpecID"),
     May("SpecIndex"), May("InventoryParameterSpecID"), May("AntennaID"),
     May("PeakRSSI"), May("ChannelIndex"), May("FirstSeenUTC"),
     May("FirstSeenUptime"), May("LastSeenUTC"), May("LastSeenUptime"),
     May("TagSeenCount"), May("C1G2PC"), May("C1G2XPCW1"), May("C1G2XPCW2"),
     May("C1G2CRC"), May("AccessSpecID"), May("C1G2ReadOpSpecResult"),
     May("C1G2WriteOpSpecResult"), May("C1G2KillOpSpecResult"),
     May("C1G2LockOpSpecResult"), May("C1G2BlockEraseOpSpecResult"),
     May("C1G2BlockWriteOpSpecResult"), May("C1G2RecommissionOpSpecResult"),
     May("C1G2BlockPermalockOpSpecResult"),
     May("C1G2GetBlockPermalockStatusOpSpecResult"),
     May("ClientRequestOpSpecResult"), Many("Custom")>>,
   RFSurveyReportData |-> <<May("ROSpecID"), May("SpecIndex"),
     Some("FrequencyRSSILevelEntry"), Many("Custom")>>,
   FrequencyRSSILevelEntry |-> <<Alt("UTCTimestamp"), Alt("Uptime")>>,
   ReaderEventNotificationSpec |-> <<Some("EventNotificationState")>>,
   ReaderEventNotificationData |-> <<Alt("UTCTimestamp"), Alt("Uptime"),
     May("HoppingEvent"), May("GPIEvent"), May("ROSpecEvent"),
     May("ReportBufferLevelWarningEvent"),
     May("ReportBufferOverflowErrorEvent"), May("ReaderExceptionEvent"),
     May("RFSurveyEvent"), May("AISpecEvent"), May("AntennaEvent"),
     May("ConnectionAttemptEvent"), May("ConnectionCloseEvent"),
     May("SpecLoopEvent"), Many("Custom")>>]

StatusAndC1G2 ==
  [ReaderExceptionEvent |-> <<May("ROSpecID"), May("SpecIndex"),
     May("InventoryParameterSpecID"), May("AntennaID"), May("AccessSpecID"),
     May("OpSpecID"), Many("Custom")>>,
   AISpecEvent |-> <<May("C1G2SingulationDetails")>>,
   LLRPStatus |-> <<May("FieldError"), May("ParameterError")>>,
   ParameterError |-> <<May("ParameterError"), May("FieldError")>>,
   UHFC1G2RFModeTable |-> <<Some("UHFC1G2RFModeTableEntry")>>,
   C1G2InventoryCommand |-> <<Many("C1G2Filter"), May("C1G2RFControl"),
     May("C1G2SingulationControl"), Many("Custom")>>]

C1G2Filters ==
  [C1G2Filter |-> <<One("C1G2TagInventoryMask"),
     May("C1G2TagInventoryStateAwareFilterAction"),
     May("C1G2TagInventoryStateUnawareFilterAction")>>]

C1G2Controls ==
  [C1G2SingulationControl |->
     <<May("C1G2TagInventoryStateAwareSingulationAction")>>,
   C1G2TagSpec |-> <<One("TagPattern1"), May("TagPattern2")>>]

C1G2Locks ==
  [C1G2Lock |-> <<Some("C1G2LockPayload")>>]

MessageType ==
  [GetSupportedVersion |-> 46,
   GetSupportedVersionResponse |-> 56,
   SetProtocolVersion |-> 47,
   SetProtocolVersionResponse |-> 57,
   GetReaderCapabilities |-> 1,
   GetReaderCapabilitiesResponse |-> 11,
   AddROSpec |-> 20,
   AddROSpecResponse |-> 30,
   DeleteROSpec |-> 21,
   DeleteROSpecResponse |-> 31,
   StartROSpec |-> 22,
   StartROSpecResponse |-> 32,
   StopROSpec |-> 23,
   StopROSpecResponse |-> 33,
   EnableROSpec |-> 24,
   EnableROSpecResponse |-> 34,
   DisableROSpec |-> 25,
   DisableROSpecResponse |-> 35,
   GetROSpecs |-> 26,
   GetROSpecsResponse |-> 36,
   AddAccessSpec |-> 40,
   AddAccessSpecResponse |-> 50,
   DeleteAccessSpec |-> 41,
   DeleteAccessSpecResponse |-> 51,
   EnableAccessSpec |-> 42,
   EnableAccessSpecResponse |-> 52,
   DisableAccessSpec |-> 43,
   DisableAccessSpecResponse |-> 53,
   GetAccessSpecs |-> 44,
   GetAccessSpecsResponse |-> 54,
   ClientRequestOp |-> 45,
   ClientRequestOpResponse |-> 55,
   GetReport |-> 60,
   ROAccessReport |-> 61,
   KeepAlive |-> 62,
   KeepAliveAck |-> 72,
   ReaderEventNotification |-> 63,
   EnableEventsAndReports |-> 64,
   ErrorMessage |-> 100,
   GetReaderConfig |-> 2,
   GetReaderConfigResponse |-> 12,
   SetReaderConfig |-> 3,
   SetReaderConfigResponse |-> 13,
   CloseConnection |-> 14,
   CloseConnectionResponse |-> 4,
   CustomMessage |-> 1023]

(* The parameters that are numbers: their containers read them in place. *)
Scalars ==
  {"AntennaID", "FirstSeenUTC", "FirstSeenUptime", "LastSeenUTC",
   "LastSeenUptime", "PeakRSSI", "ChannelIndex", "TagSeenCount", "ROSpecID",
   "InventoryParameterSpecID", "C1G2CRC", "SpecIndex",
   "ClientRequestOpSpecResult", "AccessSpecID", "OpSpecID", "C1G2XPCW1",
   "C1G2XPCW2", "UTCTimestamp", "Uptime", "ClientRequestOpSpec",
   "LLRPConfigurationStateValue", "RFReceiver", "EventsAndReports",
   "AccessReportSpec", "HoppingEvent", "ReportBufferLevelWarningEvent",
   "ConnectionAttemptEvent", "C1G2TagInventoryStateUnawareFilterAction",
   "LoopSpec", "MaximumReceiveSensitivity"}

Slots ==
  VersionAndROSpecMessages @@ ROSpecAndAccessMessages @@
    AccessAndReportMessages @@ ConfigurationMessages @@ GeneralCapabilities
    @@ RegulatoryAndROSpecs @@ AISpecsAndAccess @@ AntennaConfigurations @@
    ReportsAndEvents @@ StatusAndC1G2 @@ C1G2Filters @@ C1G2Controls @@
    C1G2Locks

=============================================================================
