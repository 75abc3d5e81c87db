---------------------------- MODULE LLRPEncoders ----------------------------
(***************************************************************************)
(* What the package writes. Of a parameter: its type number, the size its  *)
(* getHeader starts from (the header included), the fields of its          *)
(* EncodeFields and the order of its sub-parameters (generated_encoder.go).*)
(* Of a message: the fields (generated_encoder.go) and the order of its    *)
(* MarshalBinary (generated_marshal.go). Optional sub-parameters are       *)
(* written if present, repeated ones in the order of their slice.          *)
(***************************************************************************)
EXTENDS LLRPGrammar, TLC

RequestFields ==
  [GetSupportedVersionResponse |-> <<Masked(2, 224)>>,
   SetProtocolVersion |-> <<Masked(1, 224)>>,
   GetReaderCapabilities |-> <<U(1)>>,
   DeleteROSpec |-> <<U(4)>>,
   StartROSpec |-> <<U(4)>>,
   StopROSpec |-> <<U(4)>>,
   EnableROSpec |-> <<U(4)>>,
   DisableROSpec |-> <<U(4)>>]

ReaderConfigFields ==
  [DeleteAccessSpec |-> <<U(4)>>,
   EnableAccessSpec |-> <<U(4)>>,
   DisableAccessSpec |-> <<U(4)>>,
   GetReaderConfig |-> <<U(7)>>,
   SetReaderConfig |-> <<Masked(1, 128)>>]

CustomFields ==
  [CustomMessage |-> <<U(5), Rest>>]

VersionAndAddROSpecOrder ==
  [GetSupportedVersion |-> <<>>,
   GetSupportedVersionResponse |-> <<"LLRPStatus">>,
   SetProtocolVersion |-> <<>>,
   SetProtocolVersionResponse |-> <<"LLRPStatus">>,
   GetReaderCapabilities |-> <<"Custom">>,
   GetReaderCapabilitiesResponse |-> <<"LLRPStatus",
     "GeneralDeviceCapabilities", "LLRPCapabilities",
     "RegulatoryCapabilities", "C1G2LLRPCapabilities", "Custom">>,
   AddROSpec |-> <<"ROSpec">>,
   AddROSpecResponse |-> <<"LLRPStatus">>,
   DeleteROSpec |-> <<>>,
   DeleteROSpecResponse |-> <<"LLRPStatus">>,
   StartROSpec |-> <<>>]

ROSpecRequestOrder ==
  [StartROSpecResponse |-> <<"LLRPStatus">>,
   StopROSpec |-> <<>>,
   StopROSpecResponse |-> <<"LLRPStatus">>,
   EnableROSpec |-> <<>>,
   EnableROSpecResponse |-> <<"LLRPStatus">>,
   DisableROSpec |-> <<>>,
   DisableROSpecResponse |-> <<"LLRPStatus">>,
   GetROSpecs |-> <<>>,
   GetROSpecsResponse |-> <<"LLRPStatus", "ROSpec">>,
   AddAccessSpec |-> <<"AccessSpec">>,
   AddAccessSpecResponse |-> <<"LLRPStatus">>,
   DeleteAccessSpec |-> <<>>,
   DeleteAccessSpecResponse |-> <<"LLRPStatus">>]

AccessSpecRequestOrder ==
  [EnableAccessSpec |-> <<>>,
   EnableAccessSpecResponse |-> <<"LLRPStatus">>,
   DisableAccessSpec |-> <<>>,
   DisableAccessSpecResponse |-> <<"LLRPStatus">>,
   GetAccessSpecs |-> <<>>,
   GetAccessSpecsResponse |-> <<"LLRPStatus", "AccessSpec">>,
   ClientRequestOp |-> <<"TagReportData">>,
   ClientRequestOpResponse |-> <<"ClientRequestResponse">>,
   GetReport |-> <<>>,
   ROAccessReport |-> <<"TagReportData", "RFSurveyReportData", "Custom">>,
   KeepAlive |-> <<>>,
   KeepAliveAck |-> <<>>]

NoticeAndConfigOrder ==
  [ReaderEventNotification |-> <<"ReaderEventNotificationData">>,
   EnableEventsAndReports |-> <<>>,
   ErrorMessage |-> <<"LLRPStatus">>,
   GetReaderConfig |-> <<"Custom">>,
   GetReaderConfigResponse |-> <<"LLRPStatus", "Identification",
     "AntennaProperties", "AntennaConfiguration",
     "ReaderEventNotificationSpec", "ROReportSpec", "AccessReportSpec",
     "LLRPConfigurationStateValue", "KeepAliveSpec", "GPIPortCurrentState",
     "GPOWriteData", "EventsAndReports", "Custom">>]

ConfigAndClosingOrder ==
  [SetReaderConfig |-> <<"ReaderEventNotificationSpec", "AntennaProperties",
     "AntennaConfiguration", "ROReportSpec", "AccessReportSpec",
     "KeepAliveSpec", "GPOWriteData", "GPIPortCurrentState",
     "EventsAndReports", "Custom">>,
   SetReaderConfigResponse |-> <<"LLRPStatus">>,
   CloseConnection |-> <<>>,
   CloseConnectionResponse |-> <<"LLRPStatus">>,
   CustomMessage |-> <<>>]

TagReferenceTVs ==
  [AntennaID |-> Param(1, 3, <<U(2)>>, <<>>),
   FirstSeenUTC |-> Param(2, 9, <<U(8)>>, <<>>),
   FirstSeenUptime |-> Param(3, 9, <<U(8)>>, <<>>),
   LastSeenUTC |-> Param(4, 9, <<U(8)>>, <<>>),
   LastSeenUptime |-> Param(5, 9, <<U(8)>>, <<>>),
   PeakRSSI |-> Param(6, 2, <<U(1)>>, <<>>),
   ChannelIndex |-> Param(7, 3, <<U(2)>>, <<>>),
   TagSeenCount |-> Param(8, 3, <<U(2)>>, <<>>),
   ROSpecID |-> Param(9, 5, <<U(4)>>, <<>>)]

TagDataTVs ==
  [InventoryParameterSpecID |-> Param(10, 3, <<U(2)>>, <<>>),
   C1G2CRC |-> Param(11, 3, <<U(2)>>, <<>>),
   C1G2PC |-> Param(12, 3, <<U(2)>>, <<>>),
   EPC96 |-> Param(13, 13, <<U(12)>>, <<>>),
   SpecIndex |-> Param(14, 3, <<U(2)>>, <<>>),
   ClientRequestOpSpecResult |-> Param(15, 3, <<U(2)>>, <<>>),
   AccessSpecID |-> Param(16, 5, <<U(4)>>, <<>>),
   OpSpecID |-> Param(17, 3, <<U(2)>>, <<>>),
   C1G2SingulationDetails |-> Param(18, 5, <<U(4)>>, <<>>)]

TimestampsAndGeneralCapabilities ==
  [C1G2XPCW1 |-> Param(19, 3, <<U(2)>>, <<>>),
   C1G2XPCW2 |-> Param(20, 3, <<U(2)>>, <<>>),
   UTCTimestamp |-> Param(128, 12, <<U(8)>>, <<>>),
   Uptime |-> Param(129, 12, <<U(8)>>, <<>>),
   GeneralDeviceCapabilities |-> Param(137, 18, <<U(2), Masked(1, 192),
     Masked(1, 0), U(8), Array(1)>>, <<"ReceiveSensitivityTableEntry",
     "PerAntennaReceiveSensitivityRange", "GPIOCapabilities",
     "PerAntennaAirProtocol", "MaximumReceiveSensitivity">>),
   ReceiveSensitivityTableEntry |-> Param(139, 8, <<U(4)>>, <<>>)]

LLRPAndRegulatoryCapabilities ==
  [PerAntennaAirProtocol |-> Param(140, 8, <<U(2), Array(1)>>, <<>>),
   GPIOCapabilities |-> Param(141, 8, <<U(4)>>, <<>>),
   LLRPCapabilities |-> Param(142, 28, <<Masked(1, 248), U(23)>>, <<>>),
   RegulatoryCapabilities |-> Param(143, 8, <<U(4)>>, <<"UHFBandCapabilities",
     "Custom">>),
   UHFBandCapabilities |-> Param(144, 4, <<>>,
     <<"TransmitPowerLevelTableEntry", "FrequencyInformation",
     "UHFC1G2RFModeTable", "RFSurveyFrequencyCapabilities">>),
   TransmitPowerLevelTableEntry |-> Param(145, 8, <<U(4)>>, <<>>)]

FrequenciesAndROSpecs ==
  [FrequencyInformation |-> Param(146, 5, <<Masked(1, 128)>>,
     <<"FrequencyHopTable", "FixedFrequencyTable">>),
   FrequencyHopTable |-> Param(147, 8, <<U(1), Masked(1, 0), Array(4)>>, <<>>),
   FixedFrequencyTable |-> Param(148, 6, <<Array(4)>>, <<>>),
   PerAntennaReceiveSensitivityRange |-> Param(149, 10, <<U(6)>>, <<>>),
   ROSpec |-> Param(177, 10, <<U(6)>>, <<"ROBoundarySpec", "AISpec",
     "RFSurveySpec", "Custom", "LoopSpec", "ROReportSpec">>)]

ROSpecTriggers ==
  [ROBoundarySpec |-> Param(178, 4, <<>>, <<"ROSpecStartTrigger",
     "ROSpecStopTrigger">>),
   ROSpecStartTrigger |-> Param(179, 5, <<U(1)>>, <<"PeriodicTriggerValue",
     "GPITriggerValue">>),
   PeriodicTriggerValue |-> Param(180, 12, <<U(8)>>, <<"UTCTimestamp">>),
   GPITriggerValue |-> Param(181, 11, <<U(2), Masked(1, 128), U(4)>>, <<>>),
   ROSpecStopTrigger |-> Param(182, 9, <<U(5)>>, <<"GPITriggerValue">>)]

AISpecsAndInventory ==
  [AISpec |-> Param(183, 6, <<Array(2)>>, <<"AISpecStopTrigger",
     "InventoryParameterSpec", "Custom">>),
   AISpecStopTrigger |-> Param(184, 9, <<U(5)>>, <<"GPITriggerValue",
     "TagObservationTrigger">>),
   TagObservationTrigger |-> Param(185, 16, <<U(1), Masked(1, 0), U(10)>>,
     <<>>),
   InventoryParameterSpec |-> Param(186, 7, <<U(3)>>, <<"AntennaConfiguration",
     "Custom">>),
   RFSurveySpec |-> Param(187, 14, <<U(10)>>, <<"RFSurveySpecStopTrigger",
     "Custom">>)]

AccessSpecs ==
  [RFSurveySpecStopTrigger |-> Param(188, 13, <<U(9)>>, <<>>),
   AccessSpec |-> Param(207, 16, <<U(7), Masked(1, 128), U(4)>>,
     <<"AccessSpecStopTrigger", "AccessCommand", "AccessReportSpec",
     "Custom">>),
   AccessSpecStopTrigger |-> Param(208, 7, <<U(3)>>, <<>>)]

AccessCommands ==
  [AccessCommand |-> Param(209, 4, <<>>, <<"C1G2TagSpec", "C1G2Read",
     "C1G2Write", "C1G2Kill", "C1G2Recommission", "C1G2Lock",
     "C1G2BlockErase", "C1G2BlockWrite", "C1G2BlockPermalock",
     "C1G2GetBlockPermalockStatus", "ClientRequestOpSpec", "Custom">>),
   ClientRequestOpSpec |-> Param(210, 6, <<U(2)>>, <<>>)]

ClientRequestsAndStates ==
  [ClientRequestResponse |-> Param(211, 8, <<U(4)>>, <<"EPCData", "C1G2Read",
     "C1G2Write", "C1G2Kill", "C1G2Recommission", "C1G2Lock",
     "C1G2BlockErase", "C1G2BlockWrite", "C1G2BlockPermalock",
     "C1G2GetBlockPermalockStatus", "ClientRequestOpSpec", "Custom">>),
   LLRPConfigurationStateValue |-> Param(217, 8, <<U(4)>>, <<>>),
   Identification |-> Param(218, 7, <<U(1), Array(1)>>, <<>>)]

AntennaConfigurations ==
  [GPOWriteData |-> Param(219, 7, <<U(2), Masked(1, 128)>>, <<>>),
   KeepAliveSpec |-> Param(220, 9, <<U(5)>>, <<>>),
   AntennaProperties |-> Param(221, 9, <<Masked(1, 128), U(4)>>, <<>>),
   AntennaConfiguration |-> Param(222, 6, <<U(2)>>, <<"RFReceiver",
     "RFTransmitter", "C1G2InventoryCommand", "Custom">>),
   RFReceiver |-> Param(223, 6, <<U(2)>>, <<>>),
   RFTransmitter |-> Param(224, 10, <<U(6)>>, <<>>),
   GPIPortCurrentState |-> Param(225, 8, <<U(2), Masked(1, 128), U(1)>>, <<>>)]

ROReportSpecs ==
  [EventsAndReports |-> Param(226, 5, <<Masked(1, 128)>>, <<>>),
   ROReportSpec |-> Param(237, 7, <<U(3)>>, <<"TagReportContentSelector",
     "Custom">>),
   TagReportContentSelector |-> Param(238, 6, <<U(1), Masked(1, 192)>>,
     <<"C1G2EPCMemorySelector", "Custom">>),
   AccessReportSpec |-> Param(239, 5, <<U(1)>>, <<>>)]

TagReports ==
  [TagReportData |-> Param(240, 4, <<>>, <<"EPCData", "EPC96", "ROSpecID",
     "SpecIndex", "InventoryParameterSpecID", "AntennaID", "PeakRSSI",
     "ChannelIndex", "FirstSeenUTC", "FirstSeenUptime", "LastSeenUTC",
     "LastSeenUptime", "TagSeenCount", "C1G2PC", "C1G2XPCW1", "C1G2XPCW2",
     "C1G2CRC", "AccessSpecID", "C1G2ReadOpSpecResult",
     "C1G2WriteOpSpecResult", "C1G2KillOpSpecResult", "C1G2LockOpSpecResult",
     "C1G2BlockEraseOpSpecResult", "C1G2BlockWriteOpSpecResult",
     "C1G2RecommissionOpSpecResult", "C1G2BlockPermalockOpSpecResult",
     "C1G2GetBlockPermalockStatusOpSpecResult", "ClientRequestOpSpecResult",
     "Custom">>)]

TagIDsAndRFSurveyReports ==
  [EPCData |-> Param(241, 6, <<Bits>>, <<>>),
   RFSurveyReportData |-> Param(242, 4, <<>>, <<"ROSpecID", "SpecIndex",
     "FrequencyRSSILevelEntry", "Custom">>),
   FrequencyRSSILevelEntry |-> Param(243, 14, <<U(10)>>, <<"UTCTimestamp",
     "Uptime">>),
   ReaderEventNotificationSpec |-> Param(244, 4, <<>>,
     <<"EventNotificationState">>),
   EventNotificationState |-> Param(245, 7, <<U(2), Masked(1, 128)>>, <<>>)]

EventNotifications ==
  [ReaderEventNotificationData |-> Param(246, 4, <<>>, <<"UTCTimestamp",
     "Uptime", "HoppingEvent", "GPIEvent", "ROSpecEvent",
     "ReportBufferLevelWarningEvent", "ReportBufferOverflowErrorEvent",
     "ReaderExceptionEvent", "RFSurveyEvent", "AISpecEvent", "AntennaEvent",
     "ConnectionAttemptEvent", "ConnectionCloseEvent", "SpecLoopEvent",
     "Custom">>),
   HoppingEvent |-> Param(247, 6, <<U(2)>>, <<>>)]

ROSpecAndReaderEvents ==
  [GPIEvent |-> Param(248, 7, <<U(2), Masked(1, 128)>>, <<>>),
   ROSpecEvent |-> Param(249, 13, <<U(9)>>, <<>>),
   ReportBufferLevelWarningEvent |-> Param(250, 5, <<U(1)>>, <<>>),
   ReportBufferOverflowErrorEvent |-> Param(251, 4, <<>>, <<>>),
   ReaderExceptionEvent |-> Param(252, 6, <<Array(1)>>, <<"ROSpecID",
     "SpecIndex", "InventoryParameterSpecID", "AntennaID", "AccessSpecID",
     "OpSpecID", "Custom">>),
   RFSurveyEvent |-> Param(253, 9, <<U(5)>>, <<>>)]

AISpecEventsAndStatus ==
  [AISpecEvent |-> Param(254, 11, <<U(7)>>, <<"C1G2SingulationDetails">>),
   AntennaEvent |-> Param(255, 7, <<U(3)>>, <<>>),
   ConnectionAttemptEvent |-> Param(256, 6, <<U(2)>>, <<>>),
   ConnectionCloseEvent |-> Param(257, 4, <<>>, <<>>),
   LLRPStatus |-> Param(287, 8, <<U(2), Array(1)>>, <<"FieldError",
     "ParameterError">>),
   FieldError |-> Param(288, 8, <<U(4)>>, <<>>)]

ParameterErrorsAndC1G2Capabilities ==
  [ParameterError |-> Param(289, 8, <<U(4)>>, <<"ParameterError",
     "FieldError">>),
   C1G2LLRPCapabilities |-> Param(327, 7, <<Masked(1, 252), U(2)>>, <<>>),
   UHFC1G2RFModeTable |-> Param(328, 4, <<>>, <<"UHFC1G2RFModeTableEntry">>),
   UHFC1G2RFModeTableEntry |-> Param(329, 32, <<U(4), Masked(1, 192), U(23)>>,
     <<>>),
   C1G2InventoryCommand |-> Param(330, 5, <<Masked(1, 128)>>, <<"C1G2Filter",
     "C1G2RFControl", "C1G2SingulationControl", "Custom">>)]

C1G2FiltersAndSingulation ==
  [C1G2Filter |-> Param(331, 5, <<Masked(1, 192)>>, <<"C1G2TagInventoryMask",
     "C1G2TagInventoryStateAwareFilterAction",
     "C1G2TagInventoryStateUnawareFilterAction">>),
   C1G2TagInventoryMask |-> Param(332, 9, <<Masked(1, 192), U(2), Bits>>,
     <<>>),
   C1G2TagInventoryStateAwareFilterAction |-> Param(333, 6, <<U(2)>>, <<>>),
   C1G2TagInventoryStateUnawareFilterAction |-> Param(334, 5, <<U(1)>>, <<>>),
   C1G2RFControl |-> Param(335, 8, <<U(4)>>, <<>>),
   C1G2SingulationControl |-> Param(336, 11, <<Masked(1, 192), U(6)>>,
     <<"C1G2TagInventoryStateAwareSingulationAction">>),
   C1G2TagInventoryStateAwareSingulationAction |-> Param(337, 5, <<Masked(1,
     192)>>, <<>>)]

C1G2TagSpecsReadWriteLock ==
  [C1G2TagSpec |-> Param(338, 4, <<>>, <<"TagPattern1", "TagPattern2">>),
   C1G2TargetTag |-> Param(339, 11, <<Masked(1, 224), U(2), Bits, Bits>>,
     <<>>),
   C1G2Read |-> Param(341, 15, <<U(6), Masked(1, 192), U(4)>>, <<>>),
   C1G2Write |-> Param(342, 15, <<U(6), Masked(1, 192), U(2), Array(2)>>,
     <<>>),
   C1G2Kill |-> Param(343, 10, <<U(6)>>, <<>>),
   C1G2Lock |-> Param(344, 10, <<U(6)>>, <<"C1G2LockPayload">>)]

C1G2EraseAndResults ==
  [C1G2LockPayload |-> Param(345, 6, <<U(2)>>, <<>>),
   C1G2BlockErase |-> Param(346, 15, <<U(6), Masked(1, 192), U(4)>>, <<>>),
   C1G2BlockWrite |-> Param(347, 15, <<U(6), Masked(1, 192), U(2), Array(2)>>,
     <<>>),
   C1G2EPCMemorySelector |-> Param(348, 5, <<Masked(1, 224)>>, <<>>),
   C1G2ReadOpSpecResult |-> Param(349, 9, <<U(3), Array(2)>>, <<>>),
   C1G2WriteOpSpecResult |-> Param(350, 9, <<U(5)>>, <<>>),
   C1G2KillOpSpecResult |-> Param(351, 7, <<U(3)>>, <<>>),
   C1G2LockOpSpecResult |-> Param(352, 7, <<U(3)>>, <<>>)]

C1G2ResultsAndRecommission ==
  [C1G2BlockEraseOpSpecResult |-> Param(353, 7, <<U(3)>>, <<>>),
   C1G2BlockWriteOpSpecResult |-> Param(354, 9, <<U(5)>>, <<>>),
   LoopSpec |-> Param(355, 8, <<U(4)>>, <<>>),
   SpecLoopEvent |-> Param(356, 12, <<U(8)>>, <<>>),
   C1G2Recommission |-> Param(357, 11, <<U(6), Masked(1, 7)>>, <<>>),
   C1G2BlockPermalock |-> Param(358, 15, <<U(6), Masked(1, 192), U(2),
     Array(2)>>, <<>>),
   C1G2GetBlockPermalockStatus |-> Param(359, 15, <<U(6), Masked(1, 192),
     U(4)>>, <<>>),
   C1G2RecommissionOpSpecResult |-> Param(360, 7, <<U(3)>>, <<>>)]

C1G2PermalockAndCustom ==
  [C1G2BlockPermalockOpSpecResult |-> Param(361, 7, <<U(3)>>, <<>>),
   C1G2GetBlockPermalockStatusOpSpecResult |-> Param(362, 9, <<U(3),
     Array(2)>>, <<>>),
   MaximumReceiveSensitivity |-> Param(363, 6, <<U(2)>>, <<>>),
   RFSurveyFrequencyCapabilities |-> Param(365, 12, <<U(8)>>, <<>>),
   Custom |-> Param(1023, 12, <<U(8), Rest>>, <<>>)]

(* A message that is in neither table of fields has none. *)
MessageFields == RequestFields @@ ReaderConfigFields @@ CustomFields

MessageOrder ==
  VersionAndAddROSpecOrder @@ ROSpecRequestOrder @@ AccessSpecRequestOrder
    @@ NoticeAndConfigOrder @@ ConfigAndClosingOrder

ParameterEncoder ==
  TagReferenceTVs @@ TagDataTVs @@ TimestampsAndGeneralCapabilities @@
    LLRPAndRegulatoryCapabilities @@ FrequenciesAndROSpecs @@ ROSpecTriggers
    @@ AISpecsAndInventory @@ AccessSpecs @@ AccessCommands @@
    ClientRequestsAndStates @@ AntennaConfigurations @@ ROReportSpecs @@
    TagReports @@ TagIDsAndRFSurveyReports @@ EventNotifications @@
    ROSpecAndReaderEvents @@ AISpecEventsAndStatus @@
    ParameterErrorsAndC1G2Capabilities @@ C1G2FiltersAndSingulation @@
    C1G2TagSpecsReadWriteLock @@ C1G2EraseAndResults @@
    C1G2ResultsAndRecommission @@ C1G2PermalockAndCustom

=============================================================================
