---------------------------- MODULE LLRPMessages ----------------------------
(***************************************************************************)
(* The LLRP messages a Client exchanges with a reader, reduced to what the *)
(* connection logic of pkg/llrp/reader.go looks at: the type, the message  *)
(* ID, the protocol version of the header and what the payload does to the *)
(* code that reads it.                                                     *)
(***************************************************************************)
EXTENDS Naturals, Sequences

(* The protocol versions, pkg/llrp/params.go: Version1_0_1 and Version1_1. *)
Version1_0_1 == 1
Version1_1 == 2
Versions == {Version1_0_1, Version1_1}
VersionMin == Version1_0_1

(* A header written with version 0 is stamped by handleOutgoing. *)
Unstamped == 0

VersionRequests == {"GetSupportedVersion", "SetProtocolVersion"}

(* GetReaderConfig stands for every request a caller of SendMessage awaits *)
(* an answer to.                                                           *)
AwaitedRequests == VersionRequests \cup {"GetReaderConfig", "CloseConnection"}

(* EnableEventsAndReports stands for what is sent without awaiting. *)
OutgoingTypes ==
  AwaitedRequests \cup {"EnableEventsAndReports", "KeepAliveAck"}

(* The part of mirrorType that the modelled requests use. *)
Converse ==
  [GetSupportedVersion |-> "GetSupportedVersionResponse",
   SetProtocolVersion  |-> "SetProtocolVersionResponse",
   GetReaderConfig     |-> "GetReaderConfigResponse",
   CloseConnection     |-> "CloseConnectionResponse"]

UnsolicitedTypes == {"KeepAlive", "ROAccessReport"}

IncomingTypes ==
  {Converse[t] : t \in AwaitedRequests} \cup UnsolicitedTypes
    \cup {"ErrorMessage", "ReaderEventNotification"}

(***************************************************************************)
(* What reading the payload finds:                                         *)
(*   "ok"           a payload whose LLRPStatus, if any, is Success          *)
(*   "rejected"     a payload that does not decode or reports an error      *)
(*   "unsupported"  the status StatusMsgVerUnsupported                     *)
(*   "huge"         more than MaxBufferedPayloadSz bytes                    *)
(*   "cut"          the connection ends before payloadLen bytes             *)
(***************************************************************************)
Bodies == {"ok", "rejected", "unsupported", "huge", "cut"}

(* Header and payload of a message on its way to the reader. *)
Outgoing(ids) == [type: OutgoingTypes, id: ids, version: {Unstamped} \cup Versions]

(* Header and payload of a message on its way to the Client. *)
Incoming(ids) == [type: IncomingTypes, id: ids, body: Bodies]

(* newMessage gives every request of the package this header version. *)
NewHdrOnlyMsg(type, id) == [type |-> type, id |-> id, version |-> VersionMin]

KeepAliveAck(id) == [type |-> "KeepAliveAck", id |-> id, version |-> Unstamped]

=============================================================================
