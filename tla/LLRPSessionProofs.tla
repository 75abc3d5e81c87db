-------------------------- MODULE LLRPSessionProofs --------------------------
(***************************************************************************)
(* Theorems about LLRPSession, for every value of its constants: any       *)
(* number of callers, any modulus of the message IDs, any size of the      *)
(* acknowledgement queue, any reader.                                      *)
(***************************************************************************)
EXTENDS LLRPSession, TLAPS

-----------------------------------------------------------------------------
(* Facts about the operators the actions use.                              *)

LEMMA RequestNames ==
  Requests = {"SendMessage", "SendNoWait", "Shutdown", "GetSupportedVersion", "SetProtocolVersion"}
BY DEF Requests, RequestType

(* The messages the Client and the reader make are well formed. *)
LEMMA MessagesTyped ==
  /\ NoReply \in Incoming(Ids)
  /\ NoRequest \in Outgoing(Ids)
  /\ \A i \in Ids : KeepAliveAck(i) \in Outgoing(Ids)
  /\ \A i \in Ids, o \in Requests : NewHdrOnlyMsg(RequestType[o], i) \in Outgoing(Ids)
  /\ \A b \in Bodies : Hello(b) \in Incoming(Ids)
<1>1. 0 \in Ids
  BY ClientAssumption DEF Ids
<1>2. \A o \in Requests : RequestType[o] \in OutgoingTypes
  BY DEF Requests, RequestType, OutgoingTypes, AwaitedRequests, VersionRequests
<1>. QED
  BY <1>1, <1>2 DEF NoReply, NoRequest, KeepAliveAck, NewHdrOnlyMsg, Hello, Incoming,
    Outgoing, OutgoingTypes, IncomingTypes, Bodies, Versions, Version1_0_1, Version1_1,
    VersionMin, Unstamped

(* Stamping keeps a message well formed. *)
LEMMA StampedType == ASSUME TypeOK, NEW m \in Outgoing(Ids) PROVE Stamped(m) \in Outgoing(Ids)
<1>1. version \in Versions
  BY DEF TypeOK, ConnectTypeOK
<1>. QED
  BY <1>1 DEF Stamped, Outgoing, Versions, Version1_0_1, Version1_1

LEMMA SupportedVersionsType == \A m : SupportedVersions(m) \subseteq Versions \X Versions
BY ClientAssumption DEF SupportedVersions, Versions, Version1_0_1, Version1_1

LEMMA LesserType == \A v, w \in Versions : Lesser(v, w) \in Versions
BY DEF Lesser

(* The next message ID is one, whether or not the IDs wrap. *)
LEMMA NextIDType == ASSUME NEW i \in Ids PROVE (i + 1) % IdMod \in Ids
BY ClientAssumption DEF Ids

(* What is read from the connection is a message, and leaves a stream. *)
LEMMA ReadType ==
  ASSUME TypeOK, CanRead
  PROVE  Head(stream) \in Incoming(Ids) /\ Tail(stream) \in Seq(Incoming(Ids))
BY DEF TypeOK, NetworkTypeOK, CanRead

LEMMA RepliesType ==
  ASSUME NEW m \in Outgoing(Ids), m.type \in AwaitedRequests
  PROVE  Replies(m) \subseteq Incoming(Ids)
<1>1. Converse[m.type] \in IncomingTypes
  BY DEF IncomingTypes
<1>2. m.id \in Ids
  BY DEF Outgoing
<1>3. ReplyBodies \subseteq Bodies
  BY ReaderAssumption
<1>. QED
  BY <1>1, <1>2, <1>3 DEF Replies, Incoming, IncomingTypes, Bodies

-----------------------------------------------------------------------------
(* Type correctness                                                        *)

LEMMA InitTypeOK == Init => TypeOK
<1>. SUFFICES ASSUME Init PROVE TypeOK
  OBVIOUS
<1>. USE DEF Init, ClientInit
<1>0. 0 \in Ids
  BY ClientAssumption DEF Ids
<1>1. ConnectTypeOK
  <2>1. errs \in Seq({"closed", "error"})
    OBVIOUS
  <2>2. ready \in BOOLEAN /\ done \in BOOLEAN
    OBVIOUS
  <2>3. version \in Versions
    BY ClientAssumption
  <2>4. connPc = "idle" /\ connErr = "none"
    OBVIOUS
  <2>. QED
    BY <2>1, <2>2, <2>3, <2>4 DEF ConnectTypeOK
<1>2. GoroutineTypeOK
  <2>1. awaiting \in [Ids -> Callers \cup {NoCaller}]
    OBVIOUS
  <2>2. outMsg \in Outgoing(Ids) /\ nextMsgID \in Ids
    BY <1>0, MessagesTyped
  <2>3. inMsg \in Incoming(Ids) /\ inTarget \in Callers \cup {NoCaller}
    BY MessagesTyped
  <2>4. ackQueue \in Seq(Ids) /\ Len(ackQueue) <= AckQueueSize
    BY ClientAssumption
  <2>5. outPc = "off" /\ inPc = "off" /\ crash = "none" /\ bypassed \in Nat
    OBVIOUS
  <2>6. receivedClosed \in BOOLEAN
    OBVIOUS
  <2>. QED
    BY <2>1, <2>2, <2>3, <2>4, <2>5, <2>6 DEF GoroutineTypeOK
<1>3. CallTypeOK
  BY <1>0, MessagesTyped DEF CallTypeOK, CallerPhases, Outcomes
<1>4. NetworkTypeOK
  <2>1. stream \in Seq(Incoming(Ids))
    <3>1. Hello("ok") \in Incoming(Ids) /\ Hello("rejected") \in Incoming(Ids)
      BY MessagesTyped DEF Bodies
    <3>2. CASE stream = <<Hello("ok")>>
      BY <3>1, <3>2
    <3>3. CASE stream = <<Hello("rejected")>>
      BY <3>1, <3>3
    <3>4. CASE stream = <<>>
      BY <3>4
    <3>. QED
      BY <3>2, <3>3, <3>4
  <2>2. wire \in Seq(Outgoing(Ids)) /\ answered \subseteq DOMAIN wire
    OBVIOUS
  <2>3. peer = "up" /\ connOpen \in BOOLEAN /\ unsolicited \in 0 .. MaxUnsolicited
    BY ReaderAssumption
  <2>. QED
    BY <2>1, <2>2, <2>3 DEF NetworkTypeOK
<1>. QED
  BY <1>1, <1>2, <1>3, <1>4 DEF TypeOK

(* The steps of Connect keep the types. *)
LEMMA ConnectTypeStep ==
  ASSUME TypeOK, ConnectStep, UNCHANGED <<answered, unsolicited>>
  PROVE  TypeOK'
<1>. USE DEF TypeOK, ConnectTypeOK, GoroutineTypeOK, CallTypeOK, NetworkTypeOK, CallerPhases,
     Outcomes, connectVars, outgoingVars, incomingVars, ackVars, replyVars, callVars, networkVars
<1>1. CASE StartConnect
  BY <1>1 DEF StartConnect
<1>2. CASE ReadHello
  <2>1. CallTypeOK'
    <3>1. CASE version > Version1_0_1
      BY <1>2, <3>1, RequestNames DEF ReadHello, SendFromConnect, Callers
    <3>2. CASE version = Version1_0_1
      BY <1>2, <3>2 DEF ReadHello, Version1_0_1
    <3>. QED
      BY <1>2, <3>1, <3>2 DEF ReadHello
  <2>2. NetworkTypeOK'
    BY <1>2, ReadType DEF ReadHello
  <2>3. ConnectTypeOK' /\ GoroutineTypeOK'
    BY <1>2 DEF ReadHello
  <2>. QED
    BY <2>1, <2>2, <2>3
<1>3. CASE HelloFails
  <2>1. NetworkTypeOK'
    <3>1. CASE stream' = Tail(stream) /\ CanRead
      BY <1>3, <3>1, ReadType DEF HelloFails
    <3>2. CASE UNCHANGED stream
      BY <1>3, <3>2 DEF HelloFails
    <3>. QED
      BY <1>3, <3>1, <3>2 DEF HelloFails
  <2>2. ConnectTypeOK' /\ GoroutineTypeOK' /\ CallTypeOK'
    BY <1>3 DEF HelloFails
  <2>. QED
    BY <2>1, <2>2
<1>4. CASE Refused
  BY <1>4 DEF Refused, CloseDone
<1>5. CASE NegotiationAborted
  BY <1>5 DEF NegotiationAborted, FailNegotiation, CloseDone
<1>6. CASE NegotiationRefused
  BY <1>6 DEF NegotiationRefused, FailNegotiation, CloseDone
<1>7. CASE GotSupportedVersion
  <2>. PICK sv \in SupportedVersions(reply[Conn]) :
         /\ version' = Lesser(version, sv[2])
         /\ \/ /\ sv[1] = version'
               /\ connPc' = "open"
               /\ UNCHANGED callVars
            \/ /\ sv[1] # version'
               /\ connPc' = "setVersion"
               /\ SendFromConnect("SetProtocolVersion")
               /\ UNCHANGED <<mid, outcome>>
    BY <1>7 DEF GotSupportedVersion
  <2>1. version' \in Versions
    BY SupportedVersionsType, LesserType
  <2>2. ConnectTypeOK'
    BY <1>7, <2>1 DEF GotSupportedVersion
  <2>3. CallTypeOK'
    <3>1. CASE UNCHANGED callVars
      BY <1>7, <3>1 DEF GotSupportedVersion
    <3>2. CASE SendFromConnect("SetProtocolVersion") /\ UNCHANGED <<mid, outcome>>
      BY <1>7, <3>2, RequestNames DEF GotSupportedVersion, SendFromConnect, Callers
    <3>. QED
      BY <3>1, <3>2
  <2>4. GoroutineTypeOK' /\ NetworkTypeOK'
    BY <1>7 DEF GotSupportedVersion
  <2>. QED
    BY <2>2, <2>3, <2>4
<1>8. CASE HugeSupportedVersion
  BY <1>8 DEF HugeSupportedVersion
<1>9. CASE GotSetVersion
  BY <1>9 DEF GotSetVersion
<1>10. CASE Open
  BY <1>10 DEF Open
<1>11. CASE ServeError
  BY <1>11 DEF ServeError, CloseDone
<1>12. CASE ServeDone
  BY <1>12 DEF ServeDone
<1>13. CASE Join
  BY <1>13 DEF Join
<1>. QED
  BY <1>1, <1>2, <1>3, <1>4, <1>5, <1>6, <1>7, <1>8, <1>9, <1>10, <1>11, <1>12, <1>13 DEF ConnectStep

(* The steps of handleOutgoing keep the types. *)
LEMMA OutgoingTypeStep ==
  ASSUME TypeOK, OutgoingStep, UNCHANGED <<answered, unsolicited>>
  PROVE  TypeOK'
<1>. USE DEF TypeOK, ConnectTypeOK, GoroutineTypeOK, CallTypeOK, NetworkTypeOK, CallerPhases,
     Outcomes, connectVars, outgoingVars, incomingVars, ackVars, replyVars, callVars, networkVars
<1>1. CASE OutSeesDone
  BY <1>1 DEF OutSeesDone, OutStops
<1>2. CASE OutFindsNoAck
  BY <1>2 DEF OutFindsNoAck
<1>3. CASE OutTakesAck
  <2>1. Head(ackQueue) \in Ids /\ Tail(ackQueue) \in Seq(Ids)
        /\ Len(Tail(ackQueue)) <= AckQueueSize
    BY <1>3, ClientAssumption DEF OutTakesAck
  <2>2. GoroutineTypeOK'
    BY <1>3, <2>1, MessagesTyped DEF OutTakesAck
  <2>3. ConnectTypeOK' /\ CallTypeOK' /\ NetworkTypeOK'
    BY <1>3 DEF OutTakesAck
  <2>. QED
    BY <2>2, <2>3
<1>4. ASSUME NEW p \in Callers, OutTakesRequest(p)
      PROVE  TypeOK'
  <2>1. op[p] \in Requests
    BY <1>4 DEF OutTakesRequest
  <2>2. outMsg' \in Outgoing(Ids)
    BY <1>4, <2>1, MessagesTyped DEF OutTakesRequest
  <2>3. nextMsgID' \in Ids
    BY <1>4, NextIDType DEF OutTakesRequest, NextID
  <2>4. awaiting' \in [Ids -> Callers \cup {NoCaller}]
    <3>1. awaiting' = awaiting \/ awaiting' = [awaiting EXCEPT ![nextMsgID] = p]
      BY <1>4 DEF OutTakesRequest, Register
    <3>2. awaiting \in [Ids -> Callers \cup {NoCaller}]
      OBVIOUS
    <3>. QED
      BY <3>1, <3>2
  <2>5. GoroutineTypeOK'
    BY <1>4, <2>2, <2>3, <2>4 DEF OutTakesRequest
  <2>6. CallTypeOK'
    BY ZenonT(60), <1>4 DEF OutTakesRequest, Register
  <2>7. ConnectTypeOK' /\ NetworkTypeOK'
    BY <1>4 DEF OutTakesRequest
  <2>. QED
    BY <2>5, <2>6, <2>7
<1>5. CASE OutWrites
  <2>1. Stamped(outMsg) \in Outgoing(Ids)
    BY StampedType
  <2>2. NetworkTypeOK'
    BY <1>5, <2>1 DEF OutWrites
  <2>3. ConnectTypeOK' /\ GoroutineTypeOK' /\ CallTypeOK'
    BY <1>5 DEF OutWrites, NextAfterWrite
  <2>. QED
    BY <2>2, <2>3
<1>6. CASE OutWriteFails
  BY <1>6 DEF OutWriteFails, OutStops
<1>. QED
  BY <1>1, <1>2, <1>3, <1>4, <1>5, <1>6 DEF OutgoingStep

(* The steps of handleIncoming keep the types. *)
LEMMA IncomingTypeStep ==
  ASSUME TypeOK, IncomingStep, UNCHANGED <<answered, unsolicited>>
  PROVE  TypeOK'
<1>. USE DEF TypeOK, ConnectTypeOK, GoroutineTypeOK, CallTypeOK, NetworkTypeOK, CallerPhases,
     Outcomes, connectVars, outgoingVars, incomingVars, ackVars, replyVars, callVars, networkVars
<1>1. CASE InSeesDone
  BY <1>1 DEF InSeesDone, InStops
<1>2. CASE InContinues
  BY <1>2 DEF InContinues
<1>3. CASE InReads
  <2>1. Head(stream) \in Incoming(Ids) /\ Tail(stream) \in Seq(Incoming(Ids))
    BY <1>3, ReadType DEF InReads
  <2>2. Head(stream).id \in Ids
    BY <2>1 DEF Incoming
  <2>3. inTarget' \in Callers \cup {NoCaller}
    BY <1>3, <2>2 DEF InReads
  <2>4. awaiting' \in [Ids -> Callers \cup {NoCaller}]
    BY <1>3 DEF InReads, RemoveAwaiting
  <2>5. inPc' = "deliver" => inTarget' \in Callers
    BY <1>3, <2>3 DEF InReads, NeedsReply
  <2>6. receivedClosed' \in BOOLEAN
    BY <1>3 DEF InReads
  <2>7. GoroutineTypeOK'
    BY <1>3, <2>1, <2>3, <2>4, <2>5, <2>6 DEF InReads
  <2>8. NetworkTypeOK'
    BY <1>3, <2>1 DEF InReads
  <2>9. ConnectTypeOK' /\ CallTypeOK'
    BY <1>3 DEF InReads
  <2>. QED
    BY <2>7, <2>8, <2>9
<1>4. CASE InReadFails
  <2>1. CASE InStops("error")
    BY <1>4, <2>1 DEF InStops
  <2>2. CASE AwaitClose
    BY <2>2 DEF AwaitClose
  <2>. QED
    BY <1>4, <2>1, <2>2 DEF InReadFails
<1>5. CASE InDelivers
  BY <1>5 DEF InDelivers
<1>6. CASE InReplyCut
  <2>1. CASE InStops("error")
    BY <1>6, <2>1 DEF InStops
  <2>2. CASE ~InStops("error")
    BY <1>6, <2>2 DEF InReplyCut
  <2>. QED
    BY <2>1, <2>2
<1>7. CASE InHandles
  <2>1. inMsg.id \in Ids
    BY DEF Incoming
  <2>2. ackQueue' \in Seq(Ids) /\ Len(ackQueue') <= AckQueueSize
    BY <1>7, <2>1, ClientAssumption DEF InHandles
  <2>3. GoroutineTypeOK'
    BY <1>7, <2>2 DEF InHandles
  <2>4. ConnectTypeOK' /\ CallTypeOK' /\ NetworkTypeOK'
    BY <1>7 DEF InHandles
  <2>. QED
    BY <2>3, <2>4
<1>8. CASE InDiscardFails
  BY <1>8 DEF InDiscardFails, InStops
<1>. QED
  BY <1>1, <1>2, <1>3, <1>4, <1>5, <1>6, <1>7, <1>8 DEF IncomingStep

(* The steps of the callers keep the types. *)
LEMMA CallerTypeStep ==
  ASSUME TypeOK, NEW p \in Callers, CallerStep(p), UNCHANGED <<answered, unsolicited>>
  PROVE  TypeOK'
<1>. USE DEF TypeOK, ConnectTypeOK, GoroutineTypeOK, CallTypeOK, NetworkTypeOK, CallerPhases,
     Outcomes, connectVars, outgoingVars, incomingVars, ackVars, replyVars, callVars, networkVars
<1>1. CASE PassGate(p)
  <2>1. ConnectTypeOK' /\ GoroutineTypeOK' /\ NetworkTypeOK'
    BY <1>1 DEF PassGate
  <2>2. CallTypeOK'
    BY <1>1 DEF PassGate
  <2>. QED
    BY <2>1, <2>2
<1>2. CASE Withdraw(p)
  <2>1. ConnectTypeOK' /\ GoroutineTypeOK' /\ NetworkTypeOK'
    BY <1>2 DEF Withdraw
  <2>2. CallTypeOK'
    BY <1>2 DEF Withdraw, StopsWaiting, Returns
  <2>. QED
    BY <2>1, <2>2
<1>3. CASE GiveUp(p)
  <2>1. ConnectTypeOK' /\ NetworkTypeOK'
    BY <1>3 DEF GiveUp
  <2>2. GoroutineTypeOK'
    BY <1>3 DEF GiveUp, Cancel
  <2>3. CallTypeOK'
    BY ZenonT(60), <1>3 DEF GiveUp, StopsWaiting, Returns, Cancel
  <2>. QED
    BY <2>1, <2>2, <2>3
<1>4. CASE Receive(p)
  <2>1. ConnectTypeOK' /\ GoroutineTypeOK' /\ NetworkTypeOK'
    <3>1. ConnectTypeOK'
      BY <1>4 DEF Receive
    <3>2. GoroutineTypeOK'
      BY <1>4 DEF Receive
    <3>3. NetworkTypeOK'
      BY <1>4 DEF Receive
    <3>. QED
      BY <3>1, <3>2, <3>3
  <2>2. CallTypeOK'
    BY <1>4 DEF Receive, Returns
  <2>. QED
    BY <2>1, <2>2
<1>5. CASE CallClose(p)
  <2>1. ConnectTypeOK' /\ GoroutineTypeOK' /\ NetworkTypeOK'
    <3>1. ConnectTypeOK'
      BY <1>5 DEF CallClose
    <3>2. GoroutineTypeOK'
      BY <1>5 DEF CallClose
    <3>3. NetworkTypeOK'
      BY <1>5 DEF CallClose
    <3>. QED
      BY <3>1, <3>2, <3>3
  <2>2. CallTypeOK'
    BY <1>5 DEF CallClose, Returns
  <2>. QED
    BY <2>1, <2>2
<1>. QED
  BY <1>1, <1>2, <1>3, <1>4, <1>5 DEF CallerStep

(* A sender begins one of the operations of the program. *)
LEMMA BeginTypeStep ==
  ASSUME TypeOK, NEW p \in Senders, NEW o \in Operations, Begin(p, o),
         UNCHANGED <<answered, unsolicited>>
  PROVE  TypeOK'
<1>. USE DEF TypeOK, ConnectTypeOK, GoroutineTypeOK, CallTypeOK, NetworkTypeOK,
     connectVars, outgoingVars, incomingVars, ackVars, replyVars, networkVars
<1>1. o \in Requests \cup {"Close"} /\ (o # "Close" => o \in Requests)
  BY CallersAssumption, RequestNames
<1>2. ConnectTypeOK' /\ GoroutineTypeOK' /\ NetworkTypeOK'
  BY DEF Begin
<1>3. CallTypeOK'
  BY <1>1 DEF Begin, CallerPhases, Outcomes, Callers
<1>. QED
  BY <1>2, <1>3

(* The reader puts well formed messages in the stream. *)
LEMMA ReaderTypeStep ==
  ASSUME TypeOK, ReaderStep
  PROVE  TypeOK'
<1>. USE DEF TypeOK, ConnectTypeOK, GoroutineTypeOK, CallTypeOK, NetworkTypeOK,
     connectVars, outgoingVars, incomingVars, ackVars, replyVars, callVars, networkVars
<1>1. ASSUME NEW i \in DOMAIN wire, Answer(i)
      PROVE  TypeOK'
  <2>1. wire[i] \in Outgoing(Ids) /\ wire[i].type \in AwaitedRequests
    BY <1>1 DEF Answer
  <2>2. Replies(wire[i]) \subseteq Incoming(Ids)
    BY <2>1, RepliesType
  <2>3. NetworkTypeOK'
    BY <1>1, <2>2 DEF Answer
  <2>4. ConnectTypeOK' /\ GoroutineTypeOK' /\ CallTypeOK'
    BY <1>1 DEF Answer
  <2>. QED
    BY <2>3, <2>4
<1>2. CASE Notify
  <2>1. \A t \in UnsolicitedTypes, i \in UnsolicitedIds :
          [type |-> t, id |-> i, body |-> "ok"] \in Incoming(Ids)
    BY ReaderAssumption DEF Incoming, IncomingTypes, Bodies
  <2>2. unsolicited' \in 0 .. MaxUnsolicited
    BY <1>2, ReaderAssumption DEF Notify
  <2>3. stream' \in Seq(Incoming(Ids))
    BY <1>2, <2>1 DEF Notify
  <2>4. NetworkTypeOK'
    BY <1>2, <2>2, <2>3 DEF Notify
  <2>5. ConnectTypeOK' /\ GoroutineTypeOK' /\ CallTypeOK'
    BY <1>2 DEF Notify
  <2>. QED
    BY <2>4, <2>5
<1>3. CASE Hangup
  BY <1>3 DEF Hangup
<1>. QED
  BY <1>1, <1>2, <1>3 DEF ReaderStep

LEMMA OwnerTypeStep == ASSUME TypeOK, OwnerCloses PROVE TypeOK'
<1>. USE DEF connectVars, outgoingVars, incomingVars, ackVars, replyVars, callVars, networkVars
<1>1. ConnectTypeOK' /\ GoroutineTypeOK'
  BY DEF OwnerCloses, TypeOK, ConnectTypeOK, GoroutineTypeOK
<1>2. CallTypeOK'
  BY DEF OwnerCloses, TypeOK, CallTypeOK
<1>3. NetworkTypeOK'
  BY DEF OwnerCloses, TypeOK, NetworkTypeOK
<1>. QED
  BY <1>1, <1>2, <1>3 DEF TypeOK

LEMMA StutterTypeStep == ASSUME TypeOK, UNCHANGED vars PROVE TypeOK'
BY DEF vars, clientVars, TypeOK, ConnectTypeOK, GoroutineTypeOK, CallTypeOK, NetworkTypeOK,
  connectVars, outgoingVars, incomingVars, ackVars, replyVars, callVars, networkVars

(***************************************************************************)
(* Every variable keeps its type, and every message in the stream, on the  *)
(* wire and in the Client is one that the protocol knows (reader.go).      *)
(***************************************************************************)
THEOREM TypeCorrect == Spec => []TypeOK
<1>1. Init => TypeOK
  BY InitTypeOK
<1>2. TypeOK /\ [Next]_vars => TypeOK'
  <2>. SUFFICES ASSUME TypeOK, [Next]_vars PROVE TypeOK'
    OBVIOUS
  <2>1. CASE ClientStep
    BY <2>1, ConnectTypeStep, OutgoingTypeStep, IncomingTypeStep, CallerTypeStep, BeginTypeStep
    DEF ClientStep
  <2>2. CASE ReaderStep
    BY <2>2, ReaderTypeStep
  <2>3. CASE OwnerCloses
    BY <2>3, OwnerTypeStep
  <2>4. CASE UNCHANGED vars
    BY <2>4, StutterTypeStep
  <2>. QED
    BY <2>1, <2>2, <2>3, <2>4 DEF Next, Rest
<1>. QED
  BY <1>1, <1>2, PTL DEF Spec

-----------------------------------------------------------------------------
(* No replyChan is closed twice                                            *)

(***************************************************************************)
(* The inductive invariant: NoChannelPanic follows from a step of GiveUp   *)
(* or InDelivers only if the channel it closes is open, which is what      *)
(* ChannelOwnership says of every channel an entry or a delivery holds.    *)
(***************************************************************************)
ChannelInv == TypeOK /\ ChannelOwnership /\ NoChannelPanic

(* No entry of the awaiting map and no delivery holds p's replyChan. *)
Unowned(p) == (\A i \in Ids : awaiting[i] # p) /\ (inPc = "deliver" => inTarget # p)

BeforeRequest == {"idle", "gate", "offer"}

LEMMA InitChannelInv == Init => ChannelInv
<1>. SUFFICES ASSUME Init PROVE ChannelInv
  OBVIOUS
<1>1. TypeOK
  BY InitTypeOK
<1>2. ChannelOwnership
  BY CallersAssumption DEF Init, ClientInit, ChannelOwnership, EntryOwnsItsChannel,
    DeliveryOwnsItsChannel, OfferedHasNoChannel, NegotiatorIsDoneWaiting, Callers
<1>. QED
  BY <1>1, <1>2 DEF ChannelInv, NoChannelPanic, Init, ClientInit

(* What a step must keep if it leaves the channels and the map alone. *)
LEMMA OwnershipFrame ==
  ASSUME TypeOK, ChannelOwnership,
         UNCHANGED <<awaiting, chan, mid>>,
         inPc' = "deliver" => inPc = "deliver" /\ inTarget' = inTarget,
         \A p \in Callers :
           phase'[p] \in BeforeRequest => phase[p] \in BeforeRequest \/ Unowned(p),
         connPc' \in {"idle", "hello"} =>
           connPc \in {"idle", "hello"} /\ phase'[Conn] = phase[Conn],
         phase'[Conn] = "returned" /\ outcome'[Conn] = "reply" => chan[Conn] = "full"
  PROVE  ChannelOwnership'
<1>. USE DEF ChannelOwnership
<1>1. EntryOwnsItsChannel'
  BY DEF EntryOwnsItsChannel
<1>2. DeliveryOwnsItsChannel'
  BY DEF DeliveryOwnsItsChannel
<1>3. OfferedHasNoChannel'
  BY DEF OfferedHasNoChannel, Unowned, BeforeRequest
<1>4. NegotiatorIsDoneWaiting'
  BY DEF NegotiatorIsDoneWaiting
<1>. QED
  BY <1>1, <1>2, <1>3, <1>4

(* A step that touches no caller and no part of the awaiting protocol. *)
LEMMA OwnershipStutter ==
  ASSUME TypeOK, ChannelOwnership,
         UNCHANGED <<awaiting, chan, mid, phase, outcome>>,
         inPc' = "deliver" => inPc = "deliver" /\ inTarget' = inTarget,
         connPc' \in {"idle", "hello"} => connPc \in {"idle", "hello"}
  PROVE  ChannelOwnership'
BY OwnershipFrame DEF ChannelOwnership, NegotiatorIsDoneWaiting

(* The steps of Connect: a new request only after the last reply was read. *)
LEMMA ConnectOwnershipStep ==
  ASSUME ChannelInv, ConnectStep
  PROVE  ChannelOwnership' /\ NoChannelPanic'
<1>. USE DEF ChannelInv, NoChannelPanic, connectVars, outgoingVars, incomingVars, ackVars,
     replyVars, callVars, networkVars
<1>1. CASE StartConnect
  BY <1>1, OwnershipStutter DEF StartConnect
<1>2. CASE ReadHello
  <2>0. phase[Conn] = "idle" /\ Conn \in Callers
    BY <1>2 DEF ReadHello, ChannelOwnership, NegotiatorIsDoneWaiting, Callers
  <2>1. crash' # "channel" /\ UNCHANGED <<awaiting, chan, mid, outcome>>
    BY <1>2 DEF ReadHello
  <2>2. inPc' # "deliver" /\ connPc' \notin {"idle", "hello"}
    BY <1>2 DEF ReadHello
  <2>3. \/ phase' = [phase EXCEPT ![Conn] = "offer"]
        \/ phase' = phase
    BY <1>2 DEF ReadHello, SendFromConnect
  <2>4. \A p \in Callers : phase'[p] \in BeforeRequest => phase[p] \in BeforeRequest
    BY <2>0, <2>3 DEF BeforeRequest, TypeOK, CallTypeOK
  <2>5. phase'[Conn] # "returned"
    BY <2>0, <2>3 DEF TypeOK, CallTypeOK
  <2>. QED
    BY <2>1, <2>2, <2>4, <2>5, OwnershipFrame
<1>3. CASE HelloFails
  BY <1>3, OwnershipStutter DEF HelloFails
<1>4. CASE Refused
  BY <1>4, OwnershipStutter DEF Refused
<1>5. CASE NegotiationAborted
  BY <1>5, OwnershipStutter DEF NegotiationAborted, FailNegotiation
<1>6. CASE NegotiationRefused
  BY <1>6, OwnershipStutter DEF NegotiationRefused, FailNegotiation
<1>7. CASE GotSupportedVersion
  <2>1. crash' # "channel" /\ UNCHANGED <<awaiting, chan, mid, outcome, inPc, inTarget>>
    BY <1>7 DEF GotSupportedVersion
  <2>2. connPc' \notin {"idle", "hello"}
    BY <1>7 DEF GotSupportedVersion
  <2>3. \/ phase' = [phase EXCEPT ![Conn] = "offer"]
        \/ phase' = phase
    BY <1>7 DEF GotSupportedVersion, SendFromConnect
  <2>4. Conn \in Callers /\ chan[Conn] = "full"
    BY <1>7 DEF GotSupportedVersion, GotReply, ChannelOwnership, NegotiatorIsDoneWaiting, Callers
  <2>5. Unowned(Conn)
    BY <2>4, CallersAssumption
    DEF Unowned, ChannelOwnership, EntryOwnsItsChannel, DeliveryOwnsItsChannel
  <2>6. \A p \in Callers :
          phase'[p] \in BeforeRequest => phase[p] \in BeforeRequest \/ Unowned(p)
    BY <2>3, <2>4, <2>5 DEF TypeOK, CallTypeOK
  <2>. QED
    BY <2>1, <2>2, <2>4, <2>6, OwnershipFrame
<1>8. CASE HugeSupportedVersion
  BY <1>8, OwnershipStutter DEF HugeSupportedVersion
<1>9. CASE GotSetVersion
  BY <1>9, OwnershipStutter DEF GotSetVersion
<1>10. CASE Open
  BY <1>10, OwnershipStutter DEF Open
<1>11. CASE ServeError
  BY <1>11, OwnershipStutter DEF ServeError
<1>12. CASE ServeDone
  BY <1>12, OwnershipStutter DEF ServeDone
<1>13. CASE Join
  BY <1>13, OwnershipStutter DEF Join
<1>. QED
  BY <1>1, <1>2, <1>3, <1>4, <1>5, <1>6, <1>7, <1>8, <1>9, <1>10, <1>11, <1>12, <1>13 DEF ConnectStep

(* A request is registered: its caller had no channel, and now has one. *)
LEMMA RegisterOwnership ==
  ASSUME ChannelInv, NEW p \in Callers, OutTakesRequest(p), WantsReply(p)
  PROVE  ChannelOwnership'
<1>. USE DEF ChannelInv, ChannelOwnership, TypeOK, CallTypeOK, GoroutineTypeOK
<1>1. /\ awaiting' = [awaiting EXCEPT ![nextMsgID] = p]
      /\ chan' = [chan EXCEPT ![p] = "open"]
      /\ mid' = [mid EXCEPT ![p] = nextMsgID]
      /\ phase' = [phase EXCEPT ![p] = "await"]
      /\ phase[p] = "offer"
      /\ UNCHANGED <<inPc, inTarget, outcome, connPc>>
  BY DEF OutTakesRequest, Register, incomingVars, connectVars
<1>2. p # NoCaller
  BY CallersAssumption DEF Callers
<1>3. Unowned(p)
  BY <1>1 DEF OfferedHasNoChannel, Unowned
<1>4. EntryOwnsItsChannel'
  BY <1>1, <1>2, <1>3 DEF EntryOwnsItsChannel, Unowned
<1>5. DeliveryOwnsItsChannel'
  BY <1>1, <1>3 DEF DeliveryOwnsItsChannel, Unowned
<1>6. OfferedHasNoChannel'
  <2>. SUFFICES ASSUME NEW q \in Callers, phase'[q] \in {"idle", "gate", "offer"}
                PROVE  Unowned(q)'
    BY DEF OfferedHasNoChannel, Unowned
  <2>1. q # p /\ phase[q] \in {"idle", "gate", "offer"}
    BY <1>1
  <2>2. Unowned(q)
    BY <2>1 DEF OfferedHasNoChannel, Unowned
  <2>. QED
    BY <1>1, <2>1, <2>2 DEF Unowned
<1>7. NegotiatorIsDoneWaiting'
  BY <1>1 DEF NegotiatorIsDoneWaiting, Callers
<1>. QED
  BY <1>4, <1>5, <1>6, <1>7

LEMMA OutgoingOwnershipStep ==
  ASSUME ChannelInv, OutgoingStep
  PROVE  ChannelOwnership' /\ NoChannelPanic'
<1>. USE DEF ChannelInv, NoChannelPanic, connectVars, incomingVars, ackVars,
     replyVars, callVars, networkVars
<1>1. CASE OutSeesDone
  BY <1>1, OwnershipStutter DEF OutSeesDone, OutStops
<1>2. CASE OutFindsNoAck
  BY <1>2, OwnershipStutter DEF OutFindsNoAck
<1>3. CASE OutTakesAck
  BY <1>3, OwnershipStutter DEF OutTakesAck
<1>4. ASSUME NEW p \in Callers, OutTakesRequest(p)
      PROVE  ChannelOwnership' /\ NoChannelPanic'
  <2>1. NoChannelPanic'
    BY <1>4 DEF OutTakesRequest
  <2>2. CASE WantsReply(p)
    BY <1>4, <2>1, <2>2, RegisterOwnership
  <2>3. CASE ~WantsReply(p)
    <3>1. /\ UNCHANGED <<awaiting, chan, mid, inPc, inTarget, connPc>>
          /\ phase' = [phase EXCEPT ![p] = "returned"]
          /\ outcome' = [outcome EXCEPT ![p] = "ok"]
          /\ phase[p] = "offer"
      BY <1>4, <2>3 DEF OutTakesRequest
    <3>2. \A q \in Callers : phase'[q] \in BeforeRequest => phase[q] \in BeforeRequest
      BY <3>1 DEF TypeOK, CallTypeOK, BeforeRequest
    <3>3. connPc' \in {"idle", "hello"} => phase'[Conn] = phase[Conn]
      BY <3>1 DEF TypeOK, CallTypeOK, ChannelOwnership, NegotiatorIsDoneWaiting
    <3>4. phase'[Conn] = "returned" /\ outcome'[Conn] = "reply" => chan[Conn] = "full"
      BY <3>1 DEF TypeOK, CallTypeOK, ChannelOwnership, NegotiatorIsDoneWaiting, Callers
    <3>. QED
      BY <2>1, <3>1, <3>2, <3>3, <3>4, OwnershipFrame
  <2>. QED
    BY <2>2, <2>3
<1>5. CASE OutWrites
  BY <1>5, OwnershipStutter DEF OutWrites
<1>6. CASE OutWriteFails
  BY <1>6, OwnershipStutter DEF OutWriteFails, OutStops
<1>. QED
  BY <1>1, <1>2, <1>3, <1>4, <1>5, <1>6 DEF OutgoingStep

(* The entry a header finds becomes the delivery in progress. *)
LEMMA ReadOwnership ==
  ASSUME ChannelInv, InReads
  PROVE  ChannelOwnership'
<1>. USE DEF ChannelInv, ChannelOwnership, TypeOK, CallTypeOK, GoroutineTypeOK
<1>. DEFINE i == Head(stream).id
            q == awaiting[i]
<1>0. i \in Ids
  BY ReadType DEF InReads, Incoming
<1>1. /\ awaiting' = [awaiting EXCEPT ![i] = NoCaller]
      /\ inTarget' = q
      /\ inPc' = "deliver" => q # NoCaller
      /\ inPc # "deliver"
      /\ UNCHANGED <<chan, mid, phase, outcome, connPc>>
  BY DEF InReads, RemoveAwaiting, NeedsReply, connectVars, replyVars, callVars
<1>. HIDE DEF i
<1>2. EntryOwnsItsChannel'
  BY <1>0, <1>1 DEF EntryOwnsItsChannel
<1>3. DeliveryOwnsItsChannel'
  <2>. SUFFICES ASSUME q # NoCaller
                PROVE  chan[q] = "open" /\ \A j \in Ids : awaiting'[j] # q
    BY <1>1 DEF DeliveryOwnsItsChannel
  <2>1. chan[q] = "open" /\ mid[q] = i
    BY <1>0 DEF EntryOwnsItsChannel
  <2>2. \A j \in Ids : awaiting[j] = q => j = i
    BY <2>1 DEF EntryOwnsItsChannel
  <2>. QED
    BY <1>0, <1>1, <2>1, <2>2
<1>4. OfferedHasNoChannel'
  BY <1>0, <1>1, CallersAssumption DEF OfferedHasNoChannel, Callers
<1>5. NegotiatorIsDoneWaiting'
  BY <1>1 DEF NegotiatorIsDoneWaiting
<1>. QED
  BY <1>2, <1>3, <1>4, <1>5

(* A delivery ends: its channel is full, and nothing holds it. *)
LEMMA DeliverOwnership ==
  ASSUME ChannelInv, InDelivers
  PROVE  ChannelOwnership' /\ NoChannelPanic'
<1>. USE DEF ChannelInv, ChannelOwnership, TypeOK, CallTypeOK, GoroutineTypeOK
<1>1. /\ chan' = [chan EXCEPT ![inTarget] = "full"]
      /\ inTarget \in Callers
      /\ inPc' # "deliver"
      /\ UNCHANGED <<awaiting, mid, phase, outcome, connPc>>
  BY DEF InDelivers, connectVars, callVars
<1>2. chan[inTarget] = "open" /\ \A i \in Ids : awaiting[i] # inTarget
  BY DEF DeliveryOwnsItsChannel, InDelivers
<1>3. EntryOwnsItsChannel'
  BY <1>1, <1>2 DEF EntryOwnsItsChannel
<1>4. DeliveryOwnsItsChannel' /\ OfferedHasNoChannel'
  BY <1>1 DEF DeliveryOwnsItsChannel, OfferedHasNoChannel
<1>5. NegotiatorIsDoneWaiting'
  BY <1>1 DEF NegotiatorIsDoneWaiting, Callers
<1>6. NoChannelPanic'
  BY <1>2 DEF InDelivers, NoChannelPanic
<1>. QED
  BY <1>3, <1>4, <1>5, <1>6

LEMMA IncomingOwnershipStep ==
  ASSUME ChannelInv, IncomingStep
  PROVE  ChannelOwnership' /\ NoChannelPanic'
<1>. USE DEF ChannelInv, NoChannelPanic, connectVars, outgoingVars, incomingVars,
     ackVars, replyVars, callVars, networkVars
<1>1. CASE InSeesDone
  BY <1>1, OwnershipStutter DEF InSeesDone, InStops
<1>2. CASE InContinues
  BY <1>2, OwnershipStutter DEF InContinues
<1>3. CASE InReads
  BY <1>3, ReadOwnership DEF InReads
<1>4. CASE InReadFails
  BY <1>4, OwnershipStutter DEF InReadFails, InStops, AwaitClose
<1>5. CASE InDelivers
  BY <1>5, DeliverOwnership
<1>6. CASE InReplyCut
  BY <1>6, OwnershipStutter DEF InReplyCut, InStops
<1>7. CASE InHandles
  BY <1>7, OwnershipStutter DEF InHandles
<1>8. CASE InDiscardFails
  BY <1>8, OwnershipStutter DEF InDiscardFails, InStops
<1>. QED
  BY <1>1, <1>2, <1>3, <1>4, <1>5, <1>6, <1>7, <1>8 DEF IncomingStep

(* A caller that gives up closes the channel it finds in the map, if any. *)
LEMMA GiveUpOwnership ==
  ASSUME ChannelInv, NEW p \in Callers, GiveUp(p)
  PROVE  ChannelOwnership' /\ NoChannelPanic'
<1>. USE DEF ChannelInv, ChannelOwnership, TypeOK, CallTypeOK, GoroutineTypeOK
<1>. DEFINE i == mid[p]
            q == awaiting[i]
<1>0. i \in Ids
  OBVIOUS
<1>1. \E result \in {"closed", "expired"} : Returns(p, result)
  BY DEF GiveUp, StopsWaiting
<1>2. /\ phase[p] = "await"
      /\ phase' = [phase EXCEPT ![p] = "returned"]
      /\ outcome'[Conn] = "reply" => p # Conn /\ outcome[Conn] = "reply"
      /\ UNCHANGED <<mid, inPc, inTarget, connPc>>
  BY <1>1 DEF GiveUp, Returns, incomingVars, connectVars, Callers
<1>3. Cancel(p)
  BY DEF GiveUp
<1>4. CASE q = NoCaller
  <2>1. UNCHANGED <<awaiting, chan, crash>>
    BY <1>3, <1>4 DEF Cancel
  <2>2. ChannelOwnership'
    <3>1. \A r \in Callers : phase'[r] \in BeforeRequest => phase[r] \in BeforeRequest
      BY <1>2 DEF BeforeRequest
    <3>2. connPc' \in {"idle", "hello"} => phase'[Conn] = phase[Conn]
      BY <1>2 DEF NegotiatorIsDoneWaiting
    <3>3. phase'[Conn] = "returned" /\ outcome'[Conn] = "reply" => chan[Conn] = "full"
      BY <1>2 DEF NegotiatorIsDoneWaiting, Callers
    <3>. QED
      BY <1>2, <2>1, <3>1, <3>2, <3>3, OwnershipFrame
  <2>. QED
    BY <2>1, <2>2 DEF NoChannelPanic
<1>5. CASE q # NoCaller
  <2>1. q \in Callers /\ chan[q] = "open" /\ mid[q] = i
    BY <1>0, <1>5 DEF EntryOwnsItsChannel
  <2>2. /\ awaiting' = [awaiting EXCEPT ![i] = NoCaller]
        /\ chan' = [chan EXCEPT ![q] = "closed"]
        /\ crash' = crash
    BY <1>3, <1>5, <2>1 DEF Cancel
  <2>3. \A j \in Ids : awaiting[j] = q => j = i
    BY <1>5, <2>1 DEF EntryOwnsItsChannel
  <2>4. inPc = "deliver" => inTarget # q
    BY <1>0 DEF DeliveryOwnsItsChannel
  <2>. HIDE DEF i, q
  <2>5. EntryOwnsItsChannel'
    BY <1>0, <1>2, <2>1, <2>2, <2>3 DEF EntryOwnsItsChannel
  <2>6. DeliveryOwnsItsChannel'
    BY <1>0, <1>2, <2>1, <2>2, <2>4, CallersAssumption DEF DeliveryOwnsItsChannel, Callers
  <2>7. OfferedHasNoChannel'
    BY <1>0, <1>2, <2>2, CallersAssumption DEF OfferedHasNoChannel, Callers
  <2>8. NegotiatorIsDoneWaiting'
    <3>1. connPc' \in {"idle", "hello"} => phase'[Conn] = "idle"
      BY <1>2 DEF NegotiatorIsDoneWaiting
    <3>2. phase'[Conn] = "returned" /\ outcome'[Conn] = "reply" => chan'[Conn] = "full"
      BY <1>2, <2>1, <2>2 DEF NegotiatorIsDoneWaiting, Callers
    <3>. QED
      BY <3>1, <3>2 DEF NegotiatorIsDoneWaiting
  <2>. QED
    BY <2>2, <2>5, <2>6, <2>7, <2>8 DEF NoChannelPanic
<1>. QED
  BY <1>4, <1>5

(* A caller that neither begins a request nor gives one up. *)
LEMMA ReturnOwnership ==
  ASSUME ChannelInv, NEW p \in Callers,
         phase[p] # "idle",
         UNCHANGED <<awaiting, chan, mid, inPc, inTarget, connPc>>,
         NEW s, phase' = [phase EXCEPT ![p] = s],
         s \in BeforeRequest => phase[p] \in BeforeRequest,
         \A q \in Callers : q # p => outcome'[q] = outcome[q],
         s = "returned" /\ outcome'[p] = "reply" => chan[p] = "full"
  PROVE  ChannelOwnership'
<1>. USE DEF ChannelInv, TypeOK, CallTypeOK
<1>1. \A q \in Callers : phase'[q] \in BeforeRequest => phase[q] \in BeforeRequest
  OBVIOUS
<1>2. connPc' \in {"idle", "hello"} => phase'[Conn] = phase[Conn]
  BY DEF ChannelOwnership, NegotiatorIsDoneWaiting
<1>3. phase'[Conn] = "returned" /\ outcome'[Conn] = "reply" => chan[Conn] = "full"
  BY DEF ChannelOwnership, NegotiatorIsDoneWaiting, Callers
<1>. QED
  BY <1>1, <1>2, <1>3, OwnershipFrame

LEMMA CallerOwnershipStep ==
  ASSUME ChannelInv, NEW p \in Callers, CallerStep(p)
  PROVE  ChannelOwnership' /\ NoChannelPanic'
<1>. USE DEF connectVars, outgoingVars, incomingVars, ackVars, replyVars, networkVars
<1>0. NoChannelPanic
  BY DEF ChannelInv
<1>1. CASE PassGate(p)
  <2>1. /\ phase[p] = "gate" /\ phase' = [phase EXCEPT ![p] = "offer"]
        /\ UNCHANGED <<awaiting, chan, mid, inPc, inTarget, connPc, outcome, crash>>
    BY <1>1 DEF PassGate
  <2>. QED
    BY <1>0, <2>1, ReturnOwnership DEF BeforeRequest, NoChannelPanic
<1>2. CASE Withdraw(p)
  <2>1. /\ phase[p] \in {"gate", "offer"}
        /\ UNCHANGED <<awaiting, chan, mid, inPc, inTarget, connPc, crash>>
    BY <1>2 DEF Withdraw
  <2>2. PICK r \in {"closed", "expired"} : Returns(p, r)
    BY <1>2 DEF Withdraw, StopsWaiting
  <2>. QED
    BY <1>0, <2>1, <2>2, ReturnOwnership DEF Returns, BeforeRequest, ChannelInv, TypeOK, CallTypeOK,
      NoChannelPanic
<1>3. CASE GiveUp(p)
  BY <1>3, GiveUpOwnership
<1>4. CASE Receive(p)
  <2>1. /\ phase[p] = "await"
        /\ UNCHANGED <<awaiting, chan, mid, inPc, inTarget, connPc, crash>>
    BY <1>4 DEF Receive
  <2>2. CASE phase' = [phase EXCEPT ![p] = "close"] /\ UNCHANGED outcome
    BY <1>0, <2>1, <2>2, ReturnOwnership DEF BeforeRequest, NoChannelPanic
  <2>3. CASE \E r : Returns(p, r) /\ (r = "reply" => chan[p] = "full")
    <3>. PICK r : Returns(p, r) /\ (r = "reply" => chan[p] = "full")
      BY <2>3
    <3>. QED
      BY <1>0, <2>1, ReturnOwnership DEF Returns, BeforeRequest, ChannelInv, TypeOK, CallTypeOK,
      NoChannelPanic
  <2>. QED
    BY <1>4, <2>2, <2>3 DEF Receive
<1>5. CASE CallClose(p)
  <2>1. /\ phase[p] = "close"
        /\ UNCHANGED <<awaiting, chan, mid, inPc, inTarget, connPc, crash>>
    BY <1>5 DEF CallClose
  <2>2. PICK r \in {"ok", "closed"} : Returns(p, r)
    BY <1>5 DEF CallClose
  <2>. QED
    BY <1>0, <2>1, <2>2, ReturnOwnership DEF Returns, BeforeRequest, ChannelInv, TypeOK, CallTypeOK,
      NoChannelPanic
<1>. QED
  BY <1>1, <1>2, <1>3, <1>4, <1>5 DEF CallerStep

LEMMA BeginOwnershipStep ==
  ASSUME ChannelInv, NEW p \in Senders, NEW o \in Operations, Begin(p, o)
  PROVE  ChannelOwnership' /\ NoChannelPanic'
<1>. USE DEF ChannelInv, TypeOK, CallTypeOK
<1>1. /\ phase[p] = "idle" /\ p # Conn /\ p \in Callers
      /\ \E s \in {"close", "gate"} : phase' = [phase EXCEPT ![p] = s]
      /\ UNCHANGED <<awaiting, chan, mid, inPc, inTarget, connPc, outcome, crash>>
  BY CallersAssumption DEF Begin, Callers, connectVars, incomingVars, replyVars
<1>2. \A q \in Callers : phase'[q] \in BeforeRequest => phase[q] \in BeforeRequest
  BY <1>1 DEF BeforeRequest
<1>3. phase'[Conn] = phase[Conn]
  BY <1>1 DEF Callers
<1>. QED
  BY <1>1, <1>2, <1>3, OwnershipFrame DEF ChannelOwnership, NegotiatorIsDoneWaiting, NoChannelPanic

(***************************************************************************)
(* ChannelOwnership holds whatever the callers, the reader and the modulus *)
(* of the message IDs: an entry of the awaiting map, or the delivery that  *)
(* removed it, is the only owner of an open replyChan (reader.go,          *)
(* handleOutgoing, passToHandler and send).                                *)
(***************************************************************************)
THEOREM OwnershipCorrect == Spec => [](ChannelOwnership /\ NoChannelPanic)
<1>1. Init => ChannelInv
  BY InitChannelInv
<1>2. ChannelInv /\ TypeOK' /\ [Next]_vars => ChannelInv'
  <2>. SUFFICES ASSUME ChannelInv, TypeOK', [Next]_vars PROVE ChannelOwnership' /\ NoChannelPanic'
    BY DEF ChannelInv
  <2>0. TypeOK /\ ChannelOwnership /\ NoChannelPanic
    BY DEF ChannelInv
  <2>1. CASE ClientStep
    BY <2>1, ConnectOwnershipStep, OutgoingOwnershipStep, IncomingOwnershipStep,
      CallerOwnershipStep, BeginOwnershipStep DEF ClientStep
  <2>2. CASE ReaderStep \/ OwnerCloses \/ UNCHANGED vars
    <3>1. UNCHANGED <<connectVars, incomingVars, awaiting, replyVars, callVars, crash>>
      BY <2>2 DEF ReaderStep, Answer, Notify, Hangup, OwnerCloses, vars, clientVars
    <3>2. UNCHANGED <<awaiting, chan, mid, phase, outcome, inPc, inTarget, connPc, crash>>
      BY <3>1 DEF connectVars, incomingVars, replyVars, callVars
    <3>. QED
      BY <2>0, <3>2, OwnershipStutter DEF NoChannelPanic
  <2>. QED
    BY <2>1, <2>2 DEF Next, Rest
<1>. QED
  BY <1>1, <1>2, TypeCorrect, PTL DEF Spec, ChannelInv

(***************************************************************************)
(* No run of the Client panics on a replyChan, at any number of callers    *)
(* and at any interleaving of replies and cancellations (reader.go,        *)
(* handleOutgoing's cancel and passToHandler).                             *)
(***************************************************************************)
THEOREM ChannelSafety == Spec => []NoChannelPanic
BY OwnershipCorrect, PTL

-----------------------------------------------------------------------------
(* Who closes a Client, and what Connect says of it.                       *)

Closers == {"Shutdown", "Close"}

(* A caller's Shutdown or Close has succeeded. *)
Requested == \E p \in Senders : op[p] \in Closers /\ outcome[p] = "ok"

(* Something from which Connect may conclude that the Client is closed. *)
ToldClosed ==
  \/ done
  \/ outcome[Conn] = "closed"
  \/ \E i \in DOMAIN errs : errs[i] = "closed"

Ended == connPc \in {"join", "returned"}

(* Only the callers of Shutdown and Close come to close the Client. *)
ClosingCallers ==
  /\ \A p \in Callers : phase[p] = "close" => op[p] \in Closers
  /\ phase[Conn] # "idle" => op[Conn] \notin Closers

(* Once a caller has its result, it keeps it. *)
ResultsAreFinal == \A p \in Senders : outcome[p] # "none" => phase[p] = "returned"

(***************************************************************************)
(* The inductive invariant.  Connect closes the Client itself, and a       *)
(* goroutine that sees that reports ErrClientClosed too, but only once     *)
(* Connect has left its select: until then whatever says "closed" goes     *)
(* back to a caller.                                                       *)
(***************************************************************************)
ClosingInv ==
  /\ ResultsAreFinal
  /\ Requested => done
  /\ OneCloseSucceeds
  /\ ClosedMeansRequested
  /\ ~Ended /\ ToldClosed => Requested

-----------------------------------------------------------------------------
(* Callers that have returned stay as they are, and the others may return  *)
(* anything but the success of a Shutdown or a Close.                      *)
NoSuccessfulClose ==
  \A p \in Senders :
    /\ phase[p] = "returned" => phase'[p] = "returned" /\ outcome'[p] = outcome[p] /\ op'[p] = op[p]
    /\ outcome'[p] # outcome[p] =>
         phase'[p] = "returned" /\ (op'[p] \in Closers => outcome'[p] # "ok")

LEMMA ClosingFrame ==
  ASSUME ClosingInv, NoSuccessfulClose, done => done',
         connErr' = "closed" => connErr = "closed" \/ Requested,
         ~Ended' /\ ToldClosed' => (~Ended /\ ToldClosed) \/ Requested
  PROVE  ClosingInv'
<1>. USE DEF ClosingInv
<1>1. ResultsAreFinal'
  BY DEF ResultsAreFinal, NoSuccessfulClose
<1>2. \A p \in Senders :
        op'[p] \in Closers /\ outcome'[p] = "ok" => op[p] \in Closers /\ outcome[p] = "ok"
  BY DEF ResultsAreFinal, NoSuccessfulClose
<1>3. Requested => Requested'
  BY DEF Requested, ResultsAreFinal, NoSuccessfulClose
<1>4. Requested' => Requested
  BY <1>2 DEF Requested
<1>5. OneCloseSucceeds'
  BY <1>2 DEF OneCloseSucceeds, Closers
<1>6. ClosedMeansRequested'
  <2>. SUFFICES ASSUME connErr' = "closed" PROVE Requested'
    BY DEF ClosedMeansRequested, Requested, Closers
  <2>1. Requested
    BY DEF ClosedMeansRequested, Requested, Closers
  <2>. QED
    BY <2>1, <1>3
<1>. QED
  BY <1>1, <1>3, <1>4, <1>5, <1>6

(* A step that says nothing new about closing. *)
LEMMA ClosingQuiet ==
  ASSUME ClosingInv, NoSuccessfulClose,
         UNCHANGED <<done, errs, connErr>>,
         outcome'[Conn] = "closed" => outcome[Conn] = "closed" \/ done,
         Ended => Ended'
  PROVE  ClosingInv'
<1>1. ~Ended' /\ ToldClosed' => ~Ended /\ ToldClosed
  BY DEF ToldClosed
<1>. QED
  BY <1>1, ClosingFrame

(* A step of a goroutine, of Connect or of the reader leaves the senders alone. *)
LEMMA SendersUntouched ==
  ASSUME TypeOK, \A p \in Senders : UNCHANGED <<phase[p], op[p], outcome[p]>>
  PROVE  NoSuccessfulClose
BY DEF NoSuccessfulClose

LEMMA ConnIsNoSender == Conn \notin Senders /\ \A p \in Senders : p \in Callers /\ p # Conn
BY CallersAssumption DEF Callers

-----------------------------------------------------------------------------
LEMMA InitClosing == Init => ClosingInv
<1>. SUFFICES ASSUME Init PROVE ClosingInv
  OBVIOUS
<1>1. \A p \in Callers : outcome[p] = "none"
  BY DEF Init, ClientInit
<1>2. ResultsAreFinal /\ ~Requested /\ OneCloseSucceeds
  BY <1>1, ConnIsNoSender DEF ResultsAreFinal, Requested, OneCloseSucceeds
<1>3. connErr # "closed" /\ ~ToldClosed
  BY <1>1 DEF Init, ClientInit, ToldClosed, Callers
<1>. QED
  BY <1>2, <1>3 DEF ClosingInv, ClosedMeansRequested

(* Connect: what makes it return ErrClientClosed, and what makes it close. *)
LEMMA ConnectClosing ==
  ASSUME TypeOK, ClosingInv, ConnectStep
  PROVE  ClosingInv'
<1>. USE DEF connectVars, callVars
<1>0. \A p \in Senders : UNCHANGED <<phase[p], op[p], outcome[p]>>
  <2>1. UNCHANGED callVars \/ (UNCHANGED outcome /\ \E o \in Requests : SendFromConnect(o))
        \/ (UNCHANGED outcome /\ UNCHANGED <<op, phase>>)
    BY RequestNames DEF ConnectStep, StartConnect, ReadHello, HelloFails, Refused,
      NegotiationAborted, NegotiationRefused, FailNegotiation, GotSupportedVersion,
      HugeSupportedVersion, GotSetVersion, Open, ServeError, ServeDone, Join
  <2>. QED
    BY <2>1, ConnIsNoSender DEF SendFromConnect, TypeOK, CallTypeOK
<1>1. NoSuccessfulClose
  BY <1>0, SendersUntouched
<1>2. CASE StartConnect \/ ReadHello \/ GotSupportedVersion \/ HugeSupportedVersion
           \/ GotSetVersion \/ Open \/ Join
  <2>1. UNCHANGED <<done, errs, connErr, outcome>>
    BY <1>2 DEF StartConnect, ReadHello, GotSupportedVersion, HugeSupportedVersion,
      GotSetVersion, Open, Join
  <2>2. Ended => Ended'
    BY <1>2 DEF StartConnect, ReadHello, GotSupportedVersion, HugeSupportedVersion,
      GotSetVersion, Open, Join, Ended
  <2>. QED
    BY <1>1, <2>1, <2>2, ClosingQuiet
<1>3. CASE HelloFails
  <2>1. connErr' = "error" /\ UNCHANGED <<done, errs, outcome>> /\ ~Ended
    BY <1>3 DEF HelloFails, Ended
  <2>. QED
    BY <1>1, <2>1, ClosingFrame DEF ToldClosed
<1>4. CASE Refused
  <2>1. UNCHANGED connErr /\ done' /\ Ended'
    BY <1>4 DEF Refused, CloseDone, Ended
  <2>. QED
    BY <1>1, <2>1, ClosingFrame
<1>5. CASE NegotiationAborted
  <2>1. done' /\ Ended' /\ ~Ended /\ (connErr' = "closed" => outcome[Conn] = "closed")
    BY <1>5 DEF NegotiationAborted, FailNegotiation, CloseDone, Ended
  <2>2. connErr' = "closed" => Requested
    BY <2>1 DEF ClosingInv, ToldClosed
  <2>. QED
    BY <1>1, <2>1, <2>2, ClosingFrame
<1>6. CASE NegotiationRefused
  <2>1. done' /\ Ended' /\ connErr' = "error"
    BY <1>6 DEF NegotiationRefused, FailNegotiation, CloseDone, Ended
  <2>. QED
    BY <1>1, <2>1, ClosingFrame
<1>7. CASE ServeError
  <2>1. done' /\ Ended' /\ ~Ended /\ errs # <<>> /\ connErr' = Head(errs)
    BY <1>7 DEF ServeError, CloseDone, Ended
  <2>2. errs \in Seq({"closed", "error"})
    BY DEF TypeOK, ConnectTypeOK
  <2>3. 1 \in DOMAIN errs /\ Head(errs) = errs[1]
    BY <2>1, <2>2
  <2>4. connErr' = "closed" => Requested
    BY <2>1, <2>3 DEF ClosingInv, ToldClosed
  <2>. QED
    BY <1>1, <2>1, <2>4, ClosingFrame
<1>8. CASE ServeDone
  <2>1. Ended' /\ ~Ended /\ done /\ UNCHANGED done
    BY <1>8 DEF ServeDone, Ended
  <2>2. Requested
    BY <2>1 DEF ClosingInv, ToldClosed
  <2>. QED
    BY <1>1, <2>1, <2>2, ClosingFrame
<1>. QED
  BY <1>2, <1>3, <1>4, <1>5, <1>6, <1>7, <1>8 DEF ConnectStep

(* A goroutine reports ErrClientClosed only if it has seen done. *)
LEMMA ReportClosing ==
  ASSUME TypeOK, ClosingInv, NoSuccessfulClose,
         NEW e, errs' = Append(errs, e), e = "closed" => done,
         UNCHANGED <<connPc, connErr, done, outcome>>
  PROVE  ClosingInv'
<1>1. errs \in Seq({"closed", "error"})
  BY DEF TypeOK, ConnectTypeOK
<1>2. \A i \in DOMAIN errs' : errs'[i] = "closed" => done \/ (i \in DOMAIN errs /\ errs[i] = "closed")
  BY <1>1
<1>3. ToldClosed' => ToldClosed
  BY <1>2 DEF ToldClosed
<1>. QED
  BY <1>3, ClosingFrame DEF Ended

LEMMA GoroutineClosing ==
  ASSUME TypeOK, ClosingInv, OutgoingStep \/ IncomingStep
  PROVE  ClosingInv'
<1>. USE DEF connectVars, callVars
<1>1. ASSUME UNCHANGED <<connPc, connErr, done, errs, phase, op, outcome>>
      PROVE  ClosingInv'
  <2>1. NoSuccessfulClose
    BY <1>1 DEF NoSuccessfulClose
  <2>. QED
    BY <1>1, <2>1, ClosingQuiet DEF Ended
<1>2. ASSUME NEW e, OutStops(e) \/ InStops(e), e = "closed" => done
      PROVE  ClosingInv'
  <2>1. /\ errs' = Append(errs, e)
        /\ UNCHANGED <<connPc, connErr, done, phase, op, outcome>>
    BY <1>2 DEF OutStops, InStops
  <2>2. NoSuccessfulClose
    BY <2>1 DEF NoSuccessfulClose
  <2>. QED
    BY <1>2, <2>1, <2>2, ReportClosing
<1>3. CASE OutSeesDone \/ InSeesDone
  BY <1>2, <1>3 DEF OutSeesDone, InSeesDone
<1>4. CASE OutWriteFails \/ InDiscardFails
  BY <1>2, <1>4 DEF OutWriteFails, InDiscardFails
<1>5. CASE OutFindsNoAck \/ OutTakesAck \/ OutWrites
  BY <1>1, <1>5 DEF OutFindsNoAck, OutTakesAck, OutWrites
<1>6. CASE InContinues \/ InReads \/ InDelivers \/ InHandles
  BY <1>1, <1>6 DEF InContinues, InReads, InDelivers, InHandles
<1>7. CASE InReadFails
  <2>1. CASE InStops("error")
    BY <1>2, <2>1
  <2>2. CASE AwaitClose
    BY <1>1, <2>2 DEF AwaitClose
  <2>. QED
    BY <1>7, <2>1, <2>2 DEF InReadFails
<1>8. CASE InReplyCut
  <2>1. CASE InStops("error")
    BY <1>2, <2>1
  <2>2. CASE ~InStops("error")
    BY <1>1, <1>8, <2>2 DEF InReplyCut
  <2>. QED
    BY <2>1, <2>2
<1>9. ASSUME NEW p \in Callers, OutTakesRequest(p)
      PROVE  ClosingInv'
  <2>1. UNCHANGED <<connPc, connErr, done, errs, op>> /\ phase[p] = "offer"
    BY <1>9 DEF OutTakesRequest
  <2>2. \/ phase' = [phase EXCEPT ![p] = "await"] /\ UNCHANGED outcome
        \/ /\ op[p] = "SendNoWait"
           /\ phase' = [phase EXCEPT ![p] = "returned"]
           /\ outcome' = [outcome EXCEPT ![p] = "ok"]
    BY <1>9 DEF OutTakesRequest, WantsReply
  <2>3. NoSuccessfulClose
    BY <2>1, <2>2, ConnIsNoSender DEF NoSuccessfulClose, Closers, TypeOK, CallTypeOK
  <2>4. outcome'[Conn] = "closed" => outcome[Conn] = "closed"
    BY <2>2 DEF TypeOK, CallTypeOK, Callers
  <2>. QED
    BY <2>1, <2>3, <2>4, ClosingQuiet DEF Ended
<1>. QED
  BY <1>3, <1>4, <1>5, <1>6, <1>7, <1>8, <1>9 DEF OutgoingStep, IncomingStep

(* A caller returns something else than the success of a Close. *)
LEMMA ReturnClosing ==
  ASSUME TypeOK, ClosingInv, NEW p \in Callers, phase[p] # "returned",
         UNCHANGED <<connPc, connErr, done, errs, op>>,
         NEW s, phase' = [phase EXCEPT ![p] = s],
         \/ UNCHANGED outcome
         \/ \E r : /\ outcome' = [outcome EXCEPT ![p] = r] /\ s = "returned"
                   /\ r # "ok" /\ (r = "closed" => done)
  PROVE  ClosingInv'
<1>. USE DEF TypeOK, CallTypeOK
<1>1. NoSuccessfulClose
  BY ConnIsNoSender DEF NoSuccessfulClose
<1>2. outcome'[Conn] = "closed" => outcome[Conn] = "closed" \/ done
  BY DEF Callers
<1>. QED
  BY <1>1, <1>2, ClosingQuiet DEF Ended

(* The one call of Close that finds the Client open. *)
LEMMA CloseSucceeds ==
  ASSUME TypeOK, ClosingInv, ClosingCallers, NEW p \in Callers, CallClose(p), ~done
  PROVE  ClosingInv'
<1>. USE DEF TypeOK, CallTypeOK
<1>1. /\ done' /\ phase[p] = "close"
      /\ phase' = [phase EXCEPT ![p] = "returned"]
      /\ outcome' = [outcome EXCEPT ![p] = "ok"]
      /\ UNCHANGED <<connErr, op>>
  BY DEF CallClose, Returns, connectVars
<1>2. ~Requested
  BY DEF ClosingInv
<1>3. ResultsAreFinal'
  BY <1>1, ConnIsNoSender DEF ClosingInv, ResultsAreFinal
<1>4. \A q \in Senders : op'[q] \in Closers /\ outcome'[q] = "ok" => q = p
  BY <1>1, <1>2, ConnIsNoSender DEF Requested
<1>5. OneCloseSucceeds'
  BY <1>4 DEF OneCloseSucceeds, Closers
<1>6. p \in Senders /\ op[p] \in Closers
  BY <1>1 DEF ClosingCallers, Callers
<1>7. Requested'
  BY <1>1, <1>6, ConnIsNoSender DEF Requested
<1>. QED
  BY <1>1, <1>3, <1>5, <1>7 DEF ClosingInv, ClosedMeansRequested, Requested, Closers

(* A caller's own step. *)
LEMMA CallerClosing ==
  ASSUME TypeOK, ClosingInv, ClosingCallers, NEW p \in Callers, CallerStep(p)
  PROVE  ClosingInv'
<1>. USE DEF connectVars
<1>1. ASSUME phase[p] # "returned", UNCHANGED <<connPc, connErr, done, errs, op>>, StopsWaiting(p)
      PROVE  ClosingInv'
  <2>1. PICK r \in {"closed", "expired"} : Returns(p, r) /\ (r = "closed" => done)
    BY <1>1 DEF StopsWaiting
  <2>. QED
    BY <1>1, <2>1, ReturnClosing DEF Returns
<1>2. CASE PassGate(p)
  <2>1. /\ phase[p] # "returned" /\ UNCHANGED <<connPc, connErr, done, errs, op, outcome>>
        /\ phase' = [phase EXCEPT ![p] = "offer"]
    BY <1>2 DEF PassGate
  <2>. QED
    BY <2>1, ReturnClosing
<1>3. CASE Withdraw(p)
  BY <1>1, <1>3 DEF Withdraw
<1>4. CASE GiveUp(p)
  BY <1>1, <1>4 DEF GiveUp
<1>5. CASE Receive(p)
  <2>1. phase[p] # "returned" /\ UNCHANGED <<connPc, connErr, done, errs, op>>
    BY <1>5 DEF Receive
  <2>2. CASE phase' = [phase EXCEPT ![p] = "close"] /\ UNCHANGED outcome
    BY <2>1, <2>2, ReturnClosing
  <2>3. CASE \E r \in {"reply", "zero", "rejected"} : Returns(p, r)
    <3>. PICK r \in {"reply", "zero", "rejected"} : Returns(p, r)
      BY <2>3
    <3>. QED
      BY <2>1, ReturnClosing DEF Returns
  <2>. QED
    BY <1>5, <2>2, <2>3 DEF Receive
<1>6. CASE CallClose(p)
  <2>1. CASE done
    <3>1. /\ phase[p] # "returned" /\ UNCHANGED <<connPc, connErr, done, errs, op>>
          /\ Returns(p, "closed")
      BY <1>6, <2>1 DEF CallClose
    <3>. QED
      BY <2>1, <3>1, ReturnClosing DEF Returns
  <2>. QED
    BY <1>6, <2>1, CloseSucceeds
<1>. QED
  BY <1>2, <1>3, <1>4, <1>5, <1>6 DEF CallerStep

LEMMA BeginClosing ==
  ASSUME TypeOK, ClosingInv, NEW p \in Senders, NEW o \in Operations, Begin(p, o)
  PROVE  ClosingInv'
<1>. USE DEF TypeOK, CallTypeOK
<1>1. /\ phase[p] = "idle" /\ p \in Callers /\ UNCHANGED <<connPc, connErr, done, errs, outcome>>
      /\ op' = [op EXCEPT ![p] = o]
      /\ \E s \in {"close", "gate"} : phase' = [phase EXCEPT ![p] = s]
  BY ConnIsNoSender DEF Begin, connectVars
<1>2. NoSuccessfulClose
  BY <1>1, ConnIsNoSender DEF NoSuccessfulClose
<1>. QED
  BY <1>1, <1>2, ClosingQuiet DEF Ended

-----------------------------------------------------------------------------
(* Who comes to close the Client.                                          *)

LEMMA ClosingCallersStep ==
  ASSUME TypeOK, ClosingCallers, ClientStep
  PROVE  ClosingCallers'
<1>. USE DEF TypeOK, CallTypeOK, connectVars, callVars
<1>1. ASSUME UNCHANGED <<phase, op>>
      PROVE  ClosingCallers'
  BY <1>1 DEF ClosingCallers
<1>2. ASSUME NEW p \in Callers, phase[p] # "idle", UNCHANGED op,
             NEW s, phase' = [phase EXCEPT ![p] = s], s = "close" => op[p] \in Closers
      PROVE  ClosingCallers'
  BY <1>2 DEF ClosingCallers, Callers
<1>3. CASE ConnectStep
  <2>1. ASSUME NEW o \in {"GetSupportedVersion", "SetProtocolVersion"}, SendFromConnect(o)
        PROVE  ClosingCallers'
    BY <2>1 DEF SendFromConnect, ClosingCallers, Closers, Callers
  <2>2. \/ UNCHANGED <<phase, op>>
        \/ \E o \in {"GetSupportedVersion", "SetProtocolVersion"} : SendFromConnect(o)
    BY <1>3 DEF ConnectStep, StartConnect, ReadHello, HelloFails, Refused,
      NegotiationAborted, NegotiationRefused, FailNegotiation, GotSupportedVersion,
      HugeSupportedVersion, GotSetVersion, Open, ServeError, ServeDone, Join
  <2>. QED
    BY <1>1, <2>1, <2>2
<1>4. CASE OutgoingStep
  <2>1. ASSUME NEW p \in Callers, OutTakesRequest(p)
        PROVE  ClosingCallers'
    <3>1. phase[p] # "idle" /\ UNCHANGED op
      BY <2>1 DEF OutTakesRequest
    <3>2. \E s \in {"await", "returned"} : phase' = [phase EXCEPT ![p] = s]
      BY <2>1 DEF OutTakesRequest
    <3>. QED
      BY <1>2, <3>1, <3>2
  <2>2. CASE OutSeesDone \/ OutFindsNoAck \/ OutTakesAck \/ OutWrites \/ OutWriteFails
    BY <1>1, <2>2 DEF OutSeesDone, OutFindsNoAck, OutTakesAck, OutWrites, OutWriteFails, OutStops
  <2>. QED
    BY <1>4, <2>1, <2>2 DEF OutgoingStep
<1>5. CASE IncomingStep
  <2>1. UNCHANGED <<phase, op>>
    BY <1>5 DEF IncomingStep, InSeesDone, InContinues, InReads, InReadFails, InDelivers,
      InReplyCut, InHandles, InDiscardFails, InStops, AwaitClose
  <2>. QED
    BY <1>1, <2>1
<1>6. ASSUME NEW p \in Callers, CallerStep(p)
      PROVE  ClosingCallers'
  <2>1. phase[p] # "idle" /\ UNCHANGED op
    BY <1>6 DEF CallerStep, PassGate, Withdraw, GiveUp, Receive, CallClose
  <2>2. \/ \E s \in {"offer", "returned"} : phase' = [phase EXCEPT ![p] = s]
        \/ op[p] = "Shutdown" /\ phase' = [phase EXCEPT ![p] = "close"]
    BY <1>6 DEF CallerStep, PassGate, Withdraw, GiveUp, Receive, CallClose, StopsWaiting, Returns
  <2>. QED
    BY <1>2, <2>1, <2>2 DEF Closers
<1>7. ASSUME NEW p \in Senders, NEW o \in Operations, Begin(p, o)
      PROVE  ClosingCallers'
  <2>1. /\ op' = [op EXCEPT ![p] = o]
        /\ phase' = [phase EXCEPT ![p] = IF o = "Close" THEN "close" ELSE "gate"]
    BY <1>7 DEF Begin
  <2>. QED
    BY <2>1, ConnIsNoSender DEF ClosingCallers, Closers, Callers
<1>. QED
  BY <1>3, <1>4, <1>5, <1>6, <1>7 DEF ClientStep

-----------------------------------------------------------------------------
(* The steps of the reader and of the owner, and the end, change nothing here. *)
LEMMA NoClientStep ==
  ASSUME [Next]_vars, ~ClientStep
  PROVE  UNCHANGED <<connPc, connErr, errs, done, phase, op, outcome>>
BY DEF Next, Rest, ReaderStep, Answer, Notify, Hangup, OwnerCloses, vars, clientVars,
  connectVars, callVars

LEMMA ClosingStep ==
  ASSUME TypeOK, ClosingCallers, ClosingInv, [Next]_vars
  PROVE  ClosingCallers' /\ ClosingInv'
<1>1. CASE ClientStep
  <2>1. ClosingCallers'
    BY <1>1, ClosingCallersStep
  <2>2. ClosingInv'
    BY <1>1, ConnectClosing, GoroutineClosing, CallerClosing, BeginClosing DEF ClientStep
  <2>. QED
    BY <2>1, <2>2
<1>2. CASE ~ClientStep
  <2>1. UNCHANGED <<connPc, connErr, errs, done, phase, op, outcome>>
    BY <1>2, NoClientStep
  <2>2. ClosingCallers'
    BY <2>1 DEF ClosingCallers
  <2>3. NoSuccessfulClose
    BY <2>1 DEF NoSuccessfulClose
  <2>. QED
    BY <2>1, <2>2, <2>3, ClosingQuiet DEF Ended
<1>. QED
  BY <1>1, <1>2

LEMMA ClosingCorrect == Spec => [](ClosingCallers /\ ClosingInv)
<1>1. Init => ClosingCallers /\ ClosingInv
  <2>1. Init => ClosingCallers
    BY DEF Init, ClientInit, ClosingCallers, Callers
  <2>. QED
    BY <2>1, InitClosing
<1>2. TypeOK /\ ClosingCallers /\ ClosingInv /\ [Next]_vars => (ClosingCallers /\ ClosingInv)'
  BY ClosingStep
<1>. QED
  BY <1>1, <1>2, TypeCorrect, PTL DEF Spec

(***************************************************************************)
(* However many callers race to shut down or close a Client, and however   *)
(* Connect's own Close comes between them, at most one of them is told     *)
(* that it succeeded (reader.go, Shutdown's comment and Close).            *)
(***************************************************************************)
THEOREM CloseIsExclusive == Spec => []OneCloseSucceeds
BY ClosingCorrect, PTL DEF ClosingInv

(***************************************************************************)
(* Connect returns ErrClientClosed only if a caller's Shutdown or Close    *)
(* succeeded: an error of the connection is never reported as a request to *)
(* close it (reader.go, Connect's comment).                                *)
(***************************************************************************)
THEOREM ClosedOnRequest == Spec => []ClosedMeansRequested
BY ClosingCorrect, PTL DEF ClosingInv

-----------------------------------------------------------------------------
(***************************************************************************)
(* The order in which handleOutgoing writes: the negotiation first,        *)
(* acknowledgements before all requests but one, and CloseConnection last, *)
(* so that a Shutdown that succeeds is graceful.                           *)
(***************************************************************************)

-----------------------------------------------------------------------------
(* Acknowledgements                                                        *)

(***************************************************************************)
(* The inductive invariant: handleOutgoing enters its second select, where *)
(* a request may overtake, with nothing overtaken before.                  *)
(***************************************************************************)
AcksInv ==
  /\ ackQueue = <<>> \/ outPc = "wait" => bypassed = 0
  /\ bypassed <= 1

LEMMA AcksStep == ASSUME TypeOK, AcksInv, [Next]_vars PROVE AcksInv'
<1>. USE DEF AcksInv, TypeOK, GoroutineTypeOK, connectVars, outgoingVars, incomingVars, ackVars
<1>1. ASSUME UNCHANGED <<ackQueue, bypassed>>, outPc' = "wait" => outPc = "wait"
      PROVE  AcksInv'
  BY <1>1
<1>2. CASE ConnectStep
  BY <1>1, <1>2 DEF ConnectStep, StartConnect, ReadHello, HelloFails, Refused,
    NegotiationAborted, NegotiationRefused, FailNegotiation, GotSupportedVersion,
    HugeSupportedVersion, GotSetVersion, Open, ServeError, ServeDone, Join
<1>3. CASE OutFindsNoAck
  BY <1>3 DEF OutFindsNoAck, NothingUrgent
<1>4. CASE OutTakesAck
  BY <1>4 DEF OutTakesAck
<1>5. ASSUME NEW p \in Callers, OutTakesRequest(p) PROVE AcksInv'
  BY <1>5 DEF OutTakesRequest
<1>6. CASE OutSeesDone \/ OutWrites \/ OutWriteFails
  BY <1>1, <1>6 DEF OutSeesDone, OutWrites, OutWriteFails, OutStops, NextAfterWrite
<1>7. CASE InHandles
  <2>1. ackQueue' = <<>> => ackQueue = <<>>
    BY <1>7 DEF InHandles
  <2>. QED
    BY <1>7, <2>1 DEF InHandles
<1>8. CASE IncomingStep /\ ~InHandles
  BY <1>1, <1>8 DEF IncomingStep, InSeesDone, InContinues, InReads, InReadFails, InDelivers,
    InReplyCut, InDiscardFails, InStops, AwaitClose
<1>9. ASSUME NEW p \in Callers, CallerStep(p) PROVE AcksInv'
  BY <1>1, <1>9 DEF CallerStep, PassGate, Withdraw, GiveUp, Receive, CallClose
<1>10. ASSUME NEW p \in Senders, NEW o \in Operations, Begin(p, o) PROVE AcksInv'
  BY <1>1, <1>10 DEF Begin
<1>11. CASE ReaderStep \/ OwnerCloses \/ UNCHANGED vars
  BY <1>1, <1>11 DEF ReaderStep, Answer, Notify, Hangup, OwnerCloses, vars, clientVars
<1>. QED
  BY <1>2, <1>3, <1>4, <1>5, <1>6, <1>7, <1>8, <1>9, <1>10, <1>11
  DEF Next, Rest, ClientStep, OutgoingStep

(***************************************************************************)
(* Whatever the number of callers and the size of the queue, at most one   *)
(* request overtakes the acknowledgements that are queued (reader.go,      *)
(* handleOutgoing: "KeepAliveAck messages are prioritized").               *)
(***************************************************************************)
THEOREM AcksAreSoon == Spec => []AcksWaitForOneRequest
<1>1. Init => AcksInv
  BY DEF Init, ClientInit, AcksInv
<1>2. TypeOK /\ AcksInv /\ [Next]_vars => AcksInv'
  BY AcksStep
<1>3. AcksInv => AcksWaitForOneRequest
  BY DEF AcksInv, AcksWaitForOneRequest
<1>. QED
  BY <1>1, <1>2, <1>3, TypeCorrect, PTL DEF Spec

-----------------------------------------------------------------------------
(* CloseConnection                                                         *)

Sent(t) == \E i \in DOMAIN wire : wire[i].type = t

(***************************************************************************)
(* The inductive invariant: once CloseConnection is written, handleOutgoing*)
(* only waits for done; and it does not run before the connection is made. *)
(***************************************************************************)
LastInv ==
  /\ CloseConnectionIsLast
  /\ Sent("CloseConnection") => outPc \in {"parked", "stopped"}
  /\ connPc \in {"idle", "hello"} => outPc = "off"

LEMMA LastStep == ASSUME TypeOK, LastInv, [Next]_vars PROVE LastInv'
<1>. USE DEF LastInv, connectVars, outgoingVars, incomingVars, networkVars
<1>1. ASSUME UNCHANGED wire, outPc \in {"parked", "stopped"} => outPc' \in {"parked", "stopped"},
             connPc' \in {"idle", "hello"} => connPc \in {"idle", "hello"} /\ outPc' = outPc
      PROVE  LastInv'
  BY <1>1 DEF CloseConnectionIsLast, Sent
<1>2. CASE ConnectStep
  BY <1>1, <1>2 DEF ConnectStep, StartConnect, ReadHello, HelloFails, Refused,
    NegotiationAborted, NegotiationRefused, FailNegotiation, GotSupportedVersion,
    HugeSupportedVersion, GotSetVersion, Open, ServeError, ServeDone, Join
<1>3. CASE OutSeesDone \/ OutFindsNoAck \/ OutTakesAck \/ OutWriteFails
  BY <1>1, <1>3 DEF OutSeesDone, OutFindsNoAck, OutTakesAck, OutWriteFails, OutStops
<1>4. ASSUME NEW p \in Callers, OutTakesRequest(p) PROVE LastInv'
  BY <1>1, <1>4 DEF OutTakesRequest
<1>5. CASE OutWrites
  <2>1. outPc = "write" /\ wire' = Append(wire, Stamped(outMsg)) /\ UNCHANGED connPc
        /\ outPc' = NextAfterWrite(outMsg)
    BY <1>5 DEF OutWrites
  <2>2. wire \in Seq(Outgoing(Ids)) /\ outMsg \in Outgoing(Ids)
    BY DEF TypeOK, NetworkTypeOK, GoroutineTypeOK
  <2>3. ~Sent("CloseConnection")
    BY <2>1
  <2>4. Stamped(outMsg).type = outMsg.type
    BY <2>2 DEF Stamped, Outgoing
  <2>5. \A i \in DOMAIN wire' :
          wire'[i].type = "CloseConnection" => i = Len(wire') /\ outMsg.type = "CloseConnection"
    BY <2>1, <2>2, <2>3, <2>4 DEF Sent
  <2>. QED
    BY <2>1, <2>5 DEF CloseConnectionIsLast, Sent, NextAfterWrite
<1>6. CASE IncomingStep
  BY <1>1, <1>6 DEF IncomingStep, InSeesDone, InContinues, InReads, InReadFails, InDelivers,
    InReplyCut, InHandles, InDiscardFails, InStops, AwaitClose
<1>7. ASSUME NEW p \in Callers, CallerStep(p) PROVE LastInv'
  BY <1>1, <1>7 DEF CallerStep, PassGate, Withdraw, GiveUp, Receive, CallClose
<1>8. ASSUME NEW p \in Senders, NEW o \in Operations, Begin(p, o) PROVE LastInv'
  BY <1>1, <1>8 DEF Begin
<1>9. CASE ReaderStep \/ OwnerCloses \/ UNCHANGED vars
  BY <1>1, <1>9 DEF ReaderStep, Answer, Notify, Hangup, OwnerCloses, vars, clientVars
<1>. QED
  BY <1>2, <1>3, <1>4, <1>5, <1>6, <1>7, <1>8, <1>9 DEF Next, Rest, ClientStep, OutgoingStep

LEMMA LastCorrect == Spec => []LastInv
<1>1. Init => LastInv
  BY DEF Init, ClientInit, LastInv, CloseConnectionIsLast, Sent
<1>2. TypeOK /\ LastInv /\ [Next]_vars => LastInv'
  BY LastStep
<1>. QED
  BY <1>1, <1>2, TypeCorrect, PTL DEF Spec

(***************************************************************************)
(* Nothing, not even an acknowledgement, follows CloseConnection, however  *)
(* many callers send and shut down at once (reader.go, handleOutgoing).    *)
(***************************************************************************)
THEOREM ClosingIsLast == Spec => []CloseConnectionIsLast
<1>1. LastInv => CloseConnectionIsLast
  BY DEF LastInv
<1>. QED
  BY <1>1, LastCorrect, PTL

-----------------------------------------------------------------------------
(* The negotiation                                                         *)

Writing(t) == outPc = "write" /\ outMsg.type = t
Answered(t) == \E i \in answered : wire[i].type = t

(* What the gate and the negotiation keep apart. *)
Ordinary(t) == t \notin VersionRequests \cup {"KeepAliveAck"}

Negotiating == {"getVersion", "setVersion"}

(* Connect's goroutine has nothing more to negotiate. *)
Negotiated ==
  /\ \A i \in DOMAIN wire : wire[i].type \in VersionRequests => i \in answered
  /\ ClientVersion > Version1_0_1 => Answered("GetSupportedVersion")
  /\ \A t \in VersionRequests : ~Writing(t)
  /\ phase[Conn] \in {"idle", "returned"}

(* The stages of Connect. *)
NothingYet ==
  /\ outPc = "off" => wire = <<>>
  /\ connPc \in {"idle", "hello"} =>
       outPc = "off" /\ phase[Conn] = "idle" /\ version = ClientVersion

OpenWhenNegotiated ==
  /\ connPc \in {"idle", "hello", "open"} \cup Negotiating => ~ready
  /\ connPc = "open" \/ (ready /\ outPc # "off") => Negotiated

(* The goroutine that negotiates is in a send only while it does. *)
ConnSends ==
  /\ phase[Conn] \in {"idle", "offer", "await", "returned"}
  /\ connPc \notin Negotiating => phase[Conn] \in {"idle", "returned"}

(* A request is written once, and not before it is offered. *)
Offers(t) == op[Conn] = t /\ (phase[Conn] = "offer" => ~Sent(t) /\ ~Writing(t))

GettingVersion ==
  connPc = "getVersion" =>
    /\ Offers("GetSupportedVersion") /\ ClientVersion > Version1_0_1
    /\ ~Sent("SetProtocolVersion") /\ ~Writing("SetProtocolVersion")

SettingVersion ==
  connPc = "setVersion" =>
    /\ Offers("SetProtocolVersion") /\ ClientVersion > Version1_0_1
    /\ Answered("GetSupportedVersion")

VersionRequestedOnce ==
  \A t \in VersionRequests :
    /\ \A i, j \in DOMAIN wire : wire[i].type = t /\ wire[j].type = t => i = j
    /\ Sent(t) => ~Writing(t)

SetFollowsGet ==
  Sent("SetProtocolVersion") \/ Writing("SetProtocolVersion") => Answered("GetSupportedVersion")

(* The senders stay behind the gate and leave the negotiation to Connect. *)
SendersWait ==
  /\ \A p \in Senders : op[p] \notin VersionRequests /\ (phase[p] = "offer" => ready)
  /\ \A t \in OutgoingTypes : Ordinary(t) /\ (Sent(t) \/ Writing(t)) => ready

(* A reply proves that the reader has answered what it replies to. *)
Tells(m) ==
  /\ m.type \in {"GetSupportedVersionResponse", "SetProtocolVersionResponse", "ErrorMessage"}
       => (ClientVersion > Version1_0_1 => Answered("GetSupportedVersion"))
  /\ m.type = "SetProtocolVersionResponse" => Answered("SetProtocolVersion")
  /\ AcceptsClose(m) => Answered("CloseConnection")

RepliesTell ==
  /\ \A i \in DOMAIN stream : Tells(stream[i])
  /\ inPc = "deliver" => Tells(inMsg)
  /\ \A p \in Callers : chan[p] = "full" => Tells(reply[p])

StagesInv ==
  /\ NothingYet /\ OpenWhenNegotiated /\ ConnSends
  /\ GettingVersion /\ SettingVersion /\ VersionRequestedOnce /\ SetFollowsGet
  /\ SendersWait /\ NegotiationComesFirst

-----------------------------------------------------------------------------
(* Facts about what is on the wire.                                        *)

LEMMA WireFacts ==
  ASSUME TypeOK
  PROVE  /\ wire \in Seq(Outgoing(Ids)) /\ answered \subseteq DOMAIN wire
         /\ outMsg \in Outgoing(Ids)
         /\ \A t : Answered(t) => Sent(t)
BY DEF TypeOK, NetworkTypeOK, GoroutineTypeOK, Answered, Sent

(* A step that writes nothing and answers nothing. *)
LEMMA NegotiationFrame ==
  ASSUME TypeOK, StagesInv,
         UNCHANGED <<ready, version, wire, answered>>,
         op'[Conn] = op[Conn], \A p \in Senders : op'[p] = op[p] \/ op'[p] \notin VersionRequests,
         connPc' = connPc \/ (connPc' \in {"refused", "join", "returned"} /\ phase[Conn] \in {"idle", "returned"}),
         outPc' = "off" <=> outPc = "off",
         outPc' = "write" => outPc = "write" /\ outMsg' = outMsg,
         \A p \in Senders : phase'[p] = "offer" => phase[p] = "offer" \/ ready,
         \/ phase'[Conn] = phase[Conn]
         \/ phase[Conn] \in {"offer", "await"} /\ phase'[Conn] = "returned"
  PROVE  StagesInv'
<1>. USE DEF StagesInv
<1>1. \A t : (Writing(t))' => Writing(t)
  BY DEF Writing
<1>2. \A t : (Sent(t) <=> Sent(t)') /\ (Answered(t) <=> Answered(t)')
  BY DEF Sent, Answered
<1>3. NothingYet'
  BY DEF NothingYet
<1>4. Negotiated => Negotiated'
  BY <1>1, <1>2 DEF Negotiated
<1>5. OpenWhenNegotiated'
  BY <1>4 DEF OpenWhenNegotiated, Negotiating
<1>6. ConnSends'
  BY DEF ConnSends, Negotiating
<1>7. \A t : Offers(t) => Offers(t)'
  BY <1>1, <1>2 DEF Offers
<1>8. GettingVersion' /\ SettingVersion'
  BY <1>1, <1>2, <1>7 DEF GettingVersion, SettingVersion
<1>9. VersionRequestedOnce' /\ SetFollowsGet'
  BY <1>1, <1>2 DEF VersionRequestedOnce, SetFollowsGet
<1>10. SendersWait'
  BY <1>1, <1>2 DEF SendersWait
<1>11. NegotiationComesFirst'
  BY DEF NegotiationComesFirst
<1>. QED
  BY <1>3, <1>5, <1>6, <1>8, <1>9, <1>10, <1>11

(* handleOutgoing takes an acknowledgement or the request of a sender. *)
LEMMA TakesStages ==
  ASSUME TypeOK, StagesInv, NEW t \in OutgoingTypes \ VersionRequests,
         outPc \in {"pick", "wait"}, outPc' = "write", outMsg'.type = t,
         UNCHANGED <<connPc, ready, version, wire, answered, op>>,
         Ordinary(t) => ready,
         phase'[Conn] = phase[Conn],
         \A p \in Senders : phase'[p] = "offer" => phase[p] = "offer"
  PROVE  StagesInv'
<1>. USE DEF StagesInv
<1>1. \A u : (Writing(u))' => u = t
  BY DEF Writing
<1>2. \A u : (Sent(u) <=> Sent(u)') /\ (Answered(u) <=> Answered(u)')
  BY DEF Sent, Answered
<1>3. t # "GetSupportedVersion" /\ t # "SetProtocolVersion"
  BY DEF VersionRequests
<1>4. NothingYet'
  BY DEF NothingYet
<1>5. Negotiated => Negotiated'
  BY <1>1, <1>2 DEF Negotiated
<1>6. OpenWhenNegotiated'
  BY <1>5 DEF OpenWhenNegotiated, Negotiating
<1>7. ConnSends'
  BY DEF ConnSends, Negotiating
<1>8. GettingVersion' /\ SettingVersion'
  BY <1>1, <1>2, <1>3 DEF GettingVersion, SettingVersion, Offers
<1>9. VersionRequestedOnce' /\ SetFollowsGet'
  BY <1>1, <1>2, <1>3 DEF VersionRequestedOnce, SetFollowsGet
<1>10. SendersWait'
  BY <1>1, <1>2 DEF SendersWait
<1>11. NegotiationComesFirst'
  BY DEF NegotiationComesFirst
<1>. QED
  BY <1>4, <1>6, <1>7, <1>8, <1>9, <1>10, <1>11

(* It takes a request of the negotiation. *)
LEMMA TakesVersionRequestStages ==
  ASSUME TypeOK, StagesInv, phase[Conn] = "offer",
         outPc = "wait", outPc' = "write", outMsg'.type = op[Conn],
         UNCHANGED <<connPc, ready, version, wire, answered, op>>,
         phase'[Conn] \in {"await", "returned"},
         \A p \in Senders : phase'[p] = phase[p]
  PROVE  StagesInv'
<1>. USE DEF StagesInv
<1>1. \A u : (Writing(u))' => u = op[Conn]
  BY DEF Writing
<1>2. \A u : (Sent(u) <=> Sent(u)') /\ (Answered(u) <=> Answered(u)')
  BY DEF Sent, Answered
<1>3. connPc \in Negotiating
  BY DEF ConnSends
<1>4. /\ op[Conn] \in VersionRequests /\ ~Sent(op[Conn])
      /\ op[Conn] = "SetProtocolVersion" => connPc = "setVersion"
      /\ op[Conn] = "GetSupportedVersion" => connPc = "getVersion"
  BY <1>3 DEF Negotiating, GettingVersion, SettingVersion, Offers, VersionRequests
<1>5. NothingYet'
  BY DEF NothingYet
<1>6. OpenWhenNegotiated'
  BY <1>3 DEF OpenWhenNegotiated, Negotiating
<1>7. ConnSends'
  BY DEF ConnSends, Negotiating
<1>8. GettingVersion' /\ SettingVersion'
  BY <1>1, <1>2, <1>4 DEF GettingVersion, SettingVersion, Offers
<1>9. VersionRequestedOnce' /\ SetFollowsGet'
  BY <1>1, <1>2, <1>4 DEF VersionRequestedOnce, SetFollowsGet, SettingVersion
<1>10. SendersWait'
  BY <1>1, <1>2, <1>4 DEF SendersWait, Ordinary
<1>11. NegotiationComesFirst'
  BY DEF NegotiationComesFirst
<1>. QED
  BY <1>5, <1>6, <1>7, <1>8, <1>9, <1>10, <1>11

(* The message that was taken is written. *)
LEMMA WritesStages ==
  ASSUME TypeOK, StagesInv, OutWrites, UNCHANGED answered
  PROVE  StagesInv'
<1>. USE DEF StagesInv
<1>. DEFINE t == outMsg.type
<1>0. wire \in Seq(Outgoing(Ids)) /\ answered \subseteq DOMAIN wire /\ outMsg \in Outgoing(Ids)
  BY WireFacts
<1>1. /\ outPc = "write" /\ outPc' \notin {"write", "off"}
      /\ UNCHANGED <<connPc, ready, version, answered, op, phase>>
  BY DEF OutWrites, NextAfterWrite, connectVars, callVars
<1>2. /\ DOMAIN wire' = DOMAIN wire \cup {Len(wire')} /\ Len(wire') = Len(wire) + 1
      /\ \A i \in DOMAIN wire : i < Len(wire') /\ wire'[i] = wire[i]
      /\ wire'[Len(wire')].type = t /\ t \in OutgoingTypes
  <2>1. Stamped(outMsg) \in Outgoing(Ids) /\ Stamped(outMsg).type = t
    <3>1. CASE outMsg.type \in VersionRequests
      BY <1>0, <3>1, StampedType DEF Stamped, Outgoing
    <3>2. CASE outMsg.type \notin VersionRequests
      BY <1>0, <3>2, StampedType DEF Stamped, Outgoing
    <3>. QED
      BY <3>1, <3>2
  <2>2. wire' = Append(wire, Stamped(outMsg))
    BY DEF OutWrites
  <2>. QED
    BY <1>0, <2>1, <2>2 DEF Outgoing
<1>. HIDE DEF t
<1>3. \A u : ~(Writing(u))'
  BY <1>1 DEF Writing
<1>4. \A u : (Sent(u))' <=> (Sent(u) \/ u = t)
  BY <1>2 DEF Sent
<1>5. \A u : Answered(u) <=> (Answered(u))'
  BY <1>0, <1>1, <1>2 DEF Answered
<1>6. Writing(t)
  BY <1>1 DEF Writing, t
<1>7. NothingYet'
  BY <1>1, <1>2 DEF NothingYet
<1>8. Negotiated => Negotiated'
  BY <1>1, <1>2, <1>3, <1>5, <1>6 DEF Negotiated
<1>9. OpenWhenNegotiated'
  BY <1>1, <1>8 DEF OpenWhenNegotiated, Negotiating
<1>10. ConnSends'
  BY <1>1 DEF ConnSends, Negotiating
<1>11. GettingVersion' /\ SettingVersion'
  BY <1>1, <1>3, <1>4, <1>5, <1>6 DEF GettingVersion, SettingVersion, Offers
<1>12. VersionRequestedOnce'
  <2>. SUFFICES ASSUME NEW u \in VersionRequests, NEW i \in DOMAIN wire', NEW j \in DOMAIN wire',
                       wire'[i].type = u, wire'[j].type = u
                PROVE  i = j
    BY <1>3 DEF VersionRequestedOnce
  <2>1. CASE u = t
    <3>1. ~Sent(u)
      BY <1>6, <2>1 DEF VersionRequestedOnce
    <3>. QED
      BY <1>2, <3>1 DEF Sent
  <2>2. CASE u # t
    BY <1>2, <2>2 DEF VersionRequestedOnce
  <2>. QED
    BY <2>1, <2>2
<1>13. SetFollowsGet'
  BY <1>3, <1>4, <1>5, <1>6 DEF SetFollowsGet
<1>14. SendersWait'
  BY <1>1, <1>2, <1>3, <1>4, <1>6 DEF SendersWait
<1>15. NegotiationComesFirst'
  <2>1. CASE t \in VersionRequests
    <3>1. \A i \in DOMAIN wire : ~Ordinary(wire[i].type)
      <4>. SUFFICES ASSUME NEW i \in DOMAIN wire, Ordinary(wire[i].type) PROVE FALSE
        OBVIOUS
      <4>1. Sent(wire[i].type) /\ wire[i].type \in OutgoingTypes
        <5>1. wire[i] \in Outgoing(Ids)
          BY <1>0
        <5>. QED
          BY <5>1 DEF Sent, Outgoing
      <4>2. ready
        BY <4>1 DEF SendersWait
      <4>3. Negotiated
        BY <1>1, <4>2 DEF OpenWhenNegotiated
      <4>. QED
        BY <1>6, <2>1, <4>3 DEF Negotiated
    <3>2. \A i \in DOMAIN wire' : ~Ordinary(wire'[i].type)
      BY <1>2, <2>1, <3>1 DEF Ordinary
    <3>. QED
      BY <3>2 DEF NegotiationComesFirst, Ordinary
  <2>2. CASE t = "KeepAliveAck"
    BY <1>0, <1>1, <1>2, <2>2 DEF NegotiationComesFirst, VersionRequests
  <2>3. CASE Ordinary(t)
    <3>1. Negotiated
      BY <1>1, <1>2, <1>6, <2>3 DEF SendersWait, OpenWhenNegotiated
    <3>2. \A j \in DOMAIN wire' : wire'[j].type \in VersionRequests => j < Len(wire') /\ j \in answered'
      BY <1>1, <1>2, <2>3, <3>1 DEF Negotiated, Ordinary
    <3>3. ClientVersion > Version1_0_1 => \E j \in answered' : wire'[j].type = "GetSupportedVersion"
      BY <1>5, <3>1 DEF Negotiated, Answered
    <3>4. \A i \in DOMAIN wire : wire'[i].type \notin VersionRequests \cup {"KeepAliveAck"} =>
            \A j \in DOMAIN wire' : wire'[j].type \in VersionRequests => j < i
      BY <1>2, <2>3 DEF NegotiationComesFirst, Ordinary
    <3>. QED
      BY <1>2, <3>2, <3>3, <3>4 DEF NegotiationComesFirst
  <2>. QED
    BY <2>1, <2>2, <2>3 DEF Ordinary
<1>. QED
  BY <1>7, <1>9, <1>10, <1>11, <1>12, <1>13, <1>14, <1>15

(* The reader's answers end the stages of the negotiation. *)
LEMMA GetVersionEnds ==
  ASSUME TypeOK, ChannelOwnership, StagesInv, RepliesTell, GotSupportedVersion, UNCHANGED answered
  PROVE  StagesInv'
<1>. USE DEF StagesInv, connectVars, outgoingVars, networkVars, callVars
<1>1. /\ connPc = "getVersion" /\ GotReply /\ chan[Conn] = "full"
      /\ UNCHANGED <<ready, outPc, outMsg, wire>>
  BY DEF GotSupportedVersion, ChannelOwnership, NegotiatorIsDoneWaiting, GotReply
<1>2. reply[Conn].type \in {"GetSupportedVersionResponse", "ErrorMessage"}
  BY DEF GotSupportedVersion, SupportedVersions
<1>3. /\ Answered("GetSupportedVersion") /\ ClientVersion > Version1_0_1
      /\ ~Sent("SetProtocolVersion") /\ ~Writing("SetProtocolVersion") /\ ~ready
  BY <1>1, <1>2 DEF RepliesTell, Tells, Callers, GettingVersion, OpenWhenNegotiated, Negotiating
<1>4. \A u : /\ (Writing(u))' <=> Writing(u)
             /\ (Sent(u))' <=> Sent(u)
             /\ (Answered(u))' <=> Answered(u)
  BY <1>1 DEF Writing, Sent, Answered
<1>5. outPc # "off"
  BY <1>3, WireFacts DEF NothingYet, Sent
<1>6. VersionRequestedOnce' /\ SetFollowsGet' /\ NegotiationComesFirst'
  BY <1>1, <1>4 DEF VersionRequestedOnce, SetFollowsGet, NegotiationComesFirst
<1>7. CASE connPc' = "open" /\ UNCHANGED callVars
  <2>1. \A i \in DOMAIN wire : wire[i].type \in VersionRequests => i \in answered
    BY <1>3, WireFacts DEF VersionRequestedOnce, VersionRequests, Answered, Sent
  <2>2. \A u \in VersionRequests : ~Writing(u)
    BY <1>3, WireFacts DEF VersionRequestedOnce, VersionRequests
  <2>3. Negotiated'
    BY <1>1, <1>3, <1>4, <1>7, <2>1, <2>2 DEF Negotiated, GotReply
  <2>4. OpenWhenNegotiated' /\ NothingYet'
    BY <1>1, <1>3, <1>7, <2>3 DEF OpenWhenNegotiated, NothingYet
  <2>5. ConnSends' /\ GettingVersion' /\ SettingVersion'
    BY <1>1, <1>7 DEF ConnSends, Negotiating, GettingVersion, SettingVersion, GotReply
  <2>6. SendersWait'
    BY <1>1, <1>4, <1>7 DEF SendersWait
  <2>. QED
    BY <1>6, <2>4, <2>5, <2>6
<1>8. CASE connPc' = "setVersion" /\ SendFromConnect("SetProtocolVersion")
  <2>1. /\ op'[Conn] = "SetProtocolVersion" /\ phase'[Conn] = "offer"
        /\ \A p \in Senders : op'[p] = op[p] /\ phase'[p] = phase[p]
    BY <1>8, CallersAssumption DEF SendFromConnect, TypeOK, CallTypeOK, Callers
  <2>2. OpenWhenNegotiated' /\ NothingYet'
    BY <1>1, <1>3, <1>8 DEF OpenWhenNegotiated, NothingYet
  <2>3. ConnSends' /\ GettingVersion' /\ SettingVersion'
    BY <1>3, <1>4, <1>8, <2>1 DEF ConnSends, Negotiating, GettingVersion, SettingVersion, Offers
  <2>4. SendersWait'
    BY <1>1, <1>4, <2>1 DEF SendersWait
  <2>. QED
    BY <1>6, <2>2, <2>3, <2>4
<1>. QED
  BY <1>7, <1>8 DEF GotSupportedVersion

LEMMA SetVersionEnds ==
  ASSUME TypeOK, ChannelOwnership, StagesInv, RepliesTell, GotSetVersion, UNCHANGED answered
  PROVE  StagesInv'
<1>. USE DEF StagesInv, connectVars, outgoingVars, networkVars, callVars
<1>1. /\ connPc = "setVersion" /\ connPc' = "open" /\ GotReply /\ chan[Conn] = "full"
      /\ UNCHANGED <<ready, version, outPc, outMsg, wire, phase, op>>
  BY DEF GotSetVersion, ChannelOwnership, NegotiatorIsDoneWaiting, GotReply
<1>2. Answered("SetProtocolVersion") /\ Answered("GetSupportedVersion") /\ ~ready
  BY <1>1 DEF GotSetVersion, SetVersionAccepted, RepliesTell, Tells, Callers, SettingVersion,
    OpenWhenNegotiated, Negotiating
<1>3. \A u : /\ (Writing(u))' <=> Writing(u)
             /\ (Sent(u))' <=> Sent(u)
             /\ (Answered(u))' <=> Answered(u)
  BY <1>1 DEF Writing, Sent, Answered
<1>4. \A i \in DOMAIN wire : wire[i].type \in VersionRequests => i \in answered
  BY <1>2, WireFacts DEF VersionRequestedOnce, VersionRequests, Answered
<1>5. \A u \in VersionRequests : ~Writing(u)
  BY <1>2, WireFacts DEF VersionRequestedOnce, VersionRequests
<1>6. Negotiated'
  BY <1>1, <1>2, <1>3, <1>4, <1>5 DEF Negotiated, GotReply
<1>7. OpenWhenNegotiated' /\ NothingYet'
  BY <1>1, <1>2, <1>6 DEF OpenWhenNegotiated, NothingYet
<1>8. ConnSends' /\ GettingVersion' /\ SettingVersion'
  BY <1>1 DEF ConnSends, Negotiating, GettingVersion, SettingVersion, GotReply
<1>9. VersionRequestedOnce' /\ SetFollowsGet' /\ NegotiationComesFirst' /\ SendersWait'
  BY <1>1, <1>3 DEF VersionRequestedOnce, SetFollowsGet, NegotiationComesFirst, SendersWait
<1>. QED
  BY <1>7, <1>8, <1>9

LEMMA ConnectStages ==
  ASSUME TypeOK, ChannelOwnership, StagesInv, RepliesTell, ConnectStep, UNCHANGED answered
  PROVE  StagesInv'
<1>. USE DEF StagesInv, connectVars, outgoingVars, networkVars, callVars
<1>0. phase[Conn] \in {"idle", "returned"} \/ connPc \in Negotiating
  BY DEF ConnSends
<1>1. CASE StartConnect
  <2>1. /\ connPc = "idle" /\ connPc' = "hello"
        /\ UNCHANGED <<ready, version, outPc, outMsg, wire, answered, op, phase>>
    BY <1>1 DEF StartConnect
  <2>2. NothingYet' /\ OpenWhenNegotiated' /\ ConnSends' /\ GettingVersion' /\ SettingVersion'
    BY <2>1 DEF NothingYet, OpenWhenNegotiated, Negotiated, Answered, Writing, ConnSends,
      Negotiating, GettingVersion, SettingVersion
  <2>3. VersionRequestedOnce' /\ SetFollowsGet' /\ SendersWait' /\ NegotiationComesFirst'
    BY <2>1 DEF VersionRequestedOnce, SetFollowsGet, SendersWait, NegotiationComesFirst, Sent,
      Writing, Answered
  <2>. QED
    BY <2>2, <2>3
<1>2. CASE HelloFails
  <2>1. /\ connPc = "hello" /\ connPc' = "refused" /\ ready' = TRUE /\ outPc = "off"
        /\ UNCHANGED <<outPc, outMsg, wire, answered, op, phase>>
    BY <1>2 DEF HelloFails, NothingYet
  <2>2. NothingYet' /\ OpenWhenNegotiated' /\ ConnSends' /\ GettingVersion' /\ SettingVersion'
    BY <2>1 DEF NothingYet, OpenWhenNegotiated, ConnSends, Negotiating, GettingVersion, SettingVersion
  <2>3. VersionRequestedOnce' /\ SetFollowsGet' /\ SendersWait' /\ NegotiationComesFirst'
    BY <2>1 DEF VersionRequestedOnce, SetFollowsGet, SendersWait, NegotiationComesFirst, Sent,
      Writing, Answered
  <2>. QED
    BY <2>2, <2>3
<1>3. CASE ReadHello
  <2>1. /\ connPc = "hello" /\ wire = <<>> /\ version = ClientVersion /\ phase[Conn] = "idle" /\ ~ready
        /\ outPc' = "pick" /\ UNCHANGED <<ready, version, outMsg, wire, answered>>
    BY <1>3 DEF ReadHello, NothingYet, OpenWhenNegotiated
  <2>2. \A u : ~(Sent(u))' /\ ~(Writing(u))'
    BY <2>1 DEF Sent, Writing
  <2>3. VersionRequestedOnce' /\ SetFollowsGet' /\ NegotiationComesFirst'
    BY <2>1, <2>2 DEF VersionRequestedOnce, SetFollowsGet, NegotiationComesFirst
  <2>4. CASE connPc' = "getVersion" /\ SendFromConnect("GetSupportedVersion") /\ version > Version1_0_1
    <3>1. /\ op'[Conn] = "GetSupportedVersion" /\ phase'[Conn] = "offer"
          /\ \A p \in Senders : op'[p] = op[p] /\ phase'[p] = phase[p]
      BY <2>4, CallersAssumption DEF SendFromConnect, TypeOK, CallTypeOK, Callers
    <3>. QED
      BY <2>1, <2>2, <2>3, <2>4, <3>1 DEF NothingYet, OpenWhenNegotiated, ConnSends, Negotiating,
        GettingVersion, SettingVersion, Offers, SendersWait
  <2>5. CASE connPc' = "open" /\ UNCHANGED <<op, phase>> /\ version = Version1_0_1
    <3>1. Negotiated'
      BY <2>1, <2>2, <2>5 DEF Negotiated, Version1_0_1
    <3>. QED
      BY <2>1, <2>2, <2>3, <2>5, <3>1 DEF NothingYet, OpenWhenNegotiated, ConnSends, Negotiating,
        GettingVersion, SettingVersion, SendersWait
  <2>. QED
    BY <1>3, <2>4, <2>5 DEF ReadHello
<1>4. CASE Open
  <2>1. /\ connPc = "open" /\ connPc' = "serve" /\ ready' = TRUE
        /\ UNCHANGED <<version, outPc, outMsg, wire, answered, op, phase>>
    BY <1>4 DEF Open
  <2>2. Negotiated'
    BY <2>1 DEF OpenWhenNegotiated, Negotiated, Answered, Writing
  <2>3. NothingYet' /\ OpenWhenNegotiated' /\ ConnSends' /\ GettingVersion' /\ SettingVersion'
    BY <2>1, <2>2 DEF NothingYet, OpenWhenNegotiated, ConnSends, Negotiating, GettingVersion, SettingVersion
  <2>4. VersionRequestedOnce' /\ SetFollowsGet' /\ SendersWait' /\ NegotiationComesFirst'
    BY <2>1 DEF VersionRequestedOnce, SetFollowsGet, SendersWait, NegotiationComesFirst, Sent,
      Writing, Answered
  <2>. QED
    BY <2>3, <2>4
<1>5. CASE Refused \/ NegotiationAborted \/ NegotiationRefused \/ HugeSupportedVersion
           \/ ServeError \/ ServeDone \/ Join
  <2>1. UNCHANGED <<ready, version, outPc, outMsg, wire, answered, op, phase>>
    BY <1>5 DEF Refused, NegotiationAborted, NegotiationRefused, FailNegotiation,
      HugeSupportedVersion, ServeError, ServeDone, Join
  <2>2. \/ connPc' = connPc
        \/ connPc' \in {"refused", "join", "returned"} /\ phase[Conn] \in {"idle", "returned"}
    BY <1>0, <1>5 DEF Refused, NegotiationAborted, NegotiationRefused, FailNegotiation,
      HugeSupportedVersion, ServeError, ServeDone, Join, GotReply, GotZero, Negotiating
  <2>. QED
    BY <2>1, <2>2, NegotiationFrame
<1>. QED
  BY <1>1, <1>2, <1>3, <1>4, <1>5, GetVersionEnds, SetVersionEnds DEF ConnectStep

(* The goroutines. *)
LEMMA OutgoingStages ==
  ASSUME TypeOK, StagesInv, OutgoingStep, UNCHANGED answered
  PROVE  StagesInv'
<1>. USE DEF connectVars, outgoingVars, networkVars, callVars
<1>1. CASE OutTakesAck
  <2>1. /\ outPc \in {"pick", "wait"} /\ outPc' = "write" /\ outMsg'.type = "KeepAliveAck"
        /\ UNCHANGED <<connPc, ready, version, wire, answered, op, phase>>
    BY <1>1 DEF OutTakesAck, KeepAliveAck
  <2>2. "KeepAliveAck" \in OutgoingTypes \ VersionRequests /\ ~Ordinary("KeepAliveAck")
    BY DEF OutgoingTypes, VersionRequests, Ordinary
  <2>. QED
    BY <2>1, <2>2, TakesStages
<1>2. ASSUME NEW p \in Callers, OutTakesRequest(p)
      PROVE  StagesInv'
  <2>1. /\ outPc = "wait" /\ phase[p] = "offer" /\ outPc' = "write"
        /\ outMsg'.type = RequestType[op[p]]
        /\ UNCHANGED <<connPc, ready, version, wire, answered, op>>
        /\ \E s \in {"await", "returned"} : phase' = [phase EXCEPT ![p] = s]
    BY <1>2 DEF OutTakesRequest, NewHdrOnlyMsg
  <2>2. op[p] \in Requests /\ phase \in [Callers -> CallerPhases]
    BY <2>1 DEF TypeOK, CallTypeOK
  <2>3. CASE p = Conn
    <3>1. op[Conn] \in VersionRequests
      BY <2>1, <2>3 DEF StagesInv, ConnSends, GettingVersion, SettingVersion, Offers, Negotiating,
        VersionRequests
    <3>2. RequestType[op[Conn]] = op[Conn]
      BY <3>1 DEF VersionRequests, RequestType
    <3>3. phase'[Conn] \in {"await", "returned"} /\ \A q \in Senders : phase'[q] = phase[q]
      BY <2>1, <2>2, <2>3, CallersAssumption DEF Callers
    <3>. QED
      BY <2>1, <2>3, <3>2, <3>3, TakesVersionRequestStages
  <2>4. CASE p # Conn
    <3>1. p \in Senders
      BY <2>4 DEF Callers
    <3>2. op[p] \notin VersionRequests /\ ready
      BY <2>1, <3>1 DEF StagesInv, SendersWait
    <3>3. RequestType[op[p]] \in OutgoingTypes \ VersionRequests
      BY <2>2, <3>2, RequestNames DEF RequestType, OutgoingTypes, AwaitedRequests, VersionRequests
    <3>4. phase'[Conn] = phase[Conn] /\ \A q \in Senders : phase'[q] = "offer" => phase[q] = "offer"
      BY <2>1, <2>2, <2>4 DEF Callers
    <3>. QED
      BY <2>1, <3>2, <3>3, <3>4, TakesStages
  <2>. QED
    BY <2>3, <2>4
<1>3. CASE OutSeesDone \/ OutFindsNoAck \/ OutWriteFails
  <2>1. /\ UNCHANGED <<connPc, ready, version, wire, answered, op, phase>>
        /\ outPc # "off" /\ outPc' \notin {"off", "write"}
    BY <1>3 DEF OutSeesDone, OutFindsNoAck, OutWriteFails, OutStops
  <2>. QED
    BY <2>1, NegotiationFrame
<1>. QED
  BY <1>1, <1>2, <1>3, WritesStages DEF OutgoingStep

LEMMA IncomingStages ==
  ASSUME TypeOK, StagesInv, IncomingStep, UNCHANGED answered
  PROVE  StagesInv'
<1>1. UNCHANGED <<connPc, ready, version, outPc, outMsg, wire, answered, op, phase>>
  BY DEF IncomingStep, InSeesDone, InContinues, InReads, InReadFails, InDelivers, InReplyCut,
    InHandles, InDiscardFails, InStops, AwaitClose, connectVars, outgoingVars, networkVars, callVars
<1>. QED
  BY <1>1, NegotiationFrame

(* The callers. *)
LEMMA CallerStages ==
  ASSUME TypeOK, StagesInv, NEW p \in Callers, CallerStep(p), UNCHANGED answered
  PROVE  StagesInv'
<1>. USE DEF connectVars, outgoingVars, networkVars, callVars
<1>1. UNCHANGED <<connPc, ready, version, outPc, outMsg, wire, answered, op>>
  BY DEF CallerStep, PassGate, Withdraw, GiveUp, Receive, CallClose
<1>2. phase \in [Callers -> CallerPhases] /\ Conn \in Callers /\ Senders \subseteq Callers
  BY DEF TypeOK, CallTypeOK, Callers
<1>3. CASE PassGate(p)
  <2>1. phase[p] = "gate" /\ ready /\ phase' = [phase EXCEPT ![p] = "offer"]
    BY <1>3 DEF PassGate
  <2>2. p # Conn
    BY <2>1 DEF StagesInv, ConnSends
  <2>. QED
    BY <1>1, <1>2, <2>1, <2>2, NegotiationFrame
<1>4. CASE Withdraw(p) \/ GiveUp(p)
  <2>1. phase[p] \in {"gate", "offer", "await"} /\ phase' = [phase EXCEPT ![p] = "returned"]
    BY <1>4 DEF Withdraw, GiveUp, StopsWaiting, Returns
  <2>2. phase'[Conn] = phase[Conn] \/ (phase[Conn] \in {"offer", "await"} /\ phase'[Conn] = "returned")
    BY <1>2, <2>1 DEF StagesInv, ConnSends
  <2>. QED
    BY <1>1, <1>2, <2>1, <2>2, NegotiationFrame
<1>5. CASE Receive(p)
  <2>1. phase[p] = "await" /\ \E s \in {"close", "returned"} :
          phase' = [phase EXCEPT ![p] = s] /\ (s = "close" => op[p] = "Shutdown")
    BY <1>5 DEF Receive, Returns
  <2>2. p = Conn => op[p] # "Shutdown"
    BY <2>1 DEF StagesInv, ConnSends, Negotiating, GettingVersion, SettingVersion, Offers
  <2>. QED
    BY <1>1, <1>2, <2>1, <2>2, NegotiationFrame
<1>6. CASE CallClose(p)
  <2>1. phase[p] = "close" /\ phase' = [phase EXCEPT ![p] = "returned"]
    BY <1>6 DEF CallClose, Returns
  <2>2. p # Conn
    BY <2>1 DEF StagesInv, ConnSends
  <2>. QED
    BY <1>1, <1>2, <2>1, <2>2, NegotiationFrame
<1>. QED
  BY <1>3, <1>4, <1>5, <1>6 DEF CallerStep

LEMMA BeginStages ==
  ASSUME TypeOK, StagesInv, NEW p \in Senders, NEW o \in Operations, Begin(p, o), UNCHANGED answered
  PROVE  StagesInv'
<1>1. /\ UNCHANGED <<connPc, ready, version, outPc, outMsg, wire, answered>>
      /\ op' = [op EXCEPT ![p] = o]
      /\ \E s \in {"close", "gate"} : phase' = [phase EXCEPT ![p] = s]
  BY DEF Begin, connectVars, outgoingVars, networkVars
<1>2. o \notin VersionRequests
  BY CallersAssumption DEF VersionRequests
<1>3. /\ phase'[Conn] = phase[Conn] /\ op'[Conn] = op[Conn]
      /\ \A q \in Senders : op'[q] = op[q] \/ op'[q] \notin VersionRequests
      /\ \A q \in Senders : phase'[q] = "offer" => phase[q] = "offer"
  BY <1>1, <1>2, CallersAssumption DEF TypeOK, CallTypeOK, Callers
<1>. QED
  BY <1>1, <1>3, NegotiationFrame

(* The reader: an answer takes nothing back. *)
LEMMA AnswerStages ==
  ASSUME TypeOK, StagesInv, NEW i \in DOMAIN wire, Answer(i)
  PROVE  StagesInv'
<1>. USE DEF StagesInv, connectVars, outgoingVars, networkVars, callVars
<1>1. /\ answered \subseteq answered'
      /\ UNCHANGED <<connPc, ready, version, outPc, outMsg, wire, op, phase>>
  BY DEF Answer
<1>2. \A u : /\ (Writing(u))' <=> Writing(u)
             /\ (Sent(u))' <=> Sent(u)
             /\ Answered(u) => Answered(u)'
  BY <1>1 DEF Writing, Sent, Answered
<1>3. Negotiated => Negotiated'
  BY <1>1, <1>2 DEF Negotiated
<1>4. NothingYet' /\ OpenWhenNegotiated' /\ ConnSends' /\ GettingVersion' /\ SettingVersion'
  BY <1>1, <1>2, <1>3 DEF NothingYet, OpenWhenNegotiated, ConnSends, GettingVersion, SettingVersion, Offers
<1>5. VersionRequestedOnce' /\ SetFollowsGet' /\ SendersWait' /\ NegotiationComesFirst'
  BY <1>1, <1>2 DEF VersionRequestedOnce, SetFollowsGet, SendersWait, NegotiationComesFirst
<1>. QED
  BY <1>4, <1>5

LEMMA StagesStep ==
  ASSUME TypeOK, ChannelOwnership, StagesInv, RepliesTell, [Next]_vars
  PROVE  StagesInv'
<1>1. CASE Notify \/ Hangup \/ OwnerCloses \/ UNCHANGED vars
  <2>1. UNCHANGED <<connPc, ready, version, outPc, outMsg, wire, answered, op, phase>>
    BY <1>1 DEF Notify, Hangup, OwnerCloses, vars, clientVars, connectVars, outgoingVars,
      networkVars, callVars
  <2>. QED
    BY <2>1, NegotiationFrame
<1>. QED
  BY <1>1, ConnectStages, OutgoingStages, IncomingStages, CallerStages, BeginStages, AnswerStages
  DEF Next, Rest, ClientStep, ReaderStep

-----------------------------------------------------------------------------
(* What replies prove.                                                     *)

(* What was sent and answered stays so. *)
LEMMA TellsStays ==
  ASSUME TypeOK, [Next]_vars, NEW m, Tells(m)
  PROVE  Tells(m)'
<1>1. answered \subseteq answered' /\ (wire' = wire \/ OutWrites)
  BY DEF Next, Rest, ClientStep, ReaderStep, ConnectStep, StartConnect, ReadHello, HelloFails,
    Refused, NegotiationAborted, NegotiationRefused, FailNegotiation, GotSupportedVersion,
    HugeSupportedVersion, GotSetVersion, Open, ServeError, ServeDone, Join, OutgoingStep,
    OutSeesDone, OutFindsNoAck, OutTakesAck, OutTakesRequest, OutWriteFails, OutStops,
    IncomingStep, InSeesDone, InContinues, InReads, InReadFails, InDelivers, InReplyCut,
    InHandles, InDiscardFails, InStops, AwaitClose, CallerStep, PassGate, Withdraw, GiveUp,
    Receive, CallClose, Begin, Answer, Notify, Hangup, OwnerCloses, vars, clientVars, networkVars
<1>2. \A i \in DOMAIN wire : i \in DOMAIN wire' /\ wire'[i] = wire[i]
  <2>1. wire \in Seq(Outgoing(Ids))
    BY WireFacts
  <2>. QED
    BY <1>1, <2>1 DEF OutWrites
<1>3. \A t : Answered(t) => Answered(t)'
  BY <1>1, <1>2, WireFacts DEF Answered
<1>. QED
  BY <1>3 DEF Tells

(* An answer proves what it is meant to prove. *)
LEMMA AnswerTells ==
  ASSUME TypeOK, StagesInv, NEW i \in DOMAIN wire, Answer(i), NEW m \in Replies(wire[i])
  PROVE  Tells(m)'
<1>1. /\ i \in answered' /\ answered \subseteq answered' /\ wire' = wire
      /\ wire[i].type \in AwaitedRequests
  BY DEF Answer
<1>2. \A t : Answered(t) \/ t = wire[i].type => Answered(t)'
  BY <1>1 DEF Answered
<1>3. m.type = Converse[wire[i].type] \/ m.type = "ErrorMessage"
  BY DEF Replies
<1>4. ClientVersion > Version1_0_1 => (Answered("GetSupportedVersion"))'
  <2>1. CASE wire[i].type = "GetSupportedVersion"
    BY <1>2, <2>1
  <2>2. CASE wire[i].type = "SetProtocolVersion"
    BY <1>2, <2>2 DEF StagesInv, SetFollowsGet, Sent
  <2>3. CASE wire[i].type \notin VersionRequests
    <3>1. wire[i].type # "KeepAliveAck"
      BY <1>1 DEF AwaitedRequests, VersionRequests
    <3>. QED
      BY <1>2, <2>3, <3>1 DEF StagesInv, NegotiationComesFirst, Answered
  <2>. QED
    BY <2>1, <2>2, <2>3 DEF VersionRequests
<1>5. m.type = "SetProtocolVersionResponse" => wire[i].type = "SetProtocolVersion"
  BY <1>1, <1>3 DEF Converse, AwaitedRequests, VersionRequests
<1>6. AcceptsClose(m) => wire[i].type = "CloseConnection"
  <2>1. m.type = "ErrorMessage" => m.body # "ok"
    BY <1>1 DEF Replies, Converse, AwaitedRequests, VersionRequests
  <2>. QED
    BY <1>1, <1>3, <2>1 DEF AcceptsClose, Converse, AwaitedRequests, VersionRequests
<1>. QED
  BY <1>2, <1>4, <1>5, <1>6 DEF Tells

LEMMA RepliesTellStep ==
  ASSUME TypeOK, StagesInv, RepliesTell, [Next]_vars
  PROVE  RepliesTell'
<1>. USE DEF RepliesTell, incomingVars, replyVars, networkVars
<1>0. \A m : Tells(m) => Tells(m)'
  BY TellsStays
<1>1. stream \in Seq(Incoming(Ids)) /\ Conn \in Callers /\ chan \in [Callers -> {"none", "open", "full", "closed"}]
  BY DEF TypeOK, NetworkTypeOK, CallTypeOK, Callers
<1>2. ASSUME stream' = stream \/ (stream # <<>> /\ stream' = Tail(stream)),
             inPc' = "deliver" => inPc = "deliver" /\ inMsg' = inMsg,
             \A p \in Callers : chan'[p] = "full" => chan[p] = "full", reply' = reply
      PROVE  RepliesTell'
  BY <1>0, <1>1, <1>2
<1>3. CASE ConnectStep
  BY <1>2, <1>3 DEF ConnectStep, StartConnect, ReadHello, HelloFails, Refused, CanRead,
    NegotiationAborted, NegotiationRefused, FailNegotiation, GotSupportedVersion,
    HugeSupportedVersion, GotSetVersion, Open, ServeError, ServeDone, Join
<1>4. ASSUME NEW p \in Callers, OutTakesRequest(p) PROVE RepliesTell'
  <2>1. UNCHANGED <<stream, inPc, inMsg, reply>> /\ (chan' = chan \/ chan' = [chan EXCEPT ![p] = "open"])
    BY <1>4 DEF OutTakesRequest, Register
  <2>. QED
    BY <1>1, <1>2, <2>1
<1>5. CASE OutSeesDone \/ OutFindsNoAck \/ OutTakesAck \/ OutWrites \/ OutWriteFails
  BY <1>2, <1>5 DEF OutSeesDone, OutFindsNoAck, OutTakesAck, OutWrites, OutWriteFails, OutStops
<1>6. CASE InReads
  <2>1. stream # <<>> /\ stream' = Tail(stream) /\ inMsg' = Head(stream) /\ UNCHANGED <<chan, reply>>
    BY <1>6 DEF InReads, CanRead
  <2>2. Tells(Head(stream))
    BY <1>1, <2>1
  <2>. QED
    BY <1>0, <1>1, <2>1, <2>2
<1>7. CASE InDelivers
  <2>1. /\ UNCHANGED <<stream, inMsg>> /\ inPc = "deliver" /\ inPc' = "handle"
        /\ chan' = [chan EXCEPT ![inTarget] = "full"]
        /\ reply' = [reply EXCEPT ![inTarget] = inMsg]
    BY <1>7 DEF InDelivers
  <2>2. reply \in [Callers -> Incoming(Ids)]
    BY DEF TypeOK, CallTypeOK
  <2>3. \A p \in Callers : chan'[p] = "full" => Tells(reply'[p])
    BY <1>1, <2>1, <2>2
  <2>. QED
    BY <1>0, <2>1, <2>3
<1>8. CASE IncomingStep /\ ~InReads /\ ~InDelivers
  BY <1>2, <1>8 DEF IncomingStep, InSeesDone, InContinues, InReadFails, InReplyCut, InHandles,
    InDiscardFails, InStops, AwaitClose
<1>9. ASSUME NEW p \in Callers, CallerStep(p) PROVE RepliesTell'
  <2>1. /\ UNCHANGED <<stream, inPc, inMsg, reply>>
        /\ chan' = chan \/ \E q : chan' = [chan EXCEPT ![q] = "closed"]
    BY <1>9 DEF CallerStep, PassGate, Withdraw, GiveUp, Receive, CallClose, Cancel
  <2>. QED
    BY <1>1, <1>2, <2>1
<1>10. ASSUME NEW p \in Senders, NEW o \in Operations, Begin(p, o) PROVE RepliesTell'
  BY <1>2, <1>10 DEF Begin
<1>11. ASSUME NEW i \in DOMAIN wire, Answer(i) PROVE RepliesTell'
  <2>1. UNCHANGED <<inPc, inMsg, chan, reply>>
    BY <1>11 DEF Answer
  <2>2. PICK m \in Replies(wire[i]) : stream' = Append(stream, m)
    BY <1>11 DEF Answer
  <2>3. Tells(m)'
    BY <1>11, AnswerTells
  <2>4. (\A j \in DOMAIN stream : Tells(stream[j]))'
    BY <1>0, <1>1, <2>2, <2>3
  <2>. QED
    BY <1>0, <2>1, <2>4
<1>12. CASE Notify
  <2>1. UNCHANGED <<inPc, inMsg, chan, reply>>
    BY <1>12 DEF Notify
  <2>2. PICK m : stream' = Append(stream, m) /\ m.type \in UnsolicitedTypes
    BY <1>12 DEF Notify
  <2>3. Tells(m)'
    BY <2>2 DEF Tells, UnsolicitedTypes, AcceptsClose
  <2>4. (\A j \in DOMAIN stream : Tells(stream[j]))'
    BY <1>0, <1>1, <2>2, <2>3
  <2>. QED
    BY <1>0, <2>1, <2>4
<1>13. CASE Hangup \/ OwnerCloses \/ UNCHANGED vars
  BY <1>2, <1>13 DEF Hangup, OwnerCloses, vars, clientVars
<1>. QED
  BY <1>3, <1>4, <1>5, <1>6, <1>7, <1>8, <1>9, <1>10, <1>11, <1>12, <1>13
  DEF Next, Rest, ClientStep, ReaderStep, OutgoingStep

-----------------------------------------------------------------------------
LEMMA InitNegotiation == Init => StagesInv /\ RepliesTell
<1>. SUFFICES ASSUME Init PROVE StagesInv /\ RepliesTell
  OBVIOUS
<1>. USE DEF Init, ClientInit
<1>1. wire = <<>> /\ answered = {} /\ connPc = "idle" /\ outPc = "off" /\ ~ready
      /\ version = ClientVersion
      /\ \A p \in Callers : phase[p] = "idle" /\ op[p] = "Close" /\ chan[p] = "none"
  OBVIOUS
<1>2. Conn \in Callers /\ Senders \subseteq Callers
  BY DEF Callers
<1>3. \A t : ~Sent(t) /\ ~Writing(t)
  BY <1>1 DEF Sent, Writing
<1>4. NothingYet /\ OpenWhenNegotiated /\ ConnSends /\ GettingVersion /\ SettingVersion
  BY <1>1, <1>2 DEF NothingYet, OpenWhenNegotiated, ConnSends, Negotiating, GettingVersion, SettingVersion
<1>5. VersionRequestedOnce /\ SetFollowsGet /\ SendersWait /\ NegotiationComesFirst
  BY <1>1, <1>2, <1>3 DEF VersionRequestedOnce, SetFollowsGet, SendersWait, VersionRequests,
    NegotiationComesFirst
<1>6. RepliesTell
  <2>1. \A i \in DOMAIN stream : stream[i].type = "ReaderEventNotification"
    BY DEF Hello
  <2>2. inPc # "deliver" /\ \A p \in Callers : chan[p] # "full"
    BY <1>1
  <2>. QED
    BY <2>1, <2>2 DEF RepliesTell, Tells, AcceptsClose
<1>. QED
  BY <1>4, <1>5, <1>6 DEF StagesInv

LEMMA NegotiationCorrect == Spec => [](StagesInv /\ RepliesTell)
<1>1. Init => StagesInv /\ RepliesTell
  BY InitNegotiation
<1>2. TypeOK /\ ChannelOwnership /\ StagesInv /\ RepliesTell /\ [Next]_vars
        => (StagesInv /\ RepliesTell)'
  BY StagesStep, RepliesTellStep
<1>. QED
  BY <1>1, <1>2, TypeCorrect, OwnershipCorrect, PTL DEF Spec

(***************************************************************************)
(* No request of a caller is written before the reader has answered all of *)
(* the negotiation, and none of the negotiation after that, whatever the   *)
(* version and the timeouts, and even when message IDs wrap (reader.go,    *)
(* Connect, negotiate and SendMessage).                                    *)
(***************************************************************************)
THEOREM NegotiationIsFirst == Spec => []NegotiationComesFirst
<1>1. StagesInv => NegotiationComesFirst
  BY DEF StagesInv
<1>. QED
  BY <1>1, NegotiationCorrect, PTL

-----------------------------------------------------------------------------
(* Shutdown                                                                *)

(* A caller of Shutdown that goes on to Close, or has succeeded. *)
ShutsDown(p) == op[p] = "Shutdown" /\ (phase[p] = "close" \/ outcome[p] = "ok")

(***************************************************************************)
(* The inductive invariant: such a caller has had the reader's answer.     *)
(***************************************************************************)
GracefulInv ==
  /\ \A p \in Callers : ShutsDown(p) => Answered("CloseConnection")
  /\ \A p \in Senders : phase[p] = "idle" => outcome[p] = "none"

(* One caller moves on. *)
LEMMA GracefulFrame ==
  ASSUME TypeOK, GracefulInv, [Next]_vars,
         \A p \in Callers : ShutsDown(p)' => ShutsDown(p) \/ Answered("CloseConnection"),
         \A p \in Senders : phase'[p] = "idle" => phase[p] = "idle" /\ outcome'[p] = outcome[p]
  PROVE  GracefulInv'
<1>1. Answered("CloseConnection") => (Answered("CloseConnection"))'
  <2>. DEFINE accepted == [type |-> "CloseConnectionResponse", body |-> "ok"]
  <2>1. Answered("CloseConnection") => Tells(accepted)
    BY DEF Tells, AcceptsClose
  <2>2. Tells(accepted)' => (Answered("CloseConnection"))'
    BY DEF Tells, AcceptsClose
  <2>. QED
    BY <2>1, <2>2, TellsStays
<1>. QED
  BY <1>1 DEF GracefulInv

LEMMA GracefulStep ==
  ASSUME TypeOK, RepliesTell, GracefulInv, [Next]_vars
  PROVE  GracefulInv'
<1>. USE DEF connectVars, callVars
<1>0. /\ phase \in [Callers -> CallerPhases] /\ outcome \in [Callers -> Outcomes]
      /\ op \in [Callers -> Requests \cup {"Close"}]
      /\ Conn \in Callers /\ Senders \subseteq Callers /\ Conn \notin Senders
  BY CallersAssumption DEF TypeOK, CallTypeOK, Callers
<1>1. ASSUME UNCHANGED <<phase, op, outcome>> PROVE GracefulInv'
  BY <1>1, GracefulFrame DEF ShutsDown
<1>2. CASE ConnectStep
  <2>1. ASSUME NEW o \in {"GetSupportedVersion", "SetProtocolVersion"}, SendFromConnect(o),
               UNCHANGED outcome
        PROVE  GracefulInv'
    <3>1. /\ op' = [op EXCEPT ![Conn] = o] /\ phase' = [phase EXCEPT ![Conn] = "offer"]
      BY <2>1 DEF SendFromConnect
    <3>2. \A p \in Callers : ShutsDown(p)' => ShutsDown(p)
      BY <1>0, <2>1, <3>1 DEF ShutsDown
    <3>. QED
      BY <1>0, <2>1, <3>1, <3>2, GracefulFrame
  <2>2. \/ UNCHANGED <<phase, op, outcome>>
        \/ UNCHANGED outcome
           /\ \E o \in {"GetSupportedVersion", "SetProtocolVersion"} : SendFromConnect(o)
    BY <1>2 DEF ConnectStep, StartConnect, ReadHello, HelloFails, Refused,
      NegotiationAborted, NegotiationRefused, FailNegotiation, GotSupportedVersion,
      HugeSupportedVersion, GotSetVersion, Open, ServeError, ServeDone, Join
  <2>. QED
    BY <1>1, <2>1, <2>2
<1>3. ASSUME NEW p \in Callers, OutTakesRequest(p) PROVE GracefulInv'
  <2>1. /\ UNCHANGED op /\ phase[p] = "offer"
        /\ \/ phase' = [phase EXCEPT ![p] = "await"] /\ UNCHANGED outcome
           \/ /\ op[p] = "SendNoWait" /\ phase' = [phase EXCEPT ![p] = "returned"]
              /\ outcome' = [outcome EXCEPT ![p] = "ok"]
    BY <1>3 DEF OutTakesRequest, WantsReply
  <2>2. \A q \in Callers : ShutsDown(q)' => ShutsDown(q)
    BY <1>0, <2>1 DEF ShutsDown
  <2>. QED
    BY <1>0, <2>1, <2>2, GracefulFrame
<1>4. CASE OutSeesDone \/ OutFindsNoAck \/ OutTakesAck \/ OutWrites \/ OutWriteFails \/ IncomingStep
  BY <1>1, <1>4 DEF OutSeesDone, OutFindsNoAck, OutTakesAck, OutWrites, OutWriteFails, OutStops,
    IncomingStep, InSeesDone, InContinues, InReads, InReadFails, InDelivers, InReplyCut,
    InHandles, InDiscardFails, InStops, AwaitClose
<1>5. ASSUME NEW p \in Callers, Receive(p) PROVE GracefulInv'
  <2>1. UNCHANGED op /\ phase[p] = "await"
    BY <1>5 DEF Receive
  <2>2. CASE phase' = [phase EXCEPT ![p] = "close"] /\ UNCHANGED outcome
             /\ chan[p] = "full" /\ AcceptsClose(reply[p])
    <3>1. Answered("CloseConnection")
      BY <2>2 DEF RepliesTell, Tells
    <3>. QED
      BY <1>0, <2>1, <2>2, <3>1, GracefulFrame
  <2>3. CASE \E r \in {"reply", "zero", "rejected"} : Returns(p, r)
    <3>1. PICK r \in {"reply", "zero", "rejected"} :
            phase' = [phase EXCEPT ![p] = "returned"] /\ outcome' = [outcome EXCEPT ![p] = r]
      BY <2>3 DEF Returns
    <3>2. \A q \in Callers : ShutsDown(q)' => ShutsDown(q)
      BY <1>0, <2>1, <3>1 DEF ShutsDown
    <3>. QED
      BY <1>0, <2>1, <3>1, <3>2, GracefulFrame
  <2>. QED
    BY <1>5, <2>2, <2>3 DEF Receive
<1>6. ASSUME NEW p \in Callers, CallClose(p) PROVE GracefulInv'
  <2>1. /\ UNCHANGED op /\ phase[p] = "close" /\ phase' = [phase EXCEPT ![p] = "returned"]
        /\ \E r \in {"ok", "closed"} : outcome' = [outcome EXCEPT ![p] = r]
    BY <1>6 DEF CallClose, Returns
  <2>2. \A q \in Callers : ShutsDown(q)' => ShutsDown(q)
    BY <1>0, <2>1 DEF ShutsDown
  <2>. QED
    BY <1>0, <2>1, <2>2, GracefulFrame
<1>7. ASSUME NEW p \in Callers, Withdraw(p) \/ GiveUp(p) PROVE GracefulInv'
  <2>1. /\ UNCHANGED op /\ phase[p] # "idle" /\ phase' = [phase EXCEPT ![p] = "returned"]
        /\ \E r \in {"expired", "closed"} : outcome' = [outcome EXCEPT ![p] = r]
    BY <1>7 DEF Withdraw, GiveUp, StopsWaiting, Returns
  <2>2. \A q \in Callers : ShutsDown(q)' => ShutsDown(q)
    BY <1>0, <2>1 DEF ShutsDown
  <2>. QED
    BY <1>0, <2>1, <2>2, GracefulFrame
<1>8. ASSUME NEW p \in Callers, PassGate(p) PROVE GracefulInv'
  <2>1. UNCHANGED <<op, outcome>> /\ phase[p] = "gate" /\ phase' = [phase EXCEPT ![p] = "offer"]
    BY <1>8 DEF PassGate
  <2>2. \A q \in Callers : ShutsDown(q)' => ShutsDown(q)
    BY <1>0, <2>1 DEF ShutsDown
  <2>. QED
    BY <1>0, <2>1, <2>2, GracefulFrame
<1>9. ASSUME NEW p \in Senders, NEW o \in Operations, Begin(p, o) PROVE GracefulInv'
  <2>1. /\ UNCHANGED outcome /\ phase[p] = "idle" /\ outcome[p] = "none"
        /\ op' = [op EXCEPT ![p] = o]
        /\ phase' = [phase EXCEPT ![p] = IF o = "Close" THEN "close" ELSE "gate"]
    BY <1>9 DEF Begin, GracefulInv
  <2>2. \A q \in Callers : ShutsDown(q)' => ShutsDown(q)
    BY <1>0, <2>1 DEF ShutsDown
  <2>. QED
    BY <1>0, <2>1, <2>2, GracefulFrame
<1>10. CASE ReaderStep \/ OwnerCloses \/ UNCHANGED vars
  BY <1>1, <1>10 DEF ReaderStep, Answer, Notify, Hangup, OwnerCloses, vars, clientVars
<1>. QED
  BY <1>2, <1>3, <1>4, <1>5, <1>6, <1>7, <1>8, <1>9, <1>10
  DEF Next, Rest, ClientStep, OutgoingStep, CallerStep

(***************************************************************************)
(* A Shutdown succeeds only after the reader has answered CloseConnection, *)
(* with nothing written after it and nothing left that would be, whoever   *)
(* else sends or shuts down, and even when message IDs wrap (reader.go,    *)
(* Shutdown and handleOutgoing).                                           *)
(***************************************************************************)
THEOREM ShutdownIsOrderly == Spec => []ShutdownIsGraceful
<1>1. Init => GracefulInv
  BY DEF Init, ClientInit, GracefulInv, ShutsDown, Callers
<1>2. TypeOK /\ RepliesTell /\ GracefulInv /\ [Next]_vars => GracefulInv'
  BY GracefulStep
<1>3. TypeOK /\ LastInv /\ GracefulInv => ShutdownIsGraceful
  <2>. SUFFICES ASSUME TypeOK, LastInv, GracefulInv PROVE ShutdownIsGraceful
    OBVIOUS
  <2>1. ASSUME Answered("CloseConnection")
        PROVE  /\ wire # <<>> /\ wire[Len(wire)].type = "CloseConnection"
               /\ Len(wire) \in answered
               /\ outPc \in {"parked", "stopped"}
    <3>1. PICK i \in answered : wire[i].type = "CloseConnection"
      BY <2>1 DEF Answered
    <3>2. i \in DOMAIN wire /\ i = Len(wire)
      BY <3>1, WireFacts DEF LastInv, CloseConnectionIsLast
    <3>. QED
      BY <3>1, <3>2, WireFacts DEF LastInv, Sent
  <2>2. \A p \in Senders : op[p] = "Shutdown" /\ outcome[p] = "ok" => Answered("CloseConnection")
    BY DEF GracefulInv, ShutsDown, Callers
  <2>. QED
    BY <2>1, <2>2 DEF ShutdownIsGraceful
<1>. QED
  BY <1>1, <1>2, <1>3, TypeCorrect, LastCorrect, NegotiationCorrect, PTL DEF Spec

=============================================================================
