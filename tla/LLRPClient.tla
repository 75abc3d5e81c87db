----------------------------- MODULE LLRPClient -----------------------------
(***************************************************************************)
(* llrp.Client of pkg/llrp/reader.go: one connection, served by three      *)
(* goroutines (the caller of Connect, handleOutgoing and handleIncoming)   *)
(* and used by any number of callers of SendMessage, SendNoWait, Shutdown  *)
(* and Close.  Each action is one step of one goroutine up to the next     *)
(* point where another goroutine can notice it: a channel operation, a     *)
(* lock, an atomic, or an access to the net.Conn.                          *)
(*                                                                         *)
(* The reader at the other end is in LLRPSession.                          *)
(***************************************************************************)
EXTENDS LLRPMessages

CONSTANTS
  Senders,        \* goroutines that call the Client's methods, once each
  Conn,           \* the goroutine that runs Connect and negotiates
  NoCaller,       \* no entry in the awaiting map
  Deadlines,      \* the senders whose context expires
  Operations,     \* what the senders call
  ClientVersion,  \* WithVersion: the Client's maximum protocol version
  HasTimeout,     \* WithTimeout: reads, writes and negotiation time out
  AckQueueSize,   \* ackQueueSz
  IdMod,          \* message IDs wrap at IdMod (2^32 in the code)
  ReaderVersions  \* the <<current, supported>> versions a reader may report

ASSUME CallersAssumption ==
  /\ Conn \notin Senders
  /\ NoCaller \notin Senders \cup {Conn}
  /\ Deadlines \subseteq Senders
  /\ Operations \subseteq {"SendMessage", "SendNoWait", "Shutdown", "Close"}

ASSUME ClientAssumption ==
  /\ ClientVersion \in Versions
  /\ HasTimeout \in BOOLEAN
  /\ AckQueueSize \in Nat
  /\ IdMod \in Nat \ {0}
  /\ ReaderVersions \subseteq Versions \X Versions

VARIABLES
  \* Connect
  connPc,         \* where Connect is
  connErr,        \* what it returns: ErrClientClosed or another error
  errs,           \* the channel the two goroutines report to
  ready,          \* closed when the connection is negotiated
  done,           \* closed when the Client is closed
  version,        \* the field Client.version
  \* handleOutgoing
  outPc,
  outMsg,         \* the message to write
  nextMsgID,
  \* handleIncoming
  inPc,
  inMsg,          \* the message whose header was read last
  inTarget,       \* the caller whose replyChan passToHandler removed
  receivedClosed,
  \* shared by the goroutines
  awaiting,       \* message ID -> the caller whose replyChan is registered
  ackQueue,
  \* the callers
  phase,          \* where in its call a caller is
  op,             \* what it called
  mid,            \* the ID of its request
  chan,           \* the state of its replyChan
  reply,          \* the message in its replyChan
  outcome,        \* what the call returned
  \* the network connection
  stream,         \* messages sent by the reader and not read yet
  wire,           \* messages written by the Client, all of them
  peer,           \* whether the reader still has the connection open
  connOpen,       \* whether the owner of the net.Conn has it open
  \* history and failure
  bypassed,       \* requests taken since an acknowledgement was queued
  crash           \* a Go panic that nothing recovers

connectVars == <<connPc, connErr, errs, ready, version>>
outgoingVars == <<outPc, outMsg, nextMsgID>>
incomingVars == <<inPc, inMsg, inTarget, receivedClosed>>
ackVars == <<ackQueue, bypassed>>
replyVars == <<chan, reply>>
callVars == <<phase, op, mid, outcome>>
networkVars == <<stream, wire, peer, connOpen>>

clientVars == <<connectVars, done, outgoingVars, incomingVars, awaiting,
                ackVars, replyVars, callVars, networkVars, crash>>

Callers == Senders \cup {Conn}
Ids == 0 .. IdMod - 1

(* Values of variables that hold no message yet. *)
NoReply == [type |-> "ErrorMessage", id |-> 0, body |-> "ok"]
NoRequest == [type |-> "KeepAliveAck", id |-> 0, version |-> Unstamped]

(* The message type each operation sends. *)
RequestType ==
  [SendMessage         |-> "GetReaderConfig",
   SendNoWait          |-> "EnableEventsAndReports",
   Shutdown            |-> "CloseConnection",
   GetSupportedVersion |-> "GetSupportedVersion",
   SetProtocolVersion  |-> "SetProtocolVersion"]

Requests == DOMAIN RequestType

(* SendNoWait puts a request without a tokenChan in the queue. *)
WantsReply(p) == op[p] # "SendNoWait"

-----------------------------------------------------------------------------
(* Initial values: NewClient, before Connect. *)

ClientInit ==
  /\ connPc = "idle" /\ connErr = "none" /\ errs = <<>>
  /\ ready = FALSE /\ done = FALSE /\ version = ClientVersion
  /\ outPc = "off" /\ outMsg = NoRequest /\ nextMsgID = 0
  /\ inPc = "off" /\ inMsg = NoReply /\ inTarget = NoCaller
  /\ receivedClosed = FALSE
  /\ awaiting = [i \in Ids |-> NoCaller]
  /\ ackQueue = <<>> /\ bypassed = 0
  /\ phase = [p \in Callers |-> "idle"]
  /\ op = [p \in Callers |-> "Close"]
  /\ mid = [p \in Callers |-> 0]
  /\ chan = [p \in Callers |-> "none"]
  /\ reply = [p \in Callers |-> NoReply]
  /\ outcome = [p \in Callers |-> "none"]
  /\ crash = "none"

-----------------------------------------------------------------------------
(* Close as Connect defers it, and the cancel function of a sendToken.     *)

(* Connect's deferred Close, which ignores an earlier Close. *)
CloseDone == done' = TRUE

(* Variant: the entry stays in the map after its channel is closed. *)
CancelKeepsEntry(p) ==
  LET q == awaiting[mid[p]]
  IN  IF q = NoCaller
      THEN UNCHANGED <<awaiting, chan, crash>>
      ELSE /\ chan' = [chan EXCEPT ![q] = "closed"]
           /\ crash' = IF chan[q] = "open" THEN crash ELSE "channel"
           /\ UNCHANGED awaiting

(***************************************************************************)
(* The sender stops waiting: under awaitMu, the entry under its message ID *)
(* is removed and the channel in it closed.  The entry need not be its own *)
(* when message IDs wrap.  Closing a closed channel panics.                *)
(***************************************************************************)
Cancel(p) ==
  LET q == awaiting[mid[p]]
  IN  IF q = NoCaller
      THEN UNCHANGED <<awaiting, chan, crash>>
      ELSE /\ awaiting' = [awaiting EXCEPT ![mid[p]] = NoCaller]
           /\ chan' = [chan EXCEPT ![q] = "closed"]
           /\ crash' = IF chan[q] = "open" THEN crash ELSE "channel"

-----------------------------------------------------------------------------
(* Connect                                                                 *)

(* The ways a read of the connection can fail.                             *)
ReadFails(e) ==
  \/ e = "closed" /\ ~connOpen
  \/ e \in {"eof", "reset"} /\ peer = "closed" /\ stream = <<>>
  \/ e = "timeout" /\ HasTimeout /\ stream = <<>>

ReadErrors == {"closed", "eof", "reset", "timeout"}

CanRead == connOpen /\ stream # <<>>

StartConnect ==
  /\ connPc = "idle"
  /\ connPc' = "hello"
  /\ UNCHANGED <<connErr, errs, ready, version, done, outgoingVars, incomingVars,
                 awaiting, ackVars, replyVars, callVars, networkVars, crash>>

IsConnectSuccess(m) == m.type = "ReaderEventNotification" /\ m.body = "ok"

(* send, called by negotiate with a context of its own. *)
SendFromConnect(request) ==
  /\ op' = [op EXCEPT ![Conn] = request]
  /\ phase' = [phase EXCEPT ![Conn] = "offer"]

(***************************************************************************)
(* checkInitialMessage succeeds; Connect starts the two goroutines and     *)
(* negotiates unless it is limited to version 1.0.1.                       *)
(***************************************************************************)
ReadHello ==
  /\ connPc = "hello" /\ CanRead /\ IsConnectSuccess(Head(stream))
  /\ stream' = Tail(stream)
  /\ outPc' = "pick" /\ inPc' = "check"
  /\ \/ /\ version > Version1_0_1
        /\ connPc' = "getVersion"
        /\ SendFromConnect("GetSupportedVersion")
     \/ /\ version = Version1_0_1
        /\ connPc' = "open"
        /\ UNCHANGED <<op, phase>>
  /\ UNCHANGED <<connErr, errs, ready, version, done, outMsg, nextMsgID,
                 inMsg, inTarget, receivedClosed, awaiting, ackVars, replyVars,
                 mid, outcome, wire, peer, connOpen, crash>>

(* checkInitialMessage fails: Connect closes ready, and only then done.    *)
HelloFails ==
  /\ connPc = "hello"
  /\ \/ /\ CanRead /\ ~IsConnectSuccess(Head(stream))
        /\ stream' = Tail(stream)
     \/ /\ \E e \in ReadErrors : ReadFails(e)
        /\ UNCHANGED stream
  /\ connPc' = "refused" /\ connErr' = "error" /\ ready' = TRUE
  /\ UNCHANGED <<errs, version, done, outgoingVars, incomingVars, awaiting, ackVars,
                 replyVars, callVars, wire, peer, connOpen, crash>>

(* Connect returns without waiting for goroutines; its defer closes done. *)
Refused ==
  /\ connPc = "refused"
  /\ connPc' = "returned" /\ CloseDone
  /\ UNCHANGED <<connErr, errs, ready, version, outgoingVars, incomingVars, awaiting,
                 ackVars, replyVars, callVars, networkVars, crash>>

(* negotiate returns an error: the goroutines are not waited for. *)
FailNegotiation(e) ==
  /\ connPc' = "returned" /\ connErr' = e /\ CloseDone
  /\ UNCHANGED <<errs, ready, version, outgoingVars, incomingVars, awaiting,
                 ackVars, replyVars, callVars, networkVars, crash>>

(* send returned an error to negotiate. *)
NegotiationAborted ==
  /\ connPc \in {"getVersion", "setVersion"}
  /\ phase[Conn] = "returned" /\ outcome[Conn] \in {"closed", "expired"}
  /\ FailNegotiation(IF outcome[Conn] = "closed" THEN "closed" ELSE "error")

(***************************************************************************)
(* The versions getSupportedVersion finds in a message: those of the       *)
(* response, or 1.0.1 for a reader that cannot negotiate.                  *)
(***************************************************************************)
SupportedVersions(m) ==
  CASE m.type = "GetSupportedVersionResponse" /\ m.body = "ok" -> ReaderVersions
    [] m.type = "ErrorMessage" /\ m.body \in {"ok", "unsupported"}
         -> {<<Version1_0_1, Version1_0_1>>}
    [] OTHER -> {}

Lesser(v, w) == IF v < w THEN v ELSE w

(* A zero Message comes from a replyChan closed while empty. *)
GotReply == phase[Conn] = "returned" /\ outcome[Conn] = "reply"
GotZero == phase[Conn] = "returned" /\ outcome[Conn] = "zero"

(***************************************************************************)
(* getSupportedVersion returned: the version becomes the lesser of the     *)
(* Client's and the reader's; the reader is told unless it uses it already.*)
(***************************************************************************)
GotSupportedVersion ==
  /\ connPc = "getVersion" /\ GotReply
  /\ reply[Conn].body # "huge"
  /\ \E sv \in SupportedVersions(reply[Conn]) :
       /\ version' = Lesser(version, sv[2])
       /\ \/ /\ sv[1] = version'
             /\ connPc' = "open"
             /\ UNCHANGED callVars
          \/ /\ sv[1] # version'
             /\ connPc' = "setVersion"
             /\ SendFromConnect("SetProtocolVersion")
             /\ UNCHANGED <<mid, outcome>>
  /\ UNCHANGED <<connErr, errs, ready, done, outgoingVars, incomingVars, awaiting,
                 ackVars, replyVars, networkVars, crash>>

(* getSupportedVersion reads resp.payload, which is nil when it was huge.  *)
HugeSupportedVersion ==
  /\ connPc = "getVersion" /\ GotReply
  /\ reply[Conn].body = "huge"
  /\ crash' = "nilPayload"
  /\ UNCHANGED <<connectVars, done, outgoingVars, incomingVars, awaiting, ackVars,
                 replyVars, callVars, networkVars>>

SetVersionAccepted(m) == m.type = "SetProtocolVersionResponse" /\ m.body = "ok"

GotSetVersion ==
  /\ connPc = "setVersion" /\ GotReply
  /\ SetVersionAccepted(reply[Conn])
  /\ connPc' = "open"
  /\ UNCHANGED <<connErr, errs, ready, version, done, outgoingVars, incomingVars,
                 awaiting, ackVars, replyVars, callVars, networkVars, crash>>

(* The reader's answer does not allow the negotiation to go on. *)
NegotiationRefused ==
  /\ \/ /\ connPc \in {"getVersion", "setVersion"} /\ GotZero
     \/ /\ connPc = "getVersion" /\ GotReply
        /\ reply[Conn].body # "huge" /\ SupportedVersions(reply[Conn]) = {}
     \/ /\ connPc = "setVersion" /\ GotReply /\ ~SetVersionAccepted(reply[Conn])
  /\ FailNegotiation("error")

(* The connection is negotiated: senders may pass. *)
Open ==
  /\ connPc = "open"
  /\ connPc' = "serve" /\ ready' = TRUE
  /\ UNCHANGED <<connErr, errs, version, done, outgoingVars, incomingVars, awaiting,
                 ackVars, replyVars, callVars, networkVars, crash>>

(* Connect's select: the first goroutine to stop, or a closed Client. *)
ServeError ==
  /\ connPc = "serve" /\ errs # <<>>
  /\ connPc' = "join" /\ connErr' = Head(errs) /\ errs' = Tail(errs) /\ CloseDone
  /\ UNCHANGED <<ready, version, outgoingVars, incomingVars, awaiting, ackVars,
                 replyVars, callVars, networkVars, crash>>

ServeDone ==
  /\ connPc = "serve" /\ done
  /\ connPc' = "join" /\ connErr' = "closed"
  /\ UNCHANGED <<errs, ready, version, done, outgoingVars, incomingVars, awaiting,
                 ackVars, replyVars, callVars, networkVars, crash>>

(* wg.Wait() *)
Join ==
  /\ connPc = "join" /\ outPc = "stopped" /\ inPc = "stopped"
  /\ connPc' = "returned"
  /\ UNCHANGED <<connErr, errs, ready, version, done, outgoingVars, incomingVars,
                 awaiting, ackVars, replyVars, callVars, networkVars, crash>>

ConnectStep ==
  \/ StartConnect \/ ReadHello \/ HelloFails \/ Refused
  \/ NegotiationAborted \/ NegotiationRefused
  \/ GotSupportedVersion \/ HugeSupportedVersion \/ GotSetVersion
  \/ Open \/ ServeError \/ ServeDone \/ Join

-----------------------------------------------------------------------------
(* handleOutgoing                                                          *)

OutStops(e) ==
  /\ outPc' = "stopped"
  /\ errs' = Append(errs, e)
  /\ UNCHANGED <<connPc, connErr, ready, version, done, outMsg, nextMsgID,
                 incomingVars, awaiting, ackVars, replyVars, callVars, networkVars,
                 crash>>

(* Variant: a goroutine that waits for requests does not look at done. *)
OutMissesDone == outPc \in {"pick", "parked"} /\ done /\ OutStops("closed")

OutSeesDone == outPc \in {"pick", "wait", "parked"} /\ done /\ OutStops("closed")

(* Variant: one select without priorities. *)
NothingPressing == ~done

(* The outer select takes its default if neither of its cases is ready. *)
NothingUrgent == ~done /\ ackQueue = <<>>

OutFindsNoAck ==
  /\ outPc = "pick" /\ NothingUrgent
  /\ outPc' = "wait"
  /\ UNCHANGED <<connectVars, done, outMsg, nextMsgID, incomingVars, awaiting,
                 ackVars, replyVars, callVars, networkVars, crash>>

OutTakesAck ==
  /\ outPc \in {"pick", "wait"} /\ ackQueue # <<>>
  /\ outPc' = "write"
  /\ outMsg' = KeepAliveAck(Head(ackQueue))
  /\ ackQueue' = Tail(ackQueue)
  /\ bypassed' = IF Tail(ackQueue) = <<>> THEN 0 ELSE bypassed
  /\ UNCHANGED <<connectVars, done, nextMsgID, incomingVars, awaiting, replyVars,
                 callVars, networkVars, crash>>

(* Variant: the next request gets the same message ID. *)
SameID == UNCHANGED nextMsgID

(* uint32 arithmetic: the ID after the last one is 0 again. *)
NextID == nextMsgID' = (nextMsgID + 1) % IdMod

(* Variant: the replyChan is registered after the ID has been incremented. *)
RegisterLate(p) ==
  LET id == (nextMsgID + 1) % IdMod
  IN  /\ awaiting' = [awaiting EXCEPT ![id] = p]
      /\ chan' = [chan EXCEPT ![p] = "open"]
      /\ mid' = [mid EXCEPT ![p] = id]

(* A new replyChan is registered under the request's ID, over any other. *)
Register(p) ==
  /\ awaiting' = [awaiting EXCEPT ![nextMsgID] = p]
  /\ chan' = [chan EXCEPT ![p] = "open"]
  /\ mid' = [mid EXCEPT ![p] = nextMsgID]

(***************************************************************************)
(* A sender's request is taken from the unbuffered sendQueue and gets a    *)
(* message ID.  Unless no reply is wanted, its new replyChan is registered *)
(* under that ID, and the sender gets its token and starts to await.       *)
(***************************************************************************)
OutTakesRequest(p) ==
  /\ outPc = "wait" /\ phase[p] = "offer"
  /\ outPc' = "write"
  /\ outMsg' = NewHdrOnlyMsg(RequestType[op[p]], nextMsgID)
  /\ NextID
  /\ bypassed' = IF ackQueue = <<>> THEN bypassed ELSE bypassed + 1
  /\ \/ /\ WantsReply(p)
        /\ Register(p)
        /\ phase' = [phase EXCEPT ![p] = "await"]
        /\ UNCHANGED outcome
     \/ /\ ~WantsReply(p)
        /\ phase' = [phase EXCEPT ![p] = "returned"]
        /\ outcome' = [outcome EXCEPT ![p] = "ok"]
        /\ UNCHANGED <<awaiting, chan, mid>>
  /\ UNCHANGED <<connectVars, done, incomingVars, ackQueue, reply, op,
                 networkVars, crash>>

(* The header as it is written. *)
Stamped(m) ==
  CASE m.type \in VersionRequests -> [m EXCEPT !.version = Version1_1]
    [] m.type \notin VersionRequests /\ m.version = Unstamped
         -> [m EXCEPT !.version = version]
    [] OTHER -> m

(* Variant: CloseConnection is a message like any other. *)
NextAfterAny(m) == "pick"

(* After CloseConnection nothing is written; the goroutine waits for done. *)
NextAfterWrite(m) == IF m.type = "CloseConnection" THEN "parked" ELSE "pick"

OutWrites ==
  /\ outPc = "write" /\ connOpen
  /\ wire' = Append(wire, Stamped(outMsg))
  /\ outPc' = NextAfterWrite(outMsg)
  /\ UNCHANGED <<connectVars, done, outMsg, nextMsgID, incomingVars, awaiting, ackVars,
                 replyVars, callVars, stream, peer, connOpen, crash>>

OutWriteFails ==
  /\ outPc = "write"
  /\ peer = "closed" \/ ~connOpen \/ HasTimeout
  /\ OutStops("error")

OutgoingStep ==
  \/ OutSeesDone \/ OutFindsNoAck \/ OutTakesAck
  \/ \E p \in Callers : OutTakesRequest(p)
  \/ OutWrites \/ OutWriteFails

-----------------------------------------------------------------------------
(* handleIncoming and passToHandler                                        *)

InStops(e) ==
  /\ inPc' = "stopped"
  /\ errs' = Append(errs, e)
  /\ UNCHANGED <<connPc, connErr, ready, version, done, outgoingVars, inMsg, inTarget,
                 receivedClosed, awaiting, ackVars, replyVars, callVars, networkVars,
                 crash>>

(* Variant: after the reader closed, nothing ends the wait. *)
InMissesDone == inPc = "check" /\ done /\ InStops("closed")

InSeesDone == inPc \in {"check", "parked"} /\ done /\ InStops("closed")

InContinues ==
  /\ inPc = "check" /\ ~done
  /\ inPc' = "read"
  /\ UNCHANGED <<connectVars, done, outgoingVars, inMsg, inTarget, receivedClosed,
                 awaiting, ackVars, replyVars, callVars, networkVars, crash>>

(* Variant: every message is taken for a reply. *)
AlwaysReply(id) == TRUE

NeedsReply(id) == awaiting[id] # NoCaller

(* Variant: the entry stays in the map while its reply is delivered. *)
KeepAwaiting(id) == UNCHANGED awaiting

RemoveAwaiting(id) == awaiting' = [awaiting EXCEPT ![id] = NoCaller]

(***************************************************************************)
(* A header is read, and whoever awaits its message ID is removed from the *)
(* map, whatever the type of the message.                                  *)
(***************************************************************************)
InReads ==
  /\ inPc = "read" /\ CanRead
  /\ LET m == Head(stream)
     IN  /\ inMsg' = m
         /\ inTarget' = awaiting[m.id]
         /\ RemoveAwaiting(m.id)
         /\ receivedClosed' = (receivedClosed \/ m.type = "CloseConnectionResponse")
         /\ inPc' = IF NeedsReply(m.id) THEN "deliver" ELSE "handle"
  /\ stream' = Tail(stream)
  /\ UNCHANGED <<connectVars, done, outgoingVars, ackVars, replyVars, callVars,
                 wire, peer, connOpen, crash>>

(***************************************************************************)
(* No header can be read.  Once the reader has closed the connection, an   *)
(* end of the stream means waiting for the Client to be closed; so would a *)
(* timeout, but os.IsTimeout does not look inside readHeader's wrapped     *)
(* error and never holds of it.                                            *)
(***************************************************************************)
IsExpectedAfterClose(e) == e = "eof"

(* Variant: the Client counts as closed when the reader has closed. *)
ReportClosed == InStops("closed")

AwaitClose ==
  /\ inPc' = "parked"
  /\ UNCHANGED <<connectVars, done, outgoingVars, inMsg, inTarget, receivedClosed,
                 awaiting, ackVars, replyVars, callVars, networkVars, crash>>

InReadFails ==
  /\ inPc = "read"
  /\ \E e \in ReadErrors :
       /\ ReadFails(e)
       /\ \/ ~(receivedClosed /\ IsExpectedAfterClose(e)) /\ InStops("error")
          \/ receivedClosed /\ IsExpectedAfterClose(e) /\ AwaitClose

(* The reply is put in the caller's replyChan, which is then closed. *)
InDelivers ==
  /\ inPc = "deliver" /\ inMsg.body # "cut"
  /\ chan' = [chan EXCEPT ![inTarget] = "full"]
  /\ reply' = [reply EXCEPT ![inTarget] = inMsg]
  /\ crash' = IF chan[inTarget] = "open" THEN crash ELSE "channel"
  /\ inPc' = "handle"
  /\ UNCHANGED <<connectVars, done, outgoingVars, inMsg, inTarget, receivedClosed,
                 awaiting, ackVars, callVars, networkVars>>

(***************************************************************************)
(* The payload of a reply ends early: nothing is delivered.  The deferred  *)
(* drain of the payload overwrites the error: draining a connection at its *)
(* end succeeds, one that was reset or timed out fails again.              *)
(***************************************************************************)
InReplyCut ==
  /\ inPc = "deliver" /\ inMsg.body = "cut"
  /\ \/ InStops("error")
     \/ /\ inPc' = "check"
        /\ UNCHANGED <<connectVars, done, outgoingVars, inMsg, inTarget, receivedClosed,
                       awaiting, ackVars, replyVars, callVars, networkVars, crash>>

(* The handler of KeepAlive queues an acknowledgement or drops it. *)
InHandles ==
  /\ inPc = "handle" /\ inMsg.body # "cut"
  /\ ackQueue' = IF inMsg.type = "KeepAlive" /\ Len(ackQueue) < AckQueueSize
                 THEN Append(ackQueue, inMsg.id) ELSE ackQueue
  /\ inPc' = "check"
  /\ UNCHANGED <<connectVars, done, outgoingVars, inMsg, inTarget, receivedClosed,
                 awaiting, bypassed, replyVars, callVars, networkVars, crash>>

(* A reply that nobody awaits any more cannot be discarded in full. *)
InDiscardFails == inPc = "handle" /\ inMsg.body = "cut" /\ InStops("error")

IncomingStep ==
  \/ InSeesDone \/ InContinues \/ InReads \/ InReadFails
  \/ InDelivers \/ InReplyCut \/ InHandles \/ InDiscardFails

-----------------------------------------------------------------------------
(* SendMessage, SendNoWait, Shutdown and Close, as their callers run them  *)

Returns(p, result) ==
  /\ phase' = [phase EXCEPT ![p] = "returned"]
  /\ outcome' = [outcome EXCEPT ![p] = result]

(* Variant: the context of a sender is not looked at. *)
OnlyConnectExpires(p) == p = Conn /\ HasTimeout

(***************************************************************************)
(* A caller that stops waiting sees a closed Client, or the end of its     *)
(* context, at any moment if it has a deadline.  negotiate's context has   *)
(* one if the connection has a timeout.                                    *)
(***************************************************************************)
HasDeadline(p) == p \in Deadlines \/ (p = Conn /\ HasTimeout)

(* Variant: a closed Client is not noticed. *)
StopsOnlyAtDeadline(p) == HasDeadline(p) /\ Returns(p, "expired")

StopsWaiting(p) ==
  \/ done /\ Returns(p, "closed")
  \/ HasDeadline(p) /\ Returns(p, "expired")

(* A message with a payload needs no other state than one without. *)
Begin(p, o) ==
  /\ p \in Senders /\ phase[p] = "idle"
  /\ op' = [op EXCEPT ![p] = o]
  /\ phase' = [phase EXCEPT ![p] = IF o = "Close" THEN "close" ELSE "gate"]
  /\ UNCHANGED <<connectVars, done, outgoingVars, incomingVars, awaiting, ackVars,
                 replyVars, mid, outcome, networkVars, crash>>

(* Variant: requests do not wait for the negotiation. *)
SkipGate(p) ==
  /\ phase[p] = "gate"
  /\ phase' = [phase EXCEPT ![p] = "offer"]
  /\ UNCHANGED <<connectVars, done, outgoingVars, incomingVars, awaiting, ackVars,
                 replyVars, op, mid, outcome, networkVars, crash>>

(* The first select of SendMessage and SendNoWait: the connection is ready. *)
PassGate(p) ==
  /\ phase[p] = "gate" /\ ready
  /\ phase' = [phase EXCEPT ![p] = "offer"]
  /\ UNCHANGED <<connectVars, done, outgoingVars, incomingVars, awaiting, ackVars,
                 replyVars, op, mid, outcome, networkVars, crash>>

(* The request was not taken from the queue and never will be. *)
Withdraw(p) ==
  /\ phase[p] \in {"gate", "offer"}
  /\ StopsWaiting(p)
  /\ UNCHANGED <<connectVars, done, outgoingVars, incomingVars, awaiting, ackVars,
                 replyVars, op, mid, networkVars, crash>>

(* The request was taken, but its caller cancels the wait for the reply. *)
GiveUp(p) ==
  /\ phase[p] = "await"
  /\ StopsWaiting(p)
  /\ Cancel(p)
  /\ UNCHANGED <<connectVars, done, outgoingVars, incomingVars, ackVars, reply, op,
                 mid, networkVars>>

(* Shutdown goes on to Close if the reader accepted CloseConnection. *)
AcceptsClose(m) ==
  m.type \in {"CloseConnectionResponse", "ErrorMessage"} /\ m.body = "ok"

(* A value, or the end of the channel, is received from the replyChan. *)
Receive(p) ==
  /\ phase[p] = "await"
  /\ \/ /\ op[p] # "Shutdown" /\ chan[p] = "full"
        /\ Returns(p, "reply")
     \/ /\ op[p] # "Shutdown" /\ chan[p] = "closed"
        /\ Returns(p, "zero")
     \/ /\ op[p] = "Shutdown" /\ chan[p] = "full" /\ AcceptsClose(reply[p])
        /\ phase' = [phase EXCEPT ![p] = "close"]
        /\ UNCHANGED outcome
     \/ /\ op[p] = "Shutdown"
        /\ chan[p] = "closed" \/ (chan[p] = "full" /\ ~AcceptsClose(reply[p]))
        /\ Returns(p, "rejected")
  /\ UNCHANGED <<connectVars, done, outgoingVars, incomingVars, awaiting, ackVars,
                 replyVars, op, mid, networkVars, crash>>

(* Variant: Close does not tell whether the Client was closed before. *)
CloseAgain(p) ==
  /\ phase[p] = "close"
  /\ done' = TRUE /\ Returns(p, "ok")
  /\ UNCHANGED <<connectVars, outgoingVars, incomingVars, awaiting, ackVars, replyVars,
                 op, mid, networkVars, crash>>

(* Close: only the first call closes done. *)
CallClose(p) ==
  /\ phase[p] = "close"
  /\ \/ ~done /\ done' = TRUE /\ Returns(p, "ok")
     \/ done /\ UNCHANGED done /\ Returns(p, "closed")
  /\ UNCHANGED <<connectVars, outgoingVars, incomingVars, awaiting, ackVars, replyVars,
                 op, mid, networkVars, crash>>

CallerStep(p) == PassGate(p) \/ Withdraw(p) \/ GiveUp(p) \/ Receive(p) \/ CallClose(p)

=============================================================================
